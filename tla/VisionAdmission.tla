-------------------------- MODULE VisionAdmission ---------------------------
(***************************************************************************)
(* Paid interpretations of a sketch (lib/vision/route-handler.ts and the   *)
(* functions admit, complete and release_sketch_transform of the database).*)
(* A call is admitted, asks the provider outside any transaction and       *)
(* records the answer; its lease keeps others of its room out meanwhile.   *)
(* Each transaction holds the locks of its actor and room, but reads the   *)
(* clock before it waits for them.                                         *)
(***************************************************************************)
EXTENDS Naturals, FiniteSets

CONSTANTS
  Calls,          \* requests to the route; each is also its own lease token
  Actors,
  VisionRooms,    \* demo rooms
  Keys,           \* request keys: what is interpreted, and of which room
  RoomOf,
  LeaseLength,    \* 90 seconds
  RateWindow,     \* 60 seconds
  PerWindow,      \* 2 calls of an actor in a window
  PerRoom,        \* 3 calls of a demo room in all
  Day,
  PerActorDay,    \* 6 calls in demo rooms of an actor in a day
  PerDay,         \* 60 calls in demo rooms in a day
  LastTick,       \* bound: how long the clock is watched
  MaxUpsets       \* bound: sketches changed and rooms expired or deleted

ASSUME VisionAssumption ==
  /\ RoomOf \in [Keys -> VisionRooms]
  /\ {LeaseLength, RateWindow, Day} \subseteq Nat \ {0}
  /\ {PerWindow, PerRoom, PerActorDay, PerDay, LastTick, MaxUpsets} \subseteq Nat

VARIABLES
  clock,
  rooms,        \* open, expired or deleted
  changed,      \* keys whose sketch has another version by now
  admission,    \* sketch_transform_admissions: the row of each key
  attempts,     \* sketch_transform_attempts, gone with their room
  usage,        \* demo_vision_usage, which outlives the rooms
  call,         \* the progress of each call
  answers,      \* the results that each key's callers were given
  upsets

visionVars == <<clock, rooms, changed, admission, attempts, usage, call, answers,
                upsets>>

NoRow == [status |-> "none"]

\* expires is kept when a lease ends: only that of an active row is read.
Rows ==
  {NoRow} \union [ status : {"active", "released", "completed"}, actor : Actors,
                   token : Calls, expires : Nat ]

Progress ==
  [at : {"new", "over"}]
    \union [at : {"admitting", "calling"}, actor : Actors, key : Keys, stamp : Nat]

Attempt == [call : Calls, actor : Actors, room : VisionRooms, at : Nat]

\* ran is the day that the limits of a use were those of.
Use == [call : Calls, actor : Actors, at : Nat, ran : Nat]

DayOf(t) == t \div Day

Over == [at |-> "over"]

-----------------------------------------------------------------------------
\* The handler has checked the member and the sketch's version; the database
\* has seen the room open and read the clock.
AskAdmission(c, actor, key) ==
  /\ call[c].at = "new"
  /\ rooms[RoomOf[key]] = "open" /\ key \notin changed
  /\ call' = [call EXCEPT ![c] = [at |-> "admitting", actor |-> actor, key |-> key,
                                  stamp |-> clock]]
  /\ UNCHANGED <<clock, upsets, rooms, changed, admission, attempts, usage, answers>>

(* Faulty variant: leases of the room are ended whether or not they expired. *)
AllExpired(room, stamp) ==
  [k \in Keys |-> IF RoomOf[k] = room /\ admission[k].status = "active"
                  THEN [admission[k] EXCEPT !.status = "released"] ELSE admission[k]]

\* An admission first ends the leases of its room that have expired by its clock.
Expired(room, stamp) ==
  [k \in Keys |->
     IF RoomOf[k] = room /\ admission[k].status = "active" /\ admission[k].expires <= stamp
     THEN [admission[k] EXCEPT !.status = "released"] ELSE admission[k]]

Busy(room, row) == \E k \in Keys : RoomOf[k] = room /\ row[k].status = "active"

Recent(actor, stamp) ==
  { a \in attempts : a.actor = actor /\ a.at + RateWindow > stamp }

InRoom(room) == { a \in attempts : a.room = room }

(* Faulty variant: what a deleted room has used is not counted.            *)
UsedOfLiveRooms(today) ==
  { u \in usage : DayOf(u.at) >= today /\ \E a \in attempts : a.call = u.call }

\* The trigger has read the clock again, on the day it counts in.
Used(today) == { u \in usage : DayOf(u.at) >= today }

\* The days on which the trigger of call c may have read the clock.
Days(c) == DayOf(call[c].stamp) .. DayOf(clock)

(* What admission says to call c: the checks in their order.               *)
Verdict(c, today) ==
  LET a == call[c]
      room == RoomOf[a.key]
      row == Expired(room, a.stamp)
  IN  IF rooms[room] = "deleted" \/ a.key \in changed THEN "refused"
      ELSE IF row[a.key].status # "none" /\ row[a.key].actor # a.actor THEN "refused"
      ELSE IF row[a.key].status = "completed" THEN "cached"
      ELSE IF \/ row[a.key].status = "active"
              \/ Cardinality(Recent(a.actor, a.stamp)) >= PerWindow
              \/ Busy(room, row)
              \/ Cardinality(InRoom(room)) >= PerRoom THEN "denied"
      ELSE IF \/ Cardinality({ u \in Used(today) : u.actor = a.actor }) >= PerActorDay
              \/ Cardinality(Used(today)) >= PerDay THEN "refused"
      ELSE "admitted"

\* A refusal is an exception, which takes the expiry of leases back as well.
Refuse(c) ==
  /\ call[c].at = "admitting" /\ \E today \in Days(c) : Verdict(c, today) = "refused"
  /\ call' = [call EXCEPT ![c] = Over]
  /\ UNCHANGED <<clock, upsets, rooms, changed, admission, attempts, usage, answers>>

Deny(c) ==
  /\ call[c].at = "admitting" /\ Verdict(c, DayOf(clock)) = "denied"
  /\ call' = [call EXCEPT ![c] = Over]
  /\ admission' = Expired(RoomOf[call[c].key], call[c].stamp)
  /\ UNCHANGED <<clock, upsets, rooms, changed, attempts, usage, answers>>

\* The handler answers with what is recorded.
AnswerCached(c) ==
  /\ call[c].at = "admitting" /\ Verdict(c, DayOf(clock)) = "cached"
  /\ LET key == call[c].key
     IN  answers' = [answers EXCEPT ![key] = @ \union {admission[key].token}]
  /\ admission' = Expired(RoomOf[call[c].key], call[c].stamp)
  /\ call' = [call EXCEPT ![c] = Over]
  /\ UNCHANGED <<clock, upsets, rooms, changed, attempts, usage>>

Admit(c) ==
  /\ call[c].at = "admitting"
  /\ LET a == call[c]
         room == RoomOf[a.key]
     IN  /\ admission' = [Expired(room, a.stamp) EXCEPT ![a.key] =
                            [status |-> "active", actor |-> a.actor, token |-> c,
                             expires |-> a.stamp + LeaseLength]]
         /\ attempts' = attempts \union
              {[call |-> c, actor |-> a.actor, room |-> room, at |-> a.stamp]}
         /\ \E today \in Days(c) :
              /\ Verdict(c, today) = "admitted"
              /\ usage' = usage \union
                   {[call |-> c, actor |-> a.actor, at |-> a.stamp, ran |-> today]}
  /\ call' = [call EXCEPT ![c].at = "calling"]
  /\ UNCHANGED <<clock, upsets, rooms, changed, answers>>

Holds(c, key) == admission[key].status = "active" /\ admission[key].token = c

(* Faulty variant: a result is recorded whoever holds the lease.           *)
CompleteAnyway(c) ==
  /\ call[c].at = "calling"
  /\ LET key == call[c].key
         recorded == rooms[RoomOf[key]] = "open" /\ admission[key].status # "none"
     IN  /\ admission' = IF recorded
                         THEN [admission EXCEPT ![key].status = "completed", ![key].token = c]
                         ELSE admission
         /\ answers' = IF recorded THEN [answers EXCEPT ![key] = @ \union {c}] ELSE answers
  /\ call' = [call EXCEPT ![c] = Over]
  /\ UNCHANGED <<clock, upsets, rooms, changed, attempts, usage>>

\* The provider answered: whoever still holds the lease, expired or not, has
\* its result recorded, and is told so unless the answer is lost.
Complete(c) ==
  /\ call[c].at = "calling"
  /\ LET key == call[c].key
         recorded == rooms[RoomOf[key]] = "open" /\ Holds(c, key)
     IN  /\ admission' = IF recorded THEN [admission EXCEPT ![key].status = "completed"]
                                     ELSE admission
         /\ \/ recorded /\ answers' = [answers EXCEPT ![key] = @ \union {c}]
            \/ UNCHANGED answers
  /\ call' = [call EXCEPT ![c] = Over]
  /\ UNCHANGED <<clock, upsets, rooms, changed, attempts, usage>>

\* The provider failed: the lease is given back.
ReleaseLease(c) ==
  /\ call[c].at = "calling"
  /\ admission' = IF Holds(c, call[c].key)
                  THEN [admission EXCEPT ![call[c].key].status = "released"] ELSE admission
  /\ call' = [call EXCEPT ![c] = Over]
  /\ UNCHANGED <<clock, upsets, rooms, changed, attempts, usage, answers>>

\* The function is cut off, or cannot reach the database to give it back.
Crash(c) ==
  /\ call[c].at = "calling"
  /\ call' = [call EXCEPT ![c] = Over]
  /\ UNCHANGED <<clock, upsets, rooms, changed, admission, attempts, usage, answers>>

-----------------------------------------------------------------------------
\* External to this part: edits of the sketch, the end of a room, time.
Upset == upsets < MaxUpsets /\ upsets' = upsets + 1

SketchChanges(k) ==
  /\ Upset
  /\ k \notin changed
  /\ changed' = changed \union {k}
  /\ UNCHANGED <<clock, rooms, admission, attempts, usage, call, answers>>

RoomExpires(r) ==
  /\ Upset
  /\ rooms[r] = "open"
  /\ rooms' = [rooms EXCEPT ![r] = "expired"]
  /\ UNCHANGED <<clock, changed, admission, attempts, usage, call, answers>>

\* Deleting a room takes its admissions and attempts along, not its usage.
RoomDeleted(r) ==
  /\ Upset
  /\ rooms[r] # "deleted"
  /\ rooms' = [rooms EXCEPT ![r] = "deleted"]
  /\ admission' = [k \in Keys |-> IF RoomOf[k] = r THEN NoRow ELSE admission[k]]
  /\ attempts' = attempts \ InRoom(r)
  /\ UNCHANGED <<clock, changed, usage, call, answers>>

Tick ==
  /\ clock < LastTick
  /\ clock' = clock + 1
  /\ UNCHANGED <<upsets, rooms, changed, admission, attempts, usage, call, answers>>

VisionInit ==
  /\ clock = 0 /\ upsets = 0
  /\ rooms = [r \in VisionRooms |-> "open"]
  /\ changed = {}
  /\ admission = [k \in Keys |-> NoRow]
  /\ attempts = {} /\ usage = {}
  /\ call = [c \in Calls |-> [at |-> "new"]]
  /\ answers = [k \in Keys |-> {}]

VisionNext ==
  \/ \E c \in Calls :
       \/ \E actor \in Actors, key \in Keys : AskAdmission(c, actor, key)
       \/ Refuse(c) \/ Deny(c) \/ AnswerCached(c) \/ Admit(c)
       \/ Complete(c) \/ ReleaseLease(c) \/ Crash(c)
  \/ \E k \in Keys : SketchChanges(k)
  \/ \E r \in VisionRooms : RoomExpires(r) \/ RoomDeleted(r)
  \/ Tick

VisionSpec == VisionInit /\ [][VisionNext]_visionVars

-----------------------------------------------------------------------------
(* Rows, attempts, uses and calls have their types.                        *)
VisionTypeOK ==
  /\ clock \in Nat /\ upsets \in Nat
  /\ rooms \in [VisionRooms -> {"open", "expired", "deleted"}]
  /\ changed \subseteq Keys
  /\ admission \in [Keys -> Rows]
  /\ attempts \subseteq Attempt /\ usage \subseteq Use
  /\ call \in [Calls -> Progress]
  /\ answers \in [Keys -> SUBSET Calls]

(* Two calls of a room never ask the provider at the same time, each within *)
(* its own lease, although every one of them read the clock before it got   *)
(* the room's lock (admit_sketch_transform).                                *)
InLease(c) == call[c].at = "calling" /\ clock < call[c].stamp + LeaseLength

OneCallPerRoom ==
  \A c, d \in Calls :
    /\ InLease(c) /\ InLease(d) /\ RoomOf[call[c].key] = RoomOf[call[d].key]
    /\ rooms[RoomOf[call[c].key]] # "deleted"
    => c = d

(* All who are answered about a sketch are given the same interpretation,   *)
(* however late a call that lost its lease comes back and however often the *)
(* answer of a recorded result was lost (complete_sketch_transform).        *)
AnswersAgree == \A k \in Keys : Cardinality(answers[k]) <= 1

(* What demo rooms may spend in a day is bounded for each actor and for all, *)
(* though rooms and their attempts are deleted; only a call that read the    *)
(* clock on one day and was let in on the next escapes both days' counts     *)
(* (enforce_demo_vision_limits).                                             *)
SpentOn(d) == { u \in usage : DayOf(u.at) = d /\ u.ran = d }

SpendIsBounded ==
  \A d \in 0 .. DayOf(clock) :
    /\ Cardinality(SpentOn(d)) <= PerDay
    /\ \A a \in Actors : Cardinality({ u \in SpentOn(d) : u.actor = a }) <= PerActorDay
=============================================================================
