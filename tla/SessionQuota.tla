---------------------------- MODULE SessionQuota ----------------------------
(***************************************************************************)
(* The limits on paid sessions that the database keeps for the meeting:    *)
(* voice sessions, private hand relays and TURN credentials, each admitted *)
(* by a function that counts a ledger under the locks of the service, the  *)
(* actor and the room.  A call reads the clock before it waits for them,   *)
(* so the ledger does not grow in the order of its times.                  *)
(***************************************************************************)
EXTENDS Integers, FiniteSets

CONSTANTS
  QuotaCalls,     \* calls of the admission functions
  QuotaActors,
  QuotaRooms,
  RequestIds,     \* idempotency keys of TURN requests
  NoId,
  Max,            \* how many sessions each limit lets in
  Window,         \* 10 minutes
  QuotaDay,       \* 24 hours
  Retention,      \* 7 days
  MaxWait,        \* external: how long a call may wait for its locks
  LastQuotaTick   \* bound: how long the clock is watched

QuotaServices == {"voice", "relay", "turn"}

\* Whose sessions a limit counts, and over which span: the last ten minutes, the
\* last day, or the calendar day.
Limits ==
  [ voice |-> {<<"actor", "today">>, <<"actor", "window">>, <<"room", "today">>,
               <<"all", "today">>},
    relay |-> {<<"all", "window">>, <<"all", "day">>, <<"actor", "window">>,
               <<"room", "window">>},
    turn  |-> {<<"actor", "window">>, <<"room", "window">>, <<"all", "window">>} ]

Scopes == {"actor", "room", "all"}
Spans == {"window", "day", "today"}

ASSUME QuotaAssumption ==
  /\ Max \in [QuotaServices -> [Scopes \X Spans -> Nat]]
  /\ {Window, QuotaDay, Retention, MaxWait, LastQuotaTick} \subseteq Nat
  /\ QuotaDay > 0 /\ Window =< QuotaDay /\ QuotaDay + MaxWait =< Retention
  /\ NoId \notin RequestIds

VARIABLES
  service,      \* the function whose calls are watched
  now,          \* the database's clock
  standing,     \* rooms: open, expired or deleted
  session,      \* the progress of each call
  ledger,       \* the rows that are kept
  issued        \* all rows there have ever been

quotaVars == <<service, now, standing, session, ledger, issued>>

Row == [call : QuotaCalls, actor : QuotaActors, room : QuotaRooms,
        id : RequestIds \union {NoId}, at : Nat, day : Nat]

Asked == [at : {"reading", "asking"}, actor : QuotaActors, room : QuotaRooms,
          id : RequestIds \union {NoId}, stamp : Nat, day : Nat]

Granted == [at : {"granted"}, actor : QuotaActors, room : QuotaRooms,
            id : RequestIds \union {NoId}, time : Nat]

Sessions == [at : {"new", "over"}] \union Asked \union Granted

Today(t) == t \div QuotaDay

-----------------------------------------------------------------------------
\* The expiry guard of voice and relay calls comes before the clock is read.
Arrive(c, actor, room, id) ==
  /\ session[c].at = "new"
  /\ service # "turn" => standing[room] = "open"
  /\ session' = [session EXCEPT ![c] =
       [at |-> IF service = "voice" THEN "reading" ELSE "asking", actor |-> actor,
        room |-> room, id |-> id, stamp |-> now, day |-> Today(now)]]
  /\ UNCHANGED <<service, now, standing, ledger, issued>>

\* A voice call reads the clock once more for the day it counts in.
ReadDay(c) ==
  /\ session[c].at = "reading"
  /\ session' = [session EXCEPT ![c].at = "asking", ![c].day = Today(now)]
  /\ UNCHANGED <<service, now, standing, ledger, issued>>

Same(scope, r, s) ==
  CASE scope = "actor" -> r.actor = s.actor
    [] scope = "room"  -> r.room = s.room
    [] scope = "all"   -> TRUE

\* Which rows the count of call s takes in: there is no upper end.
Counts(span, r, s) ==
  CASE span = "window" -> r.at > s.stamp - Window
    [] span = "day"    -> r.at > s.stamp - QuotaDay
    [] span = "today"  -> r.at >= s.day * QuotaDay

(* Faulty variant: rows are kept for ten minutes only.                     *)
KeptForWindow(rows, s) == { r \in rows : r.at > s.stamp - Window }

\* The ledger of relays and TURN credentials is cleared of what is a week old.
Kept(rows, s) ==
  IF service = "voice" THEN rows ELSE { r \in rows : r.at >= s.stamp - Retention }

Counted(rows, limit, s) ==
  { r \in rows : Same(limit[1], r, s) /\ Counts(limit[2], r, s) }

Full(rows, s) ==
  \E limit \in Limits[service] :
    Cardinality(Counted(rows, limit, s)) >= Max[service][limit]

\* A member of a room that stands; only TURN looks for its expiry now.
Admissible(s) ==
  IF service = "turn" THEN standing[s.room] = "open" ELSE standing[s.room] # "deleted"

Known(s) == { r \in ledger : service = "turn" /\ r.id = s.id }

FinishCall(c) == session' = [session EXCEPT ![c] = [at |-> "over"]]

Grant(c, s, time) ==
  session' = [session EXCEPT ![c] =
    [at |-> "granted", actor |-> s.actor, room |-> s.room, id |-> s.id, time |-> time]]

\* Not admissible any more, or the id of another's credential: an exception.
Rejected(c) ==
  /\ session[c].at = "asking"
  /\ LET s == session[c]
     IN  \/ ~Admissible(s)
         \/ \E r \in Known(s) : r.actor # s.actor \/ r.room # s.room
  /\ FinishCall(c)
  /\ UNCHANGED <<service, now, standing, ledger, issued>>

\* A TURN request that is known is answered with the time it was first issued.
Replayed(c) ==
  /\ session[c].at = "asking"
  /\ LET s == session[c]
     IN  /\ Admissible(s)
         /\ \E r \in Known(s) :
              r.actor = s.actor /\ r.room = s.room /\ Grant(c, s, r.at)
  /\ UNCHANGED <<service, now, standing, ledger, issued>>

RowOf(c, s) ==
  [call |-> c, actor |-> s.actor, room |-> s.room, id |-> s.id, at |-> s.stamp,
   day |-> s.day]

DeniedByLimit(c) ==
  /\ session[c].at = "asking"
  /\ LET s == session[c]
         rows == Kept(ledger, s)
     IN  /\ Admissible(s) /\ Known(s) = {}
         /\ Full(rows, s)
         /\ ledger' = rows
  /\ FinishCall(c)
  /\ UNCHANGED <<service, now, standing, issued>>

(* Faulty variant: a known request is admitted afresh.                     *)
AdmittedAfresh(c) ==
  /\ session[c].at = "asking"
  /\ LET s == session[c]
         rows == Kept(ledger, s)
     IN  /\ Admissible(s) /\ ~Full(rows, s)
         /\ ledger' = rows \union {RowOf(c, s)}
         /\ issued' = issued \union {RowOf(c, s)}
         /\ Grant(c, s, s.stamp)
  /\ UNCHANGED <<service, now, standing>>

Admitted(c) ==
  /\ session[c].at = "asking"
  /\ LET s == session[c]
         rows == Kept(ledger, s)
     IN  /\ Admissible(s) /\ Known(s) = {}
         /\ ~Full(rows, s)
         /\ ledger' = rows \union {RowOf(c, s)}
         /\ issued' = issued \union {RowOf(c, s)}
         /\ Grant(c, s, s.stamp)
  /\ UNCHANGED <<service, now, standing>>

-----------------------------------------------------------------------------
\* External: rooms end, by expiry or by deletion, and the ledger stays.
RoomEnds(room, how) ==
  /\ IF how = "expired" THEN standing[room] = "open" ELSE standing[room] # "deleted"
  /\ standing' = [standing EXCEPT ![room] = how]
  /\ UNCHANGED <<service, now, session, ledger, issued>>

\* External: time passes, and no call waits longer than it may.
QuotaTick ==
  /\ now < LastQuotaTick
  /\ \A c \in QuotaCalls :
       session[c].at \in {"reading", "asking"} => now < session[c].stamp + MaxWait
  /\ now' = now + 1
  /\ UNCHANGED <<service, standing, session, ledger, issued>>

QuotaInit ==
  /\ service \in QuotaServices
  /\ now = 0
  /\ standing = [r \in QuotaRooms |-> "open"]
  /\ session = [c \in QuotaCalls |-> [at |-> "new"]]
  /\ ledger = {} /\ issued = {}

Call(c) ==
  \/ \E actor \in QuotaActors, room \in QuotaRooms,
        id \in IF service = "turn" THEN RequestIds ELSE {NoId} :
       Arrive(c, actor, room, id)
  \/ ReadDay(c) \/ Rejected(c) \/ Replayed(c) \/ DeniedByLimit(c) \/ Admitted(c)

QuotaNext ==
  \/ \E c \in QuotaCalls : Call(c)
  \/ \E room \in QuotaRooms, how \in {"expired", "deleted"} : RoomEnds(room, how)
  \/ QuotaTick

QuotaSpec == QuotaInit /\ [][QuotaNext]_quotaVars

-----------------------------------------------------------------------------
(* Calls, rows and rooms have their types.                                 *)
QuotaTypeOK ==
  /\ service \in QuotaServices /\ now \in Nat
  /\ standing \in [QuotaRooms -> {"open", "expired", "deleted"}]
  /\ session \in [QuotaCalls -> Sessions]
  /\ ledger \subseteq issued /\ issued \subseteq Row

\* The rows of the span that ends with row x.  A calendar day is that of the rows
\* whose call read the clock twice within it.
InSpan(span, r, x) ==
  CASE span = "window" -> r.at =< x.at /\ r.at > x.at - Window
    [] span = "day"    -> r.at =< x.at /\ r.at > x.at - QuotaDay
    [] span = "today"  -> Today(r.at) = Today(x.at) /\ r.day = Today(r.at)

Spent(limit, x) == { r \in issued : Same(limit[1], r, x) /\ InSpan(limit[2], r, x) }

(* No span ever holds more sessions than its limit, whatever order calls    *)
(* that read the clock early get their locks in, however many rooms are     *)
(* reset, and although old rows are cleared away.                           *)
LimitsHold ==
  \A limit \in Limits[service] : \A x \in issued :
    Cardinality(Spent(limit, x)) =< Max[service][limit]

(* A TURN request that is repeated, because its answer was lost, spends the *)
(* limits once for as long as its row is kept.                              *)
RetriesSpendOnce ==
  service = "turn" =>
    \A x, y \in issued :
      x.id = y.id /\ x.call # y.call /\ x.at =< y.at => y.at > x.at + Retention - MaxWait

(* Whoever is granted a session was let in at that time or repeats a        *)
(* request of his own: nobody is given another's TURN credential.           *)
GrantsAreIssued ==
  \A c \in QuotaCalls : session[c].at = "granted" =>
    \E r \in issued :
      /\ r.actor = session[c].actor /\ r.room = session[c].room
      /\ r.id = session[c].id /\ r.at = session[c].time
      /\ service # "turn" => r.call = c
=============================================================================
