-------------------------- MODULE SharedRoomProofs --------------------------
(***************************************************************************)
(* Proofs about SharedRoom, for any number of sessions and of requests.    *)
(***************************************************************************)
EXTENDS SharedRoom, TLAPS

LEMMA RevisionIsNat == ASSUME TypeOK PROVE revision \in Nat
  BY DEF TypeOK, revision

LEMMA NoneIsNoCode == None \notin Definite /\ None # "ok" /\ None \notin Results
  BY RoomAssumption DEF Results, Replies, Definite

LEMMA WriteTypes ==
  ASSUME TypeOK, NEW r \in Requests, Write(r)
  PROVE  /\ log' \in Seq(Requests)
         /\ connected' \in [Sessions -> BOOLEAN]
         /\ notices' \in [Sessions -> SUBSET Nat]
<1>1. log' \in Seq(Requests)
  BY DEF TypeOK, Write
<1>2. {revision + 1} \subseteq Nat
  BY RevisionIsNat
<1>3. notices' \in [Sessions -> SUBSET Nat]
  BY <1>2 DEF TypeOK, Write
<1> QED
  BY <1>1, <1>3 DEF TypeOK, Write

LEMMA AnswerTypes ==
  ASSUME TypeOK, NEW r \in Requests, NEW code \in Replies, Answer(r, code)
  PROVE  /\ stage' \in [Requests -> {"new", "sent", "planned", "committed",
                                       "answered", "lost"}]
         /\ reply' \in [Requests -> Replies \union {None}]
  BY DEF TypeOK, Answer

LEMMA OutcomeType ==
  ASSUME TypeOK, NEW r \in Requests, reply[r] # None
  PROVE  OutcomeOf(r) \in Results
<1>1. reply[r] \in Results
  BY DEF TypeOK, Results
<1> QED
  BY <1>1 DEF OutcomeOf, Results, Replies

LEMMA TypeStep == TypeOK /\ [Next]_vars => TypeOK'
<1> SUFFICES ASSUME TypeOK, [Next]_vars PROVE TypeOK'
  OBVIOUS
<1> USE RoomAssumption DEF roomVars, sessionVars, reloadVars, channelVars
<1>0. revision \in Nat
  BY RevisionIsNat
<1>1. ASSUME NEW r \in Requests, LoadForCommand(r) PROVE TypeOK'
  BY <1>1 DEF TypeOK, LoadForCommand, Answer, Replies, Definite
<1>2. ASSUME NEW r \in Requests, RefuseCommand(r) PROVE TypeOK'
  BY <1>2 DEF TypeOK, RefuseCommand, Answer, Replies, Definite
<1>3. ASSUME NEW r \in Requests, LoadUnavailable(r) PROVE TypeOK'
  BY <1>3 DEF TypeOK, LoadUnavailable, Answer, Replies, Definite
<1>4. ASSUME NEW r \in Requests, CommitCommand(r) PROVE TypeOK'
  <2>1. CASE Write(r)
    <3>1. CommitCommand(r)
      BY <1>4
    <3> QED
      BY <2>1, <3>1, WriteTypes DEF TypeOK, CommitCommand, Answer, Replies, Definite
  <2>2. CASE ~Write(r)
    BY <1>4, <2>2 DEF TypeOK, CommitCommand, Answer, Replies, Definite
  <2> QED
    BY <2>1, <2>2
<1>5. ASSUME NEW r \in Requests, CommitUnknown(r) PROVE TypeOK'
  <2>1. /\ log' \in Seq(Requests)
        /\ connected' \in [Sessions -> BOOLEAN]
        /\ notices' \in [Sessions -> SUBSET Nat]
    BY <1>5, WriteTypes DEF TypeOK, CommitUnknown
  <2> QED
    BY <1>5, <2>1 DEF TypeOK, CommitUnknown, Answer, Replies, Definite
<1>6. ASSUME NEW r \in Requests, VerifyCommit(r) PROVE TypeOK'
  BY <1>6 DEF TypeOK, VerifyCommit, Answer, Replies, Definite
<1>7. ASSUME NEW r \in Requests, LoseRequest(r) PROVE TypeOK'
  BY <1>7 DEF TypeOK, LoseRequest
<1>8. ASSUME NEW r \in Requests, HandleReply(r) PROVE TypeOK'
  <2>1. OutcomeOf(r) \in Results
    BY <1>8, OutcomeType DEF HandleReply
  <2>2. owner[r] \in Sessions /\ base[r] + 1 \in Nat
    BY <1>8 DEF TypeOK, HandleReply, Waiting
  <2>3. /\ view' \in [Sessions -> Nat]
        /\ pending' \in [Sessions -> Nat]
    BY <1>8, <2>2 DEF TypeOK, HandleReply, Adopt, MaxOf
  <2> QED
    BY <1>8, <2>1, <2>2, <2>3 DEF TypeOK, HandleReply, Settle
<1>9. ASSUME NEW r \in Requests, NoAnswer(r) PROVE TypeOK'
  <2>1. PICK outcome \in Results : Settle(r, outcome)
    BY <1>9 DEF NoAnswer, Results
  <2> QED
    BY <1>9, <2>1 DEF TypeOK, NoAnswer, Settle
<1>10. ASSUME NEW s \in Sessions, Join(s) PROVE TypeOK'
  BY <1>0, <1>10 DEF TypeOK, Join
<1>11. ASSUME NEW s \in Sessions, Dispose(s) PROVE TypeOK'
  BY <1>11 DEF TypeOK, Dispose
<1>12. ASSUME NEW s \in Sessions,
              ChannelUp(s) \/ ChannelDown(s) \/ ChannelConnecting(s)
       PROVE  TypeOK'
  BY <1>12, ZenonT(40) DEF TypeOK, ChannelUp, ChannelDown, ChannelConnecting
<1>13. ASSUME NEW s \in Sessions, NEW r \in Requests, Submit(s, r) PROVE TypeOK'
  BY <1>13 DEF TypeOK, Submit
<1>14. ASSUME NEW s \in Sessions, NEW n \in 1..revision, Notice(s, n) PROVE TypeOK'
  <2>1. n \in Nat
    BY <1>0
  <2>2. MaxOf(pending[s], n) \in Nat
    BY <2>1 DEF TypeOK, MaxOf
  <2>3. /\ pending' \in [Sessions -> Nat]
        /\ target' \in [Sessions -> Nat \union {None}]
        /\ reloadFrom' \in [Sessions -> Nat]
        /\ reloaded' \in [Sessions -> Nat \union {None}]
    <3>1. CASE n <= view[s]
      BY <1>14, <3>1 DEF TypeOK, Notice
    <3>2. CASE ~(n <= view[s]) /\ target[s] # None
      <4>1. /\ pending' = [pending EXCEPT ![s] = MaxOf(pending[s], n)]
            /\ UNCHANGED reloadVars
        BY <1>14, <3>2 DEF Notice
      <4> QED
        BY <2>2, <4>1 DEF TypeOK
    <3>3. CASE ~(n <= view[s]) /\ target[s] = None
      <4>1. /\ pending' = [pending EXCEPT ![s] = MaxOf(pending[s], n)]
            /\ target' = [target EXCEPT ![s] = MaxOf(pending[s], n)]
            /\ reloadFrom' = [reloadFrom EXCEPT ![s] = view[s]]
            /\ reloaded' = [reloaded EXCEPT ![s] = None]
        BY <1>14, <3>3 DEF Notice
      <4> QED
        BY <2>2, <4>1 DEF TypeOK
    <3> QED
      BY <3>1, <3>2, <3>3
  <2>4. notices' \in [Sessions -> SUBSET Nat]
    BY <1>14 DEF TypeOK, Notice
  <2> QED
    BY <1>14, <2>3, <2>4 DEF TypeOK, Notice
<1>15. ASSUME NEW s \in Sessions, NEW n \in 1..revision, LoseNotice(s, n) PROVE TypeOK'
  BY <1>15 DEF TypeOK, LoseNotice
<1>16. ASSUME NEW s \in Sessions, ReadReload(s) PROVE TypeOK'
  BY <1>0, <1>16 DEF TypeOK, ReadReload
<1>17. ASSUME NEW s \in Sessions, FinishReload(s) PROVE TypeOK'
  <2>1. Reached(s) \in Nat
    BY <1>17 DEF TypeOK, FinishReload, FinishFrame, Reached
  <2>2. CASE disposed[s] \/ Failed(s)
    <3>1. StopReload(s) /\ Degrade(s) /\ UNCHANGED view /\ FinishFrame(s)
      BY <1>17, <2>2 DEF FinishReload
    <3> QED
      BY <3>1 DEF TypeOK, FinishFrame, StopReload, Degrade
  <2>3. CASE ~(disposed[s] \/ Failed(s))
    <3>1. /\ view' = [view EXCEPT ![s] = Reached(s)]
          /\ UNCHANGED status
          /\ ReloadAgain(s, Reached(s))
          /\ FinishFrame(s)
      BY <1>17, <2>3 DEF FinishReload
    <3>2. /\ target' \in [Sessions -> Nat \union {None}]
          /\ reloadFrom' \in [Sessions -> Nat]
          /\ reloaded' \in [Sessions -> Nat \union {None}]
      <4>1. CASE Reached(s) < pending[s]
        <5>1. /\ target' = [target EXCEPT ![s] = pending[s]]
              /\ reloadFrom' = [reloadFrom EXCEPT ![s] = Reached(s)]
              /\ reloaded' = [reloaded EXCEPT ![s] = None]
          BY <3>1, <4>1 DEF ReloadAgain
        <5> QED
          BY <2>1, <5>1 DEF TypeOK
      <4>2. CASE ~(Reached(s) < pending[s])
        <5>1. StopReload(s)
          BY <3>1, <4>2 DEF ReloadAgain
        <5> QED
          BY <5>1 DEF TypeOK, StopReload
      <4> QED
        BY <4>1, <4>2
    <3> QED
      BY <2>1, <3>1, <3>2 DEF TypeOK, FinishFrame
  <2> QED
    BY <2>2, <2>3
<1>18. ASSUME NEW s \in Sessions, ReloadFails(s) PROVE TypeOK'
  BY <1>18 DEF TypeOK, ReloadFails, StopReload, Degrade
<1>19. CASE UNCHANGED vars
  BY <1>19 DEF TypeOK, vars
<1> QED
  BY <1>1, <1>2, <1>3, <1>4, <1>5, <1>6, <1>7, <1>8, <1>9, <1>10, <1>11, <1>12,
     <1>13, <1>14, <1>15, <1>16, <1>17, <1>18, <1>19
     DEF Next, ServiceStep, SessionStep

(* Every variable of the room keeps its type.                              *)
THEOREM TypeCorrect == Spec => []TypeOK
<1>1. Init => TypeOK
  BY DEF Init, TypeOK
<1> QED
  BY <1>1, TypeStep, PTL DEF Spec

-----------------------------------------------------------------------------
(* The inductive invariant behind the safety properties.                   *)

InLog(r) == \E n \in 1..Len(log) : log[n] = r

Committed(r) == base[r] < Len(log) /\ log[base[r] + 1] = r

(* A request is in the log only after its commit.                          *)
NotYetLogged ==
  \A r \in Requests : stage[r] \in {"new", "sent", "planned"} =>
    ~InLog(r) /\ reply[r] = None

Unsubmitted ==
  \A r \in Requests : owner[r] = None => stage[r] = "new" /\ result[r] = None

CommittedIsLogged ==
  \A r \in Requests :
    stage[r] = "committed" \/ reply[r] = "ok" \/ result[r] = "ok" => Committed(r)

(* A refusal is final: nothing can commit the request any more.            *)
RefusedIsOut ==
  \A r \in Requests : reply[r] \in Definite \/ result[r] \in Definite =>
    ~InLog(r) /\ stage[r] = "answered"

AckShown ==
  \A r \in Requests : result[r] = "ok" => view[owner[r]] > base[r]

(* No session is ahead of the durable room.                                *)
NothingAhead ==
  \A s \in Sessions : /\ view[s] <= Len(log)
                      /\ reloaded[s] # None => reloaded[s] <= Len(log)

RoomInv ==
  /\ TypeOK
  /\ CommandsMeetTheirCanvas
  /\ NotYetLogged
  /\ Unsubmitted
  /\ CommittedIsLogged
  /\ RefusedIsOut
  /\ AckShown
  /\ NothingAhead

roomState == <<log, owner, base, stage, reply, result>>

(* A step of the sessions alone: the room and the requests stay, and what  *)
(* is shown grows within what is durable.                                  *)
LEMMA QuietStep ==
  ASSUME RoomInv, TypeOK', UNCHANGED roomState,
         \A s \in Sessions : view'[s] >= view[s],
         NothingAhead'
  PROVE  RoomInv'
<1> USE DEF roomState
<1>1. /\ CommandsMeetTheirCanvas'
      /\ NotYetLogged'
      /\ Unsubmitted'
      /\ CommittedIsLogged'
      /\ RefusedIsOut'
  BY DEF RoomInv, CommandsMeetTheirCanvas, NotYetLogged, Unsubmitted, CommittedIsLogged,
         RefusedIsOut, InLog, Committed
<1>2. AckShown'
  <2> SUFFICES ASSUME NEW r \in Requests, result[r] = "ok" PROVE view'[owner[r]] > base[r]
    BY DEF AckShown
  <2>1. owner[r] \in Sessions /\ base[r] \in Nat
    BY NoneIsNoCode DEF RoomInv, TypeOK, Unsubmitted
  <2>2. view[owner[r]] > base[r]
    BY DEF RoomInv, AckShown
  <2>3. view[owner[r]] \in Nat /\ view'[owner[r]] \in Nat
    BY <2>1 DEF RoomInv, TypeOK
  <2> QED
    BY <2>1, <2>2, <2>3
<1> QED
  BY <1>1, <1>2 DEF RoomInv

(* Neither the views nor the log move, and no reload reads anything.       *)
LEMMA StillViews ==
  ASSUME RoomInv, UNCHANGED <<view, log>>,
         \A s \in Sessions : reloaded'[s] = None \/ reloaded'[s] = reloaded[s]
  PROVE  /\ NothingAhead'
         /\ \A s \in Sessions : view'[s] >= view[s]
  BY DEF RoomInv, TypeOK, NothingAhead

(* What a commit does to the log.                                          *)
LEMMA Logged ==
  ASSUME TypeOK, NEW r \in Requests, Write(r)
  PROVE  /\ Len(log') = Len(log) + 1
         /\ log'[Len(log) + 1] = r
         /\ \A n \in 1..Len(log) : log'[n] = log[n]
         /\ Len(log) \in Nat
  BY DEF TypeOK, Write

(* A step of one request that is neither its commit nor its settling keeps *)
(* the invariant, given what it does to that request.                      *)
LEMMA AnswerStep ==
  ASSUME RoomInv, TypeOK', NEW r \in Requests, NEW code \in Replies,
         Answer(r, code), UNCHANGED <<log, channelVars>>,
         stage[r] \in {"sent", "planned", "committed"},
         code \in Definite => stage[r] \in {"sent", "planned"},
         code = "ok" => stage[r] = "committed"
  PROVE  RoomInv'
<1> USE DEF Answer, sessionVars, reloadVars, channelVars
<1>1. \A q \in Requests \ {r} : stage'[q] = stage[q] /\ reply'[q] = reply[q]
  BY DEF RoomInv, TypeOK
<1>2. stage'[r] = "answered" /\ reply'[r] = code
  BY DEF RoomInv, TypeOK
<1>3. CommandsMeetTheirCanvas' /\ AckShown' /\ NothingAhead'
  BY DEF RoomInv, CommandsMeetTheirCanvas, AckShown, NothingAhead
<1>4. NotYetLogged' /\ Unsubmitted'
  BY <1>1, <1>2 DEF RoomInv, NotYetLogged, Unsubmitted, InLog
<1>5. CommittedIsLogged'
  BY <1>1, <1>2 DEF RoomInv, CommittedIsLogged, Committed, Definite
<1>6. RefusedIsOut'
  BY <1>1, <1>2 DEF RoomInv, RefusedIsOut, NotYetLogged, InLog
<1> QED
  BY <1>3, <1>4, <1>5, <1>6 DEF RoomInv

(* The commit of a request, with whatever stage and answer it leads to.    *)
LEMMA WriteStep ==
  ASSUME RoomInv, TypeOK', NEW r \in Requests,
         stage[r] = "planned", base[r] = revision, Write(r),
         \/ /\ stage' = [stage EXCEPT ![r] = "committed"]
            /\ UNCHANGED reply
         \/ /\ stage' = [stage EXCEPT ![r] = "answered"]
            /\ reply' = [reply EXCEPT ![r] = "mutation_unavailable"],
         UNCHANGED <<owner, base, result, view, reloaded>>
  PROVE  RoomInv'
<1>1. /\ Len(log') = Len(log) + 1
      /\ log'[Len(log) + 1] = r
      /\ \A n \in 1..Len(log) : log'[n] = log[n]
      /\ Len(log) \in Nat
  BY Logged DEF RoomInv
<1>2. /\ \A q \in Requests \ {r} : stage'[q] = stage[q] /\ reply'[q] = reply[q]
      /\ stage'[r] \in {"committed", "answered"}
      /\ reply'[r] \notin Definite /\ reply'[r] # "ok"
  <2>1. reply[r] = None
    BY DEF RoomInv, NotYetLogged
  <2>2. None # "ok" /\ None \notin Definite
    BY NoneIsNoCode
  <2>3. "mutation_unavailable" \notin Definite
    BY DEF Definite
  <2> QED
    BY <2>1, <2>2, <2>3 DEF RoomInv, TypeOK
<1>3. \A n \in 1..Len(log') : n \in 1..Len(log) \/ n = Len(log) + 1
  BY <1>1
<1>4. \A q \in Requests \ {r} : ~InLog(q) => ~InLog(q)'
  BY <1>1, <1>3 DEF InLog
<1>5. base[r] = Len(log)
  BY DEF revision
<1>6. \A q \in Requests : Committed(q) => Committed(q)'
  <2> SUFFICES ASSUME NEW q \in Requests, Committed(q) PROVE Committed(q)'
    OBVIOUS
  <2>1. base[q] \in Nat /\ base'[q] = base[q]
    BY DEF RoomInv, TypeOK
  <2>2. base[q] + 1 \in 1..Len(log)
    BY <1>1, <2>1 DEF Committed
  <2> QED
    BY <1>1, <2>1, <2>2 DEF Committed
<1>7. Committed(r)'
  BY <1>1, <1>5 DEF Committed
<1>8. CommandsMeetTheirCanvas'
  <2> SUFFICES ASSUME NEW n \in 1..Len(log') PROVE base'[log'[n]] = n - 1
    BY DEF CommandsMeetTheirCanvas
  <2>1. CASE n \in 1..Len(log)
    BY <1>1, <2>1 DEF RoomInv, CommandsMeetTheirCanvas
  <2>2. CASE n = Len(log) + 1
    BY <1>1, <1>5, <2>2
  <2> QED
    BY <1>3, <2>1, <2>2
<1>9. NotYetLogged'
  BY <1>2, <1>4 DEF RoomInv, NotYetLogged
<1>10. Unsubmitted' /\ AckShown'
  BY <1>2 DEF RoomInv, Unsubmitted, AckShown
<1>11. CommittedIsLogged'
  BY <1>2, <1>6, <1>7 DEF RoomInv, CommittedIsLogged
<1>12. RefusedIsOut'
  BY <1>2, <1>4 DEF RoomInv, RefusedIsOut, Definite
<1>13. NothingAhead'
  <2> SUFFICES ASSUME NEW s \in Sessions
      PROVE  view[s] <= Len(log') /\ (reloaded[s] # None => reloaded[s] <= Len(log'))
    BY DEF NothingAhead
  <2>1. view[s] \in Nat /\ (reloaded[s] # None => reloaded[s] \in Nat)
    BY DEF RoomInv, TypeOK
  <2>2. view[s] <= Len(log) /\ (reloaded[s] # None => reloaded[s] <= Len(log))
    BY DEF RoomInv, NothingAhead
  <2> QED
    BY <1>1, <2>1, <2>2
<1> QED
  BY <1>8, <1>9, <1>10, <1>11, <1>12, <1>13 DEF RoomInv

(* A command that is settled: its session keeps or advances its view, and  *)
(* an "ok" is for a logged command its session shows.                      *)
LEMMA SettleStep ==
  ASSUME RoomInv, TypeOK', NEW r \in Requests, NEW outcome \in Results,
         Settle(r, outcome), owner[r] \in Sessions,
         outcome = "ok" => Committed(r) /\ view'[owner[r]] > base[r],
         outcome \in Definite => ~InLog(r) /\ stage[r] = "answered",
         \A s \in Sessions : view'[s] >= view[s] /\ view'[s] <= Len(log)
  PROVE  RoomInv'
<1> USE DEF Settle, roomVars, reloadVars, channelVars
<1>1. result'[r] = outcome /\ \A q \in Requests \ {r} : result'[q] = result[q]
  BY DEF RoomInv, TypeOK
<1>2. CommandsMeetTheirCanvas' /\ NotYetLogged'
  BY DEF RoomInv, CommandsMeetTheirCanvas, NotYetLogged, InLog
<1>3. Unsubmitted'
  BY <1>1, RoomAssumption DEF RoomInv, Unsubmitted
<1>4. CommittedIsLogged'
  BY <1>1 DEF RoomInv, CommittedIsLogged, Committed
<1>5. RefusedIsOut'
  BY <1>1 DEF RoomInv, RefusedIsOut, InLog
<1>6. NothingAhead'
  BY DEF RoomInv, NothingAhead
<1>7. AckShown'
  <2> SUFFICES ASSUME NEW q \in Requests, result'[q] = "ok" PROVE view'[owner[q]] > base[q]
    BY DEF AckShown
  <2>1. CASE q = r
    BY <1>1, <2>1
  <2>2. CASE q # r
    <3>1. result[q] = "ok"
      BY <1>1, <2>2
    <3>2. owner[q] \in Sessions /\ base[q] \in Nat
      BY <3>1, NoneIsNoCode DEF RoomInv, TypeOK, Unsubmitted
    <3>3. view[owner[q]] > base[q]
      BY <3>1 DEF RoomInv, AckShown
    <3>4. view[owner[q]] \in Nat /\ view'[owner[q]] \in Nat
      BY <3>2 DEF RoomInv, TypeOK
    <3> QED
      BY <3>2, <3>3, <3>4
  <2> QED
    BY <2>1, <2>2
<1> QED
  BY <1>2, <1>3, <1>4, <1>5, <1>6, <1>7 DEF RoomInv

LEMMA SubmitStep ==
  ASSUME RoomInv, TypeOK', NEW s \in Sessions, NEW r \in Requests, Submit(s, r)
  PROVE  RoomInv'
<1> USE DEF Submit, reloadVars, channelVars
<1>1. stage[r] = "new" /\ result[r] = None /\ reply[r] = None /\ ~InLog(r)
  BY DEF RoomInv, Unsubmitted, NotYetLogged
<1>2. \A q \in Requests \ {r} : /\ stage'[q] = stage[q]
                                /\ base'[q] = base[q]
                                /\ owner'[q] = owner[q]
  BY DEF RoomInv, TypeOK
<1>3. stage'[r] = "sent" /\ owner'[r] # None
  BY RoomAssumption DEF RoomInv, TypeOK
<1>4. CommandsMeetTheirCanvas'
  <2> SUFFICES ASSUME NEW n \in 1..Len(log) PROVE base'[log[n]] = n - 1
    BY DEF CommandsMeetTheirCanvas
  <2>1. log[n] \in Requests \ {r}
    BY <1>1 DEF RoomInv, TypeOK, InLog
  <2> QED
    BY <1>2, <2>1 DEF RoomInv, CommandsMeetTheirCanvas
<1>5. NotYetLogged' /\ Unsubmitted'
  BY <1>1, <1>2, <1>3 DEF RoomInv, NotYetLogged, Unsubmitted, InLog
<1>6. CommittedIsLogged' /\ AckShown'
  BY <1>1, <1>2, <1>3, NoneIsNoCode
     DEF RoomInv, CommittedIsLogged, Committed, AckShown
<1>7. RefusedIsOut'
  BY <1>1, <1>2, NoneIsNoCode DEF RoomInv, RefusedIsOut, InLog
<1>8. NothingAhead'
  BY DEF RoomInv, NothingAhead
<1> QED
  BY <1>4, <1>5, <1>6, <1>7, <1>8 DEF RoomInv

LEMMA LoseStep ==
  ASSUME RoomInv, TypeOK', NEW r \in Requests, LoseRequest(r)
  PROVE  RoomInv'
<1> USE DEF LoseRequest, sessionVars, reloadVars, channelVars
<1>1. /\ stage'[r] = "lost"
      /\ stage[r] # "answered"
      /\ \A q \in Requests \ {r} : stage'[q] = stage[q]
  BY DEF RoomInv, TypeOK
<1>2. CommandsMeetTheirCanvas' /\ AckShown' /\ NothingAhead'
  BY DEF RoomInv, CommandsMeetTheirCanvas, AckShown, NothingAhead
<1>3. NotYetLogged' /\ Unsubmitted'
  BY <1>1 DEF RoomInv, NotYetLogged, Unsubmitted, InLog
<1>4. CommittedIsLogged' /\ RefusedIsOut'
  BY <1>1 DEF RoomInv, CommittedIsLogged, RefusedIsOut, Committed, InLog
<1> QED
  BY <1>2, <1>3, <1>4 DEF RoomInv

(* The loads of a reload are never behind what was hydrated through it.    *)
LEMMA FinishGrows ==
  ASSUME RoomInv, NEW s \in Sessions, FinishReload(s)
  PROVE  /\ \A t \in Sessions : view'[t] >= view[t] /\ view'[t] <= Len(log)
         /\ \A t \in Sessions : reloaded'[t] = None \/ reloaded'[t] = reloaded[t]
<1>1. /\ view \in [Sessions -> Nat]
      /\ reloaded \in [Sessions -> Nat \union {None}]
      /\ \A t \in Sessions : view[t] <= Len(log)
      /\ reloaded[s] \in Nat /\ reloaded[s] <= Len(log)
  BY DEF RoomInv, TypeOK, NothingAhead, FinishReload, FinishFrame
<1>2. CASE disposed[s] \/ Failed(s)
  <2>1. StopReload(s) /\ UNCHANGED view
    BY <1>2 DEF FinishReload
  <2> QED
    BY <1>1, <2>1 DEF StopReload
<1>3. CASE ~(disposed[s] \/ Failed(s))
  <2>1. view' = [view EXCEPT ![s] = Reached(s)] /\ ReloadAgain(s, Reached(s))
    BY <1>3 DEF FinishReload
  <2>2. Reached(s) >= view[s] /\ Reached(s) <= Len(log)
    BY <1>1, <1>3 DEF Failed, Refused, Newer, Hydratable, Reached
  <2>3. \A t \in Sessions : reloaded'[t] = None \/ reloaded'[t] = reloaded[t]
    BY <1>1, <2>1 DEF ReloadAgain, StopReload
  <2>4. Len(log) \in Nat
    BY DEF RoomInv, TypeOK
  <2> QED
    BY <1>1, <2>1, <2>2, <2>3, <2>4
<1> QED
  BY <1>2, <1>3

LEMMA ReplyGrows ==
  ASSUME RoomInv, NEW r \in Requests, HandleReply(r)
  PROVE  /\ \A s \in Sessions : view'[s] >= view[s] /\ view'[s] <= Len(log)
         /\ OutcomeOf(r) = "ok" => Committed(r) /\ view'[owner[r]] > base[r]
<1>1. /\ view \in [Sessions -> Nat]
      /\ \A t \in Sessions : view[t] <= Len(log)
      /\ owner[r] \in Sessions /\ base[r] \in Nat /\ Len(log) \in Nat
  BY DEF RoomInv, TypeOK, NothingAhead, HandleReply, Waiting
<1>2. CASE OutcomeOf(r) = "ok"
  <2>1. view' = [view EXCEPT ![owner[r]] = base[r] + 1]
    BY <1>2 DEF HandleReply, Adopt
  <2>2. ~disposed[owner[r]] /\ reply[r] = "ok" /\ Hydratable(owner[r], base[r] + 1)
    BY <1>2 DEF OutcomeOf
  <2>3. Committed(r)
    BY <2>2 DEF RoomInv, CommittedIsLogged
  <2> QED
    BY <1>1, <2>1, <2>2, <2>3 DEF Hydratable, Committed
<1>3. CASE OutcomeOf(r) # "ok"
  <2>1. UNCHANGED view
    BY <1>3 DEF HandleReply, Adopt
  <2> QED
    BY <1>1, <1>3, <2>1
<1> QED
  BY <1>2, <1>3

-----------------------------------------------------------------------------
(* The invariant is inductive.                                             *)

LEMMA RoomInvInit == Init => RoomInv
<1> SUFFICES ASSUME Init PROVE RoomInv
  OBVIOUS
<1>1. TypeOK
  BY DEF Init, TypeOK
<1> QED
  BY <1>1, NoneIsNoCode
     DEF Init, RoomInv, CommandsMeetTheirCanvas, NotYetLogged, Unsubmitted,
         CommittedIsLogged, RefusedIsOut, AckShown, NothingAhead, InLog

LEMMA RequestStepInv ==
  ASSUME RoomInv, TypeOK', NEW r \in Requests,
         ServiceStep(r) \/ HandleReply(r) \/ NoAnswer(r)
  PROVE  RoomInv'
<1> USE DEF Definite
<1>1. ASSUME LoadForCommand(r) PROVE RoomInv'
  <2>1. CASE Answer(r, "stale_revision") /\ UNCHANGED <<log, channelVars>>
    BY <1>1, <2>1, AnswerStep DEF LoadForCommand, Replies
  <2>2. CASE stage' = [stage EXCEPT ![r] = "planned"] /\
             UNCHANGED <<log, owner, base, reply, result, sessionVars, reloadVars, channelVars>>
    <3> USE DEF sessionVars, reloadVars, channelVars
    <3>1. /\ stage[r] = "sent" /\ stage'[r] = "planned"
          /\ \A q \in Requests \ {r} : stage'[q] = stage[q]
      BY <1>1, <2>2 DEF LoadForCommand, RoomInv, TypeOK
    <3>2. /\ CommandsMeetTheirCanvas' /\ AckShown' /\ NothingAhead'
      BY <2>2 DEF RoomInv, CommandsMeetTheirCanvas, AckShown, NothingAhead
    <3>3. NotYetLogged' /\ Unsubmitted'
      BY <2>2, <3>1 DEF RoomInv, NotYetLogged, Unsubmitted, InLog
    <3>4. CommittedIsLogged' /\ RefusedIsOut'
      BY <2>2, <3>1 DEF RoomInv, CommittedIsLogged, RefusedIsOut, Committed, InLog
    <3> QED
      BY <3>2, <3>3, <3>4 DEF RoomInv
  <2> QED
    BY <1>1, <2>1, <2>2 DEF LoadForCommand
<1>2. ASSUME RefuseCommand(r) PROVE RoomInv'
  BY <1>2, AnswerStep DEF RefuseCommand, Replies
<1>3. ASSUME LoadUnavailable(r) PROVE RoomInv'
  BY <1>3, AnswerStep DEF LoadUnavailable, Replies
<1>4. ASSUME CommitCommand(r) PROVE RoomInv'
  <2>1. CASE base[r] = revision
    BY <1>4, <2>1, WriteStep DEF CommitCommand, sessionVars, reloadVars
  <2>2. CASE base[r] # revision
    BY <1>4, <2>2, AnswerStep DEF CommitCommand, Replies
  <2> QED
    BY <2>1, <2>2
<1>5. ASSUME CommitUnknown(r) PROVE RoomInv'
  <2>1. CASE base[r] = revision /\ Write(r)
    BY <1>5, <2>1, WriteStep DEF CommitUnknown, Answer, sessionVars, reloadVars
  <2>2. CASE UNCHANGED <<log, channelVars>>
    BY <1>5, <2>2, AnswerStep DEF CommitUnknown, Replies
  <2> QED
    BY <1>5, <2>1, <2>2 DEF CommitUnknown
<1>6. ASSUME VerifyCommit(r) PROVE RoomInv'
  BY <1>6, AnswerStep DEF VerifyCommit, Replies
<1>7. ASSUME LoseRequest(r) PROVE RoomInv'
  BY <1>7, LoseStep
<1>8. ASSUME HandleReply(r) PROVE RoomInv'
  <2>1. owner[r] \in Sessions
    BY <1>8 DEF RoomInv, TypeOK, HandleReply, Waiting
  <2>2. OutcomeOf(r) \in Results
    BY <1>8, OutcomeType DEF RoomInv, HandleReply
  <2>3. ASSUME OutcomeOf(r) \in Definite PROVE ~InLog(r) /\ stage[r] = "answered"
    <3>1. reply[r] \in Definite
      BY <2>3 DEF OutcomeOf
    <3> QED
      BY <3>1 DEF RoomInv, RefusedIsOut
  <2>4. Settle(r, OutcomeOf(r))
    BY <1>8 DEF HandleReply
  <2> QED
    BY <1>8, <2>1, <2>2, <2>3, <2>4, ReplyGrows, SettleStep
<1>9. ASSUME NoAnswer(r) PROVE RoomInv'
  <2>1. PICK outcome \in {"command_unavailable", "command_cancelled"} : Settle(r, outcome)
    BY <1>9 DEF NoAnswer
  <2>2. owner[r] \in Sessions /\ UNCHANGED view
    BY <1>9 DEF RoomInv, TypeOK, NoAnswer, Waiting
  <2>3. \A s \in Sessions : view'[s] >= view[s] /\ view'[s] <= Len(log)
    BY <2>2 DEF RoomInv, TypeOK, NothingAhead
  <2> QED
    BY <2>1, <2>2, <2>3, SettleStep DEF Results
<1> QED
  BY <1>1, <1>2, <1>3, <1>4, <1>5, <1>6, <1>7, <1>8, <1>9 DEF ServiceStep

LEMMA SessionStepInv ==
  ASSUME RoomInv, TypeOK', NEW s \in Sessions, SessionStep(s)
  PROVE  RoomInv'
<1> USE DEF roomVars, sessionVars, reloadVars, channelVars, roomState
<1>1. ASSUME Join(s) PROVE RoomInv'
  <2>1. /\ view \in [Sessions -> Nat] /\ Len(log) \in Nat
        /\ \A t \in Sessions : view[t] <= Len(log)
    BY DEF RoomInv, TypeOK, NothingAhead
  <2>2. view' = [view EXCEPT ![s] = Len(log)]
    BY <1>1 DEF Join, revision
  <2>3. \A t \in Sessions : view'[t] >= view[t] /\ view'[t] <= Len(log)
    BY <2>1, <2>2
  <2>4. NothingAhead'
    BY <1>1, <2>3 DEF Join, RoomInv, NothingAhead
  <2> QED
    BY <1>1, <2>3, <2>4, QuietStep DEF Join
<1>2. ASSUME Dispose(s) \/ ChannelUp(s) \/ ChannelDown(s) \/ ChannelConnecting(s)
      PROVE  RoomInv'
  <2>1. UNCHANGED <<view, reloaded, roomState>>
    BY <1>2 DEF Dispose, ChannelUp, ChannelDown, ChannelConnecting
  <2> QED
    BY <2>1, StillViews, QuietStep
<1>3. ASSUME NEW r \in Requests, Submit(s, r) PROVE RoomInv'
  BY <1>3, SubmitStep
<1>4. ASSUME NEW n \in 1..revision, Notice(s, n) PROVE RoomInv'
  <2>1. UNCHANGED <<view, roomState>>
    BY <1>4 DEF Notice
  <2>2. \A t \in Sessions : reloaded'[t] = None \/ reloaded'[t] = reloaded[t]
    <3>1. CASE n <= view[s]
      BY <1>4, <3>1 DEF Notice
    <3>2. CASE ~(n <= view[s]) /\ target[s] # None
      BY <1>4, <3>2 DEF Notice
    <3>3. CASE ~(n <= view[s]) /\ target[s] = None
      <4>1. reloaded' = [reloaded EXCEPT ![s] = None]
        BY <1>4, <3>3 DEF Notice
      <4> QED
        BY <4>1 DEF RoomInv, TypeOK
    <3> QED
      BY <3>1, <3>2, <3>3
  <2> QED
    BY <2>1, <2>2, StillViews, QuietStep
<1>5. ASSUME NEW n \in 1..revision, LoseNotice(s, n) PROVE RoomInv'
  <2>1. UNCHANGED <<view, reloaded, roomState>>
    BY <1>5 DEF LoseNotice
  <2> QED
    BY <2>1, StillViews, QuietStep
<1>6. ASSUME ReadReload(s) PROVE RoomInv'
  <2>1. UNCHANGED <<view, roomState>> /\ reloaded' = [reloaded EXCEPT ![s] = Len(log)]
    BY <1>6 DEF ReadReload, revision
  <2>2. /\ view \in [Sessions -> Nat] /\ reloaded \in [Sessions -> Nat \union {None}]
        /\ Len(log) \in Nat
    BY DEF RoomInv, TypeOK
  <2>3. \A t \in Sessions : view'[t] >= view[t]
    BY <2>1, <2>2
  <2>4. \A t \in Sessions : reloaded'[t] = Len(log) \/ reloaded'[t] = reloaded[t]
    BY <2>1, <2>2
  <2>5. NothingAhead'
    BY <2>1, <2>2, <2>4 DEF RoomInv, NothingAhead
  <2> QED
    BY <2>1, <2>3, <2>5, QuietStep
<1>7. ASSUME FinishReload(s) PROVE RoomInv'
  <2>1. UNCHANGED roomState
    BY <1>7 DEF FinishReload, FinishFrame
  <2>2. NothingAhead'
    BY <1>7, <2>1, FinishGrows DEF RoomInv, NothingAhead
  <2> QED
    BY <1>7, <2>1, <2>2, FinishGrows, QuietStep
<1>8. ASSUME ReloadFails(s) PROVE RoomInv'
  <2>1. UNCHANGED <<view, roomState>> /\ reloaded' = [reloaded EXCEPT ![s] = None]
    BY <1>8 DEF ReloadFails, StopReload
  <2>2. \A t \in Sessions : reloaded'[t] = None \/ reloaded'[t] = reloaded[t]
    BY <2>1 DEF RoomInv, TypeOK
  <2> QED
    BY <2>1, <2>2, StillViews, QuietStep
<1> QED
  BY <1>1, <1>2, <1>3, <1>4, <1>5, <1>6, <1>7, <1>8 DEF SessionStep

LEMMA RoomInvStep == RoomInv /\ [Next]_vars => RoomInv'
<1> SUFFICES ASSUME RoomInv, [Next]_vars PROVE RoomInv'
  OBVIOUS
<1>1. TypeOK'
  BY TypeStep DEF RoomInv
<1>2. CASE UNCHANGED vars
  <2>1. UNCHANGED <<view, reloaded, roomState>>
    BY <1>2 DEF vars, roomVars, sessionVars, reloadVars, roomState
  <2> QED
    BY <1>1, <2>1, StillViews, QuietStep DEF roomState
<1>3. CASE Next
  BY <1>1, <1>3, RequestStepInv, SessionStepInv DEF Next
<1> QED
  BY <1>2, <1>3

THEOREM RoomInvariant == Spec => []RoomInv
<1> QED
  BY RoomInvInit, RoomInvStep, PTL DEF Spec

-----------------------------------------------------------------------------
(* What it gives.                                                          *)

(* Each command of the durable log was made for exactly the revision it    *)
(* extends, whatever the sessions, the service and the network do.         *)
THEOREM CommitsMeetTheirCanvas == Spec => []CommandsMeetTheirCanvas
<1>1. RoomInv => CommandsMeetTheirCanvas
  BY DEF RoomInv
<1> QED
  BY <1>1, RoomInvariant, PTL

(* A command that was acknowledged is in the durable log, at the revision  *)
(* its author was shown.                                                   *)
THEOREM AcksAreDurable == Spec => []AckIsDurable
<1>1. RoomInv => AckIsDurable
  <2> SUFFICES ASSUME RoomInv, NEW r \in Requests, result[r] = "ok"
      PROVE  revision > base[r] /\ log[base[r] + 1] = r /\ view[owner[r]] > base[r]
    BY DEF AckIsDurable
  <2>1. Committed(r) /\ view[owner[r]] > base[r]
    BY DEF RoomInv, CommittedIsLogged, AckShown
  <2>2. base[r] \in Nat /\ Len(log) \in Nat
    BY DEF RoomInv, TypeOK
  <2> QED
    BY <2>1, <2>2 DEF Committed, revision
<1> QED
  BY <1>1, RoomInvariant, PTL

(* A command whose caller was told it was refused is not, and will never   *)
(* be, in the durable log.                                                 *)
THEOREM RefusalsAreFinal == Spec => []RefusedIsNotCommitted
<1>1. RoomInv => RefusedIsNotCommitted
  BY DEF RoomInv, RefusedIsOut, RefusedIsNotCommitted, InLog
<1> QED
  BY <1>1, RoomInvariant, PTL

(* No session ever goes back to an older canvas, although reloads and      *)
(* command responses overtake each other.                                  *)
THEOREM ViewsOnlyGrow == Spec => ViewNeverRegresses
<1>1. RoomInv /\ [Next]_vars => [\A s \in Sessions : view'[s] >= view[s]]_vars
  <2> SUFFICES ASSUME RoomInv, Next PROVE \A s \in Sessions : view'[s] >= view[s]
    OBVIOUS
  <2> USE DEF roomVars, sessionVars, reloadVars, channelVars
  <2>0. view \in [Sessions -> Nat] /\ Len(log) \in Nat
    BY DEF RoomInv, TypeOK
  <2>1. ASSUME NEW r \in Requests, ServiceStep(r) PROVE UNCHANGED view
    BY <2>1 DEF ServiceStep, LoadForCommand, RefuseCommand, LoadUnavailable, CommitCommand,
                CommitUnknown, VerifyCommit, LoseRequest, Answer
  <2>2. ASSUME NEW r \in Requests, HandleReply(r)
        PROVE  \A s \in Sessions : view'[s] >= view[s]
    BY <2>2, ReplyGrows
  <2>3. ASSUME NEW r \in Requests, NoAnswer(r) PROVE UNCHANGED view
    BY <2>3 DEF NoAnswer
  <2>4. ASSUME NEW t \in Sessions, SessionStep(t)
        PROVE  \A s \in Sessions : view'[s] >= view[s]
    <3>1. ASSUME Join(t) PROVE \A s \in Sessions : view'[s] >= view[s]
      <4>1. view' = [view EXCEPT ![t] = Len(log)] /\ view[t] <= Len(log)
        BY <3>1 DEF Join, revision, RoomInv, NothingAhead
      <4> QED
        BY <2>0, <4>1
    <3>2. CASE FinishReload(t)
      BY <3>2, FinishGrows
    <3>3. CASE UNCHANGED view
      BY <2>0, <3>3
    <3> QED
      BY <2>4, <3>1, <3>2, <3>3
         DEF SessionStep, Dispose, ChannelUp, ChannelDown, ChannelConnecting, Submit,
             Notice, LoseNotice, ReadReload, ReloadFails
  <2> QED
    BY <2>0, <2>1, <2>2, <2>3, <2>4 DEF Next
<1> QED
  BY <1>1, RoomInvariant, PTL DEF Spec, ViewNeverRegresses

(* A disposed session hears nothing: its channel is closed and what was on *)
(* its way over it is gone.                                                *)
DisposedHearsNothing ==
  \A s \in Sessions : disposed[s] => ~connected[s] /\ notices[s] = {}

LEMMA DeafStep == TypeOK /\ DisposedHearsNothing /\ [Next]_vars => DisposedHearsNothing'
<1> SUFFICES ASSUME TypeOK, DisposedHearsNothing, [Next]_vars PROVE DisposedHearsNothing'
  OBVIOUS
<1> USE DEF roomVars, sessionVars, reloadVars, channelVars
<1>1. CASE UNCHANGED <<disposed, connected, notices>>
  BY <1>1 DEF DisposedHearsNothing
<1>2. ASSUME NEW r \in Requests, Write(r), UNCHANGED disposed PROVE DisposedHearsNothing'
  BY <1>2 DEF Write, DisposedHearsNothing, TypeOK
<1>3. ASSUME NEW r \in Requests, ServiceStep(r) PROVE DisposedHearsNothing'
  <2>1. CASE LoadForCommand(r) \/ RefuseCommand(r) \/ LoadUnavailable(r) \/ VerifyCommit(r)
             \/ LoseRequest(r)
    BY <1>1, <2>1
       DEF LoadForCommand, RefuseCommand, LoadUnavailable, VerifyCommit, LoseRequest, Answer
  <2>2. CASE CommitCommand(r)
    BY <1>1, <1>2, <2>2 DEF CommitCommand, Answer
  <2>3. CASE CommitUnknown(r)
    BY <1>1, <1>2, <2>3 DEF CommitUnknown, Answer
  <2> QED
    BY <1>3, <2>1, <2>2, <2>3 DEF ServiceStep
<1>4. ASSUME NEW r \in Requests, HandleReply(r) \/ NoAnswer(r) PROVE DisposedHearsNothing'
  BY <1>1, <1>4 DEF HandleReply, NoAnswer, Settle
<1>5. ASSUME NEW t \in Sessions, SessionStep(t) PROVE DisposedHearsNothing'
  <2>1. CASE Dispose(t)
    BY <2>1 DEF Dispose, DisposedHearsNothing, TypeOK
  <2>2. CASE ChannelUp(t) \/ ChannelDown(t)
    BY <2>2, ZenonT(40) DEF ChannelUp, ChannelDown, Live, DisposedHearsNothing, TypeOK
  <2>3. ASSUME NEW n \in 1..revision, Notice(t, n) \/ LoseNotice(t, n)
        PROVE  DisposedHearsNothing'
    BY <2>3 DEF Notice, LoseNotice, DisposedHearsNothing, TypeOK
  <2>4. CASE \/ Join(t) \/ ChannelConnecting(t) \/ (\E r \in Requests : Submit(t, r))
             \/ ReadReload(t) \/ FinishReload(t) \/ ReloadFails(t)
    BY <1>1, <2>4
       DEF Join, ChannelConnecting, Submit, ReadReload, FinishReload, FinishFrame, ReloadFails
  <2> QED
    BY <1>5, <2>1, <2>2, <2>3, <2>4 DEF SessionStep
<1> QED
  BY <1>1, <1>3, <1>4, <1>5 DEF Next, vars

(* Disposal is final: no answer, reload, broadcast or channel event that   *)
(* comes after it changes what the session shows.                          *)
THEOREM DisposalIsFinal == Spec => DisposedIsSilent
<1> DEFINE Silent ==
      \A s \in Sessions : disposed[s] =>
        view'[s] = view[s] /\ pending'[s] = pending[s] /\ status'[s] = status[s]
<1>1. Init => DisposedHearsNothing
  BY DEF Init, DisposedHearsNothing
<1>2. Spec => [](TypeOK /\ DisposedHearsNothing)
  BY <1>1, TypeCorrect, DeafStep, PTL DEF Spec
<1>3. TypeOK /\ DisposedHearsNothing /\ [Next]_vars => [Silent]_vars
  <2> SUFFICES ASSUME TypeOK, DisposedHearsNothing, Next PROVE Silent
    OBVIOUS
  <2> USE DEF roomVars, sessionVars, reloadVars, channelVars
  <2>1. CASE UNCHANGED <<view, pending, status>>
    BY <2>1
  <2>2. ASSUME NEW r \in Requests, ServiceStep(r) PROVE Silent
    BY <2>1, <2>2 DEF ServiceStep, LoadForCommand, RefuseCommand, LoadUnavailable,
                      CommitCommand, CommitUnknown, VerifyCommit, LoseRequest, Answer
  <2>3. ASSUME NEW r \in Requests, NoAnswer(r) PROVE Silent
    BY <2>1, <2>3 DEF NoAnswer, Settle
  <2>4. ASSUME NEW r \in Requests, HandleReply(r) PROVE Silent
    <3>1. UNCHANGED status
      BY <2>4 DEF HandleReply, Settle
    <3>2. CASE disposed[owner[r]]
      <4>1. OutcomeOf(r) = "session_disposed"
        BY <3>2 DEF OutcomeOf
      <4> QED
        BY <2>1, <2>4, <3>1, <4>1 DEF HandleReply, Adopt
    <3>3. CASE ~disposed[owner[r]]
      BY <2>4, <3>1, <3>3 DEF HandleReply, Adopt, TypeOK
    <3> QED
      BY <3>2, <3>3
  <2>5. ASSUME NEW t \in Sessions, SessionStep(t) PROVE Silent
    <3>1. CASE Join(t)
      BY <3>1 DEF Join, TypeOK
    <3>2. CASE Dispose(t)
      BY <3>2 DEF Dispose, TypeOK
    <3>3. CASE ChannelUp(t) \/ ChannelDown(t) \/ ChannelConnecting(t)
      BY <3>3 DEF ChannelUp, ChannelDown, ChannelConnecting, Live, TypeOK
    <3>4. ASSUME NEW n \in 1..revision, Notice(t, n) PROVE Silent
      <4>1. ~disposed[t] /\ UNCHANGED <<view, status>>
        BY <3>4 DEF Notice, DisposedHearsNothing
      <4>2. \A s \in Sessions \ {t} : pending'[s] = pending[s]
        BY <3>4 DEF Notice, TypeOK
      <4> QED
        BY <4>1, <4>2
    <3>5. CASE FinishReload(t)
      <4>1. CASE disposed[t]
        BY <2>1, <3>5, <4>1 DEF FinishReload, FinishFrame, Degrade
      <4>2. CASE ~disposed[t]
        <5>1. UNCHANGED pending
          BY <3>5 DEF FinishReload, FinishFrame
        <5>2. \A s \in Sessions \ {t} : view'[s] = view[s] /\ status'[s] = status[s]
          BY <3>5, <4>2 DEF FinishReload, Degrade, TypeOK
        <5> QED
          BY <4>2, <5>1, <5>2
      <4> QED
        BY <4>1, <4>2
    <3>6. CASE ReloadFails(t)
      BY <3>6 DEF ReloadFails, Degrade, TypeOK
    <3>7. CASE \/ ReadReload(t) \/ (\E r \in Requests : Submit(t, r))
               \/ (\E n \in 1..revision : LoseNotice(t, n))
      BY <2>1, <3>7 DEF ReadReload, Submit, LoseNotice
    <3> QED
      BY <2>5, <3>1, <3>2, <3>3, <3>4, <3>5, <3>6, <3>7 DEF SessionStep
  <2> QED
    BY <2>2, <2>3, <2>4, <2>5 DEF Next
<1> QED
  BY <1>2, <1>3, PTL DEF Spec, DisposedIsSilent
==============================================================================
