----------------------------- MODULE SharedRoom -----------------------------
(***************************************************************************)
(* One shared room: browser sessions (lib/demo/room-session.ts) that       *)
(* submit commands and follow the room, the room service that loads,       *)
(* plans, commits and reloads for each command                             *)
(* (lib/supabase/room-service.ts), the database's compare-and-set commit   *)
(* and its revision broadcast (supabase/migrations).                       *)
(*                                                                         *)
(* Abstracted data: a canvas is the revision it is at, because             *)
(* ImplementsAtomicLoad (CanvasLoad) shows that a load hands out one whole *)
(* revision; a command is its request identifier; planning                 *)
(* (CommandEngine) accepts or refuses.                                     *)
(***************************************************************************)
EXTENDS Integers, Sequences

CONSTANTS
  Sessions,     \* browser sessions
  Requests,     \* command identifiers; each is used for one submission
  None

VARIABLES
  log,          \* request committed at each revision; rooms.revision = Len(log)
  \* what each request is doing
  owner,        \* the session that submitted it, None before
  base,         \* its baseRevision
  stage,        \* where the service is with it
  reply,        \* the answer on its way back, None if there is none
  result,       \* what submitCommand returned to its caller, None before
  \* each session
  status,       \* snapshot.status
  disposed,
  view,         \* snapshot.state.revision, also the revision of its canvas store
  pending,      \* pendingRevision
  command,      \* the request commandWork waits for, None if it is null
  target,       \* revision the running reload is after, None if revisionWork is null
  reloadFrom,   \* beforeRevision of the running reload
  reloaded,     \* revision the running reload has read, None before
  \* the realtime channel
  connected,
  notices       \* broadcast revisions not yet delivered

roomVars    == <<owner, base, stage, reply>>
sessionVars == <<status, disposed, view, pending, command>>
reloadVars  == <<target, reloadFrom, reloaded>>
channelVars == <<connected, notices>>
vars == <<log, roomVars, result, sessionVars, reloadVars, channelVars>>

revision == Len(log)

(* Answers given before anything was written.                              *)
Definite == {"stale_revision", "command_conflict", "command_refused"}

Replies == Definite \union
           {"ok", "mutation_unavailable", "invalid_persisted_state", "room_unavailable"}

Results == Replies \union
           {"command_cancelled", "command_unavailable", "canvas_hydration_refused",
            "session_disposed"}

ASSUME RoomAssumption == None \notin Sessions \union Requests \union Int \union Results

MaxOf(m, n) == IF m >= n THEN m ELSE n

-----------------------------------------------------------------------------
(* A session comes and goes.                                               *)

(* start: the first load is hydrated before the channel is opened.         *)
Join(s) ==
  /\ status[s] = "idle"
  /\ ~disposed[s]
  /\ status' = [status EXCEPT ![s] = "connecting"]
  /\ view' = [view EXCEPT ![s] = revision]
  /\ pending' = [pending EXCEPT ![s] = revision]
  /\ UNCHANGED <<log, roomVars, result, disposed, command, reloadVars, channelVars>>

Dispose(s) ==
  /\ ~disposed[s]
  /\ disposed' = [disposed EXCEPT ![s] = TRUE]
  /\ status' = [status EXCEPT ![s] = "disposed"]
  /\ connected' = [connected EXCEPT ![s] = FALSE]
  /\ notices' = [notices EXCEPT ![s] = {}]
  /\ UNCHANGED <<log, roomVars, result, view, pending, command, reloadVars>>

Live(s) == ~disposed[s] /\ status[s] # "idle"

ChannelUp(s) ==
  /\ Live(s)
  /\ ~connected[s]
  /\ connected' = [connected EXCEPT ![s] = TRUE]
  /\ status' = [status EXCEPT ![s] = "ready"]
  /\ UNCHANGED <<log, roomVars, result, disposed, view, pending, command,
                 reloadVars, notices>>

(* Whatever was on its way over the channel is gone with it.               *)
ChannelDown(s) ==
  /\ Live(s)
  /\ connected[s]
  /\ connected' = [connected EXCEPT ![s] = FALSE]
  /\ notices' = [notices EXCEPT ![s] = {}]
  /\ status' = [status EXCEPT ![s] = "degraded"]
  /\ UNCHANGED <<log, roomVars, result, disposed, view, pending, command, reloadVars>>

ChannelConnecting(s) ==
  /\ Live(s)
  /\ ~connected[s]
  /\ status' = [status EXCEPT ![s] = "connecting"]
  /\ UNCHANGED <<log, roomVars, result, disposed, view, pending, command,
                 reloadVars, channelVars>>

-----------------------------------------------------------------------------
(* Submitting a command, and the service working on it.                    *)

Submit(s, r) ==
  /\ Live(s)
  /\ command[s] = None
  /\ owner[r] = None
  /\ owner' = [owner EXCEPT ![r] = s]
  /\ base' = [base EXCEPT ![r] = view[s]]
  /\ stage' = [stage EXCEPT ![r] = "sent"]
  /\ command' = [command EXCEPT ![s] = r]
  /\ UNCHANGED <<log, reply, result, status, disposed, view, pending,
                 reloadVars, channelVars>>

Answer(r, code) ==
  /\ stage' = [stage EXCEPT ![r] = "answered"]
  /\ reply' = [reply EXCEPT ![r] = code]
  /\ UNCHANGED <<owner, base, result, sessionVars, reloadVars>>

(* The service's load, and the base revision held against it.              *)
LoadForCommand(r) ==
  /\ stage[r] = "sent"
  /\ \/ /\ base[r] = revision
        /\ stage' = [stage EXCEPT ![r] = "planned"]
        /\ UNCHANGED <<log, owner, base, reply, result, sessionVars, reloadVars, channelVars>>
     \/ /\ base[r] # revision
        /\ Answer(r, "stale_revision")
        /\ UNCHANGED <<log, channelVars>>

(* Membership, planning or a database guard turns the command down.        *)
RefuseCommand(r) ==
  /\ stage[r] \in {"sent", "planned"}
  /\ Answer(r, "command_refused")
  /\ UNCHANGED <<log, channelVars>>

(* The load before planning, or the one after committing, fails.           *)
LoadUnavailable(r) ==
  /\ stage[r] \in {"sent", "committed"}
  /\ Answer(r, "room_unavailable")
  /\ UNCHANGED <<log, channelVars>>

(* The database transaction: one row per revision, and a broadcast to every*)
(* member whose channel is up.                                             *)
Write(r) ==
  /\ log' = Append(log, r)
  /\ notices' = [s \in Sessions |-> IF connected[s] THEN notices[s] \union {revision + 1}
                                                    ELSE notices[s]]
  /\ UNCHANGED connected

(* Faulty variant: the expected revision is not compared under the lock.   *)
CommitCommandUnchecked(r) ==
  /\ stage[r] = "planned"
  /\ Write(r)
  /\ stage' = [stage EXCEPT ![r] = "committed"]
  /\ UNCHANGED <<owner, base, reply, result, sessionVars, reloadVars>>

(* commit_canvas_mutation_at_revision: the expected revision is compared   *)
(* under the room's lock.                                                  *)
CommitCommand(r) ==
  /\ stage[r] = "planned"
  /\ \/ /\ base[r] = revision
        /\ Write(r)
        /\ stage' = [stage EXCEPT ![r] = "committed"]
        /\ UNCHANGED <<owner, base, reply, result, sessionVars, reloadVars>>
     \/ /\ base[r] # revision
        /\ Answer(r, "command_conflict")
        /\ UNCHANGED <<log, channelVars>>

(* Faulty variant: a call whose answer was lost is reported as a conflict. *)
CommitAsConflict(r) ==
  /\ stage[r] = "planned"
  /\ \/ base[r] = revision /\ Write(r)
     \/ UNCHANGED <<log, channelVars>>
  /\ Answer(r, "command_conflict")

(* Faulty variant: a call whose answer was lost is taken to have worked.   *)
CommitAssumed(r) ==
  /\ stage[r] = "planned"
  /\ \/ base[r] = revision /\ Write(r)
     \/ UNCHANGED <<log, channelVars>>
  /\ Answer(r, "ok")

(* The call to the database throws, whether or not it took effect.         *)
CommitUnknown(r) ==
  /\ stage[r] = "planned"
  /\ \/ base[r] = revision /\ Write(r)
     \/ UNCHANGED <<log, channelVars>>
  /\ Answer(r, "mutation_unavailable")

(* The reload after the commit has to show the committed revision.         *)
VerifyCommit(r) ==
  /\ stage[r] = "committed"
  /\ Answer(r, IF revision = base[r] + 1 THEN "ok" ELSE "invalid_persisted_state")
  /\ UNCHANGED <<log, channelVars>>

(* The function instance dies under the request.                           *)
LoseRequest(r) ==
  /\ stage[r] \in {"sent", "planned", "committed"}
  /\ stage' = [stage EXCEPT ![r] = "lost"]
  /\ UNCHANGED <<log, owner, base, reply, result, sessionVars, reloadVars, channelVars>>

-----------------------------------------------------------------------------
(* The session's side of a command (commitAuthoritativeCommand).           *)

Waiting(r) == owner[r] # None /\ command[owner[r]] = r

(* Whatever the outcome, submitCommand's finally clears commandWork.       *)
Settle(r, outcome) ==
  /\ result' = [result EXCEPT ![r] = outcome]
  /\ command' = [command EXCEPT ![owner[r]] = None]
  /\ UNCHANGED <<log, roomVars, status, disposed, reloadVars, channelVars>>

(* The store refuses a canvas older than the one it shows.                 *)
Hydratable(s, n) == n >= view[s]

OutcomeOf(r) ==
  CASE disposed[owner[r]]                      -> "session_disposed"
    [] ~disposed[owner[r]] /\ reply[r] # "ok"  -> reply[r]
    [] OTHER -> IF Hydratable(owner[r], base[r] + 1) THEN "ok"
                                                     ELSE "canvas_hydration_refused"

Adopt(r) ==
  IF OutcomeOf(r) = "ok"
  THEN /\ view' = [view EXCEPT ![owner[r]] = base[r] + 1]
       /\ pending' = [pending EXCEPT ![owner[r]] = MaxOf(@, base[r] + 1)]
  ELSE UNCHANGED <<view, pending>>

(* Faulty variant: only a successful command clears commandWork.           *)
HandleReplyIfOk(r) ==
  /\ Waiting(r)
  /\ result[r] = None
  /\ reply[r] # None
  /\ Adopt(r)
  /\ result' = [result EXCEPT ![r] = OutcomeOf(r)]
  /\ command' = IF OutcomeOf(r) = "ok" THEN [command EXCEPT ![owner[r]] = None] ELSE command
  /\ UNCHANGED <<log, roomVars, status, disposed, reloadVars, channelVars>>

HandleReply(r) ==
  /\ Waiting(r)
  /\ result[r] = None
  /\ reply[r] # None
  /\ Adopt(r)
  /\ Settle(r, OutcomeOf(r))

(* The request throws or its caller aborts it; the service goes on.        *)
NoAnswer(r) ==
  /\ Waiting(r)
  /\ result[r] = None
  /\ \E outcome \in {"command_unavailable", "command_cancelled"} : Settle(r, outcome)
  /\ UNCHANGED <<view, pending>>

-----------------------------------------------------------------------------
(* Following the room (requestRevisionReload, reloadRequestedRevisions).   *)

Notice(s, n) ==
  /\ n \in notices[s]
  /\ notices' = [notices EXCEPT ![s] = @ \ {n}]
  /\ IF n <= view[s]
     THEN UNCHANGED <<pending, reloadVars>>
     ELSE /\ pending' = [pending EXCEPT ![s] = MaxOf(@, n)]
          /\ IF target[s] # None
             THEN UNCHANGED reloadVars
             ELSE /\ target' = [target EXCEPT ![s] = MaxOf(pending[s], n)]
                  /\ reloadFrom' = [reloadFrom EXCEPT ![s] = view[s]]
                  /\ reloaded' = [reloaded EXCEPT ![s] = None]
  /\ UNCHANGED <<log, roomVars, result, status, disposed, view, command, connected>>

(* Broadcast promises no delivery.                                         *)
LoseNotice(s, n) ==
  /\ n \in notices[s]
  /\ notices' = [notices EXCEPT ![s] = @ \ {n}]
  /\ UNCHANGED <<log, roomVars, result, sessionVars, reloadVars, connected>>

(* The one moment an atomic load stands for.                               *)
ReadReload(s) ==
  /\ target[s] # None
  /\ reloaded[s] = None
  /\ reloaded' = [reloaded EXCEPT ![s] = revision]
  /\ UNCHANGED <<log, roomVars, result, sessionVars, target, reloadFrom, channelVars>>

StopReload(s) ==
  /\ target' = [target EXCEPT ![s] = None]
  /\ reloadFrom' = [reloadFrom EXCEPT ![s] = 0]
  /\ reloaded' = [reloaded EXCEPT ![s] = None]

Degrade(s) ==
  status' = IF disposed[s] THEN status ELSE [status EXCEPT ![s] = "degraded"]

Newer(s)    == reloaded[s] > reloadFrom[s]
Refused(s)  == Newer(s) /\ ~Hydratable(s, reloaded[s])
Reached(s)  == IF Newer(s) THEN reloaded[s] ELSE view[s]
Failed(s)   == \/ reloaded[s] < reloadFrom[s]
               \/ Refused(s)
               \/ reloaded[s] < target[s] /\ pending[s] = target[s]

(* The loop's next turn, at the revision the session then shows.           *)
ReloadAgain(s, shown) ==
  IF shown < pending[s]
  THEN /\ target' = [target EXCEPT ![s] = pending[s]]
       /\ reloadFrom' = [reloadFrom EXCEPT ![s] = shown]
       /\ reloaded' = [reloaded EXCEPT ![s] = None]
  ELSE StopReload(s)

FinishFrame(s) ==
  /\ target[s] # None
  /\ reloaded[s] # None
  /\ UNCHANGED <<log, roomVars, result, disposed, pending, command, channelVars>>

(* Faulty variant: one load per request, whatever arrived meanwhile.       *)
FinishReloadOnce(s) ==
  /\ FinishFrame(s)
  /\ StopReload(s)
  /\ IF disposed[s] \/ Failed(s)
     THEN Degrade(s) /\ UNCHANGED view
     ELSE view' = [view EXCEPT ![s] = Reached(s)] /\ UNCHANGED status

(* Faulty variant: the store takes whatever was loaded.                    *)
FinishReloadUnguarded(s) ==
  /\ FinishFrame(s)
  /\ IF disposed[s]
     THEN StopReload(s) /\ UNCHANGED <<view, status>>
     ELSE /\ view' = [view EXCEPT ![s] = Reached(s)]
          /\ UNCHANGED status
          /\ ReloadAgain(s, Reached(s))

FinishReload(s) ==
  /\ FinishFrame(s)
  /\ IF disposed[s] \/ Failed(s)
     THEN StopReload(s) /\ Degrade(s) /\ UNCHANGED view
     ELSE /\ view' = [view EXCEPT ![s] = Reached(s)]
          /\ UNCHANGED status
          /\ ReloadAgain(s, Reached(s))

(* The load answers with an error.                                         *)
ReloadFails(s) ==
  /\ target[s] # None
  /\ StopReload(s)
  /\ Degrade(s)
  /\ UNCHANGED <<log, roomVars, result, disposed, view, pending, command, channelVars>>

-----------------------------------------------------------------------------
Init ==
  /\ log = << >>
  /\ owner = [r \in Requests |-> None]
  /\ base = [r \in Requests |-> 0]
  /\ stage = [r \in Requests |-> "new"]
  /\ reply = [r \in Requests |-> None]
  /\ result = [r \in Requests |-> None]
  /\ status = [s \in Sessions |-> "idle"]
  /\ disposed = [s \in Sessions |-> FALSE]
  /\ view = [s \in Sessions |-> 0]
  /\ pending = [s \in Sessions |-> 0]
  /\ command = [s \in Sessions |-> None]
  /\ target = [s \in Sessions |-> None]
  /\ reloadFrom = [s \in Sessions |-> 0]
  /\ reloaded = [s \in Sessions |-> None]
  /\ connected = [s \in Sessions |-> FALSE]
  /\ notices = [s \in Sessions |-> {}]

ServiceStep(r) ==
  \/ LoadForCommand(r)
  \/ RefuseCommand(r)
  \/ LoadUnavailable(r)
  \/ CommitCommand(r)
  \/ CommitUnknown(r)
  \/ VerifyCommit(r)
  \/ LoseRequest(r)

SessionStep(s) ==
  \/ Join(s)
  \/ Dispose(s)
  \/ ChannelUp(s)
  \/ ChannelDown(s)
  \/ ChannelConnecting(s)
  \/ \E r \in Requests : Submit(s, r)
  \/ \E n \in 1..revision : Notice(s, n) \/ LoseNotice(s, n)
  \/ ReadReload(s)
  \/ FinishReload(s)
  \/ ReloadFails(s)

Next ==
  \/ \E r \in Requests : ServiceStep(r) \/ HandleReply(r) \/ NoAnswer(r)
  \/ \E s \in Sessions : SessionStep(s)

(* A fetch settles, with an answer or an error, and so do the requests of  *)
(* a reload; nothing is assumed of people, of the channel or of the room   *)
(* service.                                                                *)
Fairness ==
  /\ \A r \in Requests : WF_vars(HandleReply(r) \/ NoAnswer(r))
  /\ \A s \in Sessions : WF_vars(ReadReload(s)) /\ WF_vars(FinishReload(s))

Spec == Init /\ [][Next]_vars

FairSpec == Spec /\ Fairness

-----------------------------------------------------------------------------
(* Every variable holds a value of its kind.                               *)
TypeOK ==
  /\ log \in Seq(Requests)
  /\ owner \in [Requests -> Sessions \union {None}]
  /\ base \in [Requests -> Nat]
  /\ stage \in [Requests -> {"new", "sent", "planned", "committed", "answered", "lost"}]
  /\ reply \in [Requests -> Replies \union {None}]
  /\ result \in [Requests -> Results \union {None}]
  /\ status \in [Sessions -> {"idle", "connecting", "ready", "degraded", "disposed"}]
  /\ disposed \in [Sessions -> BOOLEAN]
  /\ view \in [Sessions -> Nat]
  /\ pending \in [Sessions -> Nat]
  /\ command \in [Sessions -> Requests \union {None}]
  /\ target \in [Sessions -> Nat \union {None}]
  /\ reloadFrom \in [Sessions -> Nat]
  /\ reloaded \in [Sessions -> Nat \union {None}]
  /\ connected \in [Sessions -> BOOLEAN]
  /\ notices \in [Sessions -> SUBSET Nat]

(* A canvas a session shows is never replaced by an older one, although a  *)
(* reload and a commit response overtake each other freely (the revision   *)
(* guard of hydrateCanvas).                                                *)
ViewNeverRegresses == [][ \A s \in Sessions : view'[s] >= view[s] ]_vars

(* A command is applied to the very canvas its author was looking at: it   *)
(* commits as the next revision after its base, or not at all (expected    *)
(* revision of commit_canvas_mutation_at_revision).                        *)
CommandsMeetTheirCanvas ==
  \A n \in 1..Len(log) : base[log[n]] = n - 1

(* A caller that was told "ok" has its command in the durable log, once,   *)
(* and its session shows it (commitCommand's check of the reloaded canvas).*)
AckIsDurable ==
  \A r \in Requests : result[r] = "ok" =>
    /\ revision > base[r]
    /\ log[base[r] + 1] = r
    /\ view[owner[r]] > base[r]

(* An answer that says the command was turned down is never given for one  *)
(* that took effect, so retrying after it cannot apply the command twice   *)
(* (the codes the service keeps apart after the database call).            *)
RefusedIsNotCommitted ==
  \A r \in Requests : result[r] \in Definite =>
    \A n \in 1..Len(log) : log[n] # r

(* After dispose() nothing that was still in flight changes what the       *)
(* session shows (the disposed checks after every await).                  *)
DisposedIsSilent ==
  [][ \A s \in Sessions : disposed[s] =>
        view'[s] = view[s] /\ pending'[s] = pending[s] /\ status'[s] = status[s] ]_vars

(* Once a session reloads for a revision it heard of, it catches up with   *)
(* everything it heard of meanwhile or shows the degraded status           *)
(* (reloadRequestedRevisions).                                             *)
RevisionAppliedOrReported ==
  \A s \in Sessions : target[s] # None ~>
    view[s] >= pending[s] \/ status[s] = "degraded" \/ disposed[s]

(* The commandWork latch, which refuses every further command, is always   *)
(* released (submitCommand's finally).                                     *)
CommandSettles ==
  \A s \in Sessions : command[s] # None ~> command[s] = None

(* What the verification ledger says of an outage: "revision convergence   *)
(* resumed".  A session whose channel stays up shows the durable revision  *)
(* in the end, or says that it does not.  handleRealtimeStatus does not    *)
(* reload on "connected", and broadcasts missed while the channel was down *)
(* are not repeated.                                                       *)
ConnectedConverges ==
  \A s \in Sessions :
    <>[](connected[s] /\ ~disposed[s]) =>
      <>[](view[s] = revision \/ status[s] = "degraded")
==============================================================================
