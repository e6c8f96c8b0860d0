---------------------------- MODULE RoomRealtime ----------------------------
(***************************************************************************)
(* The realtime controller of one browser session                          *)
(* (lib/realtime/room-channel.ts): it keeps the room's private channel     *)
(* subscribed through failures, offline periods, the room's hard expiry    *)
(* and disposal.                                                           *)
(*                                                                         *)
(* A step runs the code between two awaits.  The controller's own          *)
(* variables are one record, so that scheduleRecovery and the functions    *)
(* around it are operators from a controller state to the next.  Delays    *)
(* are not modelled: a timer that is set may fire at any time.  Payloads   *)
(* (presence, cursors, revisions) are left out; SharedRoom has revisions.  *)
(***************************************************************************)
EXTENDS Integers, FiniteSets

CONSTANTS
  Channels,     \* channel objects of the realtime client; one may be used again
                \* once it is removed and none of its callbacks is outstanding
  MaxAttempts,  \* retry.maxAttempts
  NoChannel

VARIABLES
  ctl,          \* the controller's variables
  device,       \* the browser has a network connection (navigator.onLine)
  leaving,      \* channels that disposal has still to remove
  \* each channel object
  life,         \* "free", "open", "closed" (removed), "lost" (removal failed at disposal)
  terminal,     \* its subscription has failed
  track         \* its track call: "unstarted", "pending" or "done"

realtimeVars == <<ctl, device, leaving, life, terminal, track>>
objectVars == <<life, terminal, track>>

ASSUME RealtimeAssumption ==
  /\ MaxAttempts \in Nat
  /\ NoChannel \notin Channels

Failures == {"channel_error", "timed_out", "closed"}
Statuses == {"unstarted", "connecting", "connected"} \union Failures

(* fresh: no offline event since the channel was made, i.e. channelEpoch   *)
(* still is the channel's own epoch.  work: what reconnectWork awaits.     *)
Controllers ==
  [status: Statuses, channel: Channels \union {NoChannel}, fresh: BOOLEAN,
   removing: Channels \union {NoChannel}, online: BOOLEAN, needed: BOOLEAN,
   awaiting: BOOLEAN, attempts: 0..MaxAttempts, timer: BOOLEAN,
   work: {"none", "removal", "auth"}, again: BOOLEAN, atOnce: BOOLEAN,
   deadline: BOOLEAN, disposal: {"none", "waiting", "removing", "done"}]

isDisposed == ctl.disposal # "none"

Open == {c \in Channels : life[c] = "open"}

IsCurrent(c) == ~isDisposed /\ ctl.channel = c /\ ctl.fresh

-----------------------------------------------------------------------------
(* What the functions of the controller do to its variables.  They are     *)
(* used where it is not disposed of.                                       *)

Emit(r, status) == [r EXCEPT !.status = status]

(* establishChannel up to its await of setAuth.                            *)
Establishing(r) == [Emit(r, "connecting") EXCEPT !.work = "auth"]

(* Faulty variant: the channel is dropped before its removal has succeeded.*)
ReplaceForgetting(r) ==
  IF r.removing # NoChannel \/ r.channel # NoChannel
  THEN [r EXCEPT !.channel = NoChannel, !.work = "removal"]
  ELSE Establishing(r)

(* replaceFailedChannel up to its first await; a removal that failed       *)
(* before is retried first.                                                *)
Replace(r) ==
  IF r.removing # NoChannel THEN [r EXCEPT !.work = "removal"]
  ELSE IF r.channel # NoChannel
  THEN [r EXCEPT !.removing = r.channel, !.channel = NoChannel, !.work = "removal"]
  ELSE Establishing(r)

StartRecoveryAttempt(r) ==
  IF ~r.needed \/ ~r.online \/ r.work # "none" \/ r.awaiting
  THEN r
  ELSE Replace([r EXCEPT !.awaiting = TRUE, !.attempts = @ + 1])

(* There is nothing to schedule, or something is waited for.               *)
NothingToSchedule(r) == ~r.needed \/ ~r.online \/ r.awaiting

(* Faulty variants: a retry is forgotten while another attempt is under    *)
(* way; the attempts are not counted.                                      *)
ScheduleRecoveryUnlessBusy(r, immediate) ==
  IF NothingToSchedule(r) \/ r.work # "none" \/ (r.timer /\ ~immediate) THEN r
  ELSE IF r.attempts >= MaxAttempts THEN [r EXCEPT !.timer = FALSE]
  ELSE IF immediate THEN StartRecoveryAttempt([r EXCEPT !.timer = FALSE])
  ELSE [r EXCEPT !.timer = TRUE]

ScheduleRecovery(r, immediate) ==
  IF NothingToSchedule(r) THEN r
  ELSE IF r.work # "none" THEN [r EXCEPT !.again = TRUE, !.atOnce = @ \/ immediate]
  ELSE IF r.timer /\ ~immediate THEN r
  ELSE IF r.attempts >= MaxAttempts THEN [r EXCEPT !.timer = FALSE]
  ELSE IF immediate THEN StartRecoveryAttempt([r EXCEPT !.timer = FALSE])
  ELSE [r EXCEPT !.timer = TRUE]

RequestRecovery(r, status) ==
  ScheduleRecovery([Emit(r, status) EXCEPT !.needed = TRUE, !.awaiting = FALSE], FALSE)

(* Faulty variant: a failed attempt is still waited for.                   *)
SettleAwaiting(r, ok) ==
  LET ended == [r EXCEPT !.work = "none", !.again = FALSE, !.atOnce = FALSE] IN
  IF isDisposed THEN ended
  ELSE IF ~ok
  THEN ScheduleRecovery([Emit(ended, "channel_error") EXCEPT !.needed = TRUE], r.atOnce)
  ELSE IF r.again THEN ScheduleRecovery(ended, r.atOnce) ELSE ended

(* The handler of a finished reconnectWork.                                *)
SettleWork(r, ok) ==
  LET ended == [r EXCEPT !.work = "none", !.again = FALSE, !.atOnce = FALSE] IN
  IF isDisposed THEN ended
  ELSE IF ~ok
  THEN ScheduleRecovery([Emit(ended, "channel_error") EXCEPT
                           !.needed = TRUE, !.awaiting = FALSE], r.atOnce)
  ELSE IF r.again THEN ScheduleRecovery(ended, r.atOnce) ELSE ended

DisposeNow(r) ==
  [r EXCEPT !.disposal = "waiting", !.needed = FALSE, !.awaiting = FALSE,
            !.again = FALSE, !.atOnce = FALSE, !.timer = FALSE, !.deadline = FALSE]

-----------------------------------------------------------------------------
(* Connecting and reconnecting.                                            *)

(* The session connects the controller as soon as it has made it.  A room  *)
(* that has expired is not subscribed to; one that expires while the timer *)
(* is set is disposed of, and setAuth is called all the same.              *)
Connect ==
  /\ ctl.status = "unstarted"
  /\ \/ \E deadline \in BOOLEAN :
          ctl' = [Establishing(ctl) EXCEPT !.deadline = deadline]
     \/ ctl' = DisposeNow(Emit(ctl, "closed"))
     \/ ctl' = [DisposeNow(Emit(ctl, "closed")) EXCEPT !.work = "auth",
                                                       !.disposal = "removing"]
  /\ UNCHANGED <<device, leaving, objectVars>>

AuthRefused ==
  /\ ctl.work = "auth"
  /\ ctl' = SettleWork(ctl, FALSE)
  /\ UNCHANGED <<device, leaving, objectVars>>

(* A channel is made, unless the controller was disposed of meanwhile, and *)
(* may report its failure from within subscribe.                           *)
Establish ==
  /\ ctl.work = "auth"
  /\ ~isDisposed
  /\ \E c \in Channels :
       /\ life[c] = "free"
       /\ life' = [life EXCEPT ![c] = "open"]
       /\ track' = [track EXCEPT ![c] = "unstarted"]
       /\ LET made == [ctl EXCEPT !.channel = c, !.fresh = TRUE] IN
          \/ /\ ctl' = SettleWork(made, TRUE)
             /\ terminal' = [terminal EXCEPT ![c] = FALSE]
          \/ \E status \in Failures :
               /\ ctl' = SettleWork(RequestRecovery(made, status), TRUE)
               /\ terminal' = [terminal EXCEPT ![c] = TRUE]
  /\ UNCHANGED <<device, leaving>>

(* Faulty variant: a channel is made although the controller has been      *)
(* disposed of.                                                            *)
EstablishAnyway ==
  /\ ctl.work = "auth"
  /\ isDisposed
  /\ ctl' = SettleWork(ctl, TRUE)
  /\ \E c \in Channels : life[c] = "free" /\ life' = [life EXCEPT ![c] = "open"]
  /\ UNCHANGED <<device, leaving, terminal, track>>

EstablishDisposed ==
  /\ ctl.work = "auth"
  /\ isDisposed
  /\ ctl' = SettleWork(ctl, TRUE)
  /\ UNCHANGED <<device, leaving, objectVars>>

(* The failed channel is removed, and replaced at once.                    *)
RemoveFailed ==
  /\ ctl.work = "removal"
  /\ life' = [c \in Channels |-> IF c = ctl.removing THEN "closed" ELSE life[c]]
  /\ LET removed == [ctl EXCEPT !.removing = NoChannel] IN
     ctl' = IF isDisposed THEN SettleWork(removed, TRUE) ELSE Establishing(removed)
  /\ UNCHANGED <<device, leaving, terminal, track>>

RemovalFails ==
  /\ ctl.work = "removal"
  /\ ctl' = SettleWork(ctl, FALSE)
  /\ UNCHANGED <<device, leaving, objectVars>>

TimerFires ==
  /\ ctl.timer
  /\ ctl' = StartRecoveryAttempt([ctl EXCEPT !.timer = FALSE])
  /\ UNCHANGED <<device, leaving, objectVars>>

-----------------------------------------------------------------------------
(* Callbacks of a channel; those of a channel that is not current, or has  *)
(* failed, do nothing.                                                     *)

Subscribed(c) ==
  /\ IsCurrent(c)
  /\ ~terminal[c]
  /\ track[c] = "unstarted"
  /\ track' = [track EXCEPT ![c] = "pending"]
  /\ UNCHANGED <<ctl, device, leaving, life, terminal>>

SubscriptionFails(c) ==
  /\ IsCurrent(c)
  /\ \E status \in Failures : ctl' = RequestRecovery(ctl, status)
  /\ terminal' = [terminal EXCEPT ![c] = TRUE]
  /\ UNCHANGED <<device, leaving, life, track>>

Connected(r) ==
  [Emit(r, "connected") EXCEPT !.needed = FALSE, !.awaiting = FALSE,
                               !.attempts = 0, !.timer = FALSE]

(* Faulty variant: whichever channel was tracked counts.                   *)
TrackedAnyChannel(c) ==
  /\ track[c] = "pending"
  /\ track' = [track EXCEPT ![c] = "done"]
  /\ ctl' = IF ~isDisposed /\ ~terminal[c] THEN Connected(ctl) ELSE ctl
  /\ UNCHANGED <<device, leaving, life, terminal>>

Tracked(c) ==
  /\ track[c] = "pending"
  /\ track' = [track EXCEPT ![c] = "done"]
  /\ ctl' = IF IsCurrent(c) /\ ~terminal[c] THEN Connected(ctl) ELSE ctl
  /\ UNCHANGED <<device, leaving, life, terminal>>

TrackFails(c) ==
  /\ track[c] = "pending"
  /\ track' = [track EXCEPT ![c] = "done"]
  /\ IF IsCurrent(c) /\ ~terminal[c]
     THEN /\ ctl' = RequestRecovery(ctl, "channel_error")
          /\ terminal' = [terminal EXCEPT ![c] = TRUE]
     ELSE UNCHANGED <<ctl, terminal>>
  /\ UNCHANGED <<device, leaving, life>>

(* A removed channel none of whose callbacks is outstanding.               *)
Forget(c) ==
  /\ life[c] = "closed"
  /\ track[c] # "pending"
  /\ life' = [life EXCEPT ![c] = "free"]
  /\ UNCHANGED <<ctl, device, leaving, terminal, track>>

-----------------------------------------------------------------------------
(* Connectivity events, heard from connect to dispose.                     *)

Listening == ctl.status # "unstarted" /\ ~isDisposed

GoOffline ==
  /\ Listening
  /\ device
  /\ device' = FALSE
  /\ ctl' = [Emit(ctl, "channel_error") EXCEPT
               !.online = FALSE, !.fresh = FALSE, !.needed = TRUE, !.awaiting = FALSE,
               !.again = FALSE, !.atOnce = FALSE, !.timer = FALSE]
  /\ UNCHANGED <<leaving, objectVars>>

GoOnline ==
  /\ Listening
  /\ ~device
  /\ device' = TRUE
  /\ ctl' = IF ctl.needed
            THEN ScheduleRecovery([ctl EXCEPT !.online = TRUE, !.attempts = 0], TRUE)
            ELSE ctl
  /\ UNCHANGED <<leaving, objectVars>>

-----------------------------------------------------------------------------
(* Disposal: by the session, or at the room's hard expiry.                 *)

DisposeController ==
  /\ Listening
  /\ ctl' = DisposeNow(ctl)
  /\ UNCHANGED <<device, leaving, objectVars>>

Expire ==
  /\ ctl.deadline
  /\ ctl' = DisposeNow(Emit(ctl, "closed"))
  /\ UNCHANGED <<device, leaving, objectVars>>

(* Faulty variant: the channel whose removal failed is forgotten.          *)
TakeCurrentChannel ==
  /\ leaving' = {ctl.channel} \ {NoChannel}
  /\ ctl' = [ctl EXCEPT !.channel = NoChannel, !.removing = NoChannel, !.disposal = "removing"]
  /\ UNCHANGED <<device, objectVars>>

TakeChannels ==
  /\ leaving' = {ctl.channel, ctl.removing} \ {NoChannel}
  /\ ctl' = [ctl EXCEPT !.channel = NoChannel, !.removing = NoChannel, !.disposal = "removing"]
  /\ UNCHANGED <<device, objectVars>>

BeginRemoval ==
  /\ ctl.disposal = "waiting"
  /\ ctl.work = "none"
  /\ TakeChannels

(* A channel whose removal fails is given up.                              *)
RemoveAtDisposal(c) ==
  /\ c \in leaving
  /\ leaving' = leaving \ {c}
  /\ \E end \in {"closed", "lost"} : life' = [life EXCEPT ![c] = end]
  /\ UNCHANGED <<ctl, device, terminal, track>>

FinishDisposal ==
  /\ ctl.disposal = "removing"
  /\ leaving = {}
  /\ ctl' = [ctl EXCEPT !.disposal = "done"]
  /\ UNCHANGED <<device, leaving, objectVars>>

-----------------------------------------------------------------------------
RealtimeInit ==
  /\ device \in BOOLEAN
  /\ ctl = [status |-> "unstarted", channel |-> NoChannel, fresh |-> TRUE, removing |-> NoChannel,
            online |-> device, needed |-> FALSE, awaiting |-> FALSE, attempts |-> 0,
            timer |-> FALSE, work |-> "none", again |-> FALSE, atOnce |-> FALSE,
            deadline |-> FALSE, disposal |-> "none"]
  /\ leaving = {}
  /\ life = [c \in Channels |-> "free"]
  /\ terminal = [c \in Channels |-> FALSE]
  /\ track = [c \in Channels |-> "unstarted"]

WorkStep == AuthRefused \/ Establish \/ EstablishDisposed \/ RemoveFailed \/ RemovalFails

ChannelStep(c) ==
  Subscribed(c) \/ SubscriptionFails(c) \/ Tracked(c) \/ TrackFails(c) \/ Forget(c)

DisposalStep ==
  BeginRemoval \/ FinishDisposal \/ \E c \in Channels : RemoveAtDisposal(c)

RealtimeNext ==
  \/ Connect
  \/ WorkStep
  \/ TimerFires
  \/ \E c \in Channels : ChannelStep(c)
  \/ GoOffline \/ GoOnline
  \/ DisposeController \/ Expire
  \/ DisposalStep

RealtimeSpec == RealtimeInit /\ [][RealtimeNext]_realtimeVars

(* Promises of the client settle: requests have timeouts, timers fire, and *)
(* a subscription that is waited for reports one way or the other.         *)
Reported(c) == ctl.awaiting /\ (Subscribed(c) \/ SubscriptionFails(c))

RealtimeFairness ==
  /\ WF_realtimeVars(WorkStep)
  /\ WF_realtimeVars(TimerFires)
  /\ WF_realtimeVars(DisposalStep)
  /\ \A c \in Channels : /\ WF_realtimeVars(Reported(c))
                         /\ WF_realtimeVars(Tracked(c) \/ TrackFails(c))
                         /\ WF_realtimeVars(Forget(c))

RealtimeFairSpec == RealtimeSpec /\ RealtimeFairness

-----------------------------------------------------------------------------
(* Every variable keeps its type; the attempts counter its bound           *)
(* (room-channel.ts:360): at most MaxAttempts replacements are started     *)
(* between two connections or online events.                               *)
RealtimeTypeOK ==
  /\ ctl \in Controllers
  /\ device \in BOOLEAN
  /\ leaving \subseteq Channels
  /\ life \in [Channels -> {"free", "open", "closed", "lost"}]
  /\ terminal \in [Channels -> BOOLEAN]
  /\ track \in [Channels -> {"unstarted", "pending", "done"}]

(* The participant never holds two subscribed channels of the room, which  *)
(* would show it twice in presence: however replacements, failed removals, *)
(* offline events and disposal interleave, a new channel is made only when *)
(* the one before it is gone (replaceFailedChannel).                       *)
AtMostOneChannel == Cardinality(Open) <= 1

(* Every channel that is still subscribed can be removed: the controller   *)
(* holds it, or its disposal is about to remove it.  A failed removal or   *)
(* a disposal during a replacement leaks none.                             *)
NoOrphanedChannel == Open \subseteq {ctl.channel, ctl.removing} \union leaving

(* Both: what is subscribed is one channel that somebody will remove       *)
(* (replaceFailedChannel, reconnectWork).                                  *)
ChannelsAccounted == AtMostOneChannel /\ NoOrphanedChannel

(* The session is told connected only for a channel that is subscribed,    *)
(* tracked and current: late results of a replaced channel, or of one made *)
(* before an offline event, do not count.                                  *)
ConnectedIsCurrent ==
  ctl.status = "connected" /\ ~isDisposed =>
    \E c \in Open : IsCurrent(c) /\ ~terminal[c] /\ track[c] = "done"

(* Recovery is on its way: a timer is set, the attempt that is under way   *)
(* will be followed by another, or its outcome is waited for.              *)
RecoveryScheduled ==
  \/ ctl.timer
  \/ ctl.work # "none" /\ (ctl.awaiting \/ ctl.again)
  \/ ctl.awaiting /\ \E c \in Open : IsCurrent(c) /\ ~terminal[c] /\ track[c] # "done"

(* A failure is never forgotten: while the controller takes itself to be   *)
(* online and has attempts left, recovery is on its way, whichever of      *)
(* failures, work, timers and connectivity events came in which order      *)
(* (scheduleRecovery, the handler of reconnectWork).  It can take itself   *)
(* to be offline when the browser is not: handleOnline does not note the   *)
(* online event while no recovery is needed.                               *)
RecoveryNotForgotten ==
  ctl.needed /\ ctl.online /\ ctl.attempts < MaxAttempts => RecoveryScheduled

(* After disposal nothing is reported and no channel is subscribed, even   *)
(* by work that was under way (emitStatus, establishChannel).              *)
DisposedIsQuiet ==
  [][ isDisposed => /\ ctl'.status = ctl.status
                    /\ {c \in Channels : life'[c] = "open"} \subseteq Open ]_realtimeVars

(* Recovery comes to an end while the browser stays online: connected, or  *)
(* out of attempts.                                                        *)
RecoveryEnds ==
  ctl.needed /\ ctl.online ~>
    ~ctl.needed \/ ~ctl.online \/ ctl.attempts = MaxAttempts

(* Disposal ends, and then leaves no channel subscribed.                   *)
DisposalEnds == isDisposed ~> ctl.disposal = "done" /\ Open = {}
=============================================================================
