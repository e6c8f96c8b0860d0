----------------------------- MODULE MCLiveness -----------------------------
(* What must happen in the end, or never after: for the room's realtime     *)
(* controller, with one mail and what its provider reports of it, and in a  *)
(* shared room of one session.  A behaviour is that of one of them, and the *)
(* others stay as they began, where none of their fair actions is enabled.  *)
EXTENDS PacketDelivery

CONSTANTS session, commands, None, Channels, MaxAttempts, NoChannel

VARIABLES log, owner, base, stage, reply, result, status, closed, view, pending,
          command, target, reloadFrom, reloaded, connected, notices,
          ctl, device, leaving, life, terminal, track, subject

roomVars == <<log, owner, base, stage, reply, result, status, closed, view, pending,
              command, target, reloadFrom, reloaded, connected, notices>>

controllerVars == <<ctl, device, leaving, life, terminal, track>>

Room == INSTANCE SharedRoom
        WITH Sessions <- {session}, Requests <- commands, disposed <- closed

Controller == INSTANCE RoomRealtime

PartInit ==
  /\ subject \in {"room", "mail", "controller"}
  /\ Controller!RealtimeInit /\ Init /\ Room!Init
  \* The beginnings of a part that stays are not told apart.
  /\ subject # "controller" => device

PartNext ==
  \/ subject = "controller" /\ Controller!RealtimeNext /\ UNCHANGED <<subject, vars, roomVars>>
  \/ subject = "mail" /\ Next /\ UNCHANGED <<subject, controllerVars, roomVars>>
  \/ subject = "room" /\ Room!Next /\ UNCHANGED <<subject, controllerVars, vars>>

PartSpec ==
  /\ PartInit /\ [][PartNext]_<<subject, controllerVars, vars, roomVars>>
  /\ Controller!RealtimeFairness /\ Fairness /\ Room!Fairness

-----------------------------------------------------------------------------
(* The properties of RoomRealtime.                                         *)

\* A recovery (scheduleRecovery) ends with a connected or a failed channel.
RecoveryEnds == Controller!RecoveryEnds

\* Disposal ends with every channel removed (dispose).
DisposalEnds == Controller!DisposalEnds

-----------------------------------------------------------------------------
(* The properties of SharedRoom, of the one session.                       *)

\* A reload catches up with every revision heard of or reports degradation.
RevisionAppliedOrReported == Room!RevisionAppliedOrReported

\* Every submitted command releases the session (commandWork).
CommandSettles == Room!CommandSettles
=============================================================================
