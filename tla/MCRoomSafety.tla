---------------------------- MODULE MCRoomSafety ----------------------------
(* The sessions of a shared room, and the realtime controller of one of     *)
(* them, which share nothing here: a behaviour is that of one of the two,   *)
(* and the other stays as it began.                                         *)
EXTENDS MCSharedRoom, RoomRealtime

VARIABLE subject

PartInit ==
  /\ subject \in {"room", "controller"}
  /\ Init /\ RealtimeInit
  \* The beginnings of a part that stays are not told apart.
  /\ subject = "room" => device

PartNext ==
  \/ subject = "room" /\ Next /\ UNCHANGED <<subject, realtimeVars>>
  \/ subject = "controller" /\ RealtimeNext /\ UNCHANGED <<subject, vars>>

PartSpec == PartInit /\ [][PartNext]_<<subject, vars, realtimeVars>>
=============================================================================
