------------------------------ MODULE MCMedia ------------------------------
(* The media of a meeting and the voice session of a room, which share      *)
(* nothing: a behaviour is that of one of them, and the other stays as it   *)
(* began.                                                                   *)
EXTENDS MCMeetingMedia, MCVoiceSession

VARIABLE subject

PartInit ==
  /\ subject \in {"meeting", "voice"}
  /\ Init /\ VoiceInit
  \* The beginnings of the part that stays are not told apart.
  /\ subject = "meeting" => voiceLimit = CHOOSE b \in VoiceLimits : TRUE
  /\ subject = "voice" => /\ limit = CHOOSE s \in Scenarios : TRUE
                          /\ allowed = [p \in Participants |-> Participants]

PartNext ==
  \/ subject = "meeting" /\ Next /\ UNCHANGED <<subject, voiceVars>>
  \/ subject = "voice" /\ VoiceNext /\ UNCHANGED <<subject, vars>>

PartSpec == PartInit /\ [][PartNext]_<<subject, vars, voiceVars>>
=============================================================================
