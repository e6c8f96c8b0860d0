----------------------------- MODULE MCServices -----------------------------
(* Parts that share nothing are checked side by side: a behaviour is that   *)
(* of one of them, chosen at the start, and the others stay as they began.  *)
EXTENDS CanvasLoad, LocalMediaBroker, VisionAdmission, SessionQuota, TLC

CONSTANTS c1, c2, c3, a1, a2, r1, r2, k1, k2, k3

VARIABLE subject

MCRoomOf == (k1 :> r1) @@ (k2 :> r1) @@ (k3 :> r2)

MCMax ==
  [s \in QuotaServices |-> [l \in Scopes \X Spans |->
     IF l = <<"actor", "window">> THEN 1 ELSE 2]]

Symmetry ==
  Permutations({c1, c2, c3}) \union Permutations({a1, a2}) \union Permutations({k1, k2})

PartInit ==
  /\ subject \in {"load", "broker", "vision", "quota"}
  /\ Init /\ BrokerInit /\ VisionInit /\ QuotaInit
  /\ subject # "quota" => service = "voice"

PartNext ==
  \/ /\ subject = "load" /\ Next
     /\ UNCHANGED <<subject, brokerVars, visionVars, quotaVars>>
  \/ /\ subject = "broker" /\ BrokerNext
     /\ UNCHANGED <<subject, vars, visionVars, quotaVars>>
  \/ /\ subject = "vision" /\ VisionNext
     /\ UNCHANGED <<subject, vars, brokerVars, quotaVars>>
  \/ /\ subject = "quota" /\ QuotaNext
     /\ UNCHANGED <<subject, vars, brokerVars, visionVars>>

PartSpec == PartInit /\ [][PartNext]_<<subject, vars, brokerVars, visionVars, quotaVars>>
=============================================================================
