-------------------------- MODULE MCPacketDelivery --------------------------
(* Instances of PacketDelivery for TLC.                                    *)
EXTENDS PacketDelivery, TLC

\* Requests and server functions are interchangeable.
Interchangeable == Permutations(Requests) \cup Permutations(Executors)
=============================================================================
