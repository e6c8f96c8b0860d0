----------------------------- MODULE AtomicLoad -----------------------------
(***************************************************************************)
(* What a caller may rely on when it loads a room: a load that answers     *)
(* gives the whole canvas of one revision, current at some moment between  *)
(* the call and the answer.  It may refuse instead.  SharedRoom loads in   *)
(* this way; CanvasLoad, which reads three tables in four requests,        *)
(* implements it.                                                          *)
(***************************************************************************)
EXTENDS Naturals

CONSTANTS Loaders, None

VARIABLES
  revision,     \* revision of the last committed mutation
  began,        \* revision when the load began; None while nothing is loading
  loaded        \* the last canvas each loader was given; None if refused

loadVars == <<revision, began, loaded>>

(* A canvas all of whose tables belong to one revision.                    *)
WholeAt(r) == [code |-> "ok", revision |-> r, objects |-> r, receipts |-> r]

LoadInit ==
  /\ revision = 0
  /\ began = [l \in Loaders |-> None]
  /\ loaded = [l \in Loaders |-> None]

Advance ==
  /\ revision' = revision + 1
  /\ UNCHANGED <<began, loaded>>

Begin(l) ==
  /\ began[l] = None
  /\ began' = [began EXCEPT ![l] = revision]
  /\ loaded' = [loaded EXCEPT ![l] = None]
  /\ UNCHANGED revision

Answer(l) ==
  /\ began[l] # None
  /\ \E r \in began[l]..revision :
        loaded' = [loaded EXCEPT ![l] = WholeAt(r)]
  /\ began' = [began EXCEPT ![l] = None]
  /\ UNCHANGED revision

Refuse(l) ==
  /\ began[l] # None
  /\ began' = [began EXCEPT ![l] = None]
  /\ UNCHANGED <<revision, loaded>>

LoadNext ==
  Advance \/ \E l \in Loaders : Begin(l) \/ Answer(l) \/ Refuse(l)

LoadSpec == LoadInit /\ [][LoadNext]_loadVars
==============================================================================
