---------------------------- MODULE TransferSlots ----------------------------
(***************************************************************************)
(* What the transfer queue promises about running jobs, without saying how *)
(* slots are taken or given back: a job enters when there is room and no   *)
(* active job uses one of its servers, and leaves at any time.             *)
(***************************************************************************)
EXTENDS Integers, FiniteSets

CONSTANTS Jobs, NRemotes, Source, Target, MaxRunning

VARIABLE active   \* the jobs that have all their slots

Servers(j) == {Source[j], Target[j]} \ {0}

Init == active = {}

Enter(j) ==
  /\ j \notin active
  /\ Cardinality(active) < MaxRunning
  /\ \A k \in active : Servers(j) \cap Servers(k) = {}
  /\ active' = active \cup {j}

Leave(j) ==
  /\ j \in active
  /\ active' = active \ {j}

Next == \E j \in Jobs : Enter(j) \/ Leave(j)

Spec == Init /\ [][Next]_active
=============================================================================
