-------------------------- MODULE MCOrchestration --------------------------
(* Environments and amounts for the TLC instances of Orchestration. *)
EXTENDS Orchestration, TLC

(* Resumed parents; supervisors that die; races; everything. *)
AllEnvironments == {{"respawn"}, {"crash"}, {"twins", "race"}}
Resumptions == {{"respawn"}}
Twins == {{"twins"}}
Requests == {-1, 1, 3}
Symmetry == Permutations(Proc) \cup Permutations(Child)
=============================================================================
