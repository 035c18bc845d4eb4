--------------------------- MODULE MCSessionLease ---------------------------
(* Environments for the TLC instances of SessionLease. *)
EXTENDS SessionLease

(* What the lease withstands; what ends a session well; everything but late   *)
(* denials; and late denials where daemons die.                              *)
Withstood == {"crash", "fail", "kill", "relabel"}
Orderly == {"force", "slow", "silent", "wait", "race", "kill"}
Everything == Circumstance \ {"deny"}
Denied == {"crash", "wait", "deny"}
AllEnvironments == {Withstood, Orderly, Everything, Denied}
Denials == {{"wait", "deny"}}
Kills == {{"kill"}}
Crashes == {{"crash"}}
Failures == {{"fail"}}
Silence == {{"silent"}}
=============================================================================
