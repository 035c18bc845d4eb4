---------------------------- MODULE MCModelCalls ----------------------------
(* Lockfiles and reactions for the TLC instances of ModelCalls. *)
EXTENDS ModelCalls

(* A model for each tier, of which the second is not allowed, and a spare for *)
(* the first: the spare costs as much, so it is a fallback, or less, so it is *)
(* the step, and no fallback then.                                            *)
Lock(price) ==
  [models |-> [m \in 1..4 |-> [quality |-> IF m = 4 THEN 1 ELSE m,
                               fallbacks |-> IF m = 1 THEN <<4, 3, 4>> ELSE <<>>]],
   prices |-> [m \in 1..4 |-> IF m = 4 THEN price ELSE IF m = 3 THEN 2 ELSE 1]]
CheapSpare == {Lock(0)}
EvenSpare == {Lock(1)}
Spares == CheapSpare \cup EvenSpare
None == {}
Lowest == {1}
Reached == {1, 3, 4}
(* A route in the older format: of its alternates the first is cheaper, and   *)
(* the second is not looked at.                                               *)
ByHand == {[entry |-> [model |-> 3, cost |-> 2],
            alternates |-> <<[model |-> 1, cost |-> 1], [model |-> 4, cost |-> 0]>>]}
(* A provider may report more than the estimate. *)
Reports == {2}
AllCallers == {"live", "keyless", "stub"}
Reactions == {"halt", "degrade", "ask"}
Asking == {"ask"}
AnyOutcome == {"succeeded", "failed"}
CliOutcome == {"failed"}
=============================================================================
