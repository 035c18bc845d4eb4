----------------------------- MODULE MCOpsRoom -----------------------------
(* What happens in the behaviours of the TLC instances of OpsRoom. *)
EXTENDS OpsRoom

AllUses == {{"runs", "edits"}, {"calls"}, {"calls", "others", "unbuilt"}}
CallsOnly == {{"calls"}}
FewWithOthers(u) == IF "others" \in u THEN 1 ELSE 2
=============================================================================
