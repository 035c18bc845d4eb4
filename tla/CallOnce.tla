------------------------------ MODULE CallOnce ------------------------------
(***************************************************************************)
(* What the tool gateway promises its callers (cybersin-spec.md, 8.2): a   *)
(* call, named by its (tool, idem_key), has its side effect at most once   *)
(* and one outcome; every process that asks is told that outcome; a        *)
(* succeeded call is final and a failed one changes only when a human      *)
(* reopens it.                                                             *)
(***************************************************************************)
CONSTANTS
  Proc,        \* those who ask
  Call,        \* the calls
  Success,     \* outcomes of a call whose side effect happened
  Failure,     \* outcomes of a call whose side effect did not
  Undecided,   \* no outcome yet, not one of either
  Nothing      \* nothing was told

VARIABLES
  performed,   \* the calls whose side effect happened
  decision,    \* call -> its outcome
  told         \* process -> what it was last told about a call

vars == <<performed, decision, told>>

Init ==
  /\ performed = {}
  /\ decision = [c \in Call |-> Undecided]
  /\ told = [p \in Proc |-> Nothing]

(* The side effect, once and before the outcome is known. *)
Perform(c) ==
  /\ c \notin performed /\ decision[c] = Undecided
  /\ performed' = performed \cup {c}
  /\ UNCHANGED <<decision, told>>

(* The outcome is fixed; the process that fixed it may learn it at once. *)
Decide(c) ==
  /\ decision[c] = Undecided
  /\ decision'[c] \in IF c \in performed THEN Success ELSE Failure
  /\ decision' = [decision EXCEPT ![c] = decision'[c]]
  /\ \/ UNCHANGED told
     \/ \E p \in Proc : told' = [told EXCEPT ![p] = <<c, decision'[c]>>]
  /\ UNCHANGED performed

Tell(p, c) ==
  /\ decision[c] # Undecided
  /\ told' = [told EXCEPT ![p] = <<c, decision[c]>>]
  /\ UNCHANGED <<performed, decision>>

(* A process starts another request, or dies. *)
Forget(p) ==
  /\ told' = [told EXCEPT ![p] = Nothing]
  /\ UNCHANGED <<performed, decision>>

(* A human reopens a failed call. *)
Override(c) ==
  /\ decision[c] \in Failure
  /\ decision' = [decision EXCEPT ![c] = Undecided]
  /\ UNCHANGED <<performed, told>>

Next ==
  \/ \E c \in Call : Perform(c) \/ Decide(c) \/ Override(c)
  \/ \E p \in Proc : Forget(p) \/ \E c \in Call : Tell(p, c)

Spec == Init /\ [][Next]_vars
=============================================================================
