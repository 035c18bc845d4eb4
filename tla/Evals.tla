-------------------------------- MODULE Evals --------------------------------
(***************************************************************************)
(* Evals: what `cybersin eval run` and `eval gate` make of the suites in    *)
(* evals/ and of the prompts in dist/ (commands/eval.rs), and the suite that *)
(* `trace sample --to-eval` makes of a traced call (commands/trace.rs).     *)
(*                                                                         *)
(* A suite is [prompt, runs, cases]; a case has the names of its inputs and *)
(* those whose value is not of their type, what the inputs say, assertions  *)
(* and recorded outputs.  An output is JSON or not, has words, and may have *)
(* been judged; a custom command looks for a word.                          *)
(***************************************************************************)
EXTENDS Integers, Sequences, FiniteSets

BestJudged == 2      \* bound: the judge's scores are 0..BestJudged
Sample(json, words, judged) == [json |-> json, words |-> words, judged |-> judged]

JsonValid == [type |-> "json_valid", words |-> {}, min |-> 0]
ContainsNone(words) == [JsonValid EXCEPT !.type = "contains_none", !.words = words]
Custom(words) == [JsonValid EXCEPT !.type = "custom", !.words = words]
Judge(rubric, min) == [type |-> "judge", words |-> rubric, min |-> min]

(* validate_case: exactly the inputs that the compiled prompt declares. *)
Sound(assertion) ==
  /\ assertion.type # "json_valid" => assertion.words # {}
  /\ assertion.type = "judge" => assertion.min \in 0..BestJudged
ValidCase(case, inputs) ==
  /\ case.given = inputs /\ case.misfits = {}
  /\ \A i \in DOMAIN case.assertions : Sound(case.assertions[i])

(* compile_project: one bad suite stops them all. *)
SuitesRefused(suites, compiled) ==
  \E f \in DOMAIN suites :
    \/ suites[f].runs = 0 \/ suites[f].prompt \notin DOMAIN compiled
    \/ \E i \in DOMAIN suites[f].cases : ~ValidCase(suites[f].cases[i], compiled[suites[f].prompt])
Caseless(suites) == \A f \in DOMAIN suites : suites[f].cases = <<>>

(* sample_for: the recorded outputs in turn; without any, the inputs as JSON. *)
Recorded(case, run) ==
  IF case.recorded = <<>> THEN Sample(TRUE, case.says, 0)
  ELSE case.recorded[(run % Len(case.recorded)) + 1]

Holds(assertion, sample) ==
  CASE assertion.type = "json_valid" -> sample.json
    [] assertion.type = "contains_none" -> assertion.words \cap sample.words = {}
    [] assertion.type = "judge" -> sample.judged >= assertion.min
    [] assertion.type = "custom" -> assertion.words \subseteq sample.words

(* run_suite: the score of a run is the share of the assertions that hold; no *)
(* share of none is 1. *)
Perfect(case, sample) ==
  case.assertions # <<>> /\ \A i \in DOMAIN case.assertions : Holds(case.assertions[i], sample)
Passed(outputs) == \A r \in DOMAIN outputs : Perfect(r[1], outputs[r])

(* execute, once every sample was got. *)
Verdict(suites, gate, outputs) ==
  IF Caseless(suites) THEN "no cases"
  ELSE IF gate /\ ~Passed(outputs) THEN "regressed" ELSE "done"

(* With a live provider each run of a case has an output of its own. *)
Runs(suites) ==
  UNION {{<<suites[f].cases[i], run>> :
            i \in DOMAIN suites[f].cases, run \in 0..suites[f].runs - 1} : f \in DOMAIN suites}
RecordedVerdict(suites, gate) ==
  Verdict(suites, gate, [r \in Runs(suites) |-> Recorded(r[1], r[2])])
LiveVerdicts(suites, gate, answers) ==
  {Verdict(suites, gate, outputs) : outputs \in [Runs(suites) -> answers]}

(* The fixture of a traced call: no span has the attributes "inputs",         *)
(* "output" or "judge_score" (route_executor.rs:1004-1061), so that it has no *)
(* inputs and recorded null. *)
Sampled(prompt) ==
  [prompt |-> prompt, runs |-> 1,
   cases |-> <<[given |-> {}, misfits |-> {}, says |-> {},
                assertions |-> <<ContainsNone({"__cybersin_never__"})>>,
                recorded |-> <<Sample(TRUE, {}, 0)>>]>>]
=============================================================================
