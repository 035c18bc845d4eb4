----------------------------- MODULE ModelCalls -----------------------------
(***************************************************************************)
(* Model calls of sessions under a budget: RuntimeDaemon::handle_llm_request *)
(* and enforce_session_budget (crates/cybersin-runtime/src/session.rs) and  *)
(* RouteExecutor::execute (route_executor.rs): cache, cascade, fallbacks,   *)
(* retries, and the three reactions to a breach; the callers of models that *)
(* it may have (live_model_caller.rs, model_caller.rs) and the routes that  *)
(* it may be given (dist.rs).                                               *)
(*                                                                         *)
(* One daemon drives a session.  Spans, events, session status and the      *)
(* tool_calls ledger survive it, the cache and the degraded prompts do not.  *)
(* A prompt stands for itself and its inputs: the executor gets no          *)
(* embedding, so only an equal hash hits the cache.  Replaying the log is in *)
(* SessionReplay, the operators' races are in ToolGateway.                  *)
(***************************************************************************)
EXTENDS Routing

CONSTANTS
  Session, Prompt,
  Locks,                  \* the lockfiles that the prompts may have been built with
  Legacies,               \* the routes that were written by hand, in the older format
  Callers,                \* who calls the models: subset of {"live", "keyless", "stub"}
  Quality,                \* the quality tier of every prompt
  Grounded, Surcharge,    \* its grounded tiers, and what grounding costs
  Allowed,                \* the models the environment's allowlist allows
  Cached,                 \* prompts that cache.json has entries for
  Breaches,               \* values of on_breach to study
  Budget,                 \* usd_per_session
  MaxAttempts,            \* RouteRetryPolicy::max_attempts
  Reported, MaxReport,    \* what a provider may say that a call cost, and no more than
  Outcomes,               \* how the executor of `cybersin approve` ends a call of "budget"
  SharedIds,              \* do harnesses number their calls alike, "call-1", "call-2", ...?
  MaxRequests, MaxCrashes \* bounds: requests and crashes of a session

ASSUME RouteAssumption ==
  /\ \A lock \in Locks : ~Refuses(lock, Quality, Grounded, Surcharge)
  /\ Quality \in QualityTier /\ Cached \subseteq Prompt
  /\ Callers \subseteq {"live", "keyless", "stub"}
ASSUME PolicyAssumption ==
  /\ Breaches \subseteq {"halt", "degrade", "ask", "none"}
  /\ Outcomes \subseteq {"succeeded", "failed"} /\ SharedIds \in BOOLEAN
ASSUME ReportAssumption == MaxReport \in Nat /\ Reported \subseteq 0..MaxReport
ASSUME BoundAssumption ==
  Budget \in Nat /\ MaxAttempts \in Nat \ {0} /\ MaxRequests \in Nat /\ MaxCrashes \in Nat

VARIABLES
  route,       \* the steps, their bars and the fallbacks of every prompt; never changes
  caller,      \* who calls its models; never changes
  breach,      \* on_breach of each session, "none" without a budget; never changes
  status,      \* sessions.status
  spent,       \* the sum of usd_cost over the session's spans
  logged,      \* has the current request its llm.call event?
  rows,        \* the ledger's rows of the tool "budget", by call id
  approving,   \* call ids that an operator has approved and not yet resolved
  degraded,    \* degraded_prompts of the daemon
  cache,       \* the executor's cache: the score of the answer to each prompt
  pc,          \* what the daemon does next
  request,     \* number and prompt of the request it serves
  at,          \* the candidate it calls, and the attempt
  answer,      \* what it answers: source and score
  bill,        \* history: what providers took for the request, while its route is tried
  forced,      \* history: degraded prompts, of every daemon of the session
  granted,     \* history: requests that went on at or above the budget
  approved,    \* history: the requests whose rows an operator approved
  calls,       \* history: calls of the candidate at hand, the last error, what its span says
  crashes      \* history

build == <<route, caller, breach>>
durable == <<status, spent, logged, rows, approving>>
memory == <<degraded, cache, pc, request, at, answer>>
history == <<bill, forced, granted, approved, calls, crashes>>
vars == <<build, durable, memory, history>>

CallId(s) == IF SharedIds THEN <<request[s].n>> ELSE <<s, request[s].n>>
CallIds == IF SharedIds THEN {<<n>> : n \in 1..MaxRequests} ELSE Session \X (1..MaxRequests)
NoRow == [status |-> "absent", awaiting |-> FALSE, owner |-> <<>>]
NoAnswer == [from |-> "none", score |-> "none"]
NoCalls == [count |-> 0, error |-> "none", span |-> 0]
Prebuilt == [p \in Prompt |-> IF p \in Cached THEN "good" ELSE "none"]

(* What DistFixture makes of the document routing.json.  A compiled one has   *)
(* the bars of the router's rubric, in hundredths.  One in the older format    *)
(* becomes a cascade of an alternate that no confidence suffices for, if it    *)
(* has any, and of the prompt's model, for which every confidence does.        *)
Rubric(tier, target) ==
  CASE tier = 1 /\ target = 1 -> 72
    [] tier = 2 /\ target = 2 -> 78
    [] tier = 3 /\ target = 3 -> 82
    [] OTHER -> 90
FromLock(lock) ==
  LET compiled == Compiled(lock, Quality, Grounded, Surcharge)
      tier(i) == lock.models[compiled.steps[i].model].quality
  IN  [steps |-> compiled.steps, fallbacks |-> compiled.fallbacks,
       tiers |-> [i \in DOMAIN compiled.steps |-> tier(i)],
       bars |-> [i \in DOMAIN compiled.steps |-> Rubric(tier(i), Quality)]]
FromLegacy(legacy) ==
  LET cheap == SubSeq(legacy.alternates, 1, IF legacy.alternates = <<>> THEN 0 ELSE 1)
      steps == Append(cheap, legacy.entry)
  IN  [steps |-> steps, fallbacks |-> <<>>, tiers |-> [i \in DOMAIN steps |-> 3],
       bars |-> [i \in DOMAIN steps |-> IF i = Len(steps) THEN 0 ELSE 101]]

Routes == {FromLock(lock) : lock \in Locks} \cup {FromLegacy(legacy) : legacy \in Legacies}
Candidate == [model : Nat, cost : Nat]
(* The router's steps and fallbacks are lists (Vec), and a route has a step.  *)
ASSUME ListAssumption ==
  \A r \in Routes : /\ r.steps \in Seq(Candidate) /\ r.fallbacks \in Seq(Candidate)
                    /\ r.steps # <<>>

(* Candidates of a route: the steps of the cascade, then the fallbacks.  A    *)
(* degraded prompt has the first step only; what the allowlist does not       *)
(* allow is passed over, unless the caller is the stub, which has none.        *)
Candidates == route.steps \o route.fallbacks
Allows(model) == caller = "stub" \/ model \in Allowed
InCascade(i) == i \in DOMAIN route.steps
Open(i, force) ==
  /\ i \in DOMAIN Candidates /\ Allows(Candidates[i].model)
  /\ force => (i = 1 \/ ~InCascade(i))
Exhausted == Len(Candidates) + 1
NextCandidate(i, force) ==
  CHOOSE j \in i + 1 .. Exhausted :
    /\ j = Exhausted \/ Open(j, force)
    /\ \A k \in i + 1 .. j - 1 : ~Open(k, force)

Init ==
  /\ route \in Routes
  /\ caller \in Callers
  /\ breach \in [Session -> IF caller = "stub" THEN {"none"} ELSE Breaches]
  /\ status = [s \in Session |-> "running"]
  /\ spent = [s \in Session |-> 0] /\ logged = [s \in Session |-> FALSE]
  /\ rows = [c \in CallIds |-> NoRow] /\ approving = {}
  /\ degraded = [s \in Session |-> {}]
  /\ cache = [s \in Session |-> Prebuilt]
  /\ pc = [s \in Session |-> "idle"]
  /\ request \in [Session -> {[n |-> 0, prompt |-> p] : p \in Prompt}]
  /\ at = [s \in Session |-> [candidate |-> 0, attempt |-> 0]]
  /\ answer = [s \in Session |-> NoAnswer]
  /\ bill = [s \in Session |-> 0] /\ forced = [s \in Session |-> {}]
  /\ granted = [s \in Session |-> {}] /\ approved = {}
  /\ calls = [s \in Session |-> NoCalls] /\ crashes = [s \in Session |-> 0]

At(s, label) == pc[s] = label
Goto(s, label) == pc' = [pc EXCEPT ![s] = label]
Answer(s, from, score) == answer' = [answer EXCEPT ![s] = [from |-> from, score |-> score]]
ForceCheapest(s) == request[s].prompt \in degraded[s]

(* The harness sends its next llm.request. *)
Send(s, p) ==
  /\ At(s, "idle") /\ request[s].n < MaxRequests
  /\ Goto(s, "check")
  /\ request' = [request EXCEPT ![s] = [n |-> @.n + 1, prompt |-> p]]
  /\ logged' = [logged EXCEPT ![s] = FALSE]
  /\ answer' = [answer EXCEPT ![s] = NoAnswer]
  /\ UNCHANGED <<build, status, spent, rows, approving, degraded, cache, at, history>>

-----------------------------------------------------------------------------
(* enforce_session_budget: no budget, or the spans below it, *)
WithinBudget_Inclusive(s) ==                      \* mutant: the budget itself may be spent again
  /\ At(s, "check") /\ (breach[s] = "none" \/ spent[s] <= Budget)
  /\ Goto(s, "cache")
  /\ UNCHANGED <<build, durable, degraded, cache, request, at, answer, history>>
WithinBudget(s) ==
  /\ At(s, "check") /\ (breach[s] = "none" \/ spent[s] < Budget)
  /\ Goto(s, "cache")
  /\ UNCHANGED <<build, durable, degraded, cache, request, at, answer, history>>
(* or not, and degrade, *)
Degrade(s) ==
  /\ At(s, "check") /\ spent[s] >= Budget /\ breach[s] = "degrade"
  /\ Goto(s, "cache")
  /\ degraded' = [degraded EXCEPT ![s] = @ \cup {request[s].prompt}]
  /\ forced' = [forced EXCEPT ![s] = @ \cup {request[s].prompt}]
  /\ granted' = [granted EXCEPT ![s] = @ \cup {request[s].n}]
  /\ UNCHANGED <<build, durable, cache, request, at, answer, bill, approved, calls, crashes>>
(* or halt: an event, the status, session.abort, and the loop ends, *)
Halt(s) ==
  /\ At(s, "check") /\ spent[s] >= Budget /\ breach[s] = "halt"
  /\ Goto(s, "halted")
  /\ status' = [status EXCEPT ![s] = "halted"]
  /\ UNCHANGED <<build, spent, logged, rows, approving, degraded, cache, request, at, answer,
                 history>>
(* or ask: park_for_approval admits a row for the call and, unless it was     *)
(* decided before, flags it, *)
Ask(s) ==
  /\ At(s, "check") /\ spent[s] >= Budget /\ breach[s] = "ask"
  /\ LET c == CallId(s) IN
     IF rows[c].status \in {"succeeded", "failed"}
       THEN Goto(s, "decided") /\ UNCHANGED rows
       ELSE /\ Goto(s, "flag")
            /\ rows' = [rows EXCEPT ![c].status = "pending",
                                   ![c].owner = IF @ = <<>> THEN <<s, request[s].n>> ELSE @]
  /\ UNCHANGED <<build, status, spent, logged, approving, degraded, cache, request, at, answer,
                 history>>
Flag(s) ==
  /\ At(s, "flag")
  /\ Goto(s, "wait")
  /\ rows' = [rows EXCEPT ![CallId(s)].awaiting = TRUE]
  /\ status' = [status EXCEPT ![s] = "awaiting_approval"]
  /\ UNCHANGED <<build, spent, logged, approving, degraded, cache, request, at, answer, history>>
(* and polls it until it is resolved. *)
Poll(s) ==
  /\ At(s, "wait") /\ rows[CallId(s)].status # "pending"
  /\ Goto(s, "decided")
  /\ status' = [status EXCEPT ![s] = "running"]
  /\ UNCHANGED <<build, spent, logged, rows, approving, degraded, cache, request, at, answer,
                 history>>
Decided(s) ==
  /\ At(s, "decided")
  /\ IF rows[CallId(s)].status = "succeeded"
       THEN /\ Goto(s, "cache")
            /\ granted' = [granted EXCEPT ![s] = @ \cup {request[s].n}]
            /\ UNCHANGED answer
       ELSE Goto(s, "reply") /\ Answer(s, "denied", "none") /\ UNCHANGED granted
  /\ UNCHANGED <<build, durable, degraded, cache, request, at, bill, forced, approved, calls, crashes>>

(* cybersin approve executes the row as a call of a tool "budget", and deny   *)
(* fails it. *)
Approve(c) ==
  /\ rows[c].status = "pending" /\ rows[c].awaiting
  /\ rows' = [rows EXCEPT ![c].awaiting = FALSE]
  /\ approving' = approving \cup {c}
  /\ approved' = approved \cup {rows[c].owner}
  /\ UNCHANGED <<build, status, spent, logged, memory, bill, forced, granted, calls, crashes>>
Resolve(c) ==
  /\ c \in approving
  /\ approving' = approving \ {c}
  /\ \E outcome \in Outcomes : rows' = [rows EXCEPT ![c].status = outcome]
  /\ UNCHANGED <<build, status, spent, logged, memory, history>>
Deny_Resolved(c) ==                               \* mutant: a denial resolves like an approval
  /\ rows[c].status = "pending" /\ rows[c].awaiting
  /\ rows' = [rows EXCEPT ![c].status = "succeeded", ![c].awaiting = FALSE]
  /\ UNCHANGED <<build, status, spent, logged, approving, memory, history>>
Deny(c) ==
  /\ rows[c].status = "pending" /\ rows[c].awaiting
  /\ rows' = [rows EXCEPT ![c].status = "failed", ![c].awaiting = FALSE]
  /\ UNCHANGED <<build, status, spent, logged, approving, memory, history>>

-----------------------------------------------------------------------------
(* RouteExecutor::execute.  A cache hit answers for nothing. *)
Start(s, i) == at' = [at EXCEPT ![s] = [candidate |-> i, attempt |-> 1]]
Advance(s, from) ==
  LET i == NextCandidate(from, ForceCheapest(s)) IN
  /\ Start(s, i)
  /\ calls' = [calls EXCEPT ![s] = NoCalls]
  /\ IF i = Exhausted THEN Goto(s, "reply") /\ Answer(s, "failed", "none")
                      ELSE Goto(s, "call") /\ UNCHANGED answer
CacheDecision(s) ==
  /\ At(s, "cache")
  /\ LET hit == cache[s][request[s].prompt] IN
     IF hit # "none"
       THEN Goto(s, "log") /\ Answer(s, "cache", hit) /\ UNCHANGED <<at, calls>>
       ELSE Advance(s, 0)
  /\ UNCHANGED <<build, durable, degraded, cache, request, bill, forced, granted, approved, crashes>>

(* What a caller makes of its provider: how sure the model is of its answer,   *)
(* or an error; what the provider takes for it; and what the span will say:   *)
(* the cost that came with the answer (usage.cost), which need not be near    *)
(* the estimate, and without one the estimate.                               *)
Estimate(i) == Candidates[i].cost
Prices(i) == Reported \cup {Estimate(i)}
Answers(i, confidence, prices) ==
  {[confidence |-> confidence, error |-> "none", bill |-> price,
    span |-> IF caller = "live" THEN price ELSE Estimate(i)] : price \in prices}
Fails(i, error, prices) ==
  {[confidence |-> 0, error |-> error, bill |-> price, span |-> Estimate(i)] : price \in prices}

(* The live caller: the prompt cannot be rendered, or its contract extended by *)
(* the confidence; *)
Unsent(i) == Fails(i, "permanent", {0})
(* the provider is not reached, or what it says cannot be read; *)
Unread(i) == Fails(i, "transient", {0} \cup Prices(i))
(* it refuses, for now or for good; *)
Status == {400, 429, 500}
Refused(i, code) ==
  Fails(i, IF code = 429 \/ code >= 500 THEN "transient" ELSE "permanent", {0})
(* it answers, without content, or not in JSON, or without a confidence; *)
Useless(i) == Fails(i, "permanent", Prices(i))
Live(i) == Unsent(i) \cup Unread(i) \cup Useless(i) \cup Answers(i, 0, Prices(i))
             \cup Answers(i, 100, Prices(i)) \cup (UNION {Refused(i, code) : code \in Status})
(* without a key nothing is sent; the stub looks at the tier of the model.     *)
Keyless(i) == Fails(i, "permanent", {0})
StubConfidence == <<75, 85, 95>>
Stub(i) == Answers(i, IF InCascade(i) THEN StubConfidence[route.tiers[i]] ELSE 100, {0})
Called(i) ==
  CASE caller = "live" -> Live(i) [] caller = "keyless" -> Keyless(i) [] caller = "stub" -> Stub(i)

(* A fallback has no bar: its answer is good if it is sure.                    *)
Bar(i) == IF InCascade(i) THEN route.bars[i] ELSE 100
ScoreOf(outcome, i) ==
  IF outcome.error # "none" THEN "none"
  ELSE IF outcome.confidence >= Bar(i) THEN "good" ELSE "poor"

(* call_model_with_retries: an answer, or a failure that is tried again only   *)
(* if it is transient. *)
CallModel(s) ==
  /\ At(s, "call")
  /\ LET i == at[s].candidate IN
     \E outcome \in Called(i) :
       /\ calls' = [calls EXCEPT ![s] =
                      [count |-> @.count + 1, span |-> outcome.span,
                       error |-> IF outcome.error = "none" THEN @.error ELSE outcome.error]]
       /\ bill' = [bill EXCEPT ![s] = @ + outcome.bill]
       /\ IF outcome.error = "transient" /\ at[s].attempt < MaxAttempts
            THEN at' = [at EXCEPT ![s].attempt = @ + 1] /\ UNCHANGED <<pc, answer>>
            ELSE Goto(s, "record") /\ Answer(s, "model", ScoreOf(outcome, i)) /\ UNCHANGED at
  /\ UNCHANGED <<build, durable, degraded, cache, request, forced, granted, approved, crashes>>

(* A span, then the answer is accepted, or the next candidate is tried.        *)
Accepts_Poor(s) ==                                \* mutant: the bar is not compared
  answer[s].score # "none"
Accepts(s) ==
  /\ answer[s].score # "none"
  /\ InCascade(at[s].candidate) => ForceCheapest(s) \/ answer[s].score = "good"
Record(s) ==
  /\ At(s, "record")
  /\ spent' = [spent EXCEPT ![s] = @ + calls[s].span]
  /\ IF Accepts(s)
       THEN Goto(s, "log") /\ calls' = [calls EXCEPT ![s] = NoCalls] /\ UNCHANGED <<at, answer>>
       ELSE Advance(s, at[s].candidate)
  /\ bill' = [bill EXCEPT ![s] = IF pc'[s] = "call" THEN @ ELSE 0]
  /\ UNCHANGED <<build, status, logged, rows, approving, degraded, cache, request,
                 forced, granted, approved, crashes>>

(* A new answer enters the cache, then the log, and is sent. *)
Log(s) ==
  /\ At(s, "log")
  /\ Goto(s, "reply")
  /\ cache' = [cache EXCEPT ![s][request[s].prompt] = answer[s].score]
  /\ logged' = [logged EXCEPT ![s] = TRUE]
  /\ UNCHANGED <<build, status, spent, rows, approving, degraded, request, at, answer, history>>
Reply_Answers(s) ==                               \* mutant: a failure of the route is not reported
  /\ At(s, "reply") /\ answer[s].from # "failed"
  /\ Goto(s, "idle")
  /\ UNCHANGED <<build, durable, degraded, cache, request, at, answer, history>>
Reply(s) ==
  /\ At(s, "reply")
  /\ Goto(s, "idle")
  /\ UNCHANGED <<build, durable, degraded, cache, request, at, answer, history>>

(* The daemon dies; resumed, its harness sends the request again, and what    *)
(* the log has is answered from the log. *)
Crash(s) ==
  /\ pc[s] \notin {"down", "halted"} /\ crashes[s] < MaxCrashes
  /\ Goto(s, "down")
  /\ degraded' = [degraded EXCEPT ![s] = {}]
  /\ cache' = [cache EXCEPT ![s] = Prebuilt]
  /\ answer' = [answer EXCEPT ![s] = IF logged[s] THEN @ ELSE NoAnswer]
  /\ at' = [at EXCEPT ![s] = [candidate |-> 0, attempt |-> 0]]
  /\ calls' = [calls EXCEPT ![s] = NoCalls]
  /\ crashes' = [crashes EXCEPT ![s] = @ + 1]
  /\ bill' = [bill EXCEPT ![s] = 0]
  /\ UNCHANGED <<build, durable, request, forced, granted, approved>>
Resume(s) ==
  /\ At(s, "down") /\ status[s] # "halted"
  /\ Goto(s, IF request[s].n = 0 THEN "idle" ELSE IF logged[s] THEN "reply" ELSE "check")
  /\ status' = [status EXCEPT ![s] = "running"]
  /\ UNCHANGED <<build, spent, logged, rows, approving, degraded, cache, request, at, answer,
                 history>>

Enforce(s) == WithinBudget(s) \/ Degrade(s) \/ Halt(s) \/ Ask(s) \/ Flag(s) \/ Poll(s) \/ Decided(s)
Execute(s) == CacheDecision(s) \/ CallModel(s) \/ Record(s) \/ Log(s) \/ Reply(s)
Serve(s) == Enforce(s) \/ Execute(s)
Operate(c) == Approve(c) \/ Resolve(c) \/ Deny(c)

Next ==
  \/ \E s \in Session : (\E p \in Prompt : Send(s, p)) \/ Serve(s) \/ Crash(s) \/ Resume(s)
  \/ \E c \in CallIds : Operate(c)
Spec == Init /\ [][Next]_vars
(* A daemon goes on, a dead one is resumed, and every question is decided. *)
FairSpec == /\ Spec
            /\ \A s \in Session : WF_vars(Serve(s)) /\ WF_vars(Resume(s))
            /\ \A c \in CallIds : WF_vars(Operate(c))

-----------------------------------------------------------------------------
(* Properties *)

(* Type correctness of the session's rows and of the daemon's memory. *)
Label == {"idle", "check", "flag", "wait", "decided", "cache", "call", "record", "log", "reply",
          "down", "halted"}
Score == {"none", "good", "poor"}
TypeOK ==
  /\ route \in Routes
  /\ caller \in Callers /\ breach \in [Session -> Breaches \cup {"none"}]
  /\ status \in [Session -> {"running", "awaiting_approval", "halted"}]
  /\ spent \in [Session -> Nat] /\ logged \in [Session -> BOOLEAN]
  /\ rows \in [CallIds -> [status : {"absent", "pending", "succeeded", "failed"},
                           awaiting : BOOLEAN, owner : {<<>>} \cup Session \X (1..MaxRequests)]]
  /\ approving \subseteq CallIds
  /\ degraded \in [Session -> SUBSET Prompt] /\ cache \in [Session -> [Prompt -> Score]]
  /\ pc \in [Session -> Label]
  /\ request \in [Session -> [n : 0..MaxRequests, prompt : Prompt]]
  /\ at \in [Session -> [candidate : 0..Exhausted, attempt : 0..MaxAttempts]]
  /\ answer \in [Session -> [from : {"none", "cache", "model", "failed", "denied"}, score : Score]]
  /\ bill \in [Session -> Nat] /\ forced \in [Session -> SUBSET Prompt]
  /\ granted \in [Session -> SUBSET (1..MaxRequests)]
  /\ approved \subseteq {<<>>} \cup Session \X (1..MaxRequests)
  /\ calls \in [Session -> [count : Nat, error : {"none", "transient", "permanent"}, span : Nat]]
  /\ crashes \in [Session -> Nat]

(* The most that a call of a candidate costs: what the lockfile estimates, or, *)
(* where a provider may report it, the highest report.                       *)
Charge(i) == IF caller = "live" /\ MaxReport > Estimate(i) THEN MaxReport ELSE Estimate(i)
(* What the candidates of a set cost at most: the units of each, counted.     *)
Units(S) == UNION {{i} \X (1..Charge(i)) : i \in S}
CostOf(S) == Cardinality(Units(S))
RequestCost == CostOf({i \in DOMAIN Candidates : Allows(Candidates[i].model)})
ForcedCost == CostOf({i \in DOMAIN Candidates :
                        Allows(Candidates[i].model) /\ (i = 1 \/ ~InCascade(i))})

(* What a session can cost, where no estimate binds what a provider reports.  *)
(* A candidate is called MaxAttempts times at most, and never again after an  *)
(* error that is not transient.                                              *)
AttemptsBounded(s) ==
  /\ calls[s].count <= MaxAttempts
  /\ At(s, "call") => calls[s].error \in {"none", "transient"}
(* The spans, once there are any to pay for, pass the budget by less than one *)
(* request, by one more per approval when the breach asks, and by the forced  *)
(* candidates of each request when it degrades; a crash may add one request   *)
(* to either.                                                                 *)
Leave(s) ==
  CASE breach[s] = "halt" -> 0
    [] breach[s] = "ask" -> RequestCost * (Cardinality(granted[s]) + crashes[s])
    [] breach[s] = "degrade" -> ForcedCost * (request[s].n + crashes[s])
Allowance(s) == Budget + RequestCost + Leave(s)
SpansBounded(s) == breach[s] # "none" => spent[s] = 0 \/ spent[s] < Allowance(s)
(* The bill is not what the spans say: one span stands for all the attempts    *)
(* at its candidate, each of which may have been paid for, and a crash loses   *)
(* those of a candidate.  A request is paid for at most MaxAttempts times each *)
(* candidate, and again when a crash has it sent again.                      *)
BillBounded(s) == bill[s] <= MaxAttempts * RequestCost
CostIsBounded == \A s \in Session : AttemptsBounded(s) /\ SpansBounded(s) /\ BillBounded(s)

(* Where on_breach asks, no request goes on above the budget that no operator *)
(* approved, whatever daemons die while they wait and however approvals and   *)
(* denials meet: unless harnesses of two sessions number their calls alike.   *)
GrantedIsApproved ==
  ~SharedIds => \A s \in Session : breach[s] = "ask" =>
                  \A n \in granted[s] : <<s, n>> \in approved

(* A step of the cascade serves an answer below its bar only for a degraded  *)
(* prompt, so never before the spending has reached the budget; the cache     *)
(* serves one only if such a step, or a fallback, gave it to this daemon.     *)
AnswerMeetsBar ==
  \A s \in Session : answer[s].score = "poor" /\ At(s, "log") =>
    \/ answer[s].from = "model" /\ ~InCascade(at[s].candidate)
    \/ answer[s].from = "cache" /\ route.fallbacks # <<>>
    \/ breach[s] = "degrade" /\ spent[s] >= Budget /\ request[s].prompt \in forced[s]

(* A request is answered, or its session halted, if dead daemons are resumed  *)
(* and questions are decided.                                                *)
RequestIsAnswered ==
  \A s \in Session : At(s, "check") ~> pc[s] \in {"idle", "halted"}

-----------------------------------------------------------------------------
(* What the code's comments and documents say and the code does not do.       *)

(* budget.rs:33: on ask, approve lets the call proceed and deny fails it.     *)
ApprovalLetsProceed ==
  \A s \in Session : answer[s].from = "denied" => <<s, request[s].n>> \notin approved

(* session.rs:1008: one budget-ask decision per llm.request.                  *)
AskedForEachRequest ==
  \A s \in Session : \A n \in granted[s] : breach[s] = "ask" => <<s, n>> \in approved

(* cybersin-spec.md:166: a degraded request takes the cheapest cascade step; *)
(* dist.rs:444 forces the first, which is the lowest tier.                   *)
DegradedIsCheapest ==
  \A s \in Session : At(s, "call") /\ ForceCheapest(s) /\ InCascade(at[s].candidate) =>
    \A i \in DOMAIN route.steps : Candidates[at[s].candidate].cost <= route.steps[i].cost

-----------------------------------------------------------------------------
(* The inductive invariants behind GrantedIsApproved and AnswerMeetsBar.      *)

(* A daemon that serves has been sent a request, and calls a candidate.       *)
Serves(s) == pc[s] \notin {"idle", "down", "halted"}
ServingInv ==
  \A s \in Session :
    /\ Serves(s) => request[s].n # 0
    /\ pc[s] \in {"call", "record"} => at[s].candidate \in DOMAIN Candidates

(* Where call ids are not shared a row is of the request that asked first, is *)
(* resolved well only by an operator who approved it, and no request goes on  *)
(* but by a row of its own.                                                   *)
RowsInv ==
  /\ \A c \in CallIds :
       /\ rows[c].owner \in {<<>>, c}
       /\ c \in approving \/ rows[c].status # "absent" => rows[c].owner = c
       /\ c \in approving \/ rows[c].status = "succeeded" => c \in approved
  /\ \A s \in Session : breach[s] = "ask" => \A n \in granted[s] : <<s, n>> \in approved

(* Prompts are degraded when the budget is spent, and stay so in the history. *)
Overspent(s, p) == breach[s] = "degrade" /\ spent[s] >= Budget /\ p \in forced[s]
ForcedInv ==
  \A s \in Session : /\ degraded[s] \subseteq forced[s]
                     /\ \A p \in forced[s] : Overspent(s, p)
(* A poor answer comes from a fallback or for such a prompt, directly or      *)
(* through the cache.                                                         *)
Excused(s, p) == route.fallbacks # <<>> \/ Overspent(s, p)
AnswerInv ==
  \A s \in Session :
    /\ \A p \in Prompt : cache[s][p] = "poor" => Excused(s, p)
    /\ At(s, "record") => answer[s].from = "model"
    /\ At(s, "log") => answer[s].from \in {"model", "cache"}
    /\ At(s, "log") /\ answer[s].from = "model" => at[s].candidate \in DOMAIN Candidates
    /\ At(s, "log") /\ answer[s].score = "poor" =>
         \/ answer[s].from = "model" /\ ~InCascade(at[s].candidate)
         \/ answer[s].from = "cache" /\ Excused(s, request[s].prompt)
         \/ Overspent(s, request[s].prompt)

(* The attempts at a candidate: each is counted, and the span says no more     *)
(* than a call costs.                                                        *)
AttemptsInv ==
  \A s \in Session :
    /\ At(s, "call") => /\ at[s].attempt = calls[s].count + 1
                        /\ calls[s].error \in {"none", "transient"}
    /\ At(s, "record") => /\ at[s].attempt = calls[s].count
                          /\ calls[s].span <= Charge(at[s].candidate)
    /\ ~At(s, "call") /\ ~At(s, "record") => calls[s] = NoCalls

(* What the spans were below when the request at hand was let through: the    *)
(* budget, or where that was passed what the session was left to spend, less  *)
(* this request, which has not been paid for yet.                             *)
Stake(s) ==
  CASE breach[s] = "halt" -> Budget
    [] breach[s] = "ask" -> Budget + Leave(s)
    [] breach[s] = "degrade" ->
         IF ForceCheapest(s) THEN Allowance(s) - ForcedCost ELSE Budget
(* Candidates are paid for in their order, each once.  A request that comes   *)
(* again was granted before the crash that it leaves the session, or has not  *)
(* been counted.                                                              *)
Tried(i, force) == {j \in 1..i - 1 : Open(j, force)}
SpansWithin(s) ==
  /\ spent[s] < Allowance(s)
  /\ At(s, "cache") => spent[s] < Stake(s)
  /\ pc[s] \in {"call", "record"} =>
       spent[s] < Stake(s) + CostOf(Tried(at[s].candidate, ForceCheapest(s)))
  /\ breach[s] = "ask" /\ request[s].n \in granted[s]
       /\ pc[s] \in {"check", "flag", "wait", "decided", "down"} => spent[s] < Stake(s)
  /\ breach[s] = "degrade" /\ pc[s] \in {"check", "down"} => spent[s] < Allowance(s) - ForcedCost
SpansInv ==
  \A s \in Session :
    /\ granted[s] \subseteq 1..request[s].n
    /\ pc[s] \in {"flag", "wait", "decided"} => breach[s] = "ask"
    /\ pc[s] \in {"call", "record"} => Open(at[s].candidate, ForceCheapest(s))
    /\ RequestCost = 0 => spent[s] = 0
    /\ breach[s] # "none" /\ Budget + RequestCost > 0 => SpansWithin(s)
=============================================================================
