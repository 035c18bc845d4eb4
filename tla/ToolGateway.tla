---------------------------- MODULE ToolGateway ----------------------------
(***************************************************************************)
(* The idempotent tool gateway of crates/cybersin-gateway together with    *)
(* the tool_calls ledger of crates/cybersin-runtime/src/storage.rs.        *)
(*                                                                         *)
(* A ledger row is identified by the pair (tool, idem_key).  Callers       *)
(* submit calls; operators run `cybersin approve`, `deny`, `dlq retry` and *)
(* `dlq drop`, usually from another process that shares only the database. *)
(* Every SQL statement is one atomic step: nothing in the gateway holds a  *)
(* transaction over two of them, so any two statements of two processes    *)
(* interleave.                                                             *)
(***************************************************************************)
EXTENDS Integers, FiniteSets

CONSTANTS
  Session,       \* session ids
  Tool,          \* tool names
  Key,           \* idem_keys a caller supplies itself
  Caller,        \* processes that run ToolGateway::call
  Operator,      \* processes that run approve, deny, dlq_retry, dlq_drop
  RetryClass,    \* tool -> "read" | "write" | "critical"
  Decisions,     \* tool -> the decisions the policy hooks may reach for it
  MaxSeq,        \* bound: largest seq of an auto-derived key session:seq
  MaxCalls,      \* bound: calls of a behaviour
  MaxReopens,    \* bound: dlq retries of one call
  MayCrash,      \* may a process die between two statements?
  None           \* no process, no call, no failure

Proc == Caller \cup Operator
Class == {"read", "write", "critical"}
Decision == {"allow", "reject", "require_approval"}
DerivedKey == Session \X (1..MaxSeq)
CallId == Tool \X (Key \cup DerivedKey)

ASSUME ProcAssumption == Caller \cap Operator = {} /\ None \notin Proc \cup CallId
ASSUME ToolAssumption == /\ RetryClass \in [Tool -> Class]
                         /\ Decisions \in [Tool -> SUBSET Decision]
ASSUME BoundAssumption == /\ MaxSeq \in Nat /\ MaxCalls \in Nat /\ MaxReopens \in Nat
                          /\ MayCrash \in BOOLEAN

VARIABLES
  status,        \* tool_calls.status, "absent" when the row does not exist
  awaiting,      \* tool_calls.awaiting_approval
  attempts,      \* tool_calls.attempts
  result,        \* tool_calls.result: which run of the executor produced it
  failure,       \* tool_calls.failure_reason and retriable
  dropped,       \* tool_calls.dropped
  owner,         \* tool_calls.session_id
  sessionStatus, \* sessions.status
  pc,            \* the next statement of each process
  op,            \* the gateway operation a process is in
  target,        \* the call that operation is about
  sess,          \* its session: the argument of call, or the row's session_id
  left,          \* executor attempts left in execute_and_resolve
  value,         \* what the executor returned, until it is recorded
  outcome,       \* what the process's last operation returned
  winner,        \* history: the process whose insert created the row
  runs,          \* history: executor invocations of the row
  callEffects,   \* history: successful invocations made by call
  operatorEffects, \* history: successful invocations made by approve or dlq_retry
  approvals,     \* history: approve passed parked_row
  denials,       \* history: deny recorded the denial
  reopens        \* history: dlq_retry reopened the row

ledger == <<status, awaiting, attempts, result, failure, dropped, owner>>
local  == <<pc, op, target, sess, left, value, outcome>>
history == <<winner, runs, callEffects, operatorEffects, approvals, denials, reopens>>
vars == <<ledger, sessionStatus, local, history>>

Tl(c) == c[1]
Present(c) == status[c] # "absent"
Terminal(c) == status[c] \in {"succeeded", "failed"}
Parked(c) == status[c] = "pending" /\ awaiting[c]
DeadLetter(c) == status[c] = "failed" /\ ~dropped[c]

(* RetryClass::max_auto_retries, and the attempts execute_and_resolve allows. *)
MaxAutoRetries(class) ==
  CASE class = "read" -> 3 [] class = "write" -> 1 [] OTHER -> 0
AttemptsAllowed(c) == 1 + MaxAutoRetries(RetryClass[Tl(c)])

Ok(n) == [kind |-> "ok", value |-> n]
Failed(reason, retriable) ==
  [kind |-> "failed", reason |-> reason, retriable |-> retriable]
Rejected == Failed("rejected", FALSE)
Denied == Failed("denied", FALSE)
Exhausted(c) == Failed("error", RetryClass[Tl(c)] # "critical")
ParkedOutcome == [kind |-> "parked"]
ErrorOutcome == [kind |-> "error"]        \* the operation returned Err
NoOutcome == [kind |-> "none"]

Reason == {"error", "denied", "rejected"}
FailedOutcome == [kind : {"failed"}, reason : Reason, retriable : BOOLEAN]
Outcome == [kind : {"ok"}, value : Nat] \cup FailedOutcome
             \cup {ParkedOutcome, ErrorOutcome, NoOutcome}

(* outcome_for_existing_row and wait_for_resolution read a row alike. *)
Answered_IgnoresParked(c) == Terminal(c)     \* mutant: a parked row is no answer
Answered(c) == Terminal(c) \/ awaiting[c]
Answer(c) == IF status[c] = "succeeded" THEN Ok(result[c])
             ELSE IF status[c] = "failed" THEN failure[c]
             ELSE ParkedOutcome

CallCount(s) == Cardinality({c \in CallId : Present(c) /\ owner[c] = s})

Init ==
  /\ status = [c \in CallId |-> "absent"]
  /\ awaiting = [c \in CallId |-> FALSE]
  /\ attempts = [c \in CallId |-> 0]
  /\ result = [c \in CallId |-> 0]
  /\ failure = [c \in CallId |-> NoOutcome]
  /\ dropped = [c \in CallId |-> FALSE]
  /\ owner = [c \in CallId |-> None]
  /\ sessionStatus = [s \in Session |-> "running"]
  /\ pc = [p \in Proc |-> "idle"]
  /\ op = [p \in Proc |-> "none"]
  /\ target = [p \in Proc |-> None]
  /\ sess = [p \in Proc |-> None]
  /\ left = [p \in Proc |-> 0]
  /\ value = [p \in Proc |-> 0]
  /\ outcome = [p \in Proc |-> NoOutcome]
  /\ winner = [c \in CallId |-> None]
  /\ runs = [c \in CallId |-> 0]
  /\ callEffects = [c \in CallId |-> 0]
  /\ operatorEffects = [c \in CallId |-> 0]
  /\ approvals = [c \in CallId |-> 0]
  /\ denials = [c \in CallId |-> 0]
  /\ reopens = [c \in CallId |-> 0]

-----------------------------------------------------------------------------
(* Control of a process: it moves from one statement to the next, or its    *)
(* operation returns an outcome.                                            *)
At(p, label) == pc[p] = label
Goto(p, label) == pc' = [pc EXCEPT ![p] = label] /\ UNCHANGED <<op, target, sess, outcome>>
Enter(p, operation, label, c, s) ==
  /\ At(p, "idle")
  /\ pc' = [pc EXCEPT ![p] = label]
  /\ op' = [op EXCEPT ![p] = operation]
  /\ target' = [target EXCEPT ![p] = c]
  /\ sess' = [sess EXCEPT ![p] = s]
  /\ outcome' = [outcome EXCEPT ![p] = NoOutcome]
Return(p, answer) ==
  /\ pc' = [pc EXCEPT ![p] = "idle"]
  /\ outcome' = [outcome EXCEPT ![p] = answer]
  /\ op' = [op EXCEPT ![p] = "none"]
  /\ sess' = [sess EXCEPT ![p] = None]
  /\ left' = [left EXCEPT ![p] = 0]
  /\ value' = [value EXCEPT ![p] = 0]
  /\ UNCHANGED target

(* execute_and_resolve: entered with the retry budget of the row's class. *)
StartExecuting(p) ==
  /\ Goto(p, "attempt")
  /\ left' = [left EXCEPT ![p] = AttemptsAllowed(target[p])]
  /\ UNCHANGED value

-----------------------------------------------------------------------------
(* ToolGateway::call *)

(* Arguments that fail the tool's schema return before the ledger is touched. *)
RejectSchema(p) ==
  /\ At(p, "idle")
  /\ outcome' = [outcome EXCEPT ![p] = ErrorOutcome]
  /\ target' = [target EXCEPT ![p] = None]
  /\ UNCHANGED <<ledger, sessionStatus, history, pc, op, sess, left, value>>

(* The bound on calls: those in the ledger or about to be. *)
Room(c) ==
  LET begun == {d \in CallId : Present(d) \/ \E q \in Proc : At(q, "begin") /\ target[q] = d}
  IN Cardinality(begun \cup {c}) <= MaxCalls

(* A call that brings its own idem_key. *)
Submit(p) ==
  /\ \E s \in Session, t \in Tool, k \in Key :
       Room(<<t, k>>) /\ Enter(p, "call", "begin", <<t, k>>, s)
  /\ UNCHANGED <<ledger, sessionStatus, history, left, value>>

(* begin_with_derived_key reads the session's call count first; another call *)
(* of the session may be inserted before this one's insert.                  *)
SubmitDerived(p) ==
  /\ \E s \in Session, t \in Tool, n \in 1..MaxSeq :
       /\ n = CallCount(s) + 1
       /\ Room(<<t, <<s, n>>>>)
       /\ Enter(p, "call", "begin", <<t, <<s, n>>>>, s)
  /\ UNCHANGED <<ledger, sessionStatus, history, left, value>>

(* begin_tool_call: INSERT .. ON CONFLICT (tool, idem_key) DO NOTHING.  The  *)
(* winner goes on to the policy hooks.                                       *)
WinBegin(p) ==
  LET c == target[p] IN
  /\ At(p, "begin") /\ ~Present(c)
  /\ status' = [status EXCEPT ![c] = "pending"]
  /\ owner' = [owner EXCEPT ![c] = sess[p]]
  /\ winner' = [winner EXCEPT ![c] = p]
  /\ Goto(p, "policy")
  /\ UNCHANGED <<awaiting, attempts, result, failure, dropped, sessionStatus, left,
                 value, runs, callEffects, operatorEffects, approvals, denials, reopens>>

LoseBegin(p) ==
  /\ At(p, "begin") /\ Present(target[p])
  /\ Goto(p, "wait")
  /\ UNCHANGED <<ledger, sessionStatus, history, left, value>>

(* The loser reads the row back in a second statement, and answers from it   *)
(* (outcome_for_existing_row) or polls it (wait_for_resolution): this is the *)
(* loop's exit, a pass that finds the row pending and not parked changes     *)
(* nothing.                                                                  *)
WaitForResolution(p) ==
  /\ At(p, "wait") /\ Answered(target[p])
  /\ Return(p, Answer(target[p]))
  /\ UNCHANGED <<ledger, sessionStatus, history>>

(* The policy hooks, first decision other than Allow wins. *)
PolicyAllow(p) ==
  /\ At(p, "policy") /\ "allow" \in Decisions[Tl(target[p])]
  /\ StartExecuting(p)
  /\ UNCHANGED <<ledger, sessionStatus, history>>

PolicyReject(p) ==
  LET c == target[p] IN
  /\ At(p, "policy") /\ "reject" \in Decisions[Tl(c)]
  /\ status' = [status EXCEPT ![c] = "failed"]
  /\ failure' = [failure EXCEPT ![c] = Rejected]
  /\ Return(p, Rejected)
  /\ UNCHANGED <<awaiting, attempts, result, dropped, owner, sessionStatus, history>>

(* RequireApproval flags the row; the session's status is a second statement. *)
PolicyPark(p) ==
  LET c == target[p] IN
  /\ At(p, "policy") /\ "require_approval" \in Decisions[Tl(c)]
  /\ awaiting' = [awaiting EXCEPT ![c] = TRUE]
  /\ Goto(p, "park")
  /\ UNCHANGED <<status, attempts, result, failure, dropped, owner, sessionStatus,
                 history, left, value>>

ParkSession(p) ==
  /\ At(p, "park")
  /\ sessionStatus' = [sessionStatus EXCEPT ![sess[p]] = "awaiting_approval"]
  /\ Return(p, ParkedOutcome)
  /\ UNCHANGED <<ledger, history>>

-----------------------------------------------------------------------------
(* execute_and_resolve, shared by call, approve and dlq_retry *)

IncrementAttempt(p) ==
  LET c == target[p] IN
  /\ At(p, "attempt")
  /\ attempts' = [attempts EXCEPT ![c] = @ + 1]
  /\ Goto(p, "execute")
  /\ UNCHANGED <<status, awaiting, result, failure, dropped, owner, sessionStatus,
                 history, left, value>>

ExecuteOk(p) ==
  LET c == target[p] IN
  /\ At(p, "execute")
  /\ runs' = [runs EXCEPT ![c] = @ + 1]
  /\ IF op[p] = "call"
       THEN /\ callEffects' = [callEffects EXCEPT ![c] = @ + 1]
            /\ UNCHANGED operatorEffects
       ELSE /\ operatorEffects' = [operatorEffects EXCEPT ![c] = @ + 1]
            /\ UNCHANGED callEffects
  /\ value' = [value EXCEPT ![p] = runs'[c]]
  /\ Goto(p, "record_ok")
  /\ UNCHANGED <<ledger, sessionStatus, left, winner, approvals, denials, reopens>>

ExecuteErr_OffByOne(p) ==                     \* mutant: one loop too many
  /\ At(p, "execute")
  /\ runs' = [runs EXCEPT ![target[p]] = @ + 1]
  /\ left' = [left EXCEPT ![p] = IF @ > 0 THEN @ - 1 ELSE 0]
  /\ Goto(p, IF left[p] > 0 THEN "attempt" ELSE "record_failed")
  /\ UNCHANGED <<ledger, sessionStatus, value, winner, callEffects, operatorEffects,
                 approvals, denials, reopens>>
ExecuteErr(p) ==
  LET c == target[p] IN
  /\ At(p, "execute")
  /\ runs' = [runs EXCEPT ![c] = @ + 1]
  /\ left' = [left EXCEPT ![p] = @ - 1]
  /\ Goto(p, IF left[p] > 1 THEN "attempt" ELSE "record_failed")
  /\ UNCHANGED <<ledger, sessionStatus, value, winner, callEffects, operatorEffects,
                 approvals, denials, reopens>>

(* resolve_tool_call_succeeded and resolve_tool_call_failed update the row   *)
(* whatever its status is.                                                   *)
ResolveSucceeded_LosesResult(p) ==            \* mutant: the result column is not written
  /\ At(p, "record_ok")
  /\ status' = [status EXCEPT ![target[p]] = "succeeded"]
  /\ failure' = [failure EXCEPT ![target[p]] = NoOutcome]
  /\ Return(p, Ok(value[p]))
  /\ UNCHANGED <<awaiting, attempts, result, dropped, owner, sessionStatus, history>>
ResolveSucceeded(p) ==
  LET c == target[p] IN
  /\ At(p, "record_ok")
  /\ status' = [status EXCEPT ![c] = "succeeded"]
  /\ result' = [result EXCEPT ![c] = value[p]]
  /\ failure' = [failure EXCEPT ![c] = NoOutcome]
  /\ Return(p, Ok(value[p]))
  /\ UNCHANGED <<awaiting, attempts, dropped, owner, sessionStatus, history>>

ResolveFailed(p) ==
  LET c == target[p] IN
  /\ At(p, "record_failed")
  /\ status' = [status EXCEPT ![c] = "failed"]
  /\ failure' = [failure EXCEPT ![c] = Exhausted(c)]
  /\ Return(p, Exhausted(c))
  /\ UNCHANGED <<awaiting, attempts, result, dropped, owner, sessionStatus, history>>

-----------------------------------------------------------------------------
(* cybersin approve | deny | dlq retry | dlq drop.  Each reads the row, and  *)
(* refuses or goes on to its statements; nothing keeps the row as it was     *)
(* read.                                                                     *)
Refuse(p) ==
  /\ At(p, "idle")
  /\ outcome' = [outcome EXCEPT ![p] = ErrorOutcome]
  /\ target' = [target EXCEPT ![p] = None]
  /\ UNCHANGED <<pc, op, sess>>

(* parked_row *)
CheckParked(p) ==
  /\ \E c \in CallId, operation \in {"approve", "deny"} :
       IF Parked(c) THEN Enter(p, operation, "clear", c, owner[c]) ELSE Refuse(p)
  /\ UNCHANGED <<ledger, sessionStatus, history, left, value>>

ClearAwaiting(p) ==
  LET c == target[p] IN
  /\ At(p, "clear")
  /\ awaiting' = [awaiting EXCEPT ![c] = FALSE]
  /\ IF op[p] = "approve"
       THEN /\ approvals' = [approvals EXCEPT ![c] = @ + 1]
            /\ UNCHANGED denials
            /\ Goto(p, "resume")
       ELSE /\ denials' = [denials EXCEPT ![c] = @ + 1]
            /\ UNCHANGED approvals
            /\ Goto(p, "record_denied")
  /\ UNCHANGED <<status, attempts, result, failure, dropped, owner, sessionStatus,
                 left, value, winner, runs, callEffects, operatorEffects, reopens>>

ResolveDenied(p) ==
  LET c == target[p] IN
  /\ At(p, "record_denied")
  /\ status' = [status EXCEPT ![c] = "failed"]
  /\ failure' = [failure EXCEPT ![c] = Denied]
  /\ Goto(p, "resume")
  /\ UNCHANGED <<awaiting, attempts, result, dropped, owner, sessionStatus, history,
                 left, value>>

(* approve resumes the session and executes; deny resumes it and is done. *)
ResumeSession(p) ==
  /\ At(p, "resume")
  /\ sessionStatus' = [sessionStatus EXCEPT ![sess[p]] = "running"]
  /\ IF op[p] = "approve"
       THEN StartExecuting(p)
       ELSE Return(p, Denied)
  /\ UNCHANGED <<ledger, history>>

(* dead_letter_row, for dlq_retry and dlq_drop *)
CheckDeadLetter(p) ==
  /\ \E c \in CallId, operation \in {"dlq_retry", "dlq_drop"} :
       /\ operation = "dlq_retry" => reopens[c] < MaxReopens
       /\ IF DeadLetter(c)
            THEN Enter(p, operation, IF operation = "dlq_retry" THEN "reopen" ELSE "drop",
                       c, owner[c])
            ELSE Refuse(p)
  /\ UNCHANGED <<ledger, sessionStatus, history, left, value>>

Reopen(p) ==
  LET c == target[p] IN
  /\ At(p, "reopen")
  /\ status' = [status EXCEPT ![c] = "pending"]
  /\ failure' = [failure EXCEPT ![c] = NoOutcome]
  /\ dropped' = [dropped EXCEPT ![c] = FALSE]
  /\ reopens' = [reopens EXCEPT ![c] = @ + 1]
  /\ StartExecuting(p)
  /\ UNCHANGED <<awaiting, attempts, result, owner, sessionStatus, winner, runs,
                 callEffects, operatorEffects, approvals, denials>>

Drop(p) ==
  LET c == target[p] IN
  /\ At(p, "drop")
  /\ dropped' = [dropped EXCEPT ![c] = TRUE]
  /\ Return(p, NoOutcome)
  /\ UNCHANGED <<status, awaiting, attempts, result, failure, owner, sessionStatus,
                 history>>

-----------------------------------------------------------------------------
(* The process dies between two statements; the ledger keeps what the last   *)
(* one wrote, and the process may come back and submit again.                *)
Crash(p) ==
  /\ MayCrash /\ pc[p] # "idle"
  /\ Return(p, NoOutcome)
  /\ UNCHANGED <<ledger, sessionStatus, history>>

Executing(p) == \/ IncrementAttempt(p) \/ ExecuteOk(p) \/ ExecuteErr(p)
                \/ ResolveSucceeded(p) \/ ResolveFailed(p)
(* What a process does of itself once an operation has begun. *)
Continue(p) == \/ WinBegin(p) \/ LoseBegin(p) \/ WaitForResolution(p)
               \/ PolicyAllow(p) \/ PolicyReject(p) \/ PolicyPark(p) \/ ParkSession(p)
               \/ Executing(p)
               \/ ClearAwaiting(p) \/ ResolveDenied(p) \/ ResumeSession(p)
               \/ Reopen(p) \/ Drop(p)

Next ==
  \/ \E p \in Caller : RejectSchema(p) \/ Submit(p) \/ SubmitDerived(p)
  \/ \E p \in Operator : CheckParked(p) \/ CheckDeadLetter(p)
  \/ \E p \in Proc : Continue(p) \/ Crash(p)

Spec == Init /\ [][Next]_vars

(* tokio runs every task that can run, and the 20 ms poll of                 *)
(* wait_for_resolution re-reads the row for ever.                            *)
FairSpec == Spec /\ \A p \in Proc : WF_vars(Continue(p))

-----------------------------------------------------------------------------
(* Properties *)

Label == {"idle", "begin", "wait", "policy", "park", "attempt", "execute", "record_ok",
          "record_failed", "clear", "record_denied", "resume", "reopen", "drop"}

OperationName == {"none", "call", "approve", "deny", "dlq_retry", "dlq_drop"}

LedgerType ==
  /\ status \in [CallId -> {"absent", "pending", "succeeded", "failed"}]
  /\ awaiting \in [CallId -> BOOLEAN]
  /\ attempts \in [CallId -> Nat]
  /\ result \in [CallId -> Nat]
  /\ failure \in [CallId -> FailedOutcome \cup {NoOutcome}]
  /\ dropped \in [CallId -> BOOLEAN]
  /\ owner \in [CallId -> Session \cup {None}]
SessionType == sessionStatus \in [Session -> {"running", "awaiting_approval"}]
LocalType ==
  /\ pc \in [Proc -> Label]
  /\ op \in [Proc -> OperationName]
  /\ target \in [Proc -> CallId \cup {None}]
  /\ sess \in [Proc -> Session \cup {None}]
  /\ left \in [Proc -> 0..4]
  /\ value \in [Proc -> Nat]
  /\ outcome \in [Proc -> Outcome]
HistoryType ==
  /\ winner \in [CallId -> Proc \cup {None}]
  /\ runs \in [CallId -> Nat]
  /\ callEffects \in [CallId -> Nat]
  /\ operatorEffects \in [CallId -> Nat]
  /\ approvals \in [CallId -> Nat]
  /\ denials \in [CallId -> Nat]
  /\ reopens \in [CallId -> Nat]

(* Type correctness of the ledger, the sessions and the processes' locals. *)
TypeOK == LedgerType /\ SessionType /\ LocalType /\ HistoryType

(* ToolGateway::call makes a call's side effect happen at most once, however *)
(* submissions of the same (tool, idem_key) interleave with each other, with *)
(* crashes and with operators (gateway.rs, the `won` flag of begin_tool_call *)
(* decides who executes).                                                    *)
CallSucceedsAtMostOnce == \A c \in CallId : callEffects[c] <= 1

(* The executor runs only for an admission: the insert that won past the     *)
(* policy hooks, an approval or a dlq retry.  Each admission buys the retry  *)
(* budget of the call's class and one success; a call that always needs      *)
(* approval gets none from its insert.                                       *)
Admissions(c) ==
  approvals[c] + reopens[c]
    + IF winner[c] = None \/ "allow" \notin Decisions[Tl(c)] THEN 0 ELSE 1
RunsAreAdmitted ==
  \A c \in CallId :
    /\ runs[c] <= AttemptsAllowed(c) * Admissions(c)
    /\ callEffects[c] + operatorEffects[c] <= Admissions(c)

(* The ledger never reports fewer attempts than the executor has made, even  *)
(* when the process dies in the middle of one.                               *)
AttemptsCoverRuns ==
  \A c \in CallId :
    runs[c] + Cardinality({p \in Proc : At(p, "execute") /\ target[p] = c}) <= attempts[c]

(* Every process that was given a resolved outcome of a call was given the   *)
(* outcome the ledger holds, as long as no human retried the call and no two *)
(* decisions raced: duplicates are replays (outcome_for_existing_row).       *)
Resolved(p) == outcome[p].kind \in {"ok", "failed"}
Undisturbed(c) == reopens[c] = 0 /\ approvals[c] + denials[c] <= 1
ReplaysAgree ==
  \A p \in Proc : Resolved(p) /\ Undisturbed(target[p]) => outcome[p] = Answer(target[p])

(* retry.rs: a terminal row is never resurrected by call; its outcome        *)
(* changes only by dlq retry, or by a second decision that raced the first.  *)
TerminalIsFinal ==
  [][\A c \in CallId :
       Terminal(c) /\ (status'[c] # status[c] \/ Answer(c)' # Answer(c))
         => ~Undisturbed(c)']_vars

(* A submission whose auto-derived key is still the session's next one gets  *)
(* a row of its own: only a concurrent call of the session can make it read  *)
(* as a replay of another (the comment in begin_with_derived_key).           *)
DerivedKeyIsFresh ==
  \A p \in Proc, s \in Session, n \in 1..MaxSeq :
    At(p, "begin") /\ target[p][2] = <<s, n>> /\ n = CallCount(s) + 1
      => ~Present(target[p])

(* A parked call leaves the gate only by a decision: no submission, retry or *)
(* crash runs or resolves it behind the operator's back.                     *)
ParkedUntilDecided ==
  [][\A c \in CallId :
       Parked(c) /\ UNCHANGED <<approvals[c], denials[c]>>
         => Parked(c)' /\ UNCHANGED <<runs[c], attempts[c]>>]_vars

(* Every operation returns: the losers of the race for a row are released by *)
(* whoever works on it, unless that process died (wait_for_resolution has no *)
(* other way out).                                                           *)
Orphaned(c) ==
  /\ status[c] = "pending" /\ ~awaiting[c]
  /\ \A q \in Proc : target[q] = c => pc[q] \in {"idle", "begin", "wait"}
OperationsReturn ==
  \A p \in Proc : pc[p] # "idle" ~> pc[p] = "idle" \/ Orphaned(target[p])

-----------------------------------------------------------------------------
(* Expectations of the comments and documents that the code does not meet.   *)

(* gateway.rs:163: there is exactly one approval decision per call. *)
OneDecisionPerCall == \A c \in CallId : approvals[c] + denials[c] <= 1

(* storage.rs:423: a denied call is not treated as retriable by dlq retry. *)
DeniedIsNotRetried ==
  \A c \in CallId : denials[c] > 0 /\ approvals[c] = 0 => runs[c] = 0

(* retry.rs:32: a critical call's failure lands in the dead-letter queue. *)
FailureIsDeadLetter ==
  [][\A c \in CallId : status[c] = "pending" /\ status'[c] = "failed" => DeadLetter(c)']_vars

(* gateway.rs:328: a decision resumes the session; once everything returned  *)
(* and no call of the session is parked, the session is running.             *)
DecisionResumesSession ==
  (\A p \in Proc : pc[p] = "idle") =>
    \A s \in Session : sessionStatus[s] = "awaiting_approval" =>
      \E c \in CallId : owner[c] = s /\ Parked(c)

-----------------------------------------------------------------------------
(* The inductive invariant behind CallSucceedsAtMostOnce. *)

(* A process inside an operation has a call, past begin_tool_call or an      *)
(* operator's check the call has a row, and inside the retry loop an attempt *)
(* is left.                                                                  *)
LocalsInv ==
  \A p \in Proc : /\ ~At(p, "idle") => target[p] \in CallId
                  /\ pc[p] \notin {"idle", "begin"} => Present(target[p])
                  /\ pc[p] \in {"attempt", "execute"} => left[p] \in 1..4
                  /\ At(p, "reopen") => op[p] = "dlq_retry"
                  /\ At(p, "record_denied") => op[p] # "approve"

(* Only the process whose insert created the row is past begin_tool_call in  *)
(* call, and before its own success the row has no success made by call.     *)
WonLabels == {"policy", "park", "attempt", "execute", "record_ok", "record_failed"}
WinnerInv ==
  \A p \in Proc :
    op[p] = "call" /\ pc[p] \in WonLabels
      => /\ winner[target[p]] = p
         /\ pc[p] # "record_ok" => callEffects[target[p]] = 0

(* A row nobody inserted has no winner and no effects. *)
AbsentInv ==
  \A c \in CallId : /\ ~Present(c) => callEffects[c] = 0
                    /\ ~Present(c) <=> winner[c] = None

IInv == TypeOK /\ LocalsInv /\ WinnerInv /\ AbsentInv /\ CallSucceedsAtMostOnce

(* The inductive invariant behind RunsAreAdmitted: what a process may still   *)
(* make of the admission it holds is set aside, one ticket for each run that *)
(* its retry loop has left.                                                  *)
Owed(p) ==
  IF pc[p] \in {"attempt", "execute"} THEN left[p]
  ELSE IF \/ At(p, "policy") /\ "allow" \in Decisions[Tl(target[p])]
          \/ At(p, "resume") /\ op[p] = "approve"
       THEN AttemptsAllowed(target[p]) ELSE 0
Tickets(c) == {t \in Proc \X (1..4) : target[t[1]] = c /\ t[2] <= Owed(t[1])}
Holders(c) == {p \in Proc : target[p] = c /\ Owed(p) > 0}
Effects(c) == callEffects[c] + operatorEffects[c]
RunsInv ==
  \A c \in CallId : /\ IsFiniteSet(Tickets(c))
                    /\ runs[c] + Cardinality(Tickets(c)) <= AttemptsAllowed(c) * Admissions(c)
EffectsInv ==
  \A c \in CallId : /\ IsFiniteSet(Holders(c))
                    /\ Effects(c) + Cardinality(Holders(c)) <= Admissions(c)

(* Operators' commands on the same call do not overlap between their check of *)
(* the row and the statements that follow from it; those on different calls  *)
(* may, and so may an approved call's execution and anything else.           *)
Deciding == {"clear", "record_denied", "resume", "reopen"}
DecisionsApart ==
  \A p, q \in Operator :
    pc[p] \in Deciding /\ pc[q] \in Deciding /\ target[p] = target[q] => p = q
OneOperator == \A p, q \in Operator : p = q

(* Then whoever works on a call is alone with it, and finds the row as its   *)
(* last statement left it; a decision that is recorded stays.                *)
Works(p) ==
  \/ pc[p] \in {"policy", "attempt", "execute", "record_ok", "record_failed",
               "clear", "record_denied", "reopen"}
  \/ At(p, "resume") /\ op[p] = "approve"
WorkersInv ==
  \A p \in Proc : Works(p) =>
    /\ \A q \in Proc \ {p} : ~(Works(q) /\ target[q] = target[p])
    /\ status[target[p]] = IF At(p, "reopen") THEN "failed" ELSE "pending"
    /\ awaiting[target[p]] <=> At(p, "clear")
    /\ Effects(target[p]) > 0 <=> At(p, "record_ok")
DecidersInv ==
  \A p \in Proc :
    /\ pc[p] \in {"clear", "record_denied", "resume", "reopen"} => p \in Operator
    /\ At(p, "resume") /\ op[p] # "approve"
         => status[target[p]] = "failed" /\ failure[target[p]] = Denied
DecidedInv ==
  \A c \in CallId :
    /\ status[c] # "pending" => ~awaiting[c]
    /\ awaiting[c] \/ status[c] \in {"absent", "failed"} => Effects(c) = 0
    /\ status[c] = "failed" => failure[c] \in FailedOutcome
-----------------------------------------------------------------------------
(* The gateway whose decisions are apart implements CallOnce: a side effect   *)
(* is a successful run, an outcome what a terminal row holds, and a process   *)
(* was told what its last operation returned.                                *)
Performed == {c \in CallId : Effects(c) > 0}
Settled == [c \in CallId |-> IF Terminal(c) THEN Answer(c) ELSE NoOutcome]
Told == [p \in Proc |-> IF Resolved(p) THEN <<target[p], outcome[p]>> ELSE None]
Promise == INSTANCE CallOnce WITH
  Call <- CallId,
  Success <- [kind : {"ok"}, value : Nat],
  Failure <- FailedOutcome,
  Undecided <- NoOutcome,
  Nothing <- None,
  performed <- Performed,
  decision <- Settled,
  told <- Told

(* Refinement: every behaviour of the gateway is one CallOnce allows. *)
ImplementsCallOnce == Promise!Spec
=============================================================================
