-------------------------- MODULE ToolGatewayProofs --------------------------
(* Theorems about ToolGateway, for every set of sessions, tools, keys,       *)
(* callers and operators, every retry class and policy, with and without     *)
(* crashes.                                                                  *)
EXTENDS ToolGateway, FiniteSetTheorems, TLAPS

USE DEF ledger, local, history, At, Proc

-----------------------------------------------------------------------------
(* The values the model is built from *)

(* The retry budget of execute_and_resolve is one to four attempts            *)
(* (retry.rs, max_auto_retries).                                             *)
LEMMA AttemptsAllowedType == ASSUME NEW c \in CallId PROVE AttemptsAllowed(c) \in 1..4
  BY DEF AttemptsAllowed, MaxAutoRetries

(* Every outcome the gateway's operations build is an Outcome, and every      *)
(* failure recorded in a row a FailedOutcome.                                *)
LEMMA OutcomeTypes ==
  /\ \A n \in Nat : Ok(n) \in Outcome
  /\ Rejected \in FailedOutcome /\ Rejected \in Outcome
  /\ Denied \in FailedOutcome /\ Denied \in Outcome
  /\ \A c \in CallId : Exhausted(c) \in FailedOutcome /\ Exhausted(c) \in Outcome
  /\ FailedOutcome \subseteq Outcome
  /\ ParkedOutcome \in Outcome /\ ErrorOutcome \in Outcome /\ NoOutcome \in Outcome
  BY DEF Outcome, FailedOutcome, Ok, Failed, Rejected, Denied, Exhausted, Reason

(* What a duplicate reads from a row is an Outcome.                           *)
LEMMA AnswerType == ASSUME LedgerType, NEW c \in CallId PROVE Answer(c) \in Outcome
  BY OutcomeTypes DEF LedgerType, Answer

(* The empty ledger, with every process idle, satisfies the invariant.        *)
LEMMA InitIInv == Init => IInv
<1>. SUFFICES ASSUME Init PROVE IInv
  OBVIOUS
<1>1. LedgerType /\ SessionType /\ HistoryType
  BY DEF Init, LedgerType, SessionType, HistoryType
<1>2. LocalType
  BY OutcomeTypes DEF Init, LocalType, Label, OperationName
<1>3. LocalsInv /\ WinnerInv
  BY DEF Init, LocalsInv, WinnerInv, WonLabels
<1>4. AbsentInv /\ CallSucceedsAtMostOnce
  BY DEF Init, AbsentInv, CallSucceedsAtMostOnce, Present
<1>. QED
  BY <1>1, <1>2, <1>3, <1>4 DEF IInv, TypeOK

-----------------------------------------------------------------------------
(* Who writes what *)

(* tool_calls.status is written by begin_tool_call, the resolve statements    *)
(* and reopen_tool_call only.                                                *)
LEMMA StatusWriters ==
  [Next]_vars =>
    \/ UNCHANGED status
    \/ \E p \in Proc : \/ WinBegin(p) \/ PolicyReject(p) \/ ResolveSucceeded(p)
                       \/ ResolveFailed(p) \/ ResolveDenied(p) \/ Reopen(p)
  BY DEF Next, Continue, Executing, RejectSchema, Submit, SubmitDerived, LoseBegin,
         WaitForResolution, PolicyAllow, PolicyPark, ParkSession, IncrementAttempt, ExecuteOk,
         ExecuteErr, CheckParked, ClearAwaiting, ResumeSession, CheckDeadLetter, Drop, Crash,
         vars

(* Rows are never deleted.                                                    *)
LEMMA RowsStay ==
  ASSUME LedgerType, [Next]_vars, NEW c \in CallId, Present(c) PROVE Present(c)'
<1>1. CASE UNCHANGED status
  BY <1>1 DEF Present
<1>2. ASSUME NEW p \in Proc,
             \/ WinBegin(p) \/ PolicyReject(p) \/ ResolveSucceeded(p)
             \/ ResolveFailed(p) \/ ResolveDenied(p) \/ Reopen(p)
      PROVE  Present(c)'
  BY <1>2 DEF WinBegin, PolicyReject, ResolveSucceeded, ResolveFailed, ResolveDenied, Reopen,
              LedgerType, Present
<1>. QED
  BY <1>1, <1>2, StatusWriters

(* The insert creates the winner, and ExecuteOk alone adds an effect.         *)
LEMMA HistoryWriters ==
  [Next]_vars =>
    \/ UNCHANGED <<winner, callEffects>>
    \/ \E p \in Proc : WinBegin(p) \/ ExecuteOk(p)
  BY DEF Next, Continue, Executing, RejectSchema, Submit, SubmitDerived, LoseBegin,
         WaitForResolution, PolicyAllow, PolicyReject, PolicyPark, ParkSession,
         IncrementAttempt, ExecuteErr, ResolveSucceeded, ResolveFailed, CheckParked,
         ClearAwaiting, ResolveDenied, ResumeSession, CheckDeadLetter, Reopen, Drop, Crash, vars

-----------------------------------------------------------------------------
(* Types *)

(* Every step keeps the types of the ledger's columns and of the history.     *)
LEMMA LedgerTypeStep == TypeOK /\ LocalsInv /\ [Next]_vars => LedgerType' /\ HistoryType'
<1>. SUFFICES ASSUME LedgerType, LocalType, HistoryType, LocalsInv, [Next]_vars
              PROVE  LedgerType' /\ HistoryType'
  BY DEF TypeOK
<1>1. ASSUME NEW p \in Caller, RejectSchema(p) PROVE LedgerType' /\ HistoryType'
  BY <1>1 DEF RejectSchema, LedgerType, HistoryType
<1>2. ASSUME NEW p \in Caller, Submit(p) PROVE LedgerType' /\ HistoryType'
  BY <1>2 DEF Submit, LedgerType, HistoryType
<1>3. ASSUME NEW p \in Caller, SubmitDerived(p) PROVE LedgerType' /\ HistoryType'
  BY <1>3 DEF SubmitDerived, LedgerType, HistoryType
<1>4. ASSUME NEW p \in Operator, CheckParked(p) PROVE LedgerType' /\ HistoryType'
  BY <1>4 DEF CheckParked, LedgerType, HistoryType
<1>5. ASSUME NEW p \in Operator, CheckDeadLetter(p) PROVE LedgerType' /\ HistoryType'
  BY <1>5 DEF CheckDeadLetter, LedgerType, HistoryType
<1>6. ASSUME NEW p \in Proc, WinBegin(p) PROVE LedgerType' /\ HistoryType'
  BY <1>6 DEF WinBegin, LedgerType, HistoryType, LocalType
<1>7. ASSUME NEW p \in Proc, LoseBegin(p) PROVE LedgerType' /\ HistoryType'
  BY <1>7 DEF LoseBegin, LedgerType, HistoryType
<1>8. ASSUME NEW p \in Proc, WaitForResolution(p) PROVE LedgerType' /\ HistoryType'
  BY <1>8 DEF WaitForResolution, LedgerType, HistoryType
<1>9. ASSUME NEW p \in Proc, PolicyAllow(p) PROVE LedgerType' /\ HistoryType'
  BY <1>9 DEF PolicyAllow, LedgerType, HistoryType
<1>10. ASSUME NEW p \in Proc, PolicyReject(p) PROVE LedgerType' /\ HistoryType'
  BY <1>10, OutcomeTypes DEF PolicyReject, LedgerType, HistoryType, LocalsInv
<1>11. ASSUME NEW p \in Proc, PolicyPark(p) PROVE LedgerType' /\ HistoryType'
  BY <1>11 DEF PolicyPark, LedgerType, HistoryType
<1>12. ASSUME NEW p \in Proc, ParkSession(p) PROVE LedgerType' /\ HistoryType'
  BY <1>12 DEF ParkSession, LedgerType, HistoryType
<1>13. ASSUME NEW p \in Proc, IncrementAttempt(p) PROVE LedgerType' /\ HistoryType'
  BY <1>13 DEF IncrementAttempt, LedgerType, HistoryType, LocalsInv
<1>14. ASSUME NEW p \in Proc, ExecuteOk(p) PROVE LedgerType' /\ HistoryType'
  BY <1>14 DEF ExecuteOk, LedgerType, HistoryType, LocalsInv
<1>15. ASSUME NEW p \in Proc, ExecuteErr(p) PROVE LedgerType' /\ HistoryType'
  BY <1>15 DEF ExecuteErr, LedgerType, HistoryType, LocalsInv
<1>16. ASSUME NEW p \in Proc, ResolveSucceeded(p) PROVE LedgerType' /\ HistoryType'
  BY <1>16 DEF ResolveSucceeded, LedgerType, HistoryType, LocalType
<1>17. ASSUME NEW p \in Proc, ResolveFailed(p) PROVE LedgerType' /\ HistoryType'
  BY <1>17, OutcomeTypes DEF ResolveFailed, LedgerType, HistoryType, LocalsInv
<1>18. ASSUME NEW p \in Proc, ClearAwaiting(p) PROVE LedgerType' /\ HistoryType'
  BY <1>18 DEF ClearAwaiting, LedgerType, HistoryType, LocalsInv
<1>19. ASSUME NEW p \in Proc, ResolveDenied(p) PROVE LedgerType' /\ HistoryType'
  BY <1>19, OutcomeTypes DEF ResolveDenied, LedgerType, HistoryType, LocalsInv
<1>20. ASSUME NEW p \in Proc, ResumeSession(p) PROVE LedgerType' /\ HistoryType'
  BY <1>20 DEF ResumeSession, LedgerType, HistoryType
<1>21. ASSUME NEW p \in Proc, Reopen(p) PROVE LedgerType' /\ HistoryType'
  BY <1>21 DEF Reopen, LedgerType, HistoryType, LocalsInv
<1>22. ASSUME NEW p \in Proc, Drop(p) PROVE LedgerType' /\ HistoryType'
  BY <1>22 DEF Drop, LedgerType, HistoryType
<1>23. ASSUME NEW p \in Proc, Crash(p) PROVE LedgerType' /\ HistoryType'
  BY <1>23 DEF Crash, LedgerType, HistoryType
<1>24. CASE UNCHANGED vars
  BY <1>24 DEF vars, LedgerType, HistoryType
<1>. QED
  BY <1>1, <1>2, <1>3, <1>4, <1>5, <1>6, <1>7, <1>8, <1>9, <1>10, <1>11,
     <1>12, <1>13, <1>14, <1>15, <1>16, <1>17, <1>18, <1>19, <1>20, <1>21,
     <1>22, <1>23, <1>24
     DEF Next, Continue, Executing

(* Only the gate writes sessions.status.                                      *)
LEMMA SessionTypeStep == SessionType /\ [Next]_vars => SessionType'
<1>. SUFFICES ASSUME SessionType, [Next]_vars PROVE SessionType'
  OBVIOUS
<1>1. \/ UNCHANGED sessionStatus
      \/ \E p \in Proc : ParkSession(p) \/ ResumeSession(p)
  BY DEF Next, Continue, Executing, RejectSchema, Submit, SubmitDerived, WinBegin, LoseBegin,
         WaitForResolution, PolicyAllow, PolicyReject, PolicyPark, IncrementAttempt, ExecuteOk,
         ExecuteErr, ResolveSucceeded, ResolveFailed, CheckParked, ClearAwaiting,
         ResolveDenied, CheckDeadLetter, Reopen, Drop, Crash, vars
<1>2. ASSUME NEW p \in Proc, ParkSession(p) PROVE SessionType'
  BY <1>2 DEF ParkSession, SessionType
<1>3. ASSUME NEW p \in Proc, ResumeSession(p) PROVE SessionType'
  BY <1>3 DEF ResumeSession, SessionType
<1>4. CASE UNCHANGED sessionStatus
  BY <1>4 DEF SessionType
<1>. QED
  BY <1>1, <1>2, <1>3, <1>4

(* The four ways a process moves keep the types of the locals.                *)
LEMMA GotoType ==
  ASSUME LocalType, NEW p \in Proc, NEW l \in Label, Goto(p, l),
         left' \in [Proc -> 0..4], value' \in [Proc -> Nat]
  PROVE  LocalType'
  BY DEF LocalType, Goto

LEMMA EnterType ==
  ASSUME LocalType, NEW p \in Proc, NEW o \in OperationName, NEW l \in Label,
         NEW c \in CallId, NEW s \in Session \cup {None},
         Enter(p, o, l, c, s), UNCHANGED <<left, value>>
  PROVE  LocalType'
  BY OutcomeTypes DEF LocalType, Enter

LEMMA ReturnType ==
  ASSUME LocalType, NEW p \in Proc, NEW a \in Outcome, Return(p, a) PROVE LocalType'
  BY DEF LocalType, Return, Label, OperationName

LEMMA RefuseType ==
  ASSUME LocalType, NEW p \in Proc, Refuse(p), UNCHANGED <<left, value>> PROVE LocalType'
  BY OutcomeTypes DEF LocalType, Refuse

LEMMA StartExecutingType ==
  ASSUME LocalType, NEW p \in Proc, target[p] \in CallId, StartExecuting(p)
  PROVE  LocalType'
<1>1. left' \in [Proc -> 0..4] /\ UNCHANGED value
  BY AttemptsAllowedType DEF StartExecuting, LocalType
<1>. QED
  BY <1>1, GotoType DEF StartExecuting, LocalType, Label

(* Every step keeps the types of the locals.                                  *)
LEMMA LocalTypeStep == TypeOK /\ LocalsInv /\ [Next]_vars => LocalType'
<1>. SUFFICES ASSUME LedgerType, LocalType, HistoryType, LocalsInv, [Next]_vars
              PROVE  LocalType'
  BY DEF TypeOK
<1>1. ASSUME NEW p \in Caller, RejectSchema(p) PROVE LocalType'
  BY <1>1, OutcomeTypes DEF RejectSchema, LocalType
<1>2. ASSUME NEW p \in Caller, Submit(p) PROVE LocalType'
  <2>1. PICK s \in Session, t \in Tool, k \in Key : Enter(p, "call", "begin", <<t, k>>, s)
    BY <1>2 DEF Submit
  <2>2. <<t, k>> \in CallId
    BY DEF CallId
  <2>3. UNCHANGED <<left, value>>
    BY <1>2 DEF Submit
  <2>. QED
    BY <2>1, <2>2, <2>3, EnterType DEF Label, OperationName
<1>3. ASSUME NEW p \in Caller, SubmitDerived(p) PROVE LocalType'
  <2>1. PICK s \in Session, t \in Tool, n \in 1..MaxSeq :
          Enter(p, "call", "begin", <<t, <<s, n>>>>, s)
    BY <1>3 DEF SubmitDerived
  <2>2. <<t, <<s, n>>>> \in CallId
    BY DEF CallId, DerivedKey
  <2>3. UNCHANGED <<left, value>>
    BY <1>3 DEF SubmitDerived
  <2>. QED
    BY <2>1, <2>2, <2>3, EnterType DEF Label, OperationName
<1>4. ASSUME NEW p \in Operator, CheckParked(p) PROVE LocalType'
  <2>1. PICK c \in CallId, operation \in {"approve", "deny"} :
          IF Parked(c) THEN Enter(p, operation, "clear", c, owner[c]) ELSE Refuse(p)
    BY <1>4 DEF CheckParked
  <2>2. UNCHANGED <<left, value>> /\ owner[c] \in Session \cup {None}
    BY <1>4 DEF CheckParked, LedgerType
  <2>. QED
    BY <2>1, <2>2, EnterType, RefuseType DEF Label, OperationName
<1>5. ASSUME NEW p \in Operator, CheckDeadLetter(p) PROVE LocalType'
  <2>1. PICK c \in CallId, operation \in {"dlq_retry", "dlq_drop"} :
          IF DeadLetter(c)
            THEN Enter(p, operation, IF operation = "dlq_retry" THEN "reopen" ELSE "drop",
                       c, owner[c])
            ELSE Refuse(p)
    BY <1>5 DEF CheckDeadLetter
  <2>2. UNCHANGED <<left, value>> /\ owner[c] \in Session \cup {None}
    BY <1>5 DEF CheckDeadLetter, LedgerType
  <2>. QED
    BY <2>1, <2>2, EnterType, RefuseType DEF Label, OperationName
<1>6. ASSUME NEW p \in Proc, WinBegin(p) PROVE LocalType'
  BY <1>6, GotoType DEF WinBegin, LocalType, Label
<1>7. ASSUME NEW p \in Proc, LoseBegin(p) PROVE LocalType'
  BY <1>7, GotoType DEF LoseBegin, LocalType, Label
<1>8. ASSUME NEW p \in Proc, WaitForResolution(p) PROVE LocalType'
  <2>1. Answer(target[p]) \in Outcome
    BY <1>8, AnswerType DEF WaitForResolution, LocalsInv
  <2>. QED
    BY <1>8, <2>1, ReturnType DEF WaitForResolution
<1>9. ASSUME NEW p \in Proc, PolicyAllow(p) PROVE LocalType'
  <2>1. target[p] \in CallId
    BY <1>9 DEF PolicyAllow, LocalsInv
  <2>. QED
    BY <1>9, <2>1, StartExecutingType DEF PolicyAllow
<1>10. ASSUME NEW p \in Proc, PolicyReject(p) PROVE LocalType'
  BY <1>10, ReturnType, OutcomeTypes DEF PolicyReject
<1>11. ASSUME NEW p \in Proc, PolicyPark(p) PROVE LocalType'
  BY <1>11, GotoType DEF PolicyPark, LocalType, Label
<1>12. ASSUME NEW p \in Proc, ParkSession(p) PROVE LocalType'
  BY <1>12, ReturnType, OutcomeTypes DEF ParkSession
<1>13. ASSUME NEW p \in Proc, IncrementAttempt(p) PROVE LocalType'
  BY <1>13, GotoType DEF IncrementAttempt, LocalType, Label
<1>14. ASSUME NEW p \in Proc, ExecuteOk(p) PROVE LocalType'
  <2>1. value' \in [Proc -> Nat] /\ UNCHANGED left
    BY <1>14 DEF ExecuteOk, LocalType, HistoryType, LocalsInv
  <2>. QED
    BY <1>14, <2>1, GotoType DEF ExecuteOk, LocalType, Label
<1>15. ASSUME NEW p \in Proc, ExecuteErr(p) PROVE LocalType'
  <2>1. left' \in [Proc -> 0..4] /\ UNCHANGED value
    BY <1>15 DEF ExecuteErr, LocalType, LocalsInv
  <2>. QED
    BY <1>15, <2>1, GotoType DEF ExecuteErr, LocalType, Label
<1>16. ASSUME NEW p \in Proc, ResolveSucceeded(p) PROVE LocalType'
  <2>1. Ok(value[p]) \in Outcome
    BY OutcomeTypes DEF LocalType
  <2>. QED
    BY <1>16, <2>1, ReturnType DEF ResolveSucceeded
<1>17. ASSUME NEW p \in Proc, ResolveFailed(p) PROVE LocalType'
  <2>1. Exhausted(target[p]) \in Outcome
    BY <1>17, OutcomeTypes DEF ResolveFailed, LocalsInv
  <2>. QED
    BY <1>17, <2>1, ReturnType DEF ResolveFailed
<1>18. ASSUME NEW p \in Proc, ClearAwaiting(p) PROVE LocalType'
  BY <1>18, GotoType DEF ClearAwaiting, LocalType, Label
<1>19. ASSUME NEW p \in Proc, ResolveDenied(p) PROVE LocalType'
  BY <1>19, GotoType DEF ResolveDenied, LocalType, Label
<1>20. ASSUME NEW p \in Proc, ResumeSession(p) PROVE LocalType'
  <2>1. target[p] \in CallId
    BY <1>20 DEF ResumeSession, LocalsInv
  <2>. QED
    BY <1>20, <2>1, StartExecutingType, ReturnType, OutcomeTypes DEF ResumeSession
<1>21. ASSUME NEW p \in Proc, Reopen(p) PROVE LocalType'
  <2>1. target[p] \in CallId
    BY <1>21 DEF Reopen, LocalsInv
  <2>. QED
    BY <1>21, <2>1, StartExecutingType DEF Reopen
<1>22. ASSUME NEW p \in Proc, Drop(p) PROVE LocalType'
  BY <1>22, ReturnType, OutcomeTypes DEF Drop
<1>23. ASSUME NEW p \in Proc, Crash(p) PROVE LocalType'
  BY <1>23, ReturnType, OutcomeTypes DEF Crash
<1>24. CASE UNCHANGED vars
  BY <1>24 DEF vars, LocalType
<1>. QED
  BY <1>1, <1>2, <1>3, <1>4, <1>5, <1>6, <1>7, <1>8, <1>9, <1>10, <1>11,
     <1>12, <1>13, <1>14, <1>15, <1>16, <1>17, <1>18, <1>19, <1>20, <1>21,
     <1>22, <1>23, <1>24
     DEF Next, Continue, Executing

-----------------------------------------------------------------------------
(* Locals *)

(* The four ways a process moves keep the locals consistent, as long as the   *)
(* label it moves to suits its row, its attempts and its operation.          *)
LEMMA GotoLocals ==
  ASSUME LedgerType, LocalType, LocalsInv, [Next]_vars, NEW p \in Proc, NEW l, Goto(p, l),
         pc[p] # "idle", pc[p] # "begin" \/ status'[target[p]] # "absent",
         \A q \in Proc \ {p} : left'[q] = left[q],
         l \in {"attempt", "execute"} => left'[p] \in 1..4,
         l # "reopen", l = "record_denied" => op[p] # "approve"
  PROVE  LocalsInv'
<1>1. target' = target /\ target[p] \in CallId
  BY DEF Goto, LocalsInv
<1>2. status'[target[p]] # "absent"
  BY <1>1, RowsStay DEF LocalsInv, Present
<1>3. \A q \in Proc \ {p} :
        /\ pc'[q] = pc[q] /\ op'[q] = op[q] /\ left'[q] = left[q]
        /\ pc[q] \notin {"idle", "begin"} => status'[target[q]] # "absent"
  BY RowsStay DEF LocalType, LocalsInv, Goto, Present
<1>4. pc'[p] = l /\ op' = op
  BY DEF Goto, LocalType
<1>. QED
  BY <1>1, <1>2, <1>3, <1>4 DEF LocalsInv, Present

LEMMA EnterLocals ==
  ASSUME LedgerType, LocalType, LocalsInv, [Next]_vars, NEW p \in Proc, NEW o, NEW l,
         NEW c \in CallId, NEW s, Enter(p, o, l, c, s), UNCHANGED left,
         l = "begin" \/ Present(c),
         l \notin {"attempt", "execute", "record_denied"}, l = "reopen" => o = "dlq_retry"
  PROVE  LocalsInv'
<1>1. /\ pc'[p] = l /\ op'[p] = o /\ target'[p] = c
      /\ \A q \in Proc \ {p} : pc'[q] = pc[q] /\ op'[q] = op[q] /\ target'[q] = target[q]
  BY DEF Enter, LocalType
<1>2. \A q \in Proc : pc[q] \notin {"idle", "begin"} => status'[target[q]] # "absent"
  BY RowsStay DEF LocalsInv, Present
<1>3. l = "begin" \/ status'[c] # "absent"
  BY RowsStay DEF Present
<1>. QED
  BY <1>1, <1>2, <1>3 DEF LocalsInv, Present

LEMMA ReturnLocals ==
  ASSUME LedgerType, LocalType, LocalsInv, [Next]_vars, NEW p \in Proc, NEW a, Return(p, a)
  PROVE  LocalsInv'
  BY RowsStay DEF LocalType, LocalsInv, Return

LEMMA RefuseLocals ==
  ASSUME LedgerType, LocalType, LocalsInv, [Next]_vars, NEW p \in Proc, Refuse(p),
         UNCHANGED left
  PROVE  LocalsInv'
  BY RowsStay DEF LocalType, LocalsInv, Refuse

LEMMA StartExecutingLocals ==
  ASSUME LedgerType, LocalType, LocalsInv, [Next]_vars, NEW p \in Proc,
         pc[p] \notin {"idle", "begin"}, StartExecuting(p)
  PROVE  LocalsInv'
<1>1. target[p] \in CallId /\ Present(target[p]) /\ target' = target
  BY DEF LocalsInv, StartExecuting, Goto
<1>2. /\ left'[p] \in 1..4
      /\ \A q \in Proc \ {p} : left'[q] = left[q]
  BY <1>1, AttemptsAllowedType DEF StartExecuting, LocalType
<1>. QED
  BY <1>2, GotoLocals DEF StartExecuting

(* Every step keeps the processes' locals consistent: inside an operation a   *)
(* process has a call, and inside the retry loop an attempt left.            *)
LEMMA LocalsStep == TypeOK /\ LocalsInv /\ [Next]_vars => LocalsInv'
<1>. SUFFICES ASSUME LedgerType, LocalType, LocalsInv, [Next]_vars PROVE LocalsInv'
  BY DEF TypeOK
<1>1. ASSUME NEW p \in Caller, RejectSchema(p) PROVE LocalsInv'
  BY <1>1, RefuseLocals DEF RejectSchema, Refuse
<1>2. ASSUME NEW p \in Caller, Submit(p) PROVE LocalsInv'
  <2>1. PICK s \in Session, t \in Tool, k \in Key : Enter(p, "call", "begin", <<t, k>>, s)
    BY <1>2 DEF Submit
  <2>2. <<t, k>> \in CallId
    BY DEF CallId
  <2>3. UNCHANGED <<left, value>>
    BY <1>2 DEF Submit
  <2>. QED
    BY <2>1, <2>2, <2>3, EnterLocals
<1>3. ASSUME NEW p \in Caller, SubmitDerived(p) PROVE LocalsInv'
  <2>1. PICK s \in Session, t \in Tool, n \in 1..MaxSeq :
          Enter(p, "call", "begin", <<t, <<s, n>>>>, s)
    BY <1>3 DEF SubmitDerived
  <2>2. <<t, <<s, n>>>> \in CallId
    BY DEF CallId, DerivedKey
  <2>3. UNCHANGED <<left, value>>
    BY <1>3 DEF SubmitDerived
  <2>. QED
    BY <2>1, <2>2, <2>3, EnterLocals
<1>4. ASSUME NEW p \in Operator, CheckParked(p) PROVE LocalsInv'
  <2>1. PICK c \in CallId, operation \in {"approve", "deny"} :
          IF Parked(c) THEN Enter(p, operation, "clear", c, owner[c]) ELSE Refuse(p)
    BY <1>4 DEF CheckParked
  <2>2. UNCHANGED left /\ (Parked(c) => Present(c))
    BY <1>4 DEF CheckParked, Parked, Present
  <2>3. CASE Parked(c)
    BY <2>1, <2>2, <2>3, EnterLocals
  <2>4. CASE ~Parked(c)
    BY <2>1, <2>2, <2>4, RefuseLocals
  <2>. QED
    BY <2>3, <2>4
<1>5. ASSUME NEW p \in Operator, CheckDeadLetter(p) PROVE LocalsInv'
  <2>1. PICK c \in CallId, operation \in {"dlq_retry", "dlq_drop"} :
          IF DeadLetter(c)
            THEN Enter(p, operation, IF operation = "dlq_retry" THEN "reopen" ELSE "drop",
                       c, owner[c])
            ELSE Refuse(p)
    BY <1>5 DEF CheckDeadLetter
  <2>2. UNCHANGED left /\ (DeadLetter(c) => Present(c))
    BY <1>5 DEF CheckDeadLetter, DeadLetter, Present
  <2>3. CASE DeadLetter(c)
    BY <2>1, <2>2, <2>3, EnterLocals
  <2>4. CASE ~DeadLetter(c)
    BY <2>1, <2>2, <2>4, RefuseLocals
  <2>. QED
    BY <2>3, <2>4
<1>6. ASSUME NEW p \in Proc, WinBegin(p) PROVE LocalsInv'
  <2>1. status'[target[p]] # "absent"
    BY <1>6 DEF WinBegin, LocalsInv, LedgerType
  <2>. QED
    BY <1>6, <2>1, GotoLocals DEF WinBegin
<1>7. ASSUME NEW p \in Proc, LoseBegin(p) PROVE LocalsInv'
  BY <1>7, GotoLocals DEF LoseBegin, Present
<1>8. ASSUME NEW p \in Proc, WaitForResolution(p) PROVE LocalsInv'
  BY <1>8, ReturnLocals DEF WaitForResolution
<1>9. ASSUME NEW p \in Proc, PolicyAllow(p) PROVE LocalsInv'
  BY <1>9, StartExecutingLocals DEF PolicyAllow, LocalsInv
<1>10. ASSUME NEW p \in Proc, PolicyReject(p) PROVE LocalsInv'
  BY <1>10, ReturnLocals DEF PolicyReject
<1>11. ASSUME NEW p \in Proc, PolicyPark(p) PROVE LocalsInv'
  BY <1>11, GotoLocals DEF PolicyPark, LocalsInv
<1>12. ASSUME NEW p \in Proc, ParkSession(p) PROVE LocalsInv'
  BY <1>12, ReturnLocals DEF ParkSession
<1>13. ASSUME NEW p \in Proc, IncrementAttempt(p) PROVE LocalsInv'
  BY <1>13, GotoLocals DEF IncrementAttempt, LocalsInv
<1>14. ASSUME NEW p \in Proc, ExecuteOk(p) PROVE LocalsInv'
  BY <1>14, GotoLocals DEF ExecuteOk, LocalsInv
<1>15. ASSUME NEW p \in Proc, ExecuteErr(p) PROVE LocalsInv'
  <2>1. /\ left[p] > 1 => left'[p] \in 1..4
        /\ \A q \in Proc \ {p} : left'[q] = left[q]
    BY <1>15 DEF ExecuteErr, LocalsInv, LocalType
  <2>. QED
    BY <1>15, <2>1, GotoLocals DEF ExecuteErr
<1>16. ASSUME NEW p \in Proc, ResolveSucceeded(p) PROVE LocalsInv'
  BY <1>16, ReturnLocals DEF ResolveSucceeded
<1>17. ASSUME NEW p \in Proc, ResolveFailed(p) PROVE LocalsInv'
  BY <1>17, ReturnLocals DEF ResolveFailed
<1>18. ASSUME NEW p \in Proc, ClearAwaiting(p) PROVE LocalsInv'
  BY <1>18, GotoLocals DEF ClearAwaiting
<1>19. ASSUME NEW p \in Proc, ResolveDenied(p) PROVE LocalsInv'
  BY <1>19, GotoLocals DEF ResolveDenied, LocalsInv
<1>20. ASSUME NEW p \in Proc, ResumeSession(p) PROVE LocalsInv'
  BY <1>20, StartExecutingLocals, ReturnLocals DEF ResumeSession, LocalsInv
<1>21. ASSUME NEW p \in Proc, Reopen(p) PROVE LocalsInv'
  BY <1>21, StartExecutingLocals DEF Reopen, LocalsInv
<1>22. ASSUME NEW p \in Proc, Drop(p) PROVE LocalsInv'
  BY <1>22, ReturnLocals DEF Drop
<1>23. ASSUME NEW p \in Proc, Crash(p) PROVE LocalsInv'
  BY <1>23, ReturnLocals DEF Crash
<1>24. CASE UNCHANGED vars
  BY <1>24 DEF vars, LocalsInv, Present
<1>. QED
  BY <1>1, <1>2, <1>3, <1>4, <1>5, <1>6, <1>7, <1>8, <1>9, <1>10, <1>11,
     <1>12, <1>13, <1>14, <1>15, <1>16, <1>17, <1>18, <1>19, <1>20, <1>21,
     <1>22, <1>23, <1>24
     DEF Next, Continue, Executing

-----------------------------------------------------------------------------
(* Winners and effects *)

(* Every step keeps a row nobody inserted without winner and effects.         *)
LEMMA AbsentStep == TypeOK /\ LocalsInv /\ AbsentInv /\ [Next]_vars => AbsentInv'
<1>. SUFFICES ASSUME LedgerType, HistoryType, LocalsInv, AbsentInv, [Next]_vars
              PROVE  AbsentInv'
  BY DEF TypeOK
<1>1. ASSUME NEW p \in Proc, WinBegin(p) PROVE AbsentInv'
  BY <1>1, ProcAssumption DEF WinBegin, LedgerType, HistoryType, LocalsInv, AbsentInv, Present
<1>2. ASSUME NEW p \in Proc, ExecuteOk(p) PROVE AbsentInv'
  BY <1>2 DEF ExecuteOk, HistoryType, LocalsInv, AbsentInv, Present
<1>3. ASSUME UNCHANGED <<winner, callEffects>>,
             NEW p \in Proc,
             \/ PolicyReject(p) \/ ResolveSucceeded(p) \/ ResolveFailed(p)
             \/ ResolveDenied(p) \/ Reopen(p)
      PROVE  AbsentInv'
  <2>1. target[p] \in CallId /\ Present(target[p])
    BY <1>3 DEF PolicyReject, ResolveSucceeded, ResolveFailed, ResolveDenied, Reopen, LocalsInv
  <2>2. \A c \in CallId : Present(c)' = Present(c)
    BY <1>3, <2>1 DEF PolicyReject, ResolveSucceeded, ResolveFailed, ResolveDenied, Reopen,
                      LedgerType, Present
  <2>. QED
    BY <1>3, <2>2 DEF AbsentInv
<1>4. CASE UNCHANGED <<status, winner, callEffects>>
  BY <1>4 DEF AbsentInv, Present
<1>. QED
  BY <1>1, <1>2, <1>3, <1>4, StatusWriters, HistoryWriters

(* A step that neither creates a winner nor has an effect keeps WinnerInv if  *)
(* it brings no process past the insert that was not.                        *)
LEMMA WinnerFrame ==
  ASSUME WinnerInv, UNCHANGED <<winner, callEffects>>,
         \A q \in Proc :
           op'[q] = "call" /\ pc'[q] \in WonLabels
             => /\ op[q] = "call" /\ pc[q] \in WonLabels /\ target'[q] = target[q]
                /\ pc'[q] # "record_ok" => pc[q] # "record_ok"
  PROVE  WinnerInv'
  BY DEF WinnerInv

(* Every step keeps call's right to execute with the process whose insert     *)
(* created the row.                                                          *)
LEMMA WinnerStep ==
  TypeOK /\ LocalsInv /\ WinnerInv /\ AbsentInv /\ [Next]_vars => WinnerInv'
<1>. SUFFICES ASSUME LocalType, HistoryType, LocalsInv, WinnerInv, AbsentInv, [Next]_vars
              PROVE  WinnerInv'
  BY DEF TypeOK
<1>1. ASSUME NEW p \in Caller, RejectSchema(p) PROVE WinnerInv'
  BY <1>1, WinnerFrame DEF RejectSchema, WonLabels, LocalType
<1>2. ASSUME NEW p \in Caller, Submit(p) PROVE WinnerInv'
  BY <1>2, WinnerFrame DEF Submit, Enter, WonLabels, LocalType
<1>3. ASSUME NEW p \in Caller, SubmitDerived(p) PROVE WinnerInv'
  BY <1>3, WinnerFrame DEF SubmitDerived, Enter, WonLabels, LocalType
<1>4. ASSUME NEW p \in Operator, CheckParked(p) PROVE WinnerInv'
  BY <1>4, WinnerFrame DEF CheckParked, Enter, Refuse, WonLabels, LocalType
<1>5. ASSUME NEW p \in Operator, CheckDeadLetter(p) PROVE WinnerInv'
  BY <1>5, WinnerFrame DEF CheckDeadLetter, Enter, Refuse, WonLabels, LocalType
<1>6. ASSUME NEW p \in Proc, WinBegin(p) PROVE WinnerInv'
  <2>1. target[p] \in CallId /\ callEffects[target[p]] = 0 /\ winner[target[p]] = None
    BY <1>6 DEF WinBegin, LocalsInv, AbsentInv
  <2>2. \A q \in Proc \ {p} : op[q] = "call" /\ pc[q] \in WonLabels => target[q] # target[p]
    BY <2>1, ProcAssumption DEF WinnerInv
  <2>. QED
    BY <1>6, <2>1, <2>2 DEF WinBegin, Goto, WinnerInv, WonLabels, LocalType, HistoryType
<1>7. ASSUME NEW p \in Proc, LoseBegin(p) PROVE WinnerInv'
  BY <1>7, WinnerFrame DEF LoseBegin, Goto, WonLabels, LocalType
<1>8. ASSUME NEW p \in Proc, WaitForResolution(p) PROVE WinnerInv'
  BY <1>8, WinnerFrame DEF WaitForResolution, Return, WonLabels, LocalType
<1>9. ASSUME NEW p \in Proc, PolicyAllow(p) PROVE WinnerInv'
  BY <1>9, WinnerFrame DEF PolicyAllow, StartExecuting, Goto, WonLabels, LocalType
<1>10. ASSUME NEW p \in Proc, PolicyReject(p) PROVE WinnerInv'
  BY <1>10, WinnerFrame DEF PolicyReject, Return, WonLabels, LocalType
<1>11. ASSUME NEW p \in Proc, PolicyPark(p) PROVE WinnerInv'
  BY <1>11, WinnerFrame DEF PolicyPark, Goto, WonLabels, LocalType
<1>12. ASSUME NEW p \in Proc, ParkSession(p) PROVE WinnerInv'
  BY <1>12, WinnerFrame DEF ParkSession, Return, WonLabels, LocalType
<1>13. ASSUME NEW p \in Proc, IncrementAttempt(p) PROVE WinnerInv'
  BY <1>13, WinnerFrame DEF IncrementAttempt, Goto, WonLabels, LocalType
<1>14. ASSUME NEW p \in Proc, ExecuteOk(p) PROVE WinnerInv'
  <2>1. target[p] \in CallId
    BY <1>14 DEF ExecuteOk, LocalsInv
  <2>2. \A q \in Proc \ {p} :
          op[p] = "call" /\ op[q] = "call" /\ pc[q] \in WonLabels => target[q] # target[p]
    BY <1>14 DEF ExecuteOk, WinnerInv, WonLabels
  <2>3. CASE op[p] = "call"
    <3>1. /\ winner' = winner /\ op' = op /\ target' = target /\ pc'[p] = "record_ok"
          /\ \A q \in Proc \ {p} : pc'[q] = pc[q]
      BY <1>14 DEF ExecuteOk, Goto, LocalType
    <3>2. \A q \in Proc \ {p} :
            op[q] = "call" /\ pc[q] \in WonLabels
              => callEffects'[target[q]] = callEffects[target[q]]
      BY <1>14, <2>1, <2>2, <2>3 DEF ExecuteOk, HistoryType, LocalsInv, WonLabels
    <3>3. winner[target[p]] = p
      BY <1>14, <2>3 DEF ExecuteOk, WinnerInv, WonLabels
    <3>. QED
      BY <3>1, <3>2, <3>3 DEF WinnerInv
  <2>4. CASE op[p] # "call"
    BY <1>14, <2>4 DEF ExecuteOk, Goto, WinnerInv, WonLabels, LocalType
  <2>. QED
    BY <2>3, <2>4
<1>15. ASSUME NEW p \in Proc, ExecuteErr(p) PROVE WinnerInv'
  BY <1>15, WinnerFrame DEF ExecuteErr, Goto, WonLabels, LocalType
<1>16. ASSUME NEW p \in Proc, ResolveSucceeded(p) PROVE WinnerInv'
  BY <1>16, WinnerFrame DEF ResolveSucceeded, Return, WonLabels, LocalType
<1>17. ASSUME NEW p \in Proc, ResolveFailed(p) PROVE WinnerInv'
  BY <1>17, WinnerFrame DEF ResolveFailed, Return, WonLabels, LocalType
<1>18. ASSUME NEW p \in Proc, ClearAwaiting(p) PROVE WinnerInv'
  BY <1>18, WinnerFrame DEF ClearAwaiting, Goto, WonLabels, LocalType
<1>19. ASSUME NEW p \in Proc, ResolveDenied(p) PROVE WinnerInv'
  BY <1>19, WinnerFrame DEF ResolveDenied, Goto, WonLabels, LocalType
<1>20. ASSUME NEW p \in Proc, ResumeSession(p) PROVE WinnerInv'
  BY <1>20, WinnerFrame DEF ResumeSession, StartExecuting, Goto, Return, WonLabels, LocalType
<1>21. ASSUME NEW p \in Proc, Reopen(p) PROVE WinnerInv'
  BY <1>21, WinnerFrame DEF Reopen, StartExecuting, Goto, WonLabels, LocalType, LocalsInv
<1>22. ASSUME NEW p \in Proc, Drop(p) PROVE WinnerInv'
  BY <1>22, WinnerFrame DEF Drop, Return, WonLabels, LocalType
<1>23. ASSUME NEW p \in Proc, Crash(p) PROVE WinnerInv'
  BY <1>23, WinnerFrame DEF Crash, Return, WonLabels, LocalType
<1>24. CASE UNCHANGED vars
  BY <1>24 DEF vars, WinnerInv
<1>. QED
  BY <1>1, <1>2, <1>3, <1>4, <1>5, <1>6, <1>7, <1>8, <1>9, <1>10, <1>11,
     <1>12, <1>13, <1>14, <1>15, <1>16, <1>17, <1>18, <1>19, <1>20, <1>21,
     <1>22, <1>23, <1>24
     DEF Next, Continue, Executing

(* Only ExecuteOk adds to callEffects, and WinnerInv says it adds to 0. *)
LEMMA EffectStep ==
  TypeOK /\ LocalsInv /\ WinnerInv /\ CallSucceedsAtMostOnce /\ [Next]_vars
    => CallSucceedsAtMostOnce'
<1>. SUFFICES ASSUME HistoryType, LocalsInv, WinnerInv, CallSucceedsAtMostOnce, [Next]_vars
              PROVE  CallSucceedsAtMostOnce'
  BY DEF TypeOK
<1>1. ASSUME NEW p \in Proc, ExecuteOk(p) PROVE CallSucceedsAtMostOnce'
  <2>1. target[p] \in CallId /\ (op[p] = "call" => callEffects[target[p]] = 0)
    BY <1>1 DEF ExecuteOk, LocalsInv, WinnerInv, WonLabels
  <2>. QED
    BY <1>1, <2>1 DEF ExecuteOk, HistoryType, CallSucceedsAtMostOnce
<1>2. CASE UNCHANGED callEffects
  BY <1>2 DEF CallSucceedsAtMostOnce
<1>. QED
  BY <1>1, <1>2, HistoryWriters DEF WinBegin

-----------------------------------------------------------------------------
(* The conjunction of the five parts is an invariant of the gateway.          *)
LEMMA IInvInductive == Spec => []IInv
<1>1. IInv /\ [Next]_vars => IInv'
  BY LedgerTypeStep, SessionTypeStep, LocalTypeStep, LocalsStep, AbsentStep, WinnerStep,
     EffectStep DEF IInv, TypeOK
<1>. QED
  BY InitIInv, <1>1, PTL DEF Spec

(* The ledger, the sessions and the processes' locals keep their types: in   *)
(* particular no step leaves tool_calls.status outside its four values and   *)
(* no retry loop runs out of its class's budget.                             *)
THEOREM TypeCorrect == Spec => []TypeOK
<1>1. IInv => TypeOK
  BY DEF IInv
<1>. QED
  BY IInvInductive, <1>1, PTL

(* begin_tool_call is the referee: whatever the number of processes that     *)
(* submit the same (tool, idem_key), however they interleave with approvals, *)
(* denials and dead-letter retries, and wherever they crash,                 *)
(* ToolGateway::call makes the call's side effect happen at most once.       *)
THEOREM AtMostOneCallEffect == Spec => []CallSucceedsAtMostOnce
<1>1. IInv => CallSucceedsAtMostOnce
  BY DEF IInv
<1>. QED
  BY IInvInductive, <1>1, PTL

-----------------------------------------------------------------------------
(* Admissions and what they buy *)

(* What a process still owes is a number of attempts.                         *)
LEMMA OwedType ==
  ASSUME LocalType, LocalsInv, NEW p \in Proc PROVE Owed(p) \in 0..4
  BY AttemptsAllowedType DEF LocalType, LocalsInv, Owed

(* An admission count is a natural number.                                    *)
LEMMA AdmissionsType ==
  ASSUME HistoryType, NEW c \in CallId PROVE Admissions(c) \in Nat /\ Effects(c) \in Nat
  BY DEF HistoryType, Admissions, Effects

(* The three kinds of steps of a process: it takes no ticket and may lose     *)
(* some, it is given the tickets of an admission, or it runs the executor.   *)
Aside(p) == \A q \in Proc \ {p} : Owed(q)' = Owed(q) /\ target'[q] = target[q]
SpendsNothing(p) ==
  /\ UNCHANGED <<runs, callEffects, operatorEffects>>
  /\ \A c \in CallId : Admissions(c)' = Admissions(c)
  /\ Owed(p)' = 0 \/ (target'[p] = target[p] /\ Owed(p)' = Owed(p))
IsAdmitted(p) ==
  /\ UNCHANGED <<runs, callEffects, operatorEffects>>
  /\ target[p] \in CallId /\ target'[p] = target[p]
  /\ Admissions(target[p])' = Admissions(target[p]) + 1
  /\ \A c \in CallId \ {target[p]} : Admissions(c)' = Admissions(c)
  /\ Owed(p)' = AttemptsAllowed(target[p])
Runs(p) ==
  /\ target[p] \in CallId /\ target'[p] = target[p]
  /\ runs'[target[p]] = runs[target[p]] + 1
  /\ \A c \in CallId \ {target[p]} : runs'[c] = runs[c] /\ Effects(c)' = Effects(c)
  /\ \A c \in CallId : Admissions(c)' = Admissions(c)
  /\ Owed(p) \in 1..4 /\ Owed(p)' \in 0..Owed(p) - 1
  /\ \/ Effects(target[p])' = Effects(target[p])
     \/ Effects(target[p])' = Effects(target[p]) + 1 /\ Owed(p)' = 0

(* Every step is of one of the three kinds.                                   *)
LEMMA StepKinds ==
  ASSUME LedgerType, LocalType, HistoryType, LocalsInv, AbsentInv, [Next]_vars
  PROVE  \/ UNCHANGED vars
         \/ \E p \in Proc : Aside(p) /\ (SpendsNothing(p) \/ IsAdmitted(p) \/ Runs(p))
<1>. DEFINE Kind(p) == Aside(p) /\ (SpendsNothing(p) \/ IsAdmitted(p) \/ Runs(p))
<1>1. ASSUME NEW p \in Caller, RejectSchema(p) PROVE Kind(p)
  BY <1>1 DEF RejectSchema, LocalType, LocalsInv, Owed, Aside, SpendsNothing, Admissions
<1>2. ASSUME NEW p \in Caller, Submit(p) PROVE Kind(p)
  BY <1>2 DEF Submit, Enter, LocalType, LocalsInv, Owed, Aside, SpendsNothing, Admissions
<1>3. ASSUME NEW p \in Caller, SubmitDerived(p) PROVE Kind(p)
  BY <1>3 DEF SubmitDerived, Enter, LocalType, LocalsInv, Owed, Aside, SpendsNothing, Admissions
<1>4. ASSUME NEW p \in Operator, CheckParked(p) PROVE Kind(p)
  BY <1>4 DEF CheckParked, Enter, Refuse, LocalType, LocalsInv, Owed, Aside, SpendsNothing, Admissions
<1>5. ASSUME NEW p \in Operator, CheckDeadLetter(p) PROVE Kind(p)
  BY <1>5 DEF CheckDeadLetter, Enter, Refuse, LocalType, LocalsInv, Owed, Aside, SpendsNothing, Admissions
<1>6. ASSUME NEW p \in Proc, WinBegin(p) PROVE Kind(p)
  <2>1. target[p] \in CallId /\ winner[target[p]] = None
    BY <1>6 DEF WinBegin, LocalsInv, AbsentInv
  <2>2. Aside(p)
    BY <1>6 DEF WinBegin, Goto, LocalType, Owed, Aside
  <2>3. /\ UNCHANGED <<runs, callEffects, operatorEffects, approvals, reopens>> /\ target' = target
        /\ winner' = [winner EXCEPT ![target[p]] = p] /\ p # None
        /\ pc'[p] = "policy"
    BY <1>6, ProcAssumption DEF WinBegin, Goto, LocalType
  <2>4. \A c \in CallId \ {target[p]} : Admissions(c)' = Admissions(c)
    BY <2>3 DEF HistoryType, Admissions
  <2>5. CASE "allow" \in Decisions[Tl(target[p])]
    <3>1. Admissions(target[p])' = Admissions(target[p]) + 1
      BY <2>1, <2>3, <2>5 DEF HistoryType, Admissions
    <3>2. Owed(p)' = AttemptsAllowed(target[p])
      BY <2>3, <2>5 DEF Owed, AttemptsAllowed
    <3>. QED
      BY <2>1, <2>2, <2>3, <2>4, <3>1, <3>2 DEF IsAdmitted
  <2>6. CASE "allow" \notin Decisions[Tl(target[p])]
    BY <2>2, <2>3, <2>4, <2>6 DEF SpendsNothing, Admissions, Owed
  <2>. QED
    BY <2>5, <2>6
<1>7. ASSUME NEW p \in Proc, LoseBegin(p) PROVE Kind(p)
  BY <1>7 DEF LoseBegin, Goto, LocalType, LocalsInv, Owed, Aside, SpendsNothing, Admissions
<1>8. ASSUME NEW p \in Proc, WaitForResolution(p) PROVE Kind(p)
  BY <1>8 DEF WaitForResolution, Return, LocalType, LocalsInv, Owed, Aside, SpendsNothing, Admissions
<1>9. ASSUME NEW p \in Proc, PolicyAllow(p) PROVE Kind(p)
  BY <1>9 DEF PolicyAllow, StartExecuting, Goto, LocalType, LocalsInv, Owed, Aside, SpendsNothing, Admissions
<1>10. ASSUME NEW p \in Proc, PolicyReject(p) PROVE Kind(p)
  BY <1>10 DEF PolicyReject, Return, LocalType, LocalsInv, Owed, Aside, SpendsNothing, Admissions
<1>11. ASSUME NEW p \in Proc, PolicyPark(p) PROVE Kind(p)
  BY <1>11 DEF PolicyPark, Goto, LocalType, LocalsInv, Owed, Aside, SpendsNothing, Admissions
<1>12. ASSUME NEW p \in Proc, ParkSession(p) PROVE Kind(p)
  BY <1>12 DEF ParkSession, Return, LocalType, LocalsInv, Owed, Aside, SpendsNothing, Admissions
<1>13. ASSUME NEW p \in Proc, IncrementAttempt(p) PROVE Kind(p)
  BY <1>13 DEF IncrementAttempt, Goto, LocalType, LocalsInv, Owed, Aside, SpendsNothing, Admissions
<1>14. ASSUME NEW p \in Proc, ExecuteOk(p) PROVE Kind(p)
  <2>1. target[p] \in CallId /\ left[p] \in 1..4
    BY <1>14 DEF ExecuteOk, LocalsInv
  <2>2. Aside(p)
    BY <1>14 DEF ExecuteOk, Goto, LocalType, Owed, Aside
  <2>3. /\ target' = target /\ Owed(p) = left[p] /\ Owed(p)' = 0
    BY <1>14 DEF ExecuteOk, Goto, LocalType, Owed
  <2>4. /\ runs'[target[p]] = runs[target[p]] + 1
        /\ \A c \in CallId \ {target[p]} : runs'[c] = runs[c] /\ Effects(c)' = Effects(c)
        /\ Effects(target[p])' = Effects(target[p]) + 1
    <3>1. runs' = [runs EXCEPT ![target[p]] = @ + 1]
      BY <1>14 DEF ExecuteOk
    <3>2. \/ /\ callEffects' = [callEffects EXCEPT ![target[p]] = @ + 1]
             /\ operatorEffects' = operatorEffects
          \/ /\ operatorEffects' = [operatorEffects EXCEPT ![target[p]] = @ + 1]
             /\ callEffects' = callEffects
      BY <1>14 DEF ExecuteOk
    <3>3. \A c \in CallId : /\ runs[c] \in Nat /\ callEffects[c] \in Nat
                            /\ operatorEffects[c] \in Nat
      BY DEF HistoryType
    <3>4. /\ runs'[target[p]] = runs[target[p]] + 1
          /\ \A c \in CallId \ {target[p]} : runs'[c] = runs[c]
      BY <2>1, <3>1 DEF HistoryType
    <3>5. \A c \in CallId \ {target[p]} : callEffects'[c] = callEffects[c]
                                           /\ operatorEffects'[c] = operatorEffects[c]
      BY <3>2 DEF HistoryType
    <3>6. \/ /\ callEffects'[target[p]] = callEffects[target[p]] + 1
             /\ operatorEffects'[target[p]] = operatorEffects[target[p]]
          \/ /\ operatorEffects'[target[p]] = operatorEffects[target[p]] + 1
             /\ callEffects'[target[p]] = callEffects[target[p]]
      BY <2>1, <3>2 DEF HistoryType
    <3>7. \A c \in CallId \ {target[p]} : Effects(c)' = Effects(c)
      BY <3>5 DEF Effects
    <3>8. Effects(target[p])' = Effects(target[p]) + 1
      <4>. DEFINE c == target[p]
      <4>1. Effects(c) = callEffects[c] + operatorEffects[c]
        BY DEF Effects
      <4>2. Effects(target[p])' = callEffects'[c] + operatorEffects'[c]
        BY <2>3 DEF Effects
      <4>3. callEffects[c] \in Nat /\ operatorEffects[c] \in Nat
        BY <2>1, <3>3
      <4>. HIDE DEF c
      <4>. QED
        BY <3>6, <4>1, <4>2, <4>3 DEF c
    <3>. QED
      BY <3>4, <3>7, <3>8
  <2>5. \A c \in CallId : Admissions(c)' = Admissions(c)
    BY <1>14 DEF ExecuteOk, Admissions
  <2>. QED
    BY <2>1, <2>2, <2>3, <2>4, <2>5 DEF Runs
<1>15. ASSUME NEW p \in Proc, ExecuteErr(p) PROVE Kind(p)
  <2>1. target[p] \in CallId /\ left[p] \in 1..4
    BY <1>15 DEF ExecuteErr, LocalsInv
  <2>2. Aside(p)
    BY <1>15 DEF ExecuteErr, Goto, LocalType, Owed, Aside
  <2>3. /\ target' = target /\ Owed(p) = left[p] /\ Owed(p)' = left[p] - 1
    BY <1>15, <2>1 DEF ExecuteErr, Goto, LocalType, Owed
  <2>4. /\ runs'[target[p]] = runs[target[p]] + 1
        /\ \A c \in CallId \ {target[p]} : runs'[c] = runs[c]
        /\ \A c \in CallId : Effects(c)' = Effects(c)
    BY <1>15, <2>1 DEF ExecuteErr, HistoryType, Effects
  <2>5. \A c \in CallId : Admissions(c)' = Admissions(c)
    BY <1>15 DEF ExecuteErr, Admissions
  <2>. QED
    BY <2>1, <2>2, <2>3, <2>4, <2>5 DEF Runs
<1>16. ASSUME NEW p \in Proc, ResolveSucceeded(p) PROVE Kind(p)
  BY <1>16 DEF ResolveSucceeded, Return, LocalType, LocalsInv, Owed, Aside, SpendsNothing, Admissions
<1>17. ASSUME NEW p \in Proc, ResolveFailed(p) PROVE Kind(p)
  BY <1>17 DEF ResolveFailed, Return, LocalType, LocalsInv, Owed, Aside, SpendsNothing, Admissions
<1>18. ASSUME NEW p \in Proc, ClearAwaiting(p) PROVE Kind(p)
  <2>1. target[p] \in CallId /\ target' = target /\ op' = op
    BY <1>18 DEF ClearAwaiting, Goto, LocalsInv
  <2>2. Aside(p)
    BY <1>18 DEF ClearAwaiting, Goto, LocalType, Owed, Aside
  <2>3. CASE op[p] = "approve"
    <3>1. Admissions(target[p])' = Admissions(target[p]) + 1
      BY <1>18, <2>1, <2>3 DEF ClearAwaiting, HistoryType, Admissions
    <3>2. \A c \in CallId \ {target[p]} : Admissions(c)' = Admissions(c)
      BY <1>18, <2>3 DEF ClearAwaiting, HistoryType, Admissions
    <3>3. Owed(p)' = AttemptsAllowed(target[p])
      BY <1>18, <2>1, <2>3 DEF ClearAwaiting, Goto, LocalType, Owed, AttemptsAllowed
    <3>. QED
      BY <1>18, <2>1, <2>2, <3>1, <3>2, <3>3 DEF ClearAwaiting, IsAdmitted
  <2>4. CASE op[p] # "approve"
    BY <1>18, <2>1, <2>2, <2>4 DEF ClearAwaiting, Goto, LocalType, Owed, SpendsNothing, Admissions
  <2>. QED
    BY <2>3, <2>4
<1>19. ASSUME NEW p \in Proc, ResolveDenied(p) PROVE Kind(p)
  <2>1. op[p] # "approve" => SpendsNothing(p)
    BY <1>19 DEF ResolveDenied, Goto, LocalType, Owed, SpendsNothing, Admissions
  <2>. QED
    BY <1>19, <2>1 DEF ResolveDenied, Goto, LocalType, LocalsInv, Owed, Aside
<1>20. ASSUME NEW p \in Proc, ResumeSession(p) PROVE Kind(p)
  BY <1>20 DEF ResumeSession, StartExecuting, Goto, Return, LocalType, LocalsInv, Owed, Aside,
               SpendsNothing, Admissions
<1>21. ASSUME NEW p \in Proc, Reopen(p) PROVE Kind(p)
  <2>1. target[p] \in CallId /\ target' = target /\ op' = op
    BY <1>21 DEF Reopen, StartExecuting, Goto, LocalsInv
  <2>2. Aside(p)
    BY <1>21 DEF Reopen, StartExecuting, Goto, LocalType, Owed, Aside
  <2>3. Admissions(target[p])' = Admissions(target[p]) + 1
    BY <1>21, <2>1 DEF Reopen, HistoryType, Admissions
  <2>4. \A c \in CallId \ {target[p]} : Admissions(c)' = Admissions(c)
    BY <1>21 DEF Reopen, HistoryType, Admissions
  <2>5. Owed(p)' = AttemptsAllowed(target[p])
    BY <1>21, <2>1 DEF Reopen, StartExecuting, Goto, LocalType, Owed
  <2>. QED
    BY <1>21, <2>1, <2>2, <2>3, <2>4, <2>5 DEF Reopen, IsAdmitted
<1>22. ASSUME NEW p \in Proc, Drop(p) PROVE Kind(p)
  BY <1>22 DEF Drop, Return, LocalType, LocalsInv, Owed, Aside, SpendsNothing, Admissions
<1>23. ASSUME NEW p \in Proc, Crash(p) PROVE Kind(p)
  BY <1>23 DEF Crash, Return, LocalType, LocalsInv, Owed, Aside, SpendsNothing, Admissions
<1>. QED
  BY <1>1, <1>2, <1>3, <1>4, <1>5, <1>6, <1>7, <1>8, <1>9, <1>10, <1>11,
     <1>12, <1>13, <1>14, <1>15, <1>16, <1>17, <1>18, <1>19, <1>20, <1>21,
     <1>22, <1>23
     DEF Next, Continue, Executing
-----------------------------------------------------------------------------
(* A finite set grows by at most the number of the elements it is given.      *)
LEMMA AddOne ==
  ASSUME NEW S, IsFiniteSet(S), NEW x
  PROVE  /\ IsFiniteSet(S \cup {x}) /\ Cardinality(S \cup {x}) <= Cardinality(S) + 1
         /\ Cardinality(S) \in Nat /\ Cardinality(S \cup {x}) \in Nat
<1>1. IsFiniteSet(S \cup {x}) /\ Cardinality(S) \in Nat
  BY FS_AddElement, FS_CardinalityType
<1>2. Cardinality(S \cup {x}) = IF x \in S THEN Cardinality(S) ELSE Cardinality(S) + 1
  BY FS_AddElement
<1>. QED
  BY <1>1, <1>2

LEMMA Smaller ==
  ASSUME NEW S, IsFiniteSet(S), NEW T, T \subseteq S
  PROVE  /\ IsFiniteSet(T) /\ Cardinality(T) <= Cardinality(S)
         /\ Cardinality(T) \in Nat /\ Cardinality(S) \in Nat
<1>1. T \in SUBSET S
  OBVIOUS
<1>2. IsFiniteSet(T) /\ Cardinality(T) <= Cardinality(S)
  BY <1>1, FS_Subset
<1>. QED
  BY <1>2, FS_CardinalityType

LEMMA Without ==
  ASSUME NEW S, IsFiniteSet(S), NEW x \in S, NEW T, T \subseteq S \ {x}
  PROVE  IsFiniteSet(T) /\ Cardinality(T) <= Cardinality(S) - 1
<1>1. IsFiniteSet(S \ {x}) /\ Cardinality(S \ {x}) = Cardinality(S) - 1
  BY FS_RemoveElement
<1>. QED
  BY <1>1, Smaller

LEMMA AddUpTo ==
  ASSUME NEW S, IsFiniteSet(S), NEW p, NEW n \in 1..4,
         NEW T, T \subseteq S \cup {<<p, i>> : i \in 1..n}
  PROVE  IsFiniteSet(T) /\ Cardinality(T) <= Cardinality(S) + n
<1>. DEFINE Add(U, i) == U \cup {<<p, i>>}
            S1 == Add(S, 1)
            S2 == Add(S1, 2)
            S3 == Add(S2, 3)
            S4 == Add(S3, 4)
<1>1. \A U, i : IsFiniteSet(U) =>
        /\ IsFiniteSet(Add(U, i)) /\ Cardinality(Add(U, i)) <= Cardinality(U) + 1
        /\ Cardinality(U) \in Nat /\ Cardinality(Add(U, i)) \in Nat
  BY AddOne
<1>2. /\ n = 1 => T \subseteq S1
      /\ n = 2 => T \subseteq S2
      /\ n = 3 => T \subseteq S3
      /\ n = 4 => T \subseteq S4
  OBVIOUS
<1>. HIDE DEF Add
<1>3. IsFiniteSet(S1) /\ Cardinality(S1) <= Cardinality(S) + 1
  BY <1>1
<1>4. IsFiniteSet(S2) /\ Cardinality(S2) <= Cardinality(S1) + 1
  BY <1>1, <1>3
<1>5. IsFiniteSet(S3) /\ Cardinality(S3) <= Cardinality(S2) + 1
  BY <1>1, <1>4
<1>6. IsFiniteSet(S4) /\ Cardinality(S4) <= Cardinality(S3) + 1
  BY <1>1, <1>5
<1>7. /\ Cardinality(S) \in Nat /\ Cardinality(S1) \in Nat /\ Cardinality(S2) \in Nat
      /\ Cardinality(S3) \in Nat /\ Cardinality(S4) \in Nat
  BY <1>3, <1>4, <1>5, <1>6, FS_CardinalityType
<1>. HIDE DEF S1, S2, S3, S4
<1>8. CASE n = 1
  BY <1>2, <1>3, <1>7, <1>8, Smaller
<1>9. CASE n = 2
  BY <1>2, <1>3, <1>4, <1>7, <1>9, Smaller
<1>10. CASE n = 3
  BY <1>2, <1>3, <1>4, <1>5, <1>7, <1>10, Smaller
<1>11. CASE n = 4
  BY <1>2, <1>3, <1>4, <1>5, <1>6, <1>7, <1>11, Smaller
<1>. QED
  BY <1>8, <1>9, <1>10, <1>11

(* What the three kinds of steps do to the tickets of a call.                 *)
LEMMA TicketsStep ==
  ASSUME LocalType, LocalsInv, NEW p \in Proc, Aside(p), NEW c \in CallId,
         IsFiniteSet(Tickets(c))
  PROVE  /\ SpendsNothing(p) \/ (IsAdmitted(p) /\ c # target[p]) \/ (Runs(p) /\ c # target[p])
              => IsFiniteSet(Tickets(c)') /\ Cardinality(Tickets(c)') <= Cardinality(Tickets(c))
         /\ IsAdmitted(p) /\ c = target[p]
              => /\ IsFiniteSet(Tickets(c)')
                 /\ Cardinality(Tickets(c)') <= Cardinality(Tickets(c)) + AttemptsAllowed(c)
         /\ Runs(p) /\ c = target[p]
              => IsFiniteSet(Tickets(c)') /\ Cardinality(Tickets(c)') <= Cardinality(Tickets(c)) - 1
<1>1. SpendsNothing(p) \/ (IsAdmitted(p) /\ c # target[p]) \/ (Runs(p) /\ c # target[p])
        => Tickets(c)' \subseteq Tickets(c)
  BY DEF Aside, SpendsNothing, IsAdmitted, Runs, Tickets
<1>2. ASSUME IsAdmitted(p), c = target[p]
      PROVE  /\ IsFiniteSet(Tickets(c)')
             /\ Cardinality(Tickets(c)') <= Cardinality(Tickets(c)) + AttemptsAllowed(c)
  <2>1. Tickets(c)' \subseteq Tickets(c) \cup {<<p, i>> : i \in 1..AttemptsAllowed(c)}
    BY <1>2, AttemptsAllowedType DEF Aside, IsAdmitted, Tickets
  <2>. QED
    BY <2>1, AddUpTo, AttemptsAllowedType
<1>3. ASSUME Runs(p), c = target[p]
      PROVE  IsFiniteSet(Tickets(c)') /\ Cardinality(Tickets(c)') <= Cardinality(Tickets(c)) - 1
  <2>1. Tickets(c)' \subseteq Tickets(c) \ {<<p, Owed(p)>>} /\ <<p, Owed(p)>> \in Tickets(c)
    BY <1>3 DEF Aside, Runs, Tickets
  <2>. QED
    BY <2>1, Without
<1>. QED
  BY <1>1, <1>2, <1>3, Smaller

(* The same of the processes that hold a ticket.                              *)
LEMMA HoldersStep ==
  ASSUME LocalType, LocalsInv, NEW p \in Proc, Aside(p), NEW c \in CallId,
         IsFiniteSet(Holders(c))
  PROVE  /\ SpendsNothing(p) \/ Runs(p) \/ (IsAdmitted(p) /\ c # target[p])
              => IsFiniteSet(Holders(c)') /\ Cardinality(Holders(c)') <= Cardinality(Holders(c))
         /\ IsAdmitted(p) /\ c = target[p]
              => IsFiniteSet(Holders(c)') /\ Cardinality(Holders(c)') <= Cardinality(Holders(c)) + 1
         /\ Runs(p) /\ c = target[p] /\ Owed(p)' = 0
              => IsFiniteSet(Holders(c)') /\ Cardinality(Holders(c)') <= Cardinality(Holders(c)) - 1
<1>. Owed(p) \in 0..4
  BY OwedType
<1>1. SpendsNothing(p) \/ Runs(p) \/ (IsAdmitted(p) /\ c # target[p])
        => Holders(c)' \subseteq Holders(c)
  BY DEF Aside, SpendsNothing, IsAdmitted, Runs, Holders
<1>2. ASSUME IsAdmitted(p), c = target[p]
      PROVE  IsFiniteSet(Holders(c)') /\ Cardinality(Holders(c)') <= Cardinality(Holders(c)) + 1
  <2>1. Holders(c)' \subseteq Holders(c) \cup {p}
    BY <1>2 DEF Aside, IsAdmitted, Holders
  <2>2. /\ IsFiniteSet(Holders(c) \cup {p})
        /\ Cardinality(Holders(c) \cup {p}) <= Cardinality(Holders(c)) + 1
        /\ Cardinality(Holders(c)) \in Nat /\ Cardinality(Holders(c) \cup {p}) \in Nat
    BY AddOne
  <2>3. /\ IsFiniteSet(Holders(c)') /\ Cardinality(Holders(c)') \in Nat
        /\ Cardinality(Holders(c)') <= Cardinality(Holders(c) \cup {p})
    BY <2>1, <2>2, Smaller
  <2>. QED
    BY <2>2, <2>3
<1>3. ASSUME Runs(p), c = target[p], Owed(p)' = 0
      PROVE  IsFiniteSet(Holders(c)') /\ Cardinality(Holders(c)') <= Cardinality(Holders(c)) - 1
  <2>1. Holders(c)' \subseteq Holders(c) \ {p} /\ p \in Holders(c)
    BY <1>3 DEF Aside, Runs, Holders
  <2>. QED
    BY <2>1, Without
<1>. QED
  BY <1>1, <1>2, <1>3, Smaller

(* The executor runs on tickets, and an effect takes a holder's last ones.    *)
LEMMA CreditStep ==
  ASSUME LocalType, HistoryType, HistoryType', LocalsInv, RunsInv, EffectsInv,
         NEW p \in Proc, Aside(p), SpendsNothing(p) \/ IsAdmitted(p) \/ Runs(p)
  PROVE  RunsInv' /\ EffectsInv'
<1>. SUFFICES ASSUME NEW c \in CallId
              PROVE  /\ IsFiniteSet(Tickets(c)') /\ IsFiniteSet(Holders(c)')
                     /\ runs'[c] + Cardinality(Tickets(c)') <= AttemptsAllowed(c) * Admissions(c)'
                     /\ Effects(c)' + Cardinality(Holders(c)') <= Admissions(c)'
  BY DEF RunsInv, EffectsInv, AttemptsAllowed
<1>. DEFINE t == Cardinality(Tickets(c))   t1 == Cardinality(Tickets(c)')
            h == Cardinality(Holders(c))   h1 == Cardinality(Holders(c)')
            n == AttemptsAllowed(c)
            a == Admissions(c)             a1 == Admissions(c)'
            e == Effects(c)                e1 == Effects(c)'
<1>1. /\ IsFiniteSet(Tickets(c)) /\ IsFiniteSet(Holders(c))
      /\ runs[c] + t <= n * a /\ e + h <= a
  BY DEF RunsInv, EffectsInv
<1>2. IsFiniteSet(Tickets(c)') /\ IsFiniteSet(Holders(c)')
  BY <1>1, TicketsStep, HoldersStep
<1>3. t \in Nat /\ t1 \in Nat /\ h \in Nat /\ h1 \in Nat
  BY <1>1, <1>2, FS_CardinalityType
<1>4. runs[c] \in Nat /\ runs'[c] \in Nat
  BY DEF HistoryType
<1>5. a \in Nat /\ e \in Nat /\ a1 \in Nat /\ e1 \in Nat /\ n \in 1..4
  <2>1. a \in Nat /\ e \in Nat /\ n \in 1..4
    BY AdmissionsType, AttemptsAllowedType
  <2>2. a1 \in Nat /\ e1 \in Nat
    BY DEF HistoryType, Admissions, Effects
  <2>. QED
    BY <2>1, <2>2
<1>6. CASE SpendsNothing(p) \/ (IsAdmitted(p) /\ c # target[p]) \/ (Runs(p) /\ c # target[p])
  <2>1. runs'[c] = runs[c] /\ a1 = a /\ e1 = e
    BY <1>6 DEF SpendsNothing, IsAdmitted, Runs, Effects
  <2>2. t1 <= t /\ h1 <= h
    BY <1>1, <1>6, TicketsStep, HoldersStep
  <2>. HIDE DEF t, t1, h, h1, n, a, a1, e, e1
  <2>3. n * a1 = n * a /\ n * a \in Nat
    BY <1>5, <2>1
  <2>4. runs'[c] + t1 <= n * a1 /\ e1 + h1 <= a1
    BY <1>1, <1>3, <1>4, <1>5, <2>1, <2>2, <2>3
  <2>. QED
    BY <1>2, <2>4 DEF t1, h1, n, a1, e1
<1>7. CASE IsAdmitted(p) /\ c = target[p]
  <2>1. runs'[c] = runs[c] /\ a1 = a + 1 /\ e1 = e
    BY <1>7 DEF IsAdmitted, Effects
  <2>2. t1 <= t + n /\ h1 <= h + 1
    BY <1>1, <1>7, TicketsStep, HoldersStep
  <2>. HIDE DEF t, t1, h, h1, n, a, a1, e, e1
  <2>3. n * a1 = n * a + n /\ n * a \in Nat
    BY <1>5, <2>1
  <2>4. runs'[c] + t1 <= n * a1 /\ e1 + h1 <= a1
    BY <1>1, <1>3, <1>4, <1>5, <2>1, <2>2, <2>3
  <2>. QED
    BY <1>2, <2>4 DEF t1, h1, n, a1, e1
<1>8. CASE Runs(p) /\ c = target[p]
  <2>1. /\ runs'[c] = runs[c] + 1 /\ a1 = a
        /\ e1 = e \/ (e1 = e + 1 /\ Owed(p)' = 0)
    BY <1>8 DEF Runs
  <2>2. t1 <= t - 1 /\ h1 <= h /\ (Owed(p)' = 0 => h1 <= h - 1)
    BY <1>1, <1>8, TicketsStep, HoldersStep
  <2>. HIDE DEF t, t1, h, h1, n, a, a1, e, e1
  <2>3. n * a1 = n * a /\ n * a \in Nat
    BY <1>5, <2>1
  <2>4. runs'[c] + t1 <= n * a1 /\ e1 + h1 <= a1
    BY <1>1, <1>3, <1>4, <1>5, <2>1, <2>2, <2>3
  <2>. QED
    BY <1>2, <2>4 DEF t1, h1, n, a1, e1
<1>. QED
  BY <1>6, <1>7, <1>8

(* The executor runs only for admissions, each of which buys one retry budget *)
(* and one success, for any number of processes and with crashes anywhere.   *)
THEOREM RunsOnlyIfAdmitted == Spec => []RunsAreAdmitted
<1>1. Init => RunsInv /\ EffectsInv
  <2>. SUFFICES ASSUME Init, NEW c \in CallId
                PROVE  /\ Tickets(c) = {} /\ Holders(c) = {} /\ Admissions(c) = 0
                       /\ runs[c] = 0 /\ Effects(c) = 0
    BY FS_EmptySet, AttemptsAllowedType DEF RunsInv, EffectsInv
  <2>1. c # None
    BY ProcAssumption
  <2>. QED
    BY <2>1 DEF Init, Tickets, Holders, Owed, Admissions, Effects
<1>2. IInv /\ IInv' /\ RunsInv /\ EffectsInv /\ [Next]_vars => RunsInv' /\ EffectsInv'
  <2>. SUFFICES ASSUME IInv, IInv', RunsInv, EffectsInv, [Next]_vars PROVE RunsInv' /\ EffectsInv'
    OBVIOUS
  <2>1. CASE UNCHANGED vars
    BY <2>1 DEF vars, RunsInv, EffectsInv, Tickets, Holders, Owed, Admissions, Effects
  <2>2. ASSUME NEW p \in Proc, Aside(p), SpendsNothing(p) \/ IsAdmitted(p) \/ Runs(p)
        PROVE  RunsInv' /\ EffectsInv'
    BY <2>2, CreditStep DEF IInv, TypeOK
  <2>. QED
    BY <2>1, <2>2, StepKinds DEF IInv, TypeOK
<1>3. RunsInv /\ EffectsInv /\ HistoryType => RunsAreAdmitted
  <2>. SUFFICES ASSUME RunsInv, EffectsInv, HistoryType, NEW c \in CallId
                PROVE  /\ runs[c] <= AttemptsAllowed(c) * Admissions(c)
                       /\ callEffects[c] + operatorEffects[c] <= Admissions(c)
    BY DEF RunsAreAdmitted
  <2>1. Cardinality(Tickets(c)) \in Nat /\ Cardinality(Holders(c)) \in Nat
    BY FS_CardinalityType DEF RunsInv, EffectsInv
  <2>2. runs[c] \in Nat /\ Admissions(c) \in Nat /\ Effects(c) \in Nat
    BY AdmissionsType DEF HistoryType
  <2>3. AttemptsAllowed(c) * Admissions(c) \in Nat
    BY <2>2, AttemptsAllowedType
  <2>. QED
    BY <2>1, <2>2, <2>3 DEF RunsInv, EffectsInv, Effects
<1>4. IInv => HistoryType
  BY DEF IInv, TypeOK
<1>. QED
  BY IInvInductive, <1>1, <1>2, <1>3, <1>4, PTL DEF Spec
-----------------------------------------------------------------------------
(* With decisions apart, whoever works on a call is alone with it *)

(* A step of p leaves the other processes where they are.                     *)
OthersStay(p) ==
  \A q \in Proc \ {p} : pc'[q] = pc[q] /\ op'[q] = op[q] /\ target'[q] = target[q]
RowStays(c) ==
  /\ status'[c] = status[c] /\ awaiting'[c] = awaiting[c] /\ failure'[c] = failure[c]
  /\ callEffects'[c] = callEffects[c] /\ operatorEffects'[c] = operatorEffects[c]
RowsStayBut(c) == \A d \in CallId \ {c} : RowStays(d)

LEMMA GotoMoves ==
  ASSUME LocalType, NEW p \in Proc, NEW l, Goto(p, l)
  PROVE  OthersStay(p) /\ pc'[p] = l /\ op'[p] = op[p] /\ target'[p] = target[p]
  BY DEF Goto, LocalType, OthersStay
LEMMA ReturnMoves ==
  ASSUME LocalType, NEW p \in Proc, NEW a, Return(p, a)
  PROVE  OthersStay(p) /\ pc'[p] = "idle"
  BY DEF Return, LocalType, OthersStay
LEMMA EnterMoves ==
  ASSUME LocalType, NEW p \in Proc, NEW o, NEW l, NEW c, NEW s, Enter(p, o, l, c, s)
  PROVE  OthersStay(p) /\ pc'[p] = l /\ op'[p] = o /\ target'[p] = c
  BY DEF Enter, LocalType, OthersStay
LEMMA RefuseMoves ==
  ASSUME LocalType, NEW p \in Proc, Refuse(p)
  PROVE  OthersStay(p) /\ pc'[p] = "idle"
  BY DEF Refuse, LocalType, OthersStay

Alone == WorkersInv /\ DecidersInv /\ DecidedInv
AloneAt(p) ==
  /\ Works(p)' =>
       /\ \A q \in Proc \ {p} : ~(Works(q) /\ target[q] = target'[p])
       /\ status'[target'[p]] = IF pc'[p] = "reopen" THEN "failed" ELSE "pending"
       /\ awaiting'[target'[p]] <=> pc'[p] = "clear"
       /\ callEffects'[target'[p]] + operatorEffects'[target'[p]] > 0 <=> pc'[p] = "record_ok"
  /\ pc'[p] \in {"clear", "record_denied", "resume", "reopen"} => p \in Operator
  /\ pc'[p] = "resume" /\ op'[p] # "approve"
       => status'[target'[p]] = "failed" /\ failure'[target'[p]] = Denied

(* A step that writes no row, or the row its process alone works on.          *)
LEMMA AloneFrame ==
  ASSUME LocalsInv, Alone, NEW p \in Proc, OthersStay(p), AloneAt(p),
         \A q \in Proc \ {p} :
            Works(q) \/ (At(q, "resume") /\ op[q] # "approve") => RowStays(target[q])
  PROVE  WorkersInv' /\ DecidersInv'
<1>1. \A q \in Proc \ {p} : Works(q)' <=> Works(q)
  BY DEF OthersStay, Works
<1>2. ASSUME NEW q \in Proc, q # p, Works(q)'
      PROVE  /\ \A r \in Proc \ {q} : ~(Works(r)' /\ target'[r] = target'[q])
             /\ status'[target'[q]] = IF pc'[q] = "reopen" THEN "failed" ELSE "pending"
             /\ awaiting'[target'[q]] <=> pc'[q] = "clear"
             /\ callEffects'[target'[q]] + operatorEffects'[target'[q]] > 0 <=> pc'[q] = "record_ok"
  <2>1. Works(q) /\ target'[q] = target[q] /\ pc'[q] = pc[q] /\ RowStays(target[q])
    BY <1>1, <1>2 DEF OthersStay
  <2>2. \A r \in Proc \ {q} : ~(Works(r)' /\ target'[r] = target'[q])
    BY <1>1, <2>1 DEF Alone, WorkersInv, OthersStay, AloneAt
  <2>. QED
    BY <2>1, <2>2 DEF Alone, WorkersInv, RowStays, Effects
<1>3. ASSUME Works(p)'
      PROVE  /\ \A r \in Proc \ {p} : ~(Works(r)' /\ target'[r] = target'[p])
             /\ status'[target'[p]] = IF pc'[p] = "reopen" THEN "failed" ELSE "pending"
             /\ awaiting'[target'[p]] <=> pc'[p] = "clear"
             /\ callEffects'[target'[p]] + operatorEffects'[target'[p]] > 0 <=> pc'[p] = "record_ok"
  BY <1>1, <1>3 DEF OthersStay, AloneAt
<1>4. WorkersInv'
  BY <1>2, <1>3 DEF WorkersInv, Effects
<1>5. ASSUME NEW q \in Proc
      PROVE  /\ pc'[q] \in {"clear", "record_denied", "resume", "reopen"} => q \in Operator
             /\ pc'[q] = "resume" /\ op'[q] # "approve"
                  => status'[target'[q]] = "failed" /\ failure'[target'[q]] = Denied
  <2>1. CASE q = p
    BY <2>1 DEF AloneAt
  <2>2. CASE q # p
    BY <2>2 DEF Alone, DecidersInv, OthersStay, RowStays
  <2>. QED
    BY <2>1, <2>2
<1>6. DecidersInv'
  BY <1>5 DEF DecidersInv, Denied, Failed
<1>. QED
  BY <1>4, <1>6

(* Whoever works on a call works on it alone: nobody else's row is written.   *)
LEMMA OwnRow ==
  ASSUME DecisionsApart, LocalsInv, Alone, NEW p \in Proc, Works(p)
  PROVE  \A q \in Proc \ {p} :
           Works(q) \/ (At(q, "resume") /\ op[q] # "approve")
             => target[q] \in CallId \ {target[p]}
<1>. SUFFICES ASSUME NEW q \in Proc, q # p,
                     Works(q) \/ (At(q, "resume") /\ op[q] # "approve")
              PROVE  target[q] \in CallId \ {target[p]}
  OBVIOUS
<1>1. target[q] \in CallId
  BY DEF LocalsInv, Works
<1>2. CASE Works(q)
  BY <1>1, <1>2 DEF Alone, WorkersInv
<1>3. CASE At(q, "resume") /\ op[q] # "approve"
  <2>1. q \in Operator /\ status[target[q]] = "failed"
    BY <1>3 DEF Alone, DecidersInv
  <2>2. ~(At(p, "reopen") /\ target[p] = target[q])
    BY <1>3, <2>1 DEF Alone, DecidersInv, DecisionsApart, Deciding
  <2>3. status[target[p]] = IF At(p, "reopen") THEN "failed" ELSE "pending"
    BY DEF Alone, WorkersInv
  <2>. QED
    BY <1>1, <2>1, <2>2, <2>3
<1>. QED
  BY <1>2, <1>3

LEMMA WriterFrame ==
  ASSUME DecisionsApart, LocalsInv, Alone, NEW p \in Proc, Works(p), OthersStay(p), AloneAt(p),
         RowsStayBut(target[p])
  PROVE  WorkersInv' /\ DecidersInv'
<1>1. \A q \in Proc \ {p} :
        Works(q) \/ (At(q, "resume") /\ op[q] # "approve") => RowStays(target[q])
  BY OwnRow DEF RowsStayBut
<1>. QED
  BY <1>1, AloneFrame

LEMMA ReaderFrame ==
  ASSUME LocalsInv, Alone, NEW p \in Proc, OthersStay(p), AloneAt(p),
         UNCHANGED <<status, awaiting, failure, callEffects, operatorEffects>>
  PROVE  WorkersInv' /\ DecidersInv'
<1>1. \A q \in Proc \ {p} :
        Works(q) \/ (At(q, "resume") /\ op[q] # "approve") => RowStays(target[q])
  BY DEF RowStays
<1>. QED
  BY <1>1, AloneFrame

(* Every step keeps a call to one worker.                                     *)
LEMMA AloneStep ==
  ASSUME DecisionsApart, DecisionsApart', LedgerType, LocalType, HistoryType, LocalsInv,
         AbsentInv, Alone, [Next]_vars
  PROVE  WorkersInv' /\ DecidersInv'
<1>. DEFINE Goal == WorkersInv' /\ DecidersInv'
<1>. HIDE DEF Goal
<1>1. ASSUME NEW p \in Caller, RejectSchema(p) PROVE Goal
  <2>1. OthersStay(p) /\ pc'[p] = "idle"
    BY <1>1 DEF RejectSchema, OthersStay, LocalType
  <2>2. AloneAt(p)
    BY <2>1 DEF AloneAt, Works
  <2>. QED
    BY <1>1, <2>1, <2>2, ReaderFrame DEF RejectSchema, Goal
<1>2. ASSUME NEW p \in Caller, Submit(p) PROVE Goal
  <2>1. OthersStay(p) /\ pc'[p] = "begin"
    BY <1>2, EnterMoves DEF Submit
  <2>2. AloneAt(p)
    BY <2>1 DEF AloneAt, Works
  <2>. QED
    BY <1>2, <2>1, <2>2, ReaderFrame DEF Submit, Goal
<1>3. ASSUME NEW p \in Caller, SubmitDerived(p) PROVE Goal
  <2>1. OthersStay(p) /\ pc'[p] = "begin"
    BY <1>3, EnterMoves DEF SubmitDerived
  <2>2. AloneAt(p)
    BY <2>1 DEF AloneAt, Works
  <2>. QED
    BY <1>3, <2>1, <2>2, ReaderFrame DEF SubmitDerived, Goal
<1>4. ASSUME NEW p \in Operator, CheckParked(p) PROVE Goal
  <2>1. PICK c \in CallId, operation \in {"approve", "deny"} :
          IF Parked(c) THEN Enter(p, operation, "clear", c, owner[c]) ELSE Refuse(p)
    BY <1>4 DEF CheckParked
  <2>2. UNCHANGED <<status, awaiting, failure, callEffects, operatorEffects>>
    BY <1>4 DEF CheckParked
  <2>3. CASE Parked(c)
    <3>1. OthersStay(p) /\ pc'[p] = "clear" /\ target'[p] = c /\ At(p, "idle")
      BY SMTT(20), <2>1, <2>3, EnterMoves DEF Enter
    <3>2. pc'[p] \in Deciding => \A q \in Proc \ {p} : ~(Works(q) /\ target[q] = c)
      <4>. SUFFICES ASSUME pc'[p] \in Deciding, NEW q \in Proc, q # p, Works(q), target[q] = c
                    PROVE  FALSE
        OBVIOUS
      <4>1. q \in Operator /\ At(q, "clear")
        BY <2>3 DEF Alone, WorkersInv, DecidersInv, Parked
      <4>2. pc'[q] = pc[q] /\ target'[q] = target[q]
        BY <3>1 DEF OthersStay
      <4>. QED
        BY <1>4, <3>1, <4>1, <4>2 DEF DecisionsApart, Deciding
    <3>3. status[c] = "pending" /\ awaiting[c] /\ ~(callEffects[c] + operatorEffects[c] > 0)
      BY <2>3 DEF Parked, Alone, DecidedInv, Effects
    <3>4. AloneAt(p)
      BY <2>2, <3>1, <3>2, <3>3 DEF AloneAt, Deciding
    <3>. QED
      BY <2>2, <3>1, <3>4, ReaderFrame DEF Goal
  <2>4. CASE ~Parked(c)
    <3>1. OthersStay(p) /\ pc'[p] = "idle"
      BY <2>1, <2>4, RefuseMoves
    <3>2. AloneAt(p)
      BY <3>1 DEF AloneAt, Works
    <3>. QED
      BY <2>2, <3>1, <3>2, ReaderFrame DEF Goal
  <2>. QED
    BY <2>3, <2>4
<1>5. ASSUME NEW p \in Operator, CheckDeadLetter(p) PROVE Goal
  <2>1. PICK c \in CallId, operation \in {"dlq_retry", "dlq_drop"} :
          IF DeadLetter(c)
            THEN Enter(p, operation, IF operation = "dlq_retry" THEN "reopen" ELSE "drop",
                       c, owner[c])
            ELSE Refuse(p)
    BY <1>5 DEF CheckDeadLetter
  <2>2. UNCHANGED <<status, awaiting, failure, callEffects, operatorEffects>>
    BY <1>5 DEF CheckDeadLetter
  <2>3. CASE DeadLetter(c)
    <3>. DEFINE l == IF operation = "dlq_retry" THEN "reopen" ELSE "drop"
    <3>0. Enter(p, operation, l, c, owner[c]) /\ l \in {"reopen", "drop"} /\ p \in Proc
      BY <2>1, <2>3
    <3>1. OthersStay(p) /\ pc'[p] \in {"reopen", "drop"} /\ target'[p] = c /\ At(p, "idle")
      <4>1. At(p, "idle")
        BY <3>0 DEF Enter
      <4>. HIDE DEF l
      <4>2. OthersStay(p) /\ pc'[p] = l /\ target'[p] = c
        BY <3>0, EnterMoves
      <4>. QED
        BY <3>0, <4>1, <4>2
    <3>2. pc'[p] \in Deciding => \A q \in Proc \ {p} : ~(Works(q) /\ target[q] = c)
      <4>. SUFFICES ASSUME pc'[p] \in Deciding, NEW q \in Proc, q # p, Works(q), target[q] = c
                    PROVE  FALSE
        OBVIOUS
      <4>1. q \in Operator /\ At(q, "reopen")
        BY <2>3 DEF Alone, WorkersInv, DecidersInv, DeadLetter
      <4>2. pc'[q] = pc[q] /\ target'[q] = target[q]
        BY <3>1 DEF OthersStay
      <4>. QED
        BY <1>5, <3>1, <4>1, <4>2 DEF DecisionsApart, Deciding
    <3>3. status[c] = "failed" /\ ~awaiting[c] /\ ~(callEffects[c] + operatorEffects[c] > 0)
      BY <2>3 DEF DeadLetter, Alone, DecidedInv, Effects
    <3>4. AloneAt(p)
      BY <2>2, <3>1, <3>2, <3>3 DEF AloneAt, Works, Deciding
    <3>. QED
      BY <2>2, <3>1, <3>4, ReaderFrame DEF Goal
  <2>4. CASE ~DeadLetter(c)
    <3>1. OthersStay(p) /\ pc'[p] = "idle"
      BY <2>1, <2>4, RefuseMoves
    <3>2. AloneAt(p)
      BY <3>1 DEF AloneAt, Works
    <3>. QED
      BY <2>2, <3>1, <3>2, ReaderFrame DEF Goal
  <2>. QED
    BY <2>3, <2>4
<1>6. ASSUME NEW p \in Proc, WinBegin(p) PROVE Goal
  <2>1. target[p] \in CallId /\ status[target[p]] = "absent"
    BY <1>6 DEF WinBegin, LocalsInv, Present
  <2>2. OthersStay(p) /\ pc'[p] = "policy" /\ target'[p] = target[p]
    BY <1>6, GotoMoves DEF WinBegin
  <2>3. /\ status' = [status EXCEPT ![target[p]] = "pending"]
        /\ UNCHANGED <<awaiting, failure, callEffects, operatorEffects>>
    BY <1>6 DEF WinBegin
  <2>4. \A q \in Proc : Works(q) \/ (At(q, "resume") /\ op[q] # "approve")
                          => target[q] # target[p] /\ target[q] \in CallId
    BY <2>1 DEF Alone, WorkersInv, DecidersInv, LocalsInv, Works
  <2>5. \A q \in Proc \ {p} :
          Works(q) \/ (At(q, "resume") /\ op[q] # "approve") => RowStays(target[q])
    BY <2>3, <2>4 DEF RowStays, LedgerType
  <2>6. ~awaiting[target[p]] /\ ~(callEffects[target[p]] + operatorEffects[target[p]] > 0)
    BY <2>1 DEF Alone, DecidedInv, Effects
  <2>7. AloneAt(p)
    BY <2>1, <2>2, <2>3, <2>4, <2>6 DEF AloneAt, LedgerType
  <2>. QED
    BY <2>2, <2>5, <2>7, AloneFrame DEF Goal
<1>7. ASSUME NEW p \in Proc, LoseBegin(p) PROVE Goal
  <2>1. OthersStay(p) /\ pc'[p] = "wait"
    BY <1>7, GotoMoves DEF LoseBegin
  <2>2. AloneAt(p)
    BY <2>1 DEF AloneAt, Works
  <2>. QED
    BY <1>7, <2>1, <2>2, ReaderFrame DEF LoseBegin, Goal
<1>8. ASSUME NEW p \in Proc,
             \/ WaitForResolution(p) \/ ParkSession(p) \/ Drop(p) \/ Crash(p)
      PROVE  Goal
  <2>1. OthersStay(p) /\ pc'[p] = "idle"
    BY <1>8, ReturnMoves DEF WaitForResolution, ParkSession, Drop, Crash
  <2>2. AloneAt(p)
    BY <2>1 DEF AloneAt, Works
  <2>3. UNCHANGED <<status, awaiting, failure, callEffects, operatorEffects>>
    BY <1>8 DEF WaitForResolution, ParkSession, Drop, Crash
  <2>. QED
    BY <2>1, <2>2, <2>3, ReaderFrame DEF Goal
<1>9. ASSUME NEW p \in Proc, PolicyAllow(p) \/ IncrementAttempt(p) \/ ExecuteErr(p)
      PROVE  Goal
  <2>1. /\ OthersStay(p) /\ pc'[p] \in {"attempt", "execute", "record_failed"}
        /\ target'[p] = target[p]
    BY <1>9, GotoMoves DEF PolicyAllow, IncrementAttempt, ExecuteErr, StartExecuting
  <2>2. UNCHANGED <<status, awaiting, failure, callEffects, operatorEffects>>
    BY <1>9 DEF PolicyAllow, IncrementAttempt, ExecuteErr
  <2>3. Works(p) /\ pc[p] \in {"policy", "attempt", "execute"}
    BY <1>9 DEF PolicyAllow, IncrementAttempt, ExecuteErr, Works
  <2>4. AloneAt(p)
    BY <2>1, <2>2, <2>3 DEF AloneAt, Alone, WorkersInv, Effects
  <2>. QED
    BY <2>1, <2>2, <2>4, ReaderFrame DEF Goal
<1>10. ASSUME NEW p \in Proc, PolicyReject(p) \/ ResolveSucceeded(p) \/ ResolveFailed(p)
       PROVE  Goal
  <2>1. OthersStay(p) /\ pc'[p] = "idle"
    BY <1>10, ReturnMoves DEF PolicyReject, ResolveSucceeded, ResolveFailed
  <2>2. AloneAt(p)
    BY <2>1 DEF AloneAt, Works
  <2>3. Works(p)
    BY <1>10 DEF PolicyReject, ResolveSucceeded, ResolveFailed, Works
  <2>4. RowsStayBut(target[p])
    BY <1>10 DEF PolicyReject, ResolveSucceeded, ResolveFailed, RowsStayBut, RowStays, LedgerType
  <2>. QED
    BY <2>1, <2>2, <2>3, <2>4, WriterFrame DEF Goal
<1>11. ASSUME NEW p \in Proc, PolicyPark(p) PROVE Goal
  <2>1. OthersStay(p) /\ pc'[p] = "park"
    BY <1>11, GotoMoves DEF PolicyPark
  <2>2. AloneAt(p)
    BY <2>1 DEF AloneAt, Works
  <2>3. Works(p)
    BY <1>11 DEF PolicyPark, Works
  <2>4. RowsStayBut(target[p])
    BY <1>11 DEF PolicyPark, RowsStayBut, RowStays, LedgerType
  <2>. QED
    BY <2>1, <2>2, <2>3, <2>4, WriterFrame DEF Goal
<1>12. ASSUME NEW p \in Proc, ExecuteOk(p) PROVE Goal
  <2>1. OthersStay(p) /\ pc'[p] = "record_ok" /\ target'[p] = target[p]
    BY <1>12, GotoMoves DEF ExecuteOk
  <2>2. Works(p) /\ target[p] \in CallId
    BY <1>12 DEF ExecuteOk, Works, LocalsInv
  <2>3. /\ UNCHANGED <<status, awaiting, failure>>
        /\ \/ /\ callEffects' = [callEffects EXCEPT ![target[p]] = @ + 1]
              /\ UNCHANGED operatorEffects
           \/ /\ operatorEffects' = [operatorEffects EXCEPT ![target[p]] = @ + 1]
              /\ UNCHANGED callEffects
    BY <1>12 DEF ExecuteOk
  <2>4. callEffects'[target[p]] + operatorEffects'[target[p]] > 0
    BY <2>2, <2>3 DEF HistoryType
  <2>5. RowsStayBut(target[p])
    BY <2>3 DEF RowsStayBut, RowStays, HistoryType
  <2>6. AloneAt(p)
    BY <1>12, <2>1, <2>2, <2>3, <2>4 DEF ExecuteOk, AloneAt, Alone, WorkersInv
  <2>. QED
    BY <2>1, <2>2, <2>5, <2>6, WriterFrame DEF Goal
<1>13. ASSUME NEW p \in Proc, ClearAwaiting(p) PROVE Goal
  <2>1. /\ OthersStay(p) /\ target'[p] = target[p] /\ op'[p] = op[p]
        /\ pc'[p] = IF op[p] = "approve" THEN "resume" ELSE "record_denied"
    BY <1>13, GotoMoves DEF ClearAwaiting
  <2>2. Works(p) /\ target[p] \in CallId /\ p \in Operator
    BY <1>13 DEF ClearAwaiting, Works, LocalsInv, Alone, DecidersInv
  <2>3. /\ UNCHANGED <<status, failure, callEffects, operatorEffects>>
        /\ awaiting' = [awaiting EXCEPT ![target[p]] = FALSE]
    BY <1>13 DEF ClearAwaiting
  <2>4. RowsStayBut(target[p])
    BY <2>3 DEF RowsStayBut, RowStays, LedgerType
  <2>5. AloneAt(p)
    BY <1>13, <2>1, <2>2, <2>3 DEF ClearAwaiting, AloneAt, Alone, WorkersInv, Effects, LedgerType
  <2>. QED
    BY <2>1, <2>2, <2>4, <2>5, WriterFrame DEF Goal
<1>14. ASSUME NEW p \in Proc, ResolveDenied(p) PROVE Goal
  <2>1. OthersStay(p) /\ target'[p] = target[p] /\ op'[p] = op[p] /\ pc'[p] = "resume"
    BY <1>14, GotoMoves DEF ResolveDenied
  <2>2. Works(p) /\ target[p] \in CallId /\ p \in Operator /\ op[p] # "approve"
    BY <1>14 DEF ResolveDenied, Works, LocalsInv, Alone, DecidersInv
  <2>3. /\ UNCHANGED <<awaiting, callEffects, operatorEffects>>
        /\ status' = [status EXCEPT ![target[p]] = "failed"]
        /\ failure' = [failure EXCEPT ![target[p]] = Denied]
    BY <1>14 DEF ResolveDenied
  <2>4. RowsStayBut(target[p])
    BY <2>3 DEF RowsStayBut, RowStays, LedgerType
  <2>5. AloneAt(p)
    BY <2>1, <2>2, <2>3 DEF AloneAt, Works, LedgerType
  <2>. QED
    BY <2>1, <2>2, <2>4, <2>5, WriterFrame DEF Goal
<1>15. ASSUME NEW p \in Proc, ResumeSession(p) PROVE Goal
  <2>1. UNCHANGED <<status, awaiting, failure, callEffects, operatorEffects>>
    BY <1>15 DEF ResumeSession
  <2>2. CASE op[p] = "approve"
    <3>1. OthersStay(p) /\ pc'[p] = "attempt" /\ target'[p] = target[p]
      BY <1>15, <2>2, GotoMoves DEF ResumeSession, StartExecuting
    <3>2. Works(p) /\ pc[p] = "resume"
      BY <1>15, <2>2 DEF ResumeSession, Works
    <3>3. AloneAt(p)
      BY <2>1, <3>1, <3>2 DEF AloneAt, Alone, WorkersInv, Effects
    <3>. QED
      BY <2>1, <3>1, <3>3, ReaderFrame DEF Goal
  <2>3. CASE op[p] # "approve"
    <3>1. OthersStay(p) /\ pc'[p] = "idle"
      BY <1>15, <2>3, ReturnMoves DEF ResumeSession
    <3>2. AloneAt(p)
      BY <3>1 DEF AloneAt, Works
    <3>. QED
      BY <2>1, <3>1, <3>2, ReaderFrame DEF Goal
  <2>. QED
    BY <2>2, <2>3
<1>16. ASSUME NEW p \in Proc, Reopen(p) PROVE Goal
  <2>1. OthersStay(p) /\ target'[p] = target[p] /\ pc'[p] = "attempt"
    BY <1>16, GotoMoves DEF Reopen, StartExecuting
  <2>2. Works(p) /\ target[p] \in CallId /\ pc[p] = "reopen"
    BY <1>16 DEF Reopen, Works, LocalsInv
  <2>3. /\ UNCHANGED <<awaiting, callEffects, operatorEffects>>
        /\ status' = [status EXCEPT ![target[p]] = "pending"]
        /\ failure' = [failure EXCEPT ![target[p]] = NoOutcome]
    BY <1>16 DEF Reopen
  <2>4. RowsStayBut(target[p])
    BY <2>3 DEF RowsStayBut, RowStays, LedgerType
  <2>5. AloneAt(p)
    BY <2>1, <2>2, <2>3 DEF AloneAt, Alone, WorkersInv, Effects, LedgerType
  <2>. QED
    BY <2>1, <2>2, <2>4, <2>5, WriterFrame DEF Goal
<1>17. CASE UNCHANGED vars
  <2>. USE DEF vars
  <2>1. WorkersInv'
    BY <1>17 DEF Alone, WorkersInv, Works, Effects
  <2>2. DecidersInv'
    BY <1>17 DEF Alone, DecidersInv
  <2>. QED
    BY <2>1, <2>2 DEF Goal
<1>. QED
  BY <1>1, <1>2, <1>3, <1>4, <1>5, <1>6, <1>7, <1>8, <1>9, <1>10, <1>11,
     <1>12, <1>13, <1>14, <1>15, <1>16, <1>17
     DEF Next, Continue, Executing, Goal

(* Every step keeps what a row says of its effects.                           *)
LEMMA DecidedStep ==
  ASSUME LedgerType, HistoryType, LocalsInv, AbsentInv, Alone, [Next]_vars
  PROVE  DecidedInv'
<1>. DEFINE RowOk(c) ==
       /\ status'[c] # "pending" => ~awaiting'[c]
       /\ awaiting'[c] \/ status'[c] \in {"absent", "failed"}
            => callEffects'[c] + operatorEffects'[c] = 0
       /\ status'[c] = "failed" => failure'[c] \in FailedOutcome
<1>1. ASSUME NEW c \in CallId, RowStays(c) PROVE RowOk(c)
  BY <1>1 DEF RowStays, Alone, DecidedInv, Effects
<1>2. \/ UNCHANGED <<status, awaiting, failure, callEffects, operatorEffects>>
      \/ \E p \in Proc :
           \/ WinBegin(p) \/ PolicyReject(p) \/ PolicyPark(p) \/ ExecuteOk(p) \/ ResolveSucceeded(p)
           \/ ResolveFailed(p) \/ ClearAwaiting(p) \/ ResolveDenied(p) \/ Reopen(p)
  BY DEF Next, Continue, Executing, RejectSchema, Submit, SubmitDerived, LoseBegin,
         WaitForResolution, PolicyAllow, ParkSession, IncrementAttempt, ExecuteErr, CheckParked,
         ResumeSession, CheckDeadLetter, Drop, Crash, vars
<1>3. ASSUME UNCHANGED <<status, awaiting, failure, callEffects, operatorEffects>>
      PROVE  \A c \in CallId : RowOk(c)
  BY <1>1, <1>3 DEF RowStays
<1>4. ASSUME NEW p \in Proc,
             \/ WinBegin(p) \/ PolicyReject(p) \/ PolicyPark(p) \/ ExecuteOk(p) \/ ResolveSucceeded(p)
             \/ ResolveFailed(p) \/ ClearAwaiting(p) \/ ResolveDenied(p) \/ Reopen(p)
      PROVE  RowsStayBut(target[p])
  BY <1>4 DEF WinBegin, PolicyReject, PolicyPark, ExecuteOk, ResolveSucceeded, ResolveFailed,
              ClearAwaiting, ResolveDenied, Reopen, RowsStayBut, RowStays, LedgerType, HistoryType
<1>5. ASSUME NEW p \in Proc, ~At(p, "idle"),
             Works(p) => /\ status[target[p]] = IF At(p, "reopen") THEN "failed" ELSE "pending"
                         /\ awaiting[target[p]] <=> At(p, "clear")
                         /\ Effects(target[p]) > 0 <=> At(p, "record_ok"),
             \/ WinBegin(p) \/ PolicyReject(p) \/ PolicyPark(p) \/ ExecuteOk(p) \/ ResolveSucceeded(p)
             \/ ResolveFailed(p) \/ ClearAwaiting(p) \/ ResolveDenied(p) \/ Reopen(p)
      PROVE  RowOk(target[p])
  <2>1. target[p] \in CallId
    BY <1>5 DEF LocalsInv
  <2>2. /\ callEffects[target[p]] \in Nat /\ operatorEffects[target[p]] \in Nat
        /\ status[target[p]] = "absent" => ~awaiting[target[p]] /\ Effects(target[p]) = 0
    BY <2>1 DEF HistoryType, Alone, DecidedInv
  <2>3. CASE WinBegin(p)
    BY <2>1, <2>2, <2>3 DEF WinBegin, Present, LedgerType, Effects
  <2>4. CASE PolicyReject(p) \/ ResolveFailed(p) \/ ResolveDenied(p)
    BY <1>5, <2>1, <2>2, <2>4, OutcomeTypes
       DEF PolicyReject, ResolveFailed, ResolveDenied, Works, LedgerType, Effects
  <2>5. CASE PolicyPark(p)
    BY <1>5, <2>1, <2>2, <2>5 DEF PolicyPark, Works, LedgerType, Effects
  <2>6. CASE ExecuteOk(p)
    BY <1>5, <2>1, <2>2, <2>6 DEF ExecuteOk, Works
  <2>7. CASE ResolveSucceeded(p)
    BY <1>5, <2>1, <2>2, <2>7 DEF ResolveSucceeded, Works, LedgerType
  <2>8. CASE ClearAwaiting(p)
    BY <1>5, <2>1, <2>2, <2>8 DEF ClearAwaiting, Works, LedgerType
  <2>9. CASE Reopen(p)
    BY <1>5, <2>1, <2>2, <2>9 DEF Reopen, Works, LedgerType
  <2>. QED
    BY <1>5, <2>3, <2>4, <2>5, <2>6, <2>7, <2>8, <2>9
<1>6. \A c \in CallId : RowOk(c)
  <2>. HIDE DEF RowOk
  <2>1. ASSUME NEW p \in Proc,
               \/ WinBegin(p) \/ PolicyReject(p) \/ PolicyPark(p) \/ ExecuteOk(p) \/ ResolveSucceeded(p)
               \/ ResolveFailed(p) \/ ClearAwaiting(p) \/ ResolveDenied(p) \/ Reopen(p)
        PROVE  \A c \in CallId : RowOk(c)
    <3>1. ~At(p, "idle")
      BY <2>1 DEF WinBegin, PolicyReject, PolicyPark, ExecuteOk, ResolveSucceeded, ResolveFailed,
                  ClearAwaiting, ResolveDenied, Reopen
    <3>2. RowOk(target[p])
      BY <1>5, <2>1, <3>1 DEF Alone, WorkersInv
    <3>. QED
      BY <1>1, <1>4, <2>1, <3>2 DEF RowsStayBut
  <2>. QED
    BY <1>2, <1>3, <2>1
<1>. QED
  BY <1>6 DEF DecidedInv, Effects

LEMMA AloneInductive == Spec /\ []DecisionsApart => []Alone
<1>1. Init => Alone
  BY DEF Init, Alone, WorkersInv, DecidersInv, DecidedInv, Works, Effects
<1>2. IInv /\ Alone /\ DecisionsApart /\ DecisionsApart' /\ [Next]_vars => Alone'
  BY AloneStep, DecidedStep DEF IInv, TypeOK, Alone
<1>. QED
  BY IInvInductive, <1>1, <1>2, PTL DEF Spec
-----------------------------------------------------------------------------
(* The gateway implements CallOnce *)

(* What a row says is decided, and what a process was told, after a step.     *)
LEMMA PerformedSame ==
  ASSUME UNCHANGED <<callEffects, operatorEffects>> PROVE Performed' = Performed
  BY DEF Performed, Effects
LEMMA SettledSame ==
  ASSUME UNCHANGED <<status, result, failure>> PROVE Settled' = Settled
  BY DEF Settled, Terminal, Answer
DecidedNext(c) ==
  IF status'[c] = "succeeded" THEN Ok(result'[c])
  ELSE IF status'[c] = "failed" THEN failure'[c] ELSE NoOutcome
LEMMA SettledPut ==
  ASSUME NEW c \in CallId,
         \A d \in CallId \ {c} : /\ status'[d] = status[d] /\ result'[d] = result[d]
                                 /\ failure'[d] = failure[d]
  PROVE  Settled' = [Settled EXCEPT ![c] = DecidedNext(c)]
  BY DEF Settled, Terminal, Answer, DecidedNext
LEMMA ToldSame ==
  ASSUME UNCHANGED <<target, outcome>> PROVE Told' = Told
  BY DEF Told, Resolved
LEMMA GotoTold ==
  ASSUME NEW p \in Proc, NEW l, Goto(p, l) PROVE Told' = Told
  BY ToldSame DEF Goto
LEMMA ToldPut ==
  ASSUME NEW p \in Proc, \A q \in Proc \ {p} : target'[q] = target[q] /\ outcome'[q] = outcome[q]
  PROVE  Told' = [Told EXCEPT ![p] = IF outcome'[p].kind \in {"ok", "failed"}
                                       THEN <<target'[p], outcome'[p]>> ELSE None]
  BY DEF Told, Resolved
LEMMA ReturnTold ==
  ASSUME LocalType, NEW p \in Proc, NEW a, Return(p, a)
  PROVE  Told' = [Told EXCEPT ![p] = IF a.kind \in {"ok", "failed"} THEN <<target[p], a>> ELSE None]
<1>1. outcome'[p] = a /\ target'[p] = target[p]
  BY DEF Return, LocalType
<1>2. \A q \in Proc \ {p} : target'[q] = target[q] /\ outcome'[q] = outcome[q]
  BY DEF Return, LocalType
<1>. QED
  BY <1>1, <1>2, ToldPut
LEMMA SilentTold ==
  ASSUME LocalType, NEW p \in Proc, NEW o \in {NoOutcome, ErrorOutcome},
         outcome' = [outcome EXCEPT ![p] = o], NEW c, target' = [target EXCEPT ![p] = c]
  PROVE  Told' = [Told EXCEPT ![p] = None]
<1>1. outcome'[p] = o /\ o.kind \notin {"ok", "failed"}
  BY DEF LocalType, NoOutcome, ErrorOutcome
<1>2. \A q \in Proc \ {p} : target'[q] = target[q] /\ outcome'[q] = outcome[q]
  BY DEF LocalType
<1>. QED
  BY <1>1, <1>2, ToldPut
LEMMA EnterTold ==
  ASSUME LocalType, NEW p \in Proc, NEW o, NEW l, NEW c, NEW s, Enter(p, o, l, c, s)
  PROVE  Told' = [Told EXCEPT ![p] = None]
  BY SilentTold DEF Enter
LEMMA RefuseTold ==
  ASSUME LocalType, NEW p \in Proc, Refuse(p)
  PROVE  Told' = [Told EXCEPT ![p] = None]
  BY SilentTold DEF Refuse

(* A terminal row's answer is an outcome of a success or of a failure.        *)
Success == [kind : {"ok"}, value : Nat]
LEMMA SettledValue ==
  ASSUME LedgerType, Alone, NEW c \in CallId
  PROVE  /\ Terminal(c) => /\ Settled[c] = Answer(c) /\ Settled[c] # NoOutcome
                           /\ Answer(c).kind \in {"ok", "failed"}
         /\ ~Terminal(c) => Settled[c] = NoOutcome
         /\ status[c] = "failed" => Settled[c] = failure[c] /\ failure[c] \in FailedOutcome
<1>1. status[c] = "failed" => failure[c] \in FailedOutcome
  BY DEF Alone, DecidedInv
<1>2. Terminal(c) => Answer(c).kind \in {"ok", "failed"}
  BY <1>1 DEF Terminal, Answer, Ok, FailedOutcome
<1>3. NoOutcome.kind = "none"
  BY DEF NoOutcome
<1>. QED
  BY <1>1, <1>2, <1>3 DEF Settled, Terminal, Answer

(* The steps of CallOnce that the gateway's steps map to.                     *)
Stutters == UNCHANGED <<Performed, Settled, Told>>
Forgets(p) == UNCHANGED <<Performed, Settled>> /\ Told' = [Told EXCEPT ![p] = None]
Tells(p, c) ==
  /\ Settled[c] # NoOutcome
  /\ UNCHANGED <<Performed, Settled>> /\ Told' = [Told EXCEPT ![p] = <<c, Settled[c]>>]
Performs(c) ==
  /\ c \notin Performed /\ Settled[c] = NoOutcome
  /\ Performed' = Performed \cup {c} /\ UNCHANGED <<Settled, Told>>
Decides(p, c, a) ==
  /\ Settled[c] = NoOutcome /\ a \in IF c \in Performed THEN Success ELSE FailedOutcome
  /\ Settled' = [Settled EXCEPT ![c] = a]
  /\ UNCHANGED Told \/ Told' = [Told EXCEPT ![p] = <<c, a>>]
  /\ UNCHANGED Performed
Overrides(c) ==
  /\ Settled[c] \in FailedOutcome
  /\ Settled' = [Settled EXCEPT ![c] = NoOutcome] /\ UNCHANGED <<Performed, Told>>
Promised(p, c) ==
  \/ Stutters \/ Forgets(p)
  \/ c \in CallId /\ (Tells(p, c) \/ Performs(c) \/ (\E a : Decides(p, c, a)) \/ Overrides(c))

(* Every step of a process is one of these, about its call.                   *)
LEMMA DecideStep ==
  ASSUME LedgerType, LocalType, LocalsInv, Alone, NEW p \in Proc, Works(p), ~At(p, "reopen"),
         NEW a, a \in IF At(p, "record_ok") THEN Success ELSE FailedOutcome,
         \A d \in CallId \ {target[p]} : /\ status'[d] = status[d] /\ result'[d] = result[d]
                                         /\ failure'[d] = failure[d],
         DecidedNext(target[p]) = a,
         UNCHANGED <<callEffects, operatorEffects>>,
         Told' = Told \/ Told' = [Told EXCEPT ![p] = <<target[p], a>>]
  PROVE  Promised(p, target[p])
<1>1. target[p] \in CallId
  BY DEF LocalsInv, Works
<1>2. status[target[p]] = "pending" /\ (Effects(target[p]) > 0 <=> At(p, "record_ok"))
  BY DEF Alone, WorkersInv
<1>3. Settled[target[p]] = NoOutcome
  BY <1>1, <1>2, SettledValue DEF Terminal
<1>4. target[p] \in Performed <=> At(p, "record_ok")
  BY <1>1, <1>2 DEF Performed
<1>5. Settled' = [Settled EXCEPT ![target[p]] = a]
  BY <1>1, SettledPut
<1>6. Decides(p, target[p], a)
  BY <1>3, <1>4, <1>5, PerformedSame DEF Decides
<1>. QED
  BY <1>1, <1>6 DEF Promised

LEMMA ForgetStep ==
  ASSUME LocalType, NEW p \in Proc, NEW a \in {NoOutcome, ErrorOutcome, ParkedOutcome}, Return(p, a),
         UNCHANGED <<status, result, failure, callEffects, operatorEffects>>, NEW c
  PROVE  Promised(p, c)
<1>1. a.kind \notin {"ok", "failed"}
  BY DEF NoOutcome, ErrorOutcome, ParkedOutcome
<1>. QED
  BY <1>1, ReturnTold, PerformedSame, SettledSame DEF Promised, Forgets

LEMMA TellStep ==
  ASSUME LedgerType, LocalType, Alone, NEW p \in Proc, target[p] \in CallId, Terminal(target[p]),
         Return(p, Answer(target[p])),
         UNCHANGED <<status, result, failure, callEffects, operatorEffects>>
  PROVE  Promised(p, target[p])
<1>1. /\ Settled[target[p]] = Answer(target[p]) /\ Settled[target[p]] # NoOutcome
      /\ Answer(target[p]).kind \in {"ok", "failed"}
  BY SettledValue
<1>. QED
  BY <1>1, ReturnTold, PerformedSame, SettledSame DEF Promised, Tells

LEMMA SilentStep ==
  ASSUME Told' = Told, NEW p, NEW c,
         UNCHANGED <<status, result, failure, callEffects, operatorEffects>>
  PROVE  Promised(p, c)
  BY PerformedSame, SettledSame DEF Promised, Stutters

LEMMA PromisedStep ==
  ASSUME LedgerType, LocalType, HistoryType, LocalsInv, AbsentInv, Alone, [Next]_vars
  PROVE  Stutters \/ \E p \in Proc : \E c : Promised(p, c)
<1>. DEFINE Goal == Stutters \/ \E p \in Proc : \E c : Promised(p, c)
<1>. HIDE DEF Goal
<1>0. ASSUME NEW p \in Proc, NEW c, Promised(p, c) PROVE Goal
  BY <1>0 DEF Goal
<1>1. ASSUME NEW p \in Caller, RejectSchema(p) \/ Submit(p) \/ SubmitDerived(p) PROVE Goal
  <2>1. Told' = [Told EXCEPT ![p] = None]
    <3>1. CASE RejectSchema(p)
      BY <3>1, SilentTold DEF RejectSchema
    <3>2. CASE Submit(p)
      BY <3>2, EnterTold DEF Submit
    <3>3. CASE SubmitDerived(p)
      BY <3>3, EnterTold DEF SubmitDerived
    <3>. QED
      BY <1>1, <3>1, <3>2, <3>3
  <2>2. UNCHANGED <<status, result, failure, callEffects, operatorEffects>>
    BY <1>1 DEF RejectSchema, Submit, SubmitDerived
  <2>3. Promised(p, None)
    BY <2>1, <2>2, PerformedSame, SettledSame DEF Promised, Forgets
  <2>. QED
    BY <1>0, <2>3
<1>2. ASSUME NEW p \in Operator, CheckParked(p) \/ CheckDeadLetter(p) PROVE Goal
  <2>1. Told' = [Told EXCEPT ![p] = None]
    <3>1. CASE CheckParked(p)
      BY <3>1, EnterTold, RefuseTold DEF CheckParked
    <3>2. CASE CheckDeadLetter(p)
      BY <3>2, EnterTold, RefuseTold DEF CheckDeadLetter
    <3>. QED
      BY <1>2, <3>1, <3>2
  <2>2. UNCHANGED <<status, result, failure, callEffects, operatorEffects>>
    BY <1>2 DEF CheckParked, CheckDeadLetter
  <2>3. Promised(p, None)
    BY <2>1, <2>2, PerformedSame, SettledSame DEF Promised, Forgets
  <2>. QED
    BY <1>0, <2>3
<1>3. ASSUME NEW p \in Proc, WinBegin(p) PROVE Goal
  <2>1. Told' = Told /\ target[p] \in CallId
    BY <1>3, GotoTold DEF WinBegin, LocalsInv
  <2>2. ~Terminal(target[p]) /\ DecidedNext(target[p]) = NoOutcome
    BY <1>3, <2>1 DEF WinBegin, Terminal, Present, LedgerType, DecidedNext
  <2>3. Settled[target[p]] = NoOutcome
    BY <2>1, <2>2, SettledValue
  <2>4. \A d \in CallId \ {target[p]} : /\ status'[d] = status[d] /\ result'[d] = result[d]
                                        /\ failure'[d] = failure[d]
    BY <1>3 DEF WinBegin, LedgerType
  <2>5. Settled' = [Settled EXCEPT ![target[p]] = NoOutcome]
    BY <2>1, <2>2, <2>4, SettledPut
  <2>6. Settled' = Settled
    BY <2>3, <2>5, <2>1 DEF Settled
  <2>7. Performed' = Performed
    BY <1>3, PerformedSame DEF WinBegin
  <2>. QED
    BY <2>1, <2>6, <2>7 DEF Goal, Stutters
<1>4. ASSUME NEW p \in Proc, WaitForResolution(p) PROVE Goal
  <2>1. target[p] \in CallId /\ Answered(target[p])
    BY <1>4 DEF WaitForResolution, LocalsInv
  <2>2. UNCHANGED <<status, result, failure, callEffects, operatorEffects>>
    BY <1>4 DEF WaitForResolution
  <2>3. Return(p, Answer(target[p]))
    BY <1>4 DEF WaitForResolution
  <2>4. CASE Terminal(target[p])
    BY <1>0, <2>1, <2>2, <2>3, <2>4, TellStep
  <2>5. CASE ~Terminal(target[p])
    <3>1. Answer(target[p]) = ParkedOutcome
      BY <2>5 DEF Terminal, Answer
    <3>. QED
      BY <1>0, <2>2, <2>3, <3>1, ForgetStep
  <2>. QED
    BY <2>4, <2>5
<1>5. ASSUME NEW p \in Proc,
             \/ LoseBegin(p) \/ PolicyAllow(p) \/ PolicyPark(p) \/ IncrementAttempt(p)
             \/ ExecuteErr(p) \/ ClearAwaiting(p)
      PROVE  Goal
  <2>1. Told' = Told
    BY <1>5, GotoTold DEF LoseBegin, PolicyAllow, PolicyPark, IncrementAttempt, ExecuteErr,
                          ClearAwaiting, StartExecuting
  <2>2. UNCHANGED <<status, result, failure, callEffects, operatorEffects>>
    BY <1>5 DEF LoseBegin, PolicyAllow, PolicyPark, IncrementAttempt, ExecuteErr, ClearAwaiting
  <2>. QED
    BY <1>0, <2>1, <2>2, SilentStep
<1>6. ASSUME NEW p \in Proc, ParkSession(p) \/ Drop(p) \/ Crash(p) PROVE Goal
  <2>1. Return(p, NoOutcome) \/ Return(p, ParkedOutcome)
    BY <1>6 DEF ParkSession, Drop, Crash
  <2>2. UNCHANGED <<status, result, failure, callEffects, operatorEffects>>
    BY <1>6 DEF ParkSession, Drop, Crash
  <2>. QED
    BY <1>0, <2>1, <2>2, ForgetStep
<1>7. ASSUME NEW p \in Proc, PolicyReject(p) PROVE Goal
  <2>1. Works(p) /\ ~At(p, "reopen") /\ ~At(p, "record_ok") /\ target[p] \in CallId
    BY <1>7 DEF PolicyReject, Works, LocalsInv
  <2>2. Rejected \in FailedOutcome /\ Rejected.kind = "failed"
    BY DEF Rejected, Failed, FailedOutcome, Reason
  <2>3. Told' = [Told EXCEPT ![p] = <<target[p], Rejected>>]
    BY <1>7, <2>2, ReturnTold DEF PolicyReject
  <2>4. /\ \A d \in CallId \ {target[p]} : /\ status'[d] = status[d] /\ result'[d] = result[d]
                                           /\ failure'[d] = failure[d]
        /\ status'[target[p]] = "failed" /\ failure'[target[p]] = Rejected
        /\ UNCHANGED <<callEffects, operatorEffects>>
    BY <1>7, <2>1 DEF PolicyReject, LedgerType
  <2>5. DecidedNext(target[p]) = Rejected
    BY <2>4 DEF DecidedNext
  <2>6. Promised(p, target[p])
    BY <2>1, <2>2, <2>3, <2>4, <2>5, DecideStep
  <2>. QED
    BY <1>0, <2>6
<1>8. CASE UNCHANGED vars
  BY <1>8, PerformedSame, SettledSame, ToldSame DEF vars, Goal, Stutters
<1>9. ASSUME NEW p \in Proc, ResolveFailed(p) PROVE Goal
  <2>1. Works(p) /\ ~At(p, "reopen") /\ ~At(p, "record_ok") /\ target[p] \in CallId
    BY <1>9 DEF ResolveFailed, Works, LocalsInv
  <2>2. Exhausted(target[p]) \in FailedOutcome /\ Exhausted(target[p]).kind = "failed"
    BY DEF Exhausted, Failed, FailedOutcome, Reason
  <2>3. Told' = [Told EXCEPT ![p] = <<target[p], Exhausted(target[p])>>]
    BY <1>9, <2>2, ReturnTold DEF ResolveFailed
  <2>4. /\ \A d \in CallId \ {target[p]} : /\ status'[d] = status[d] /\ result'[d] = result[d]
                                           /\ failure'[d] = failure[d]
        /\ status'[target[p]] = "failed" /\ failure'[target[p]] = Exhausted(target[p])
        /\ UNCHANGED <<callEffects, operatorEffects>>
    BY <1>9, <2>1 DEF ResolveFailed, LedgerType
  <2>5. DecidedNext(target[p]) = Exhausted(target[p])
    BY <2>4 DEF DecidedNext
  <2>6. Promised(p, target[p])
    BY <2>1, <2>2, <2>3, <2>4, <2>5, DecideStep
  <2>. QED
    BY <1>0, <2>6
<1>10. ASSUME NEW p \in Proc, ResolveSucceeded(p) PROVE Goal
  <2>1. Works(p) /\ ~At(p, "reopen") /\ At(p, "record_ok") /\ target[p] \in CallId
    BY <1>10 DEF ResolveSucceeded, Works, LocalsInv
  <2>2. Ok(value[p]) \in Success /\ Ok(value[p]).kind = "ok"
    BY DEF Ok, Success, LocalType
  <2>3. Told' = [Told EXCEPT ![p] = <<target[p], Ok(value[p])>>]
    BY <1>10, <2>2, ReturnTold DEF ResolveSucceeded
  <2>4. /\ \A d \in CallId \ {target[p]} : /\ status'[d] = status[d] /\ result'[d] = result[d]
                                           /\ failure'[d] = failure[d]
        /\ status'[target[p]] = "succeeded" /\ result'[target[p]] = value[p]
        /\ UNCHANGED <<callEffects, operatorEffects>>
    BY <1>10, <2>1 DEF ResolveSucceeded, LedgerType
  <2>5. DecidedNext(target[p]) = Ok(value[p])
    BY <2>4 DEF DecidedNext
  <2>6. Promised(p, target[p])
    BY <2>1, <2>2, <2>3, <2>4, <2>5, DecideStep
  <2>. QED
    BY <1>0, <2>6
<1>11. ASSUME NEW p \in Proc, ResolveDenied(p) PROVE Goal
  <2>1. Works(p) /\ ~At(p, "reopen") /\ ~At(p, "record_ok") /\ target[p] \in CallId
    BY <1>11 DEF ResolveDenied, Works, LocalsInv
  <2>2. Denied \in FailedOutcome
    BY DEF Denied, Failed, FailedOutcome, Reason
  <2>3. Told' = Told
    BY <1>11, GotoTold DEF ResolveDenied
  <2>4. /\ \A d \in CallId \ {target[p]} : /\ status'[d] = status[d] /\ result'[d] = result[d]
                                           /\ failure'[d] = failure[d]
        /\ status'[target[p]] = "failed" /\ failure'[target[p]] = Denied
        /\ UNCHANGED <<callEffects, operatorEffects>>
    BY <1>11, <2>1 DEF ResolveDenied, LedgerType
  <2>5. DecidedNext(target[p]) = Denied
    BY <2>4 DEF DecidedNext
  <2>6. Promised(p, target[p])
    BY <2>1, <2>2, <2>3, <2>4, <2>5, DecideStep
  <2>. QED
    BY <1>0, <2>6
<1>12. ASSUME NEW p \in Proc, ExecuteOk(p) PROVE Goal
  <2>1. Works(p) /\ At(p, "execute") /\ target[p] \in CallId
    BY <1>12 DEF ExecuteOk, Works, LocalsInv
  <2>2. status[target[p]] = "pending" /\ ~(Effects(target[p]) > 0)
    BY <2>1 DEF Alone, WorkersInv
  <2>3. target[p] \notin Performed /\ Settled[target[p]] = NoOutcome
    BY <2>1, <2>2, SettledValue DEF Performed, Terminal
  <2>4. UNCHANGED <<Settled, Told>>
    BY <1>12, GotoTold, SettledSame DEF ExecuteOk
  <2>5. \A d \in CallId \ {target[p]} : /\ callEffects'[d] = callEffects[d]
                                        /\ operatorEffects'[d] = operatorEffects[d]
    BY <1>12 DEF ExecuteOk, HistoryType
  <2>6. callEffects'[target[p]] + operatorEffects'[target[p]] > 0
    BY <1>12, <2>1 DEF ExecuteOk, HistoryType
  <2>7. Performed' = Performed \cup {target[p]}
    BY <2>1, <2>5, <2>6 DEF Performed, Effects
  <2>8. Promised(p, target[p])
    BY <2>1, <2>3, <2>4, <2>7 DEF Promised, Performs
  <2>. QED
    BY <1>0, <2>8
<1>13. ASSUME NEW p \in Proc, ResumeSession(p) PROVE Goal
  <2>1. UNCHANGED <<status, result, failure, callEffects, operatorEffects>>
    BY <1>13 DEF ResumeSession
  <2>2. CASE op[p] = "approve"
    <3>1. Told' = Told
      BY <1>13, <2>2, GotoTold DEF ResumeSession, StartExecuting
    <3>. QED
      BY <1>0, <2>1, <3>1, SilentStep
  <2>3. CASE op[p] # "approve"
    <3>1. target[p] \in CallId /\ status[target[p]] = "failed" /\ failure[target[p]] = Denied
      BY <1>13, <2>3 DEF ResumeSession, LocalsInv, Alone, DecidersInv
    <3>2. Return(p, Answer(target[p]))
      BY <1>13, <2>3, <3>1 DEF ResumeSession, Answer
    <3>. QED
      BY <1>0, <2>1, <3>1, <3>2, TellStep DEF Terminal
  <2>. QED
    BY <2>2, <2>3
<1>14. ASSUME NEW p \in Proc, Reopen(p) PROVE Goal
  <2>1. Works(p) /\ At(p, "reopen") /\ target[p] \in CallId
    BY <1>14 DEF Reopen, Works, LocalsInv
  <2>2. Settled[target[p]] \in FailedOutcome
    BY <2>1, SettledValue DEF Alone, WorkersInv
  <2>3. /\ \A d \in CallId \ {target[p]} : /\ status'[d] = status[d] /\ result'[d] = result[d]
                                           /\ failure'[d] = failure[d]
        /\ status'[target[p]] = "pending"
        /\ UNCHANGED <<callEffects, operatorEffects>>
    BY <1>14, <2>1 DEF Reopen, LedgerType
  <2>4. DecidedNext(target[p]) = NoOutcome
    BY <2>3 DEF DecidedNext
  <2>5. Settled' = [Settled EXCEPT ![target[p]] = NoOutcome]
    BY <2>1, <2>3, <2>4, SettledPut
  <2>6. Told' = Told
    BY <1>14, GotoTold DEF Reopen, StartExecuting
  <2>7. Promised(p, target[p])
    BY <2>1, <2>2, <2>3, <2>5, <2>6, PerformedSame DEF Promised, Overrides
  <2>. QED
    BY <1>0, <2>7
<1>. QED
  BY <1>1, <1>2, <1>3, <1>4, <1>5, <1>6, <1>7, <1>8, <1>9, <1>10, <1>11, <1>12, <1>13, <1>14
     DEF Next, Continue, Executing, Goal

(* The gateway implements CallOnce as long as the decisions on each call are  *)
(* apart, for every number of callers, operators, calls and sessions: a call  *)
(* has its side effect at most once, and everybody who asks is told the       *)
(* outcome it has (the `won` flag of begin_tool_call and                      *)
(* outcome_for_existing_row, gateway.rs).  Two decisions on one call that     *)
(* race break it: nothing holds the row that parked_row read.                 *)
THEOREM DecisionsApartImplementCallOnce == Spec /\ []DecisionsApart => ImplementsCallOnce
<1>1. Init => Promise!Init
  <2>. SUFFICES ASSUME Init PROVE Promise!Init
    OBVIOUS
  <2>1. Performed = {}
    BY DEF Init, Performed, Effects
  <2>2. Settled = [c \in CallId |-> NoOutcome]
    BY DEF Init, Settled, Terminal
  <2>3. Told = [p \in Proc |-> None]
    BY DEF Init, Told, Resolved, NoOutcome
  <2>. QED
    BY <2>1, <2>2, <2>3 DEF Promise!Init
<1>2. ASSUME NEW p \in Proc, NEW c, Promised(p, c) PROVE [Promise!Next]_(Promise!vars)
  <2>1. CASE Stutters
    BY <2>1 DEF Stutters, Promise!vars
  <2>2. CASE Forgets(p)
    BY <2>2 DEF Forgets, Promise!Next, Promise!Forget
  <2>3. CASE c \in CallId /\ Tells(p, c)
    BY <2>3 DEF Tells, Promise!Next, Promise!Tell
  <2>4. CASE c \in CallId /\ Performs(c)
    BY <2>4 DEF Performs, Promise!Next, Promise!Perform
  <2>5. ASSUME c \in CallId, NEW a, Decides(p, c, a) PROVE Promise!Next
    <3>1. Settled'[c] = a
      BY <2>5 DEF Decides, Settled
    <3>2. Promise!Decide(c)
      BY <2>5, <3>1 DEF Decides, Success, Promise!Decide
    <3>. QED
      BY <2>5, <3>2 DEF Promise!Next
  <2>6. CASE c \in CallId /\ Overrides(c)
    BY <2>6 DEF Overrides, Promise!Next, Promise!Override
  <2>. QED
    BY <1>2, <2>1, <2>2, <2>3, <2>4, <2>5, <2>6 DEF Promised
<1>3. IInv /\ Alone /\ [Next]_vars => [Promise!Next]_(Promise!vars)
  <2>1. CASE Stutters
    BY <2>1 DEF Stutters, Promise!vars
  <2>. QED
    BY <1>2, <2>1, PromisedStep DEF IInv, TypeOK
<1>. QED
  BY IInvInductive, AloneInductive, <1>1, <1>3, PTL DEF Spec, ImplementsCallOnce, Promise!Spec

(* A single operator's decisions are apart. *)
THEOREM OneOperatorImplementsCallOnce == OneOperator => (Spec => ImplementsCallOnce)
<1>. SUFFICES ASSUME OneOperator PROVE Spec => ImplementsCallOnce
  OBVIOUS
<1>1. DecisionsApart
  BY DEF OneOperator, DecisionsApart
<1>. QED
  BY <1>1, DecisionsApartImplementCallOnce, PTL
=============================================================================
