------------------------ MODULE SessionReplayProofs ------------------------
(***************************************************************************)
(* Proofs about SessionReplay: type correctness, and what replay promises   *)
(* of the side effects and of the answers of a session.                    *)
(***************************************************************************)
EXTENDS SessionReplay, FiniteSetTheorems, SequenceTheorems, TLAPS

USE DEF store, daemon, client, history

-----------------------------------------------------------------------------
(* Who writes what *)

(* A step writes each part of the store and of the history by an action of    *)
(* these, or not at all.                                                      *)
Written ==
  /\ script' = script
  /\ status' = status \/ status' \in {"running", "awaiting_approval", "awaiting_dead_letter",
                                      "aborted", "completed"}
  /\ events' = events \/ RecordEvent
  /\ checkpoint' = checkpoint \/ PreCheckpoint \/ PeriodicCheckpoint
  /\ snapshot' = snapshot \/ snapshot' \in {"missing", "partial", "complete"}
  /\ \/ ledger' = ledger \/ BeginCall \/ BeginParked \/ BeginElsewhere \/ Resolve \/ FlagRow
     \/ \E r \in DOMAIN ledger : \/ Approve(r) \/ Deny(r) \/ ExecuteApproved(r)
                                 \/ ResolveElsewhere(r)
  /\ \/ toolRuns' = toolRuns \/ Execute
     \/ \E r \in DOMAIN ledger : ExecuteApproved(r) \/ ResolveElsewhere(r)
  /\ modelCalls' = modelCalls \/ ModelAnswers
  /\ answered' = answered \/ ReplayEvent \/ ReplayRow \/ ModelFails \/ SendReply
  /\ answer' = answer \/ ModelAnswers \/ Execute \/ AwaitRow \/ Unpark \/ answer' = NoAnswer
  /\ frontier' = frontier \/ ReplayEvent \/ PreCheckpoint \/ frontier' = NoFrontier
  /\ request' = request \/ Request \/ request' = NoRequest
  /\ saved' = saved \/ Advance
LEMMA Writers == [Next]_vars => Written
<1>1. CASE Start \/ Finish \/ Request \/ Advance \/ Complete
  BY <1>1 DEF Written, Start, Finish, Request, Advance, Complete, Goto
<1>2. CASE Crash \/ Disconnect \/ Resume
  BY <1>2 DEF Written, Crash, Disconnect, Lose, Resume
<1>3. CASE ReplayEvent \/ ReplayRow \/ ParkUnfinished \/ GoLive
  BY <1>3 DEF Written, ReplayEvent, ReplayRow, ParkUnfinished, GoLive, Reply, Goto
<1>4. CASE PreCheckpoint \/ PeriodicCheckpoint \/ CopyWorkspace \/ SnapshotDone
  BY <1>4 DEF Written, PreCheckpoint, PeriodicCheckpoint, CopyWorkspace, SnapshotDone, Covering, Goto
<1>5. CASE ModelAnswers \/ ModelFails \/ BeginCall \/ Execute \/ Resolve \/ AwaitRow
  BY <1>5 DEF Written, ModelAnswers, ModelFails, BeginCall, Execute, Resolve, AwaitRow, Reply, Goto
<1>6. CASE RecordEvent \/ SendReply \/ BeginParked \/ FlagRow \/ Suspend \/ Unpark
  BY <1>6 DEF Written, RecordEvent, SendReply, BeginParked, FlagRow, Suspend, Unpark, Reply, Goto
<1>7. CASE BeginElsewhere
  BY <1>7 DEF Written, BeginElsewhere
<1>8. ASSUME NEW r \in DOMAIN ledger,
             Approve(r) \/ Deny(r) \/ ExecuteApproved(r) \/ ResolveElsewhere(r)
      PROVE  Written
  BY <1>8 DEF Written, Approve, Deny, ExecuteApproved, ResolveElsewhere
<1>9. CASE UNCHANGED vars
  BY <1>9 DEF Written, vars
<1>. QED
  BY <1>1, <1>2, <1>3, <1>4, <1>5, <1>6, <1>7, <1>8, <1>9
     DEF Next, Harness, Daemon, Replaying, Checkpointing, Serving, Operator, Elsewhere

-----------------------------------------------------------------------------
(* Type correctness *)

LEMMA ScriptTypes ==
  ASSUME script \in Scripts
  PROVE  /\ Len(script) \in Nat /\ Step \subseteq Nat /\ 0 \notin Step
         /\ \A i \in Step : /\ script[i].kind \in Kind /\ script[i].name \in Name
                            /\ script[i].key \in Nat
<1>. DEFINE Asks == [kind : Kind, name : STRING, args : STRING, key : Nat,
                     class : {"read", "write", "critical"}]
<1>. HIDE DEF Asks
<1>1. script \in Seq(Asks)
  BY ScriptAssumption DEF Asks
<1>2. Len(script) \in Nat /\ \A i \in 1..Len(script) : script[i] \in Asks
  BY <1>1
<1>. QED
  BY <1>2 DEF Step, Name, Asks

LEMMA InitTypes == Init => TypeOK /\ ServingInv
<1>. SUFFICES ASSUME Init PROVE TypeOK /\ ServingInv
  OBVIOUS
<1>1. script \in Scripts /\ Step \subseteq Nat /\ Len(script) \in Nat
  BY ScriptTypes DEF Init
<1>2. DOMAIN ledger = {} /\ IsFiniteSet(DOMAIN ledger)
  BY FS_EmptySet DEF Init
<1>3. events \in Seq(Event) /\ frontier \in [known : BOOLEAN, label : Label, events : Seq(Event)]
  BY DEF Init, NoFrontier, Label
<1>4. /\ checkpoint \in [label : Label, covers : 0..Len(events)] \cup {NoCheckpoint}
      /\ request \in [step : Step \cup {0}, id : Nat]
      /\ position \in 1..(Len(script) + 1)
  BY <1>1 DEF Init, NoRequest
<1>5. /\ modelCalls \in [Step -> Nat] /\ toolRuns \in [Step -> Nat]
      /\ answered \in [Step -> Answers \cup {NoAnswer}]
  BY DEF Init
<1>. QED
  BY <1>1, <1>2, <1>3, <1>4, <1>5 DEF Init, TypeOK, ServingInv, Serves

(* What a call of the gateway makes of the ledger.                            *)
RowType == [status : {"pending", "succeeded", "failed"},
            gate : {"open", "parked", "approved", "elsewhere"}, step : Step]
LedgerOK ==
  /\ IsFiniteSet(DOMAIN ledger) /\ DOMAIN ledger \subseteq Row
  /\ \A r \in DOMAIN ledger : ledger[r] \in RowType
LEMMA RowKept ==
  ASSUME LedgerOK, Step' = Step, Row' = Row, NEW r \in DOMAIN ledger, NEW row \in RowType,
         ledger' = [ledger EXCEPT ![r] = row]
  PROVE  LedgerOK'
  BY DEF LedgerOK, RowType
LEMMA RowAdded ==
  ASSUME LedgerOK, Step' = Step, Row' = Row, NEW r \in Row, NEW row \in RowType,
         ledger' = [x \in DOMAIN ledger \cup {r} |-> IF x = r THEN row ELSE ledger[x]]
  PROVE  LedgerOK'
<1>1. IsFiniteSet(DOMAIN ledger \cup {r})
  BY FS_AddElement DEF LedgerOK
<1>2. DOMAIN ledger' = DOMAIN ledger \cup {r}
  OBVIOUS
<1>3. \A x \in DOMAIN ledger' : ledger'[x] \in RowType
  BY DEF LedgerOK
<1>. QED
  BY <1>1, <1>2, <1>3 DEF LedgerOK, RowType

LEMMA LedgerStep ==
  ASSUME TypeOK, ServingInv, Written, Step' = Step, Row' = Row PROVE LedgerOK'
<1>1. LedgerOK /\ RowCount \in Nat
  <2>1. LedgerOK
    BY DEF TypeOK, LedgerOK, RowType
  <2>2. IsFiniteSet({r \in DOMAIN ledger : ledger[r].gate # "elsewhere"})
    BY <2>1, FS_Subset DEF LedgerOK
  <2>. QED
    BY <2>1, <2>2, FS_CardinalityType DEF RowCount
<1>2. CASE ledger' = ledger
  BY <1>1, <1>2 DEF LedgerOK, RowType
<1>3. ASSUME NEW r \in Row, Serves, Insert(r) PROVE LedgerOK'
  <2>1. [status |-> "pending", gate |-> "open", step |-> request.step] \in RowType
    BY <1>3 DEF ServingInv, RowType
  <2>. QED
    BY <1>1, <1>3, <2>1, RowAdded DEF Insert
<1>4. CASE BeginCall
  <2>1. OwnRow \in Row /\ Serves
    BY <1>4, ScriptTypes DEF BeginCall, TypeOK, ServingInv, Serves, OwnRow, OwnKey, Row, Key, Asked
  <2>. QED
    BY <1>2, <1>3, <1>4, <2>1 DEF BeginCall
<1>5. CASE BeginParked
  <2>1. Serves /\ request.step \in Step
    BY <1>5 DEF BeginParked, ServingInv, Serves
  <2>2. Asked.name \in Name
    BY <2>1 DEF Asked, Name
  <2>3. RowCount + 1 \in Nat
    BY <1>1
  <2>4. <<Asked.name, [from |-> "seq", n |-> RowCount + 1]>> \in Row
    BY <2>2, <2>3 DEF Row, Key
  <2>. QED
    BY <1>3, <1>5, <2>1, <2>4 DEF BeginParked
<1>6. CASE BeginElsewhere
  <2>1. PICK i \in Step :
          ledger' = [x \in DOMAIN ledger \cup {<<script[i].name, [from |-> "own", n |-> script[i].key]>>} |->
                       IF x = <<script[i].name, [from |-> "own", n |-> script[i].key]>>
                         THEN [status |-> "pending", gate |-> "elsewhere", step |-> i]
                         ELSE ledger[x]]
    BY <1>6 DEF BeginElsewhere
  <2>2. <<script[i].name, [from |-> "own", n |-> script[i].key]>> \in Row
    BY ScriptTypes DEF TypeOK, Row, Key
  <2>3. [status |-> "pending", gate |-> "elsewhere", step |-> i] \in RowType
    BY DEF RowType
  <2>. QED
    BY <1>1, <2>1, <2>2, <2>3, RowAdded
<1>7. CASE Resolve
  <2>1. rowKey \in DOMAIN ledger
    BY <1>7 DEF Resolve, TypeOK
  <2>2. Resolved(ledger[rowKey], answer.ok) \in RowType
    BY <1>1, <2>1 DEF LedgerOK, Resolved, RowType
  <2>. QED
    BY <1>1, <1>7, <2>1, <2>2, RowKept DEF Resolve
<1>8. CASE FlagRow
  <2>1. rowKey \in DOMAIN ledger
    BY <1>8 DEF FlagRow, TypeOK
  <2>2. [ledger[rowKey] EXCEPT !.gate = "parked"] \in RowType
    BY <1>1, <2>1 DEF LedgerOK, RowType
  <2>. QED
    BY <1>1, <1>8, <2>1, <2>2, RowKept DEF FlagRow
<1>9. ASSUME NEW r \in DOMAIN ledger,
             Approve(r) \/ Deny(r) \/ ExecuteApproved(r) \/ ResolveElsewhere(r)
      PROVE  LedgerOK'
  <2>1. ledger[r] \in RowType
    BY <1>1 DEF LedgerOK
  <2>2. PICK row \in RowType : ledger' = [ledger EXCEPT ![r] = row]
    BY <1>9, <2>1 DEF Approve, Deny, ExecuteApproved, ResolveElsewhere, Resolved, RowType
  <2>. QED
    BY <1>1, <2>2, RowKept
<1>. QED
  BY <1>2, <1>4, <1>5, <1>6, <1>7, <1>8, <1>9 DEF Written

LEMMA LoadedType ==
  ASSUME TypeOK
  PROVE  Loaded \in [known : BOOLEAN, label : Label, events : Seq(Event)]
<1>. DEFINE from == IF checkpoint = NoCheckpoint THEN 1 ELSE checkpoint.covers + 1
<1>1. events \in Seq(Event) /\ Len(events) \in Nat /\ from \in 1..(Len(events) + 1)
  BY DEF TypeOK
<1>2. checkpoint.label \in Label
  BY DEF TypeOK, NoCheckpoint, Label
<1>. HIDE DEF from
<1>3. SubSeq(events, from, Len(events)) \in Seq(Event)
  BY <1>1, SubSeqProperties
<1>. QED
  BY <1>2, <1>3 DEF Loaded, from, TypeOK

LEMMA EventsStep ==
  ASSUME TypeOK, ServingInv, Written, Step' = Step, Event' = Event
  PROVE  /\ events' \in Seq(Event)' /\ Len(events') \in Nat /\ Len(events') >= Len(events)
         /\ checkpoint' \in [label : Label, covers : 0..Len(events')] \cup {NoCheckpoint}
         /\ frontier' \in [known : BOOLEAN, label : Label, events : Seq(Event)]
<1>1. /\ events \in Seq(Event) /\ Len(events) \in Nat
      /\ checkpoint \in [label : Label, covers : 0..Len(events)] \cup {NoCheckpoint}
      /\ frontier \in [known : BOOLEAN, label : Label, events : Seq(Event)]
  BY DEF TypeOK
<1>2. events' \in Seq(Event) /\ Len(events') \in Nat /\ Len(events') >= Len(events)
  <2>1. CASE RecordEvent
    <3>. DEFINE e == [kind |-> Asked.kind, name |-> Asked.name, args |-> Asked.args,
                      key |-> Asked.key, step |-> answer.step, ok |-> answer.ok]
    <3>1. request.step \in Step /\ answer \in Answers
      BY <2>1 DEF RecordEvent, ServingInv, Serves, TypeOK
    <3>2. e \in Event
      BY <3>1, ScriptTypes DEF Event, TypeOK, Asked, Answers
    <3>3. events' = Append(events, e)
      BY <2>1 DEF RecordEvent, Record
    <3>. HIDE DEF e
    <3>. QED
      BY <1>1, <3>2, <3>3, AppendProperties
  <2>. QED
    BY <1>1, <2>1 DEF Written
<1>3. checkpoint' \in [label : Label, covers : 0..Len(events')] \cup {NoCheckpoint}
  <2>1. CASE checkpoint' = checkpoint
    BY <1>1, <1>2, <2>1
  <2>2. CASE PreCheckpoint \/ PeriodicCheckpoint
    BY <1>1, <1>2, <2>2 DEF PreCheckpoint, PeriodicCheckpoint, Covering, PreLabel, Label
  <2>. QED
    BY <2>1, <2>2 DEF Written
<1>4. frontier' \in [known : BOOLEAN, label : Label, events : Seq(Event)]
  <2>1. Loaded \in [known : BOOLEAN, label : Label, events : Seq(Event)]
    BY LoadedType
  <2>2. CASE ReplayEvent
    <3>1. Loaded.events # <<>> => Tail(Loaded.events) \in Seq(Event)
      BY <2>1, HeadTailProperties
    <3>. QED
      BY <2>1, <2>2, <3>1 DEF ReplayEvent
  <2>3. CASE PreCheckpoint
    BY <1>1, <2>3 DEF PreCheckpoint, Label
  <2>4. NoFrontier \in [known : BOOLEAN, label : Label, events : Seq(Event)]
    BY DEF NoFrontier, Label
  <2>. QED
    BY <1>1, <2>2, <2>3, <2>4 DEF Written
<1>. QED
  BY <1>2, <1>3, <1>4

LEMMA AnswersStep ==
  ASSUME TypeOK, ServingInv, Written, Step' = Step
  PROVE  /\ answer' \in Answers \cup {NoAnswer}
         /\ answered' \in [Step -> Answers \cup {NoAnswer}]
         /\ modelCalls' \in [Step -> Nat] /\ toolRuns' \in [Step -> Nat]
<1>1. \A r \in DOMAIN ledger : RowAnswer(ledger[r]) \in Answers /\ ledger[r].step \in Step
  BY DEF TypeOK, RowAnswer, Answers
<1>2. answer' \in Answers \cup {NoAnswer}
  <2>1. CASE ModelAnswers
    BY <2>1 DEF ModelAnswers, Answers, ServingInv, Serves
  <2>2. CASE Execute
    BY <2>2 DEF Execute, Answers, ServingInv, Serves
  <2>3. CASE AwaitRow \/ Unpark
    BY <1>1, <2>3 DEF AwaitRow, Unpark, TypeOK
  <2>. QED
    BY <2>1, <2>2, <2>3 DEF Written, TypeOK
<1>3. answered' \in [Step -> Answers \cup {NoAnswer}]
  <2>1. ASSUME NEW a \in Answers \cup {NoAnswer}, Reply(a)
        PROVE  answered' \in [Step -> Answers \cup {NoAnswer}]
    BY <2>1 DEF Reply, TypeOK
  <2>2. CASE ReplayEvent
    <3>1. CASE Loaded.events # <<>> /\ Matches(Head(Loaded.events))
      <4>1. Loaded.events \in Seq(Event)
        BY LoadedType
      <4>2. Head(Loaded.events) \in Event
        BY <3>1, <4>1, HeadTailProperties
      <4>3. [step |-> Head(Loaded.events).step, ok |-> Head(Loaded.events).ok] \in Answers
        BY <4>2 DEF Event, Answers
      <4>. QED
        BY <2>1, <2>2, <3>1, <4>3 DEF ReplayEvent
    <3>2. CASE ~(Loaded.events # <<>> /\ Matches(Head(Loaded.events)))
      BY <2>2, <3>2 DEF ReplayEvent, TypeOK
    <3>. QED
      BY <3>1, <3>2
  <2>3. CASE ReplayRow
    <3>1. OwnRow \in DOMAIN ledger /\ RowAt(OwnRow) = ledger[OwnRow]
      BY <2>3 DEF ReplayRow, RowAt, NoRow, Terminal
    <3>. QED
      BY <1>1, <2>1, <2>3, <3>1 DEF ReplayRow
  <2>4. CASE ModelFails
    <3>1. [step |-> request.step, ok |-> FALSE] \in Answers
      BY <2>4 DEF ModelFails, Answers, ServingInv, Serves
    <3>. QED
      BY <2>1, <2>4, <3>1 DEF ModelFails
  <2>5. CASE SendReply
    BY <2>1, <2>5 DEF SendReply, TypeOK
  <2>. QED
    BY <2>2, <2>3, <2>4, <2>5 DEF Written, TypeOK
<1>4. modelCalls' \in [Step -> Nat]
  BY SMTT(20) DEF Written, TypeOK, ModelAnswers
<1>5. toolRuns' \in [Step -> Nat]
  <2>1. ASSUME NEW i \in Step, NEW ok \in BOOLEAN,
               toolRuns' = [toolRuns EXCEPT ![i] = IF ok THEN @ + 1 ELSE @]
        PROVE  toolRuns' \in [Step -> Nat]
    <3>1. CASE ok
      BY <2>1, <3>1 DEF TypeOK
    <3>2. CASE ~ok
      BY <2>1, <3>2 DEF TypeOK
    <3>. QED
      BY <3>1, <3>2
  <2>2. CASE Execute
    BY <2>1, <2>2 DEF Execute, ServingInv, Serves
  <2>3. ASSUME NEW r \in DOMAIN ledger, ExecuteApproved(r) \/ ResolveElsewhere(r)
        PROVE  toolRuns' \in [Step -> Nat]
    BY <1>1, <2>1, <2>3 DEF ExecuteApproved, ResolveElsewhere
  <2>. QED
    BY <2>2, <2>3 DEF Written, TypeOK
<1>. QED
  BY <1>2, <1>3, <1>4, <1>5

(* The daemon's own variables, and the harness's.                             *)
LEMMA ActorsStep ==
  ASSUME TypeOK, ServingInv, [Next]_vars, Written, Step' = Step,
         DOMAIN ledger \subseteq DOMAIN ledger'
  PROVE  /\ request' \in [step : Step \cup {0}, id : Nat] /\ saved' \in Step \cup {0}
         /\ pc' \in {"wait", "execute", "resolve", "flag", "suspend", "parked"}
              => rowKey' \in DOMAIN ledger'
         /\ position' \in 1..(Len(script) + 1) /\ harness' \in {"ready", "waiting", "replied"}
         /\ sent' \in Nat /\ ServingInv'
<1>. DEFINE Held == {"wait", "execute", "resolve", "flag", "suspend", "parked"}
            Rest == {"down", "recv", "finish", "done"}
            Answering == {"resolve", "record", "post", "post_snapshot", "reply"}
            Goal == /\ pc' \in Held => rowKey' \in DOMAIN ledger'
                    /\ position' \in 1..(Len(script) + 1)
                    /\ harness' \in {"ready", "waiting", "replied"} /\ sent' \in Nat
                    /\ pc' \notin Rest => request'.step \in Step /\ harness' # "ready"
                    /\ pc' \in Answering => answer' # NoAnswer
                    /\ harness' # "ready" => position' \in Step
                    /\ pc' = "down" => harness' = "ready"
<1>0. /\ pc \in Held => rowKey \in DOMAIN ledger'
      /\ position \in 1..(Len(script) + 1) /\ harness \in {"ready", "waiting", "replied"}
      /\ pc \notin Rest => request.step \in Step /\ harness # "ready"
      /\ pc \in Answering => answer # NoAnswer
      /\ harness # "ready" => position \in Step
      /\ pc = "down" => harness = "ready"
      /\ Len(script) \in Nat /\ 0 \notin Step /\ Step \subseteq Nat /\ sent \in Nat
      /\ \A i \in Step : i + 1 \in 1..(Len(script) + 1) /\ i \in 1..(Len(script) + 1)
      /\ 1 \in 1..(Len(script) + 1) /\ saved \in Step \cup {0}
  BY ScriptTypes DEF TypeOK, Step, ServingInv, Serves
<1>1. request' \in [step : Step \cup {0}, id : Nat] /\ saved' \in Step \cup {0}
  BY SMTT(20), <1>0 DEF Written, TypeOK, Request, NoRequest, ServingInv, Advance
<1>2. ASSUME Start \/ Finish \/ Request \/ Advance \/ Complete PROVE Goal
  BY <1>0, <1>2 DEF Start, Finish, Request, Advance, Complete, Goto
<1>3. ASSUME Crash \/ Disconnect \/ Resume PROVE Goal
  BY <1>0, <1>3 DEF Crash, Disconnect, Lose, Resume
<1>4. ASSUME ReplayEvent \/ ReplayRow \/ ParkUnfinished \/ GoLive PROVE Goal
  BY <1>0, <1>4 DEF ReplayEvent, ReplayRow, ParkUnfinished, GoLive, Reply, Goto
<1>5. ASSUME PreCheckpoint \/ PeriodicCheckpoint \/ CopyWorkspace \/ SnapshotDone PROVE Goal
  BY <1>0, <1>5 DEF PreCheckpoint, PeriodicCheckpoint, CopyWorkspace, SnapshotDone, Covering, Goto
<1>6. ASSUME ModelAnswers \/ ModelFails \/ Execute \/ Resolve PROVE Goal
  BY <1>0, <1>6 DEF ModelAnswers, ModelFails, Execute, Resolve, Reply, Goto, NoAnswer
<1>7. ASSUME BeginCall \/ BeginParked PROVE Goal
  BY <1>0, <1>7 DEF BeginCall, BeginParked, Insert
<1>8. ASSUME AwaitRow \/ Unpark PROVE Goal
  <2>1. ledger[rowKey].step \in Step
    BY <1>0, <1>8 DEF AwaitRow, Unpark, TypeOK
  <2>2. RowAnswer(ledger[rowKey]) # NoAnswer
    BY <1>0, <2>1 DEF RowAnswer, NoAnswer
  <2>. QED
    BY <1>0, <1>8, <2>2 DEF AwaitRow, Unpark, Goto
<1>9. ASSUME RecordEvent \/ SendReply \/ FlagRow \/ Suspend PROVE Goal
  BY <1>0, <1>9 DEF RecordEvent, SendReply, FlagRow, Suspend, Reply, Goto
<1>10. ASSUME UNCHANGED <<daemon, client>> PROVE Goal
  BY <1>0, <1>10
<1>11. UNCHANGED <<daemon, client>> \/
       \/ Start \/ Finish \/ Request \/ Advance \/ Complete \/ Crash \/ Disconnect \/ Resume
       \/ ReplayEvent \/ ReplayRow \/ ParkUnfinished \/ GoLive
       \/ PreCheckpoint \/ PeriodicCheckpoint \/ CopyWorkspace \/ SnapshotDone
       \/ ModelAnswers \/ ModelFails \/ Execute \/ Resolve \/ BeginCall \/ BeginParked
       \/ AwaitRow \/ Unpark \/ RecordEvent \/ SendReply \/ FlagRow \/ Suspend
  BY DEF Next, Harness, Daemon, Replaying, Checkpointing, Serving, Operator, Elsewhere,
         BeginElsewhere, Approve, Deny, ExecuteApproved, ResolveElsewhere, vars
<1>. HIDE DEF Goal
<1>12. Goal
  BY <1>2, <1>3, <1>4, <1>5, <1>6, <1>7, <1>8, <1>9, <1>10, <1>11
<1>. QED
  BY <1>1, <1>12 DEF Goal, ServingInv, Serves

LEMMA DomainGrows ==
  ASSUME Written PROVE DOMAIN ledger \subseteq DOMAIN ledger'
  BY DEF Written, BeginCall, BeginParked, BeginElsewhere, Insert, Resolve, FlagRow, Approve, Deny,
         ExecuteApproved, ResolveElsewhere

LEMMA TypesInductive == Spec => [](TypeOK /\ ServingInv)
<1>1. TypeOK /\ ServingInv /\ [Next]_vars => TypeOK' /\ ServingInv'
  <2>. SUFFICES ASSUME TypeOK, ServingInv, [Next]_vars PROVE TypeOK' /\ ServingInv'
    OBVIOUS
  <2>1. Written /\ script' = script
    BY Writers DEF Written
  <2>2. Step' = Step /\ Event' = Event /\ Row' = Row /\ Answers' = Answers
    BY <2>1 DEF Step, Event, Row, Answers, Name, Key
  <2>3. LedgerOK'
    BY <2>1, <2>2, LedgerStep
  <2>4. /\ events' \in Seq(Event)'
        /\ checkpoint' \in [label : Label, covers : 0..Len(events')] \cup {NoCheckpoint}
        /\ frontier' \in [known : BOOLEAN, label : Label, events : Seq(Event)]
    BY <2>1, <2>2, EventsStep
  <2>5. /\ answer' \in Answers \cup {NoAnswer}
        /\ answered' \in [Step -> Answers \cup {NoAnswer}]
        /\ modelCalls' \in [Step -> Nat] /\ toolRuns' \in [Step -> Nat]
    BY <2>1, <2>2, AnswersStep
  <2>6. /\ request' \in [step : Step \cup {0}, id : Nat] /\ saved' \in Step \cup {0}
        /\ pc' \in {"wait", "execute", "resolve", "flag", "suspend", "parked"}
             => rowKey' \in DOMAIN ledger'
        /\ position' \in 1..(Len(script) + 1) /\ harness' \in {"ready", "waiting", "replied"}
        /\ sent' \in Nat /\ ServingInv'
    BY <2>1, <2>2, ActorsStep, DomainGrows
  <2>7. /\ script' \in Scripts
        /\ status' \in {"absent", "running", "awaiting_approval", "awaiting_dead_letter", "aborted",
                        "completed"}
        /\ snapshot' \in {"missing", "partial", "complete"}
    BY <2>1 DEF TypeOK, Written
  <2>. QED
    BY <2>1, <2>2, <2>3, <2>4, <2>5, <2>6, <2>7 DEF TypeOK, LedgerOK, RowType
<1>. QED
  BY InitTypes, <1>1, PTL DEF Spec

(* The store, the daemon and the harness of a session keep their types for    *)
(* every script, number of crashes and way of numbering call_ids.             *)
THEOREM TypeCorrect == Spec => []TypeOK
  BY TypesInductive, PTL
-----------------------------------------------------------------------------
(* A side effect happens once *)

PerStep == CallIds = "per_step"
RowGood(r, row) ==
  /\ r[2].from # "seq" => script[row.step].kind = "tool" /\ r = StepRow(row.step)
  /\ r[2].from = "seq" => script[row.step].kind = "gated"
  /\ row.gate \in {"parked", "approved"} => r[2].from = "seq"

(* The row a call of the daemon's step is admitted under is the step's row.   *)
LEMMA OwnRowIsStepRow ==
  ASSUME request.id = request.step
  PROVE  OwnRow = StepRow(request.step) /\ OwnRow[2].from # "seq" /\ OwnRow[1] = Asked.name
  BY DEF OwnRow, OwnKey, StepRow, StepKey, Asked
LEMMA StepRowKey ==
  ASSUME NEW i PROVE StepRow(i)[2].from # "seq"
  BY DEF StepRow, StepKey

(* How a step changes the ledger: a row is added where there was none or by a *)
(* gated call, or one row's status and gate change.                           *)
Adds(r, row) ==
  ledger' = [x \in DOMAIN ledger \cup {r} |-> IF x = r THEN row ELSE ledger[x]]
Changes(r, row) ==
  /\ ledger' = [ledger EXCEPT ![r] = row] /\ row.step = ledger[r].step

(* An operator's step, or a daemon's of another session, moves a row on that  *)
(* this daemon does not run.                                                  *)
Moves(r, row) ==
  /\ Changes(r, row)
  /\ ledger[r].status = "pending" /\ ledger[r].gate # "open"
  /\ \/ row.gate \in {ledger[r].gate, "open"}
     \/ row.gate = "approved" /\ ledger[r].gate = "parked"
LEMMA RowMoves ==
  ASSUME TypeOK, NEW r \in DOMAIN ledger,
         Approve(r) \/ Deny(r) \/ ExecuteApproved(r) \/ ResolveElsewhere(r)
  PROVE  \E row \in RowType : Moves(r, row)
<1>1. ledger[r] \in RowType
  BY DEF TypeOK, RowType
<1>2. CASE Approve(r)
  <2>. DEFINE row == [ledger[r] EXCEPT !.gate = "approved"]
  <2>1. row \in RowType /\ Moves(r, row)
    BY <1>1, <1>2 DEF Approve, Moves, Changes, RowType
  <2>. QED
    BY <2>1
<1>3. CASE Deny(r)
  <2>. DEFINE row == [Resolved(ledger[r], FALSE) EXCEPT !.gate = "open"]
  <2>1. row \in RowType /\ Moves(r, row)
    BY <1>1, <1>3 DEF Deny, Moves, Changes, RowType, Resolved
  <2>. QED
    BY <2>1
<1>4. CASE ExecuteApproved(r) \/ ResolveElsewhere(r)
  <2>1. PICK ok \in BOOLEAN : ledger' = [ledger EXCEPT ![r] = Resolved(ledger[r], ok)]
    BY <1>4 DEF ExecuteApproved, ResolveElsewhere
  <2>2. Resolved(ledger[r], ok) \in RowType /\ Moves(r, Resolved(ledger[r], ok))
    BY <1>1, <1>4, <2>1 DEF ExecuteApproved, ResolveElsewhere, Moves, Changes, RowType, Resolved
  <2>. QED
    BY <2>2
<1>. QED
  BY <1>2, <1>3, <1>4

LEMMA RowsKept ==
  ASSUME RowsInv, script' = script, NEW r, NEW row,
         Adds(r, row) \/ (r \in DOMAIN ledger /\ Changes(r, row)), RowGood(r, row)
  PROVE  RowsInv'
<1>1. \A x \in DOMAIN ledger' : RowGood(x, ledger'[x])
  BY DEF Adds, Changes, RowsInv, RowGood
<1>. QED
  BY <1>1 DEF RowsInv, RowGood, StepRow, StepKey

LEMMA RowsStep ==
  ASSUME TypeOK, ServingInv, RowsInv, DaemonInv, Written PROVE RowsInv'
<1>0. script' = script /\ \A r \in DOMAIN ledger : ledger[r] \in RowType /\ RowGood(r, ledger[r])
  BY DEF Written, TypeOK, RowType, RowsInv, RowGood
<1>1. CASE ledger' = ledger
  BY <1>0, <1>1 DEF RowsInv, StepRow, StepKey
<1>2. CASE BeginCall
  <2>1. OwnRow = StepRow(request.step) /\ OwnRow[2].from # "seq" /\ Asked.kind = "tool"
    BY <1>2, OwnRowIsStepRow DEF BeginCall, DaemonInv, Serves
  <2>. DEFINE row == [status |-> "pending", gate |-> "open", step |-> request.step]
  <2>2. RowGood(OwnRow, row)
    BY <2>1 DEF RowGood, Asked
  <2>3. ledger' = ledger \/ Adds(OwnRow, row)
    BY <1>2 DEF BeginCall, Insert, Adds
  <2>. HIDE DEF row
  <2>. QED
    BY <1>0, <1>1, <2>2, <2>3, RowsKept
<1>3. CASE BeginParked
  <2>. DEFINE row == [status |-> "pending", gate |-> "open", step |-> request.step]
              r == <<Asked.name, [from |-> "seq", n |-> RowCount + 1]>>
  <2>1. RowGood(r, row)
    BY <1>3 DEF RowGood, BeginParked, Asked
  <2>2. Adds(r, row)
    BY <1>3 DEF BeginParked, Insert, Adds
  <2>. HIDE DEF row, r
  <2>. QED
    BY <1>0, <2>1, <2>2, RowsKept
<1>4. CASE BeginElsewhere
  <2>1. PICK i \in Step :
          LET r == <<script[i].name, [from |-> "own", n |-> script[i].key]>> IN
          /\ script[i].kind = "tool" /\ script[i].key > 0
          /\ Adds(r, [status |-> "pending", gate |-> "elsewhere", step |-> i])
    BY <1>4 DEF BeginElsewhere, Adds
  <2>. DEFINE row == [status |-> "pending", gate |-> "elsewhere", step |-> i]
              r == <<script[i].name, [from |-> "own", n |-> script[i].key]>>
  <2>2. RowGood(r, row)
    BY <2>1 DEF RowGood, StepRow, StepKey
  <2>3. Adds(r, row)
    BY <2>1
  <2>. HIDE DEF row, r
  <2>. QED
    BY <1>0, <2>2, <2>3, RowsKept
<1>5. CASE Resolve
  <2>. DEFINE row == Resolved(ledger[rowKey], answer.ok)
  <2>1. rowKey \in DOMAIN ledger
    BY <1>5 DEF Resolve, TypeOK
  <2>2. Changes(rowKey, row) /\ RowGood(rowKey, row)
    BY <1>0, <1>5, <2>1 DEF Resolve, Resolved, RowType, RowGood, Changes
  <2>. HIDE DEF row
  <2>. QED
    BY <1>0, <2>1, <2>2, RowsKept
<1>6. CASE FlagRow
  <2>. DEFINE row == [ledger[rowKey] EXCEPT !.gate = "parked"]
  <2>1. rowKey \in DOMAIN ledger /\ rowKey[2].from = "seq"
    BY <1>6 DEF FlagRow, TypeOK, DaemonInv
  <2>2. Changes(rowKey, row) /\ RowGood(rowKey, row)
    BY <1>0, <1>6, <2>1 DEF FlagRow, RowType, RowGood, Changes
  <2>. HIDE DEF row
  <2>. QED
    BY <1>0, <2>1, <2>2, RowsKept
<1>7. ASSUME NEW r \in DOMAIN ledger,
             Approve(r) \/ Deny(r) \/ ExecuteApproved(r) \/ ResolveElsewhere(r)
      PROVE  RowsInv'
  <2>1. ledger[r] \in RowType /\ RowGood(r, ledger[r])
    BY <1>0
  <2>2. PICK row \in RowType : Moves(r, row)
    BY <1>7, RowMoves
  <2>3. RowGood(r, row)
    BY <2>1, <2>2 DEF RowGood, Moves, Changes
  <2>. QED
    BY <1>0, <2>2, <2>3, RowsKept DEF Moves
<1>. QED
  BY <1>1, <1>2, <1>3, <1>4, <1>5, <1>6, <1>7 DEF Written

(* Nobody else touches the row the daemon runs, and a row keeps its step.      *)
OthersAct ==
  \/ ledger' = ledger \/ BeginElsewhere
  \/ \E r \in DOMAIN ledger : \/ Approve(r) \/ Deny(r) \/ ExecuteApproved(r)
                              \/ ResolveElsewhere(r)
LEMMA OthersRows ==
  ASSUME TypeOK, NEW k \in DOMAIN ledger, OthersAct
  PROVE  /\ ledger'[k].step = ledger[k].step
         /\ ledger[k].status = "pending" /\ ledger[k].gate = "open" => ledger'[k] = ledger[k]
<1>1. \A r \in DOMAIN ledger : ledger[r] \in RowType
  BY DEF TypeOK, RowType
<1>2. CASE ledger' = ledger
  BY <1>2
<1>3. CASE BeginElsewhere
  BY <1>3 DEF BeginElsewhere
<1>4. ASSUME NEW r \in DOMAIN ledger,
             Approve(r) \/ Deny(r) \/ ExecuteApproved(r) \/ ResolveElsewhere(r)
      PROVE  /\ ledger'[k].step = ledger[k].step
             /\ ledger[k].status = "pending" /\ ledger[k].gate = "open" => ledger'[k] = ledger[k]
  <2>1. PICK row \in RowType : Moves(r, row)
    BY <1>4, RowMoves
  <2>2. ledger' = [ledger EXCEPT ![r] = row] /\ row.step = ledger[r].step /\ ledger[r].gate # "open"
    BY <2>1 DEF Moves, Changes
  <2>. QED
    BY <2>2
<1>. QED
  BY <1>2, <1>3, <1>4 DEF OthersAct

Idles == pc' \in {"down", "recv", "finish", "done"}
Quiet ==
  /\ request' = request /\ Serves
  /\ pc' \notin {"execute", "resolve", "wait", "flag", "suspend", "parked"}
LEMMA DaemonStep ==
  ASSUME PerStep, TypeOK, ServingInv, RowsInv, DaemonInv, Written, [Next]_vars
  PROVE  DaemonInv'
<1>0. script' = script /\ \A r \in DOMAIN ledger : ledger[r] \in RowType
  BY DEF Written, TypeOK, RowType
<1>1. ASSUME Idles PROVE DaemonInv'
  BY <1>1 DEF Idles, DaemonInv, Serves
<1>2. ASSUME Quiet PROVE DaemonInv'
  BY <1>2 DEF Quiet, DaemonInv, Serves
<1>3. CASE Request
  BY <1>3 DEF Request, DaemonInv, Serves, PerStep
<1>4. CASE BeginCall
  <2>1. /\ OwnRow' = OwnRow /\ Asked' = Asked /\ request' = request /\ rowKey' = OwnRow
        /\ pc' \in {"execute", "wait"} /\ Asked.kind = "tool" /\ Serves
    BY <1>0, <1>4 DEF BeginCall, OwnRow, OwnKey, Asked, Serves
  <2>2. pc' = "execute" =>
          ledger'[OwnRow] = [status |-> "pending", gate |-> "open", step |-> request.step]
    BY <1>4 DEF BeginCall, Insert
  <2>. QED
    BY <2>1, <2>2 DEF DaemonInv, Serves
<1>5. CASE Execute
  <2>1. OwnRow' = OwnRow /\ Asked' = Asked
    BY <1>0, <1>5 DEF Execute, Goto, OwnRow, OwnKey, Asked
  <2>. QED
    BY <1>5, <2>1 DEF Execute, Goto, DaemonInv, Serves
<1>6. CASE BeginParked
  <2>1. /\ ledger'[rowKey'] = [status |-> "pending", gate |-> "open", step |-> request.step]
        /\ rowKey' = <<Asked.name, [from |-> "seq", n |-> RowCount + 1]>>
        /\ request' = request /\ pc' = "flag" /\ Serves
    BY <1>6 DEF BeginParked, Insert, Serves
  <2>. QED
    BY <2>1 DEF DaemonInv, Serves
<1>7. CASE FlagRow
  <2>1. rowKey \in DOMAIN ledger /\ ledger'[rowKey].step = ledger[rowKey].step
    BY <1>0, <1>7 DEF FlagRow, TypeOK, RowType
  <2>. QED
    BY <1>7, <2>1 DEF FlagRow, Goto, DaemonInv, Serves
<1>8. CASE Suspend
  BY <1>8 DEF Suspend, Goto, DaemonInv, Serves
<1>9. ASSUME UNCHANGED daemon, OthersAct PROVE DaemonInv'
  <2>1. OwnRow' = OwnRow /\ Asked' = Asked
    BY <1>0, <1>9 DEF OwnRow, OwnKey, Asked
  <2>2. pc \in {"execute", "resolve", "flag", "suspend", "parked"} => rowKey \in DOMAIN ledger
    BY DEF TypeOK
  <2>. QED
    BY <1>0, <1>9, <2>1, <2>2, OthersRows DEF DaemonInv, Serves
<1>10. Start \/ Finish \/ Advance \/ Complete \/ Crash \/ Disconnect \/ Resume => Idles
  BY DEF Start, Finish, Advance, Complete, Crash, Disconnect, Lose, Resume, Goto, Idles
<1>11. ReplayRow \/ ParkUnfinished \/ ModelFails \/ SendReply => Idles
  BY DEF ReplayRow, ParkUnfinished, ModelFails, SendReply, Reply, Goto, Idles
<1>12. ReplayEvent \/ GoLive => Idles \/ Quiet
  BY DEF ReplayEvent, Reply, GoLive, Goto, Idles, Quiet, Serves
<1>13. PreCheckpoint \/ PeriodicCheckpoint \/ CopyWorkspace \/ SnapshotDone => Quiet
  BY DEF PreCheckpoint, PeriodicCheckpoint, CopyWorkspace, SnapshotDone, Goto, Quiet, Serves
<1>14. ModelAnswers \/ Resolve \/ AwaitRow \/ RecordEvent \/ Unpark => Quiet
  BY DEF ModelAnswers, Resolve, AwaitRow, RecordEvent, Unpark, Goto, Quiet, Serves
<1>15. Operator \/ Elsewhere \/ BeginElsewhere \/ UNCHANGED vars => UNCHANGED daemon /\ OthersAct
  <2>1. ASSUME NEW r \in DOMAIN ledger,
               Approve(r) \/ Deny(r) \/ ExecuteApproved(r) \/ ResolveElsewhere(r)
        PROVE  UNCHANGED daemon
    BY <2>1 DEF Approve, Deny, ExecuteApproved, ResolveElsewhere
  <2>2. BeginElsewhere \/ UNCHANGED vars => UNCHANGED daemon
    BY DEF BeginElsewhere, vars
  <2>3. UNCHANGED vars => ledger' = ledger
    BY DEF vars
  <2>. QED
    BY <2>1, <2>2, <2>3 DEF Operator, Elsewhere, OthersAct
<1>16. CASE Daemon
  <2>1. CASE Start \/ Finish \/ Replaying \/ Checkpointing
    BY <1>1, <1>2, <1>10, <1>11, <1>12, <1>13, <2>1 DEF Replaying, Checkpointing
  <2>2. CASE Serving
    BY <1>1, <1>2, <1>4, <1>5, <1>6, <1>7, <1>8, <1>11, <1>14, <2>2 DEF Serving
  <2>. QED
    BY <1>16, <2>1, <2>2 DEF Daemon
<1>17. CASE Harness \/ Crash \/ Disconnect \/ Resume
  BY <1>1, <1>3, <1>10, <1>17 DEF Harness
<1>18. CASE Operator \/ Elsewhere \/ BeginElsewhere \/ UNCHANGED vars
  BY <1>9, <1>15, <1>18
<1>19. \/ Daemon \/ Harness \/ Crash \/ Disconnect \/ Resume
       \/ Operator \/ Elsewhere \/ BeginElsewhere \/ UNCHANGED vars
  BY DEF Next
<1>. QED
  BY <1>16, <1>17, <1>18, <1>19

LEMMA QuietRuns ==
  ASSUME [Next]_vars
  PROVE  \/ toolRuns' = toolRuns /\ ledger' = ledger
            /\ (pc' = "execute" => pc = "execute" /\ request' = request)
         \/ BeginElsewhere \/ Execute \/ BeginCall \/ BeginParked \/ FlagRow \/ Resolve
         \/ \E r \in DOMAIN ledger : \/ Approve(r) \/ Deny(r) \/ ExecuteApproved(r)
                                     \/ ResolveElsewhere(r)
<1>. DEFINE Quietly == toolRuns' = toolRuns /\ ledger' = ledger
                       /\ (pc' = "execute" => pc = "execute" /\ request' = request)
<1>1. Harness \/ Start \/ Finish \/ Replaying => Quietly
  BY DEF Harness, Request, Advance, Complete, Start, Finish, Replaying, ReplayEvent, ReplayRow,
         ParkUnfinished, GoLive, Reply, Goto
<1>2. Checkpointing \/ Crash \/ Disconnect \/ Resume \/ UNCHANGED vars => Quietly
  BY DEF Checkpointing, PreCheckpoint, PeriodicCheckpoint, CopyWorkspace, SnapshotDone, Covering,
         Goto, Crash, Disconnect, Lose, Resume, vars
<1>3. ModelAnswers \/ ModelFails \/ AwaitRow \/ RecordEvent \/ SendReply \/ Suspend \/ Unpark => Quietly
  BY DEF ModelAnswers, ModelFails, AwaitRow, RecordEvent, SendReply, Suspend, Unpark, Reply, Goto
<1>. HIDE DEF Quietly
<1>4. \/ Quietly \/ BeginElsewhere \/ Execute \/ BeginCall \/ BeginParked \/ FlagRow \/ Resolve
      \/ Operator \/ Elsewhere
  BY <1>1, <1>2, <1>3 DEF Next, Daemon, Serving
<1>. QED
  BY <1>4 DEF Operator, Elsewhere, Quietly

(* A step runs its side effect only while its row is still to be run.         *)
LEMMA RunsStep ==
  ASSUME TypeOK, ServingInv, RowsInv, DaemonInv, RunsInv, Written, [Next]_vars
  PROVE  RunsInv'
<1>0. /\ script' = script /\ Step' = Step /\ 0 \notin Step
      /\ \A r \in DOMAIN ledger : ledger[r] \in RowType /\ RowGood(r, ledger[r])
      /\ toolRuns \in [Step -> Nat]
  BY ScriptTypes DEF Written, TypeOK, RowType, RowsInv, RowGood, Step
<1>. SUFFICES ASSUME NEW i \in Step, script[i].kind = "tool"
              PROVE  toolRuns'[i] <= 1 /\ (ToRun(i)' => toolRuns'[i] = 0)
  BY <1>0 DEF RunsInv
<1>1. toolRuns[i] <= 1 /\ (ToRun(i) => toolRuns[i] = 0) /\ toolRuns[i] \in Nat
  BY <1>0 DEF RunsInv
<1>2. StepRow(i)[2].from # "seq" /\ StepRow(i)' = StepRow(i)
  BY <1>0, StepRowKey DEF StepRow, StepKey
(* Either nothing ran for the step, and then it is to run only if it was;      *)
(* or it ran, was to run, and no longer is.                                   *)
<1>3. ASSUME toolRuns'[i] = toolRuns[i], ToRun(i)' => ToRun(i)
      PROVE  toolRuns'[i] <= 1 /\ (ToRun(i)' => toolRuns'[i] = 0)
  BY <1>1, <1>3
<1>4. ASSUME toolRuns'[i] = toolRuns[i] + 1 \/ toolRuns'[i] = toolRuns[i], ToRun(i), ~ToRun(i)'
      PROVE  toolRuns'[i] <= 1 /\ (ToRun(i)' => toolRuns'[i] = 0)
  BY <1>1, <1>4
<1>5. CASE BeginElsewhere
  <2>1. PICK j \in Step :
          LET r == <<script[j].name, [from |-> "own", n |-> script[j].key]>> IN
          /\ r \notin DOMAIN ledger
          /\ Adds(r, [status |-> "pending", gate |-> "elsewhere", step |-> j])
    BY <1>5 DEF BeginElsewhere, Adds
  <2>2. toolRuns' = toolRuns /\ UNCHANGED <<pc, request>>
    BY <1>5 DEF BeginElsewhere
  <2>3. StepRow(i) \in DOMAIN ledger => RowAt(StepRow(i))' = RowAt(StepRow(i))
    BY <1>2, <2>1 DEF RowAt, Adds
  <2>4. StepRow(i) \notin DOMAIN ledger => ToRun(i)
    BY <1>0 DEF ToRun, RowAt, NoRow
  <2>5. ToRun(i)' => ToRun(i)
    BY <1>2, <2>2, <2>3, <2>4 DEF ToRun
  <2>. QED
    BY <1>3, <2>2, <2>5
<1>6. ASSUME NEW r \in DOMAIN ledger,
             Approve(r) \/ Deny(r) \/ ExecuteApproved(r) \/ ResolveElsewhere(r)
      PROVE  toolRuns'[i] <= 1 /\ (ToRun(i)' => toolRuns'[i] = 0)
  <2>1. PICK row \in RowType : Moves(r, row)
    BY <1>6, RowMoves
  <2>2. /\ UNCHANGED <<pc, request>> /\ RowGood(r, ledger[r])
        /\ r # StepRow(i) => RowAt(StepRow(i))' = RowAt(StepRow(i))
        /\ r = StepRow(i) => RowAt(StepRow(i))' = row /\ RowAt(StepRow(i)) = ledger[r]
    <3>1. UNCHANGED <<pc, request>>
      BY <1>6 DEF Approve, Deny, ExecuteApproved, ResolveElsewhere
    <3>. QED
      BY <1>0, <1>2, <2>1, <3>1 DEF Moves, Changes, RowAt
  <2>3. CASE Approve(r) \/ Deny(r) \/ ExecuteApproved(r)
    <3>1. r[2].from = "seq" /\ ledger[r].step # i
      BY <2>2, <2>3 DEF Approve, Deny, ExecuteApproved, RowGood
    <3>2. r # StepRow(i)
      BY <1>2, <3>1
    <3>3. toolRuns'[i] = toolRuns[i]
      BY <1>0, <2>3, <3>1 DEF Approve, Deny, ExecuteApproved
    <3>4. ToRun(i)' => ToRun(i)
      BY <1>2, <2>2, <3>2 DEF ToRun
    <3>. QED
      BY <1>3, <3>3, <3>4
  <2>4. CASE ResolveElsewhere(r)
    <3>1. CASE ledger[r].step # i
      <4>1. toolRuns'[i] = toolRuns[i]
        BY <1>0, <2>4, <3>1 DEF ResolveElsewhere
      <4>2. ToRun(i)' => ToRun(i)
        BY <1>2, <2>1, <2>2, <3>1 DEF ToRun, Moves, Changes
      <4>. QED
        BY <1>3, <4>1, <4>2
    <3>2. CASE ledger[r].step = i
      <4>1. r = StepRow(i) /\ ledger[r].gate = "elsewhere" /\ ledger[r].status = "pending"
        BY <2>2, <2>4, <3>2 DEF RowGood, ResolveElsewhere
      <4>2. ToRun(i)
        BY <2>2, <4>1 DEF ToRun
      <4>3. ~(pc = "execute" /\ request.step = i)
        BY <4>1, OwnRowIsStepRow DEF DaemonInv, Serves
      <4>4. PICK ok \in BOOLEAN : /\ ledger' = [ledger EXCEPT ![r] = Resolved(ledger[r], ok)]
                                  /\ toolRuns' = [toolRuns EXCEPT ![i] = IF ok THEN @ + 1 ELSE @]
        BY <2>4, <3>2 DEF ResolveElsewhere
      <4>5. ~ToRun(i)'
        <5>1. RowAt(StepRow(i))' = Resolved(ledger[r], ok)
          BY <1>2, <4>1, <4>4 DEF RowAt
        <5>2. Resolved(ledger[r], ok).step = i /\ Resolved(ledger[r], ok).status # "pending"
          BY <1>0, <3>2 DEF Resolved, RowType
        <5>. QED
          BY <1>2, <2>2, <4>3, <5>1, <5>2 DEF ToRun
      <4>6. toolRuns'[i] = toolRuns[i] + 1 \/ toolRuns'[i] = toolRuns[i]
        BY <1>0, <4>4
      <4>. QED
        BY <1>4, <4>2, <4>5, <4>6
    <3>. QED
      BY <3>1, <3>2
  <2>. QED
    BY <1>6, <2>3, <2>4
<1>7. CASE Execute
  <2>1. /\ rowKey = StepRow(request.step) /\ rowKey \in DOMAIN ledger
        /\ ledger[rowKey].step = request.step /\ ledger[rowKey].gate = "open" /\ request.step \in Step
    BY <1>7, OwnRowIsStepRow DEF Execute, DaemonInv, Serves, TypeOK, ServingInv
  <2>2. pc = "execute" /\ pc' = "resolve" /\ request' = request /\ ledger' = ledger
    BY <1>7 DEF Execute, Goto
  <2>3. PICK ok \in BOOLEAN : toolRuns' = [toolRuns EXCEPT ![request.step] = IF ok THEN @ + 1 ELSE @]
    BY <1>7 DEF Execute
  <2>4. RowAt(StepRow(i))' = RowAt(StepRow(i))
    BY <1>2, <2>2 DEF RowAt
  <2>5. CASE request.step = i
    <3>1. ToRun(i)
      BY <2>2, <2>5 DEF ToRun
    <3>2. RowAt(StepRow(i)) = ledger[rowKey]
      BY <2>1, <2>5 DEF RowAt
    <3>3. ~ToRun(i)'
      BY <1>2, <2>1, <2>2, <2>4, <2>5, <3>2 DEF ToRun
    <3>4. toolRuns'[i] = toolRuns[i] + 1 \/ toolRuns'[i] = toolRuns[i]
      BY <1>0, <2>3, <2>5
    <3>. QED
      BY <1>4, <3>1, <3>3, <3>4
  <2>6. CASE request.step # i
    <3>1. toolRuns'[i] = toolRuns[i]
      BY <1>0, <2>3, <2>6
    <3>2. ToRun(i)' => ToRun(i)
      BY <1>2, <2>2, <2>4 DEF ToRun
    <3>. QED
      BY <1>3, <3>1, <3>2
  <2>. QED
    BY <2>5, <2>6
<1>8. CASE BeginCall
  <2>1. OwnRow = StepRow(request.step) /\ request' = request /\ toolRuns' = toolRuns
    BY <1>8, OwnRowIsStepRow DEF BeginCall, DaemonInv, Serves
  <2>2. CASE OwnRow \notin DOMAIN ledger
    <3>1. StepRow(i) # OwnRow => RowAt(StepRow(i))' = RowAt(StepRow(i))
      BY <1>2, <1>8, <2>2 DEF BeginCall, Insert, RowAt
    <3>2. StepRow(i) = OwnRow => ToRun(i)
      BY <1>0, <2>2 DEF ToRun, RowAt, NoRow
    <3>3. ToRun(i)' => ToRun(i)
      BY <1>2, <2>1, <3>1, <3>2 DEF ToRun
    <3>. QED
      BY <1>3, <2>1, <3>3
  <2>3. CASE OwnRow \in DOMAIN ledger
    <3>1. ledger' = ledger /\ pc' = "wait"
      BY <1>8, <2>3 DEF BeginCall
    <3>2. RowAt(StepRow(i))' = RowAt(StepRow(i))
      BY <1>2, <3>1 DEF RowAt
    <3>3. ToRun(i)' => ToRun(i)
      BY <1>2, <3>1, <3>2 DEF ToRun
    <3>. QED
      BY <1>3, <2>1, <3>3
  <2>. QED
    BY <2>2, <2>3
<1>9. CASE BeginParked \/ FlagRow
  <2>1. toolRuns' = toolRuns /\ pc' # "execute"
    BY <1>9 DEF BeginParked, FlagRow, Goto
  <2>2. RowAt(StepRow(i))' = RowAt(StepRow(i))
    <3>1. CASE BeginParked
      BY <1>2, <3>1 DEF BeginParked, Insert, RowAt
    <3>2. CASE FlagRow
      <4>1. rowKey # StepRow(i)
        BY <1>2, <3>2 DEF FlagRow, DaemonInv
      <4>. QED
        BY <1>2, <3>2, <4>1 DEF FlagRow, RowAt
    <3>. QED
      BY <1>9, <3>1, <3>2
  <2>3. ToRun(i)' => ToRun(i)
    BY <1>2, <2>1, <2>2 DEF ToRun
  <2>. QED
    BY <1>3, <2>1, <2>3
<1>10. CASE Resolve
  <2>1. toolRuns' = toolRuns /\ pc' = "record" /\ rowKey \in DOMAIN ledger
    BY <1>10 DEF Resolve, Goto, TypeOK
  <2>2. rowKey # StepRow(i) => RowAt(StepRow(i))' = RowAt(StepRow(i))
    BY <1>2, <1>10 DEF Resolve, RowAt
  <2>3. rowKey = StepRow(i) => /\ RowAt(StepRow(i))'.step = RowAt(StepRow(i)).step
                               /\ RowAt(StepRow(i))'.status # "pending"
    BY <1>0, <1>2, <1>10, <2>1 DEF Resolve, RowAt, Resolved, RowType
  <2>4. ToRun(i)' => ToRun(i)
    BY <1>2, <2>1, <2>2, <2>3 DEF ToRun
  <2>. QED
    BY <1>3, <2>1, <2>4
<1>11. ASSUME toolRuns' = toolRuns, ledger' = ledger,
              pc' = "execute" => pc = "execute" /\ request' = request
       PROVE  toolRuns'[i] <= 1 /\ (ToRun(i)' => toolRuns'[i] = 0)
  <2>1. RowAt(StepRow(i))' = RowAt(StepRow(i))
    BY <1>2, <1>11 DEF RowAt
  <2>2. ToRun(i)' => ToRun(i)
    BY <1>2, <1>11, <2>1 DEF ToRun
  <2>. QED
    BY <1>3, <1>11, <2>2
<1>12. \/ toolRuns' = toolRuns /\ ledger' = ledger
          /\ (pc' = "execute" => pc = "execute" /\ request' = request)
       \/ BeginElsewhere \/ Execute \/ BeginCall \/ BeginParked \/ FlagRow \/ Resolve
       \/ \E r \in DOMAIN ledger : Approve(r) \/ Deny(r) \/ ExecuteApproved(r) \/ ResolveElsewhere(r)
  BY QuietRuns
<1>. QED
  BY <1>5, <1>6, <1>7, <1>8, <1>9, <1>10, <1>11, <1>12

LEMMA RunsInductive == PerStep => (Spec => [](RowsInv /\ DaemonInv /\ RunsInv))
<1>. SUFFICES ASSUME PerStep PROVE Spec => [](RowsInv /\ DaemonInv /\ RunsInv)
  OBVIOUS
<1>1. Init => RowsInv /\ DaemonInv /\ RunsInv
  BY DEF Init, RowsInv, DaemonInv, RunsInv, Serves
<1>2. TypeOK /\ ServingInv /\ RowsInv /\ DaemonInv /\ RunsInv /\ [Next]_vars
        => RowsInv' /\ DaemonInv' /\ RunsInv'
  BY Writers, RowsStep, DaemonStep, RunsStep
<1>. QED
  BY TypesInductive, <1>1, <1>2, PTL DEF Spec

(* The daemon's tool calls have their side effect at most once for every      *)
(* script and any number of crashes, when a request carries the call_id of its *)
(* step: the ledger row, keyed by it or by the idem_key, is inserted before    *)
(* the executor runs and found by whoever asks again (session.rs,             *)
(* try_replay_tool_call; supervisor.rs).                                      *)
THEOREM ReplayedToolRunsOnce == CallIds = "per_step" => (Spec => []ToolRunsOnce)
<1>1. RunsInv => ToolRunsOnce
  BY DEF RunsInv, ToolRunsOnce
<1>. QED
  BY RunsInductive, <1>1, PTL DEF PerStep
-----------------------------------------------------------------------------
(* A step is answered with what it itself produced *)

OwnInv == EventsInv /\ AnswerInv /\ RepliesAreOwn

(* Two steps of a distinguishable script share neither row nor request.       *)
LEMMA RowOwner ==
  ASSUME Distinguishable, script \in Scripts, NEW i \in Step, NEW j \in Step,
         script[i].kind = "tool", script[j].kind # "llm", StepRow(i) = StepRow(j)
  PROVE  i = j
<1>1. StepKey(i) = StepKey(j) /\ script[i].name = script[j].name
  BY DEF StepRow
<1>2. CASE script[i].key > 0
  <2>1. script[j].key > 0 /\ script[j].key = script[i].key
    BY <1>1, <1>2 DEF StepKey
  <2>2. SameRow(script, i, j)
    BY <1>1, <1>2, <2>1 DEF SameRow
  <2>. QED
    BY <2>2 DEF Distinguishable, Step
<1>3. CASE ~(script[i].key > 0)
  BY <1>1, <1>3 DEF StepKey
<1>. QED
  BY <1>2, <1>3
LEMMA EventOwner ==
  ASSUME Distinguishable, TypeOK, request.step \in Step, NEW e \in OwnEvent, Matches(e)
  PROVE  e.step = request.step
<1>1. e.step \in Step /\ script \in Scripts
  BY DEF OwnEvent, Event, TypeOK
<1>2. SameRequest(script, e.step, request.step)
  BY DEF SameRequest, OwnEvent, Matches, Asked
<1>. QED
  BY <1>1, <1>2 DEF Distinguishable, Step

LEMMA LoadedIsOwn == ASSUME TypeOK, EventsInv PROVE Loaded.events \in Seq(OwnEvent)
<1>. DEFINE from == IF checkpoint = NoCheckpoint THEN 1 ELSE checkpoint.covers + 1
<1>1. events \in Seq(OwnEvent) /\ Len(events) \in Nat /\ from \in 1..(Len(events) + 1)
  BY DEF TypeOK, EventsInv
<1>. HIDE DEF from
<1>2. SubSeq(events, from, Len(events)) \in Seq(OwnEvent)
  BY <1>1, SubSeqProperties
<1>. QED
  BY <1>2 DEF Loaded, from, EventsInv

LEMMA EventsOwnStep ==
  ASSUME TypeOK, ServingInv, EventsInv, AnswerInv, Written PROVE EventsInv'
<1>1. OwnEvent' = OwnEvent
  BY DEF Written, OwnEvent, Event, Name, Step
<1>2. events' \in Seq(OwnEvent)
  <2>1. CASE RecordEvent
    <3>. DEFINE e == [kind |-> Asked.kind, name |-> Asked.name, args |-> Asked.args,
                      key |-> Asked.key, step |-> answer.step, ok |-> answer.ok]
    <3>1. request.step \in Step /\ answer \in Answers /\ answer.step = request.step
      BY <2>1 DEF RecordEvent, ServingInv, Serves, TypeOK, AnswerInv
    <3>2. e \in Event
      BY <3>1, ScriptTypes DEF Event, TypeOK, Asked, Answers
    <3>3. e \in OwnEvent
      BY <3>1, <3>2 DEF OwnEvent, Asked
    <3>4. events' = Append(events, e)
      BY <2>1 DEF RecordEvent, Record
    <3>. HIDE DEF e
    <3>. QED
      BY <3>3, <3>4, AppendProperties DEF EventsInv
  <2>. QED
    BY <2>1 DEF Written, EventsInv
<1>3. frontier'.events \in Seq(OwnEvent)
  <2>1. CASE ReplayEvent
    <3>1. Loaded.events # <<>> => Tail(Loaded.events) \in Seq(OwnEvent)
      BY LoadedIsOwn, HeadTailProperties
    <3>2. Loaded \in [known : BOOLEAN, label : Label, events : Seq(Event)]
      BY LoadedType
    <3>. QED
      BY <2>1, <3>1, <3>2, LoadedIsOwn DEF ReplayEvent
  <2>2. CASE PreCheckpoint
    BY <2>2 DEF PreCheckpoint, TypeOK, EventsInv
  <2>3. NoFrontier.events \in Seq(OwnEvent)
    BY DEF NoFrontier
  <2>. QED
    BY <2>1, <2>2, <2>3 DEF Written, EventsInv
<1>. QED
  BY <1>1, <1>2, <1>3 DEF EventsInv

LEMMA RepliesStep ==
  ASSUME Distinguishable, TypeOK, ServingInv, RowsInv, DaemonInv, OwnInv, Written
  PROVE  RepliesAreOwn'
<1>0. Step' = Step /\ answered \in [Step -> Answers \cup {NoAnswer}] /\ script \in Scripts
  BY DEF Written, Step, TypeOK
<1>1. CASE answered' = answered
  BY <1>0, <1>1 DEF OwnInv, RepliesAreOwn
<1>2. ASSUME NEW a, Reply(a), a.step = request.step PROVE RepliesAreOwn'
  BY <1>0, <1>2 DEF Reply, OwnInv, RepliesAreOwn
<1>3. CASE ReplayEvent
  <2>1. CASE Loaded.events # <<>> /\ Matches(Head(Loaded.events))
    <3>1. Head(Loaded.events) \in OwnEvent
      BY <2>1, LoadedIsOwn, HeadTailProperties DEF OwnInv
    <3>2. request.step \in Step
      BY <1>3 DEF ReplayEvent, ServingInv, Serves
    <3>3. Head(Loaded.events).step = request.step
      BY <2>1, <3>1, <3>2, EventOwner
    <3>. QED
      BY <1>2, <1>3, <2>1, <3>3 DEF ReplayEvent
  <2>2. CASE ~(Loaded.events # <<>> /\ Matches(Head(Loaded.events)))
    BY <1>1, <1>3, <2>2 DEF ReplayEvent
  <2>. QED
    BY <2>1, <2>2
<1>4. CASE ReplayRow
  <2>1. /\ OwnRow \in DOMAIN ledger /\ RowAt(OwnRow) = ledger[OwnRow] /\ request.step \in Step
        /\ OwnRow = StepRow(request.step) /\ OwnRow[2].from # "seq" /\ Asked.kind # "llm"
    BY <1>4, OwnRowIsStepRow
       DEF ReplayRow, RowAt, NoRow, Terminal, ServingInv, Serves, DaemonInv, OwnInv, AnswerInv
  <2>2. ledger[OwnRow].step = request.step
    <3>1. ledger[OwnRow].step \in Step
      BY <2>1 DEF TypeOK
    <3>2. script[ledger[OwnRow].step].kind = "tool" /\ OwnRow = StepRow(ledger[OwnRow].step)
      BY <2>1 DEF RowsInv
    <3>. QED
      BY <1>0, <2>1, <3>1, <3>2, RowOwner DEF Asked
  <2>3. RowAnswer(RowAt(OwnRow)).step = request.step
    BY <2>1, <2>2 DEF RowAnswer
  <2>. QED
    BY <1>2, <1>4, <2>3 DEF ReplayRow
<1>5. CASE ModelFails
  BY <1>2, <1>5 DEF ModelFails
<1>6. CASE SendReply
  BY <1>2, <1>6 DEF SendReply, OwnInv, AnswerInv
<1>. QED
  BY <1>1, <1>3, <1>4, <1>5, <1>6 DEF Written

LEMMA AnswerStep ==
  ASSUME Distinguishable, TypeOK, ServingInv, RowsInv, DaemonInv, OwnInv, Written, [Next]_vars
  PROVE  AnswerInv'
<1>0. script' = script /\ script \in Scripts
  BY DEF Written, TypeOK
<1>. DEFINE Answering == {"resolve", "record", "post", "post_snapshot", "reply"}
            Goal == /\ pc' = "ledger" => Asked'.kind # "llm"
                    /\ pc' \in Answering => answer'.step = request'.step
<1>1. Harness \/ Start \/ Finish \/ Crash \/ Disconnect \/ Resume => Goal
  BY DEF Harness, Request, Advance, Complete, Start, Finish, Crash, Disconnect, Lose, Resume, Goto
<1>2. Replaying => Goal
  BY <1>0 DEF Replaying, ReplayEvent, ReplayRow, ParkUnfinished, GoLive, Reply, Goto, Asked
<1>3. Checkpointing => Goal
  BY <1>0 DEF Checkpointing, PreCheckpoint, PeriodicCheckpoint, CopyWorkspace, SnapshotDone, Goto,
              OwnInv, AnswerInv, Asked
<1>4. ModelAnswers \/ ModelFails \/ Execute \/ Resolve \/ RecordEvent \/ SendReply => Goal
  BY DEF ModelAnswers, ModelFails, Execute, Resolve, RecordEvent, SendReply, Reply, Goto, OwnInv,
         AnswerInv
<1>5. BeginCall \/ BeginParked \/ FlagRow \/ Suspend => Goal
  BY DEF BeginCall, BeginParked, FlagRow, Suspend, Goto
<1>6. ASSUME AwaitRow PROVE Goal
  <2>1. /\ rowKey \in DOMAIN ledger /\ rowKey = StepRow(request.step) /\ rowKey[2].from # "seq"
        /\ Asked.kind = "tool" /\ request.step \in Step
    BY <1>6, OwnRowIsStepRow DEF AwaitRow, TypeOK, DaemonInv, ServingInv, Serves
  <2>2. /\ ledger[rowKey].step \in Step /\ script[ledger[rowKey].step].kind = "tool"
        /\ rowKey = StepRow(ledger[rowKey].step)
    BY <2>1 DEF TypeOK, RowsInv
  <2>3. ledger[rowKey].step = request.step
    BY <1>0, <2>1, <2>2, RowOwner DEF Asked
  <2>. QED
    BY <1>6, <2>3 DEF AwaitRow, Goto, RowAnswer
<1>7. Unpark => Goal
  BY DEF Unpark, Goto, RowAnswer, DaemonInv
<1>8. UNCHANGED daemon => Goal
  BY <1>0 DEF OwnInv, AnswerInv, Asked
<1>9. Operator \/ Elsewhere \/ BeginElsewhere \/ UNCHANGED vars => UNCHANGED daemon
  BY DEF Operator, Elsewhere, BeginElsewhere, Approve, Deny, ExecuteApproved, ResolveElsewhere, vars
<1>. HIDE DEF Goal
<1>10. Serving => Goal
  BY <1>4, <1>5, <1>6, <1>7 DEF Serving
<1>11. Goal
  BY <1>1, <1>2, <1>3, <1>8, <1>9, <1>10 DEF Next, Daemon
<1>. QED
  BY <1>11 DEF Goal, AnswerInv

LEMMA OwnInductive ==
  CallIds = "per_step" /\ Distinguishable => (Spec => []OwnInv)
<1>. SUFFICES ASSUME CallIds = "per_step", Distinguishable PROVE Spec => []OwnInv
  OBVIOUS
<1>1. Init => OwnInv
  BY DEF Init, OwnInv, EventsInv, AnswerInv, RepliesAreOwn, NoFrontier
<1>2. TypeOK /\ ServingInv /\ RowsInv /\ DaemonInv /\ OwnInv /\ [Next]_vars => OwnInv'
  BY Writers, EventsOwnStep, RepliesStep, AnswerStep DEF OwnInv
<1>3. Spec => [](RowsInv /\ DaemonInv /\ RunsInv)
  BY RunsInductive DEF PerStep
<1>. QED
  BY TypesInductive, <1>1, <1>2, <1>3, PTL DEF Spec

(* A harness is answered with what the very request produced, now or before a *)
(* crash, for every script whose requests can be told apart by kind, name,    *)
(* arguments and key: neither an event of the log nor a row of the ledger     *)
(* that belongs to another step is taken for the answer (session.rs,          *)
(* try_replay_llm_call and try_replay_tool_call).                             *)
THEOREM ReplayAnswersOwn ==
  CallIds = "per_step" /\ Distinguishable => (Spec => []RepliesAreOwn)
<1>1. OwnInv => RepliesAreOwn
  BY DEF OwnInv
<1>. QED
  BY OwnInductive, <1>1, PTL

-----------------------------------------------------------------------------
(* The first resume does nothing again *)

Fronted == {"ledger", "pre", "pre_snapshot", "live"}
Covered == {"pre_snapshot", "live", "execute", "resolve", "wait", "flag", "suspend", "parked",
            "record"}
Resting == {"down", "recv", "replay", "finish", "done"}

(* A step that leaves the log, the checkpoint and the frontier alone.         *)
LEMMA FrontierFrame ==
  ASSUME FrontierInv, UNCHANGED <<script, events, checkpoint, frontier, crashes>>,
         \/ pc' \in Resting
         \/ /\ request' = request
            /\ pc \notin Resting
            /\ pc' \in Fronted => pc \in Fronted
            /\ pc' \in Covered => pc \in Covered
  PROVE  FrontierInv'
<1>1. Beyond' = Beyond
  BY DEF Beyond
<1>2. request' = request => \A e : Matches(e)' <=> Matches(e)
  BY DEF Matches, Asked
<1>. QED
  BY <1>1, <1>2 DEF FrontierInv, Serves, Fronted, Covered, Resting

LEMMA FrontierLoads ==
  ASSUME TypeOK, FrontierInv, ReplayEvent
  PROVE  FrontierInv'
<1>0. /\ pc = "replay" /\ request' = request /\ UNCHANGED <<script, events, checkpoint, crashes>>
      /\ pc' \in {"recv", "pre", "ledger"}
  BY DEF ReplayEvent, Reply
<1>1. /\ Loaded \in [known : BOOLEAN, label : Label, events : Seq(Event)] /\ Loaded.known
      /\ Len(Loaded.events) \in Nat
  <2>1. Loaded \in [known : BOOLEAN, label : Label, events : Seq(Event)]
    BY LoadedType
  <2>. QED
    BY <2>1 DEF Loaded
<1>2. crashes = 0 => Loaded.events = <<>> /\ Loaded.label = "none"
  <2>1. SubSeq(<<>>, 1, 0) = <<>>
    OBVIOUS
  <2>2. CASE frontier.known
    BY <2>2 DEF Loaded, FrontierInv
  <2>3. CASE crashes = 0 /\ ~frontier.known
    <3>1. events = <<>> /\ checkpoint = NoCheckpoint
      BY <2>3 DEF FrontierInv
    <3>2. Loaded = [known |-> TRUE, label |-> "none", events |-> <<>>]
      BY <2>1, <2>3, <3>1 DEF Loaded, NoCheckpoint
    <3>. QED
      BY <3>2
  <2>. QED
    BY <2>2, <2>3
<1>3. crashes = 1 => Len(Loaded.events) <= 1
  <2>1. CASE frontier.known
    BY <2>1 DEF Loaded, FrontierInv
  <2>2. CASE crashes = 1 /\ ~frontier.known
    <3>. DEFINE from == IF checkpoint = NoCheckpoint THEN 1 ELSE checkpoint.covers + 1
    <3>1. /\ events \in Seq(Event) /\ Len(events) \in Nat /\ from \in 1..(Len(events) + 1)
          /\ Len(events) - from + 1 = Beyond /\ Beyond <= 1
      BY SMTT(20), <2>2 DEF TypeOK, Beyond, FrontierInv
    <3>2. Loaded.events = SubSeq(events, from, Len(events))
      BY <2>2 DEF Loaded
    <3>. HIDE DEF from
    <3>3. Len(Loaded.events) = IF from <= Len(events) THEN Len(events) - from + 1 ELSE 0
      BY <3>1, <3>2, SubSeqProperties
    <3>. QED
      BY <3>1, <3>3
  <2>. QED
    BY <2>1, <2>2
<1>4. Beyond' = Beyond /\ \A e : Matches(e)' <=> Matches(e)
  BY <1>0 DEF Beyond, Matches, Asked
<1>5. CASE Loaded.events # <<>> /\ Matches(Head(Loaded.events))
  <2>1. pc' = "recv" /\ frontier' = [Loaded EXCEPT !.events = Tail(@)]
    BY <1>5 DEF ReplayEvent, Reply
  <2>2. frontier'.known /\ frontier'.events = Tail(Loaded.events)
    BY <1>1, <2>1
  <2>3. Len(Tail(Loaded.events)) = Len(Loaded.events) - 1
    BY <1>1, <1>5, HeadTailProperties
  <2>4. crashes # 0
    BY <1>2, <1>5
  <2>. QED
    BY <1>0, <1>1, <1>3, <2>1, <2>2, <2>3, <2>4 DEF FrontierInv, Serves
<1>6. CASE ~(Loaded.events # <<>> /\ Matches(Head(Loaded.events)))
  <2>1. frontier' = Loaded /\ pc' \in {"pre", "ledger"}
    BY <1>6 DEF ReplayEvent
  <2>2. Loaded.events # <<>> => ~Matches(Head(Loaded.events))
    BY <1>6
  <2>3. UNCHANGED <<script, request>> /\ Loaded.known /\ Serves
    BY <1>0, <1>1 DEF Serves
  <2>4. (pc \in Fronted /\ frontier.events # <<>> => ~Matches(Head(frontier.events)))'
    BY <2>1, <2>2, <2>3 DEF Matches, Asked
  <2>5. (pc \in Covered => Beyond = 0)'
    BY <2>1 DEF Covered
  <2>. QED
    BY <1>0, <1>2, <1>3, <1>4, <2>1, <2>3, <2>4, <2>5 DEF FrontierInv, Serves, Fronted, Covered
<1>. QED
  BY <1>5, <1>6

LEMMA FrontierCovers ==
  ASSUME TypeOK, FrontierInv, PreCheckpoint \/ PeriodicCheckpoint
  PROVE  FrontierInv'
<1>1. /\ request' = request /\ UNCHANGED <<script, events, crashes>> /\ Len(events) \in Nat
      /\ \A e : Matches(e)' <=> Matches(e)
  BY DEF PreCheckpoint, PeriodicCheckpoint, Goto, TypeOK, Matches, Asked
<1>2. Covering(PreLabel) \/ Covering("periodic") => Beyond' = 0
  BY <1>1 DEF Covering, Beyond, NoCheckpoint
<1>3. frontier'.events = frontier.events /\ frontier'.known = frontier.known
  BY DEF PreCheckpoint, PeriodicCheckpoint, Goto, TypeOK
<1>4. CASE PreCheckpoint
  <2>1. frontier'.label = "none" /\ pc = "pre" /\ pc' \in {"live", "pre_snapshot"}
    BY <1>4 DEF PreCheckpoint, TypeOK
  <2>2. frontier.label # PreLabel => Beyond' = 0
    BY <1>2, <1>4 DEF PreCheckpoint
  <2>3. PreLabel # "none" /\ frontier.known
    BY <2>1 DEF PreLabel, FrontierInv, Serves
  <2>4. frontier.events # <<>> => ~Matches(Head(frontier.events))
    BY <2>1 DEF FrontierInv
  <2>. QED
    BY <1>1, <1>3, <2>1, <2>2, <2>3, <2>4 DEF FrontierInv, Serves
<1>5. CASE PeriodicCheckpoint
  <2>1. pc = "post" /\ pc' = "post_snapshot" /\ frontier' = frontier /\ Beyond' = 0
    BY <1>2, <1>5 DEF PeriodicCheckpoint, Goto
  <2>. QED
    BY <1>1, <2>1 DEF FrontierInv, Serves
<1>. QED
  BY <1>4, <1>5

LEMMA FrontierStep ==
  ASSUME TypeOK, ServingInv, FrontierInv, [Next]_vars PROVE FrontierInv'
<1>0. script' = script
  BY Writers DEF Written
<1>1. ASSUME Start \/ Finish \/ Harness \/ Resume \/ ReplayRow \/ ParkUnfinished PROVE FrontierInv'
  <2>1. pc' \in Resting /\ UNCHANGED <<events, checkpoint, frontier, crashes>>
    BY <1>1 DEF Start, Finish, Harness, Request, Advance, Complete, Resume, ReplayRow,
                ParkUnfinished, Reply, Goto, Resting
  <2>. QED
    BY <1>0, <2>1, FrontierFrame
<1>2. ASSUME ModelFails \/ SendReply PROVE FrontierInv'
  <2>1. pc' \in Resting /\ UNCHANGED <<events, checkpoint, frontier, crashes>>
    BY <1>2 DEF ModelFails, SendReply, Reply, Resting
  <2>. QED
    BY <1>0, <2>1, FrontierFrame
<1>3. ASSUME GoLive \/ CopyWorkspace \/ SnapshotDone PROVE FrontierInv'
  <2>1. /\ UNCHANGED <<events, checkpoint, frontier, crashes, request>> /\ pc \notin Resting
        /\ pc' \in Fronted => pc \in Fronted
        /\ pc' \in Covered => pc \in Covered
    BY <1>3 DEF GoLive, CopyWorkspace, SnapshotDone, Goto, Resting, Fronted, Covered
  <2>. QED
    BY <1>0, <2>1, FrontierFrame
<1>4. ASSUME ModelAnswers \/ BeginCall \/ Execute \/ Resolve \/ AwaitRow PROVE FrontierInv'
  <2>1. /\ UNCHANGED <<events, checkpoint, frontier, crashes, request>> /\ pc \notin Resting
        /\ pc' \in Fronted => pc \in Fronted
        /\ pc' \in Covered => pc \in Covered
    BY <1>4 DEF ModelAnswers, BeginCall, Execute, Resolve, AwaitRow, Goto, Resting, Fronted, Covered
  <2>. QED
    BY <1>0, <2>1, FrontierFrame
<1>5. ASSUME BeginParked \/ FlagRow \/ Suspend \/ Unpark PROVE FrontierInv'
  <2>1. /\ UNCHANGED <<events, checkpoint, frontier, crashes, request>> /\ pc \notin Resting
        /\ pc' \in Fronted => pc \in Fronted
        /\ pc' \in Covered => pc \in Covered
    BY <1>5 DEF BeginParked, FlagRow, Suspend, Unpark, Goto, Resting, Fronted, Covered
  <2>. QED
    BY <1>0, <2>1, FrontierFrame
<1>6. CASE RecordEvent
  <2>1. /\ UNCHANGED <<checkpoint, frontier, crashes>> /\ pc = "record" /\ pc' \in {"reply", "post"}
        /\ Len(events) \in Nat /\ Len(events') = Len(events) + 1
    <3>1. \E e : events' = Append(events, e)
      BY <1>6 DEF RecordEvent, Record
    <3>2. events \in Seq(Event)
      BY DEF TypeOK
    <3>. QED
      BY <1>6, <3>1, <3>2 DEF RecordEvent, Goto
  <2>2. Len(events) \in Int /\ (checkpoint # NoCheckpoint => checkpoint.covers \in Int)
    BY <2>1 DEF TypeOK
  <2>3. Beyond' = Beyond + 1 /\ Beyond \in Int
    BY <2>1, <2>2 DEF Beyond
  <2>4. frontier.known /\ (crashes = 0 => Beyond = 0)
    BY <2>1 DEF FrontierInv, Serves
  <2>5. Beyond' \in Int /\ (crashes = 0 => Beyond' <= 1)
    BY <2>3, <2>4
  <2>. HIDE DEF Beyond
  <2>. QED
    BY <2>1, <2>4, <2>5 DEF FrontierInv, Serves
<1>7. CASE Crash \/ Disconnect
  <2>1. /\ pc' = "down" /\ frontier' = NoFrontier /\ crashes' = crashes + 1
        /\ UNCHANGED <<events, checkpoint>>
    BY <1>7 DEF Crash, Disconnect, Lose
  <2>2. Beyond' = Beyond
    BY <2>1 DEF Beyond
  <2>3. Len(NoFrontier.events) = 0
    BY DEF NoFrontier
  <2>. QED
    BY <2>1, <2>2, <2>3 DEF FrontierInv, Serves
<1>8. CASE Operator \/ Elsewhere \/ BeginElsewhere \/ UNCHANGED vars
  <2>1. UNCHANGED <<events, checkpoint, crashes, daemon>>
    BY <1>8 DEF Operator, Elsewhere, BeginElsewhere, Approve, Deny, ExecuteApproved,
                ResolveElsewhere, vars
  <2>2. Beyond' = Beyond /\ \A e : Matches(e)' <=> Matches(e)
    BY <1>0, <2>1 DEF Beyond, Matches, Asked
  <2>. QED
    BY <2>1, <2>2 DEF FrontierInv, Serves
<1>9. CASE Serving
  BY <1>2, <1>4, <1>5, <1>6, <1>9 DEF Serving
<1>10. CASE Replaying \/ Checkpointing
  BY <1>1, <1>3, <1>10, FrontierLoads, FrontierCovers DEF Replaying, Checkpointing
<1>. QED
  BY <1>1, <1>7, <1>8, <1>9, <1>10 DEF Next, Daemon

(* The first time a session is resumed, no request is done again whose event  *)
(* the log holds beyond the checkpoint, for every distinguishable script, point *)
(* of the crash and progress the harness stored: a daemon's first life leaves *)
(* one event there at most, so no other hides it (session.rs,                 *)
(* replay_frontier; the second resume is not so lucky).                       *)
THEOREM FirstResumeReplays ==
  CallIds = "per_step" /\ Distinguishable => (Spec => []FrontierIsReplayed)
<1>. SUFFICES ASSUME CallIds = "per_step", Distinguishable PROVE Spec => []FrontierIsReplayed
  OBVIOUS
<1>1. Init => FrontierInv
  BY DEF Init, FrontierInv, Serves, NoFrontier, NoCheckpoint, Beyond
<1>2. TypeOK /\ ServingInv /\ FrontierInv /\ [Next]_vars => FrontierInv'
  BY FrontierStep
<1>3. TypeOK /\ ServingInv /\ OwnInv /\ FrontierInv => FrontierIsReplayed
  <2>. SUFFICES ASSUME TypeOK, ServingInv, OwnInv, FrontierInv, pc = "live", crashes <= 1,
                       NEW n \in 1..Len(frontier.events)
                PROVE  frontier.events[n].step # request.step
    BY DEF FrontierIsReplayed, DoneAgain
  <2>1. frontier.events \in Seq(OwnEvent) /\ Len(frontier.events) \in Nat
    BY DEF OwnInv, EventsInv
  <2>2. Len(frontier.events) <= 1
    BY <2>1 DEF FrontierInv
  <2>3. n = 1 /\ frontier.events # <<>> /\ frontier.events[n] \in OwnEvent
    BY <2>1, <2>2
  <2>4. ~Matches(frontier.events[n])
    BY <2>1, <2>3, HeadTailProperties DEF FrontierInv
  <2>. QED
    BY <2>3, <2>4 DEF Matches, OwnEvent, Asked
<1>. QED
  BY TypesInductive, OwnInductive, <1>1, <1>2, <1>3, PTL DEF Spec
=============================================================================
