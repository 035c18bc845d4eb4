--------------------------- MODULE SessionReplay ---------------------------
(***************************************************************************)
(* One durable session of cybersin-runtime across crashes: RuntimeDaemon   *)
(* (session.rs) serves a harness, records llm.call and tool.call events,   *)
(* checkpoints, and after a crash SessionSupervisor (supervisor.rs) and    *)
(* `cybersin run --resume` start a new daemon and a new harness that       *)
(* replay what the log and the tool ledger hold.                           *)
(*                                                                         *)
(* A daemon serves one request at a time and every step below is one       *)
(* durable write or one read that decides.  Daemon and harness die         *)
(* together.  The gateway's own interleavings are in ToolGateway; here a   *)
(* call of it is insert, run, resolve.                                     *)
(***************************************************************************)
EXTENDS Integers, Sequences, FiniteSets

CONSTANTS
  Scripts,       \* what a harness may request: sequences of requests
  CallIds,       \* "per_step": a request always carries the same call_id;
                 \* "per_run": a counter that each harness process restarts
  Sandboxed,     \* does the daemon have a session_sandbox?
  MaxCrashes     \* bound: crashes of the daemon

Kind == {"llm", "tool", "gated"}       \* gated: the tool's policy requires approval
ASSUME ScriptAssumption ==
  \A s \in Scripts :
    s \in Seq([kind : Kind, name : STRING, args : STRING,
                key : Nat,                             \* 0: no idem_key
                class : {"read", "write", "critical"}])
ASSUME ModeAssumption == /\ CallIds \in {"per_step", "per_run"}
                         /\ Sandboxed \in BOOLEAN /\ MaxCrashes \in Nat

VARIABLES
  script,      \* the harness's requests, in order; never changes
  status,      \* sessions.status
  events,      \* the llm.call and tool.call events of the log
  checkpoint,  \* the latest checkpoint: its label and how many events it covers
  snapshot,    \* the workspace snapshot paired with it
  ledger,      \* tool_calls: (tool, idem_key) -> its row
  saved,       \* the last step the harness stored with state.set
  pc,          \* the daemon's next step
  request,     \* the request it serves
  frontier,    \* its ReplayFrontier
  rowKey,      \* the ledger row it waits for
  answer,      \* what it will reply
  position,    \* the step the harness is at
  sent,        \* requests this harness process has sent
  harness,     \* what the harness does
  modelCalls,  \* history: model answers paid for, per step
  toolRuns,    \* history: side effects of a step
  answered,    \* history: the last answer the harness got for a step
  crashes      \* history

store == <<script, status, events, checkpoint, snapshot, ledger, saved>>
daemon == <<pc, request, frontier, rowKey, answer>>
client == <<position, sent, harness>>
history == <<modelCalls, toolRuns, answered, crashes>>
vars == <<store, daemon, client, history>>

Step == 1..Len(script)
Name == {script[i].name : i \in Step}
(* An idem_key: the harness's own, session:call_id, or session:(count + 1). *)
Key == [from : {"own", "call", "seq"}, n : Nat]

NoCheckpoint == [label |-> "none", covers |-> -1]
NoFrontier == [known |-> FALSE, label |-> "none", events |-> <<>>]
NoAnswer == [step |-> 0, ok |-> FALSE]
NoRow == [status |-> "absent", gate |-> "open", step |-> 0]
NoRequest == [step |-> 0, id |-> 0]

Answers == [step : Step, ok : BOOLEAN]
Terminal(row) == row.status \in {"succeeded", "failed"}
RowAnswer(row) == [step |-> row.step, ok |-> row.status = "succeeded"]
RowCount == Cardinality({r \in DOMAIN ledger : ledger[r].gate # "elsewhere"})
RowAt(r) == IF r \in DOMAIN ledger THEN ledger[r] ELSE NoRow
(* begin_tool_call's insert of a pending row for the request. *)
Insert(r) ==
  ledger' = [x \in DOMAIN ledger \cup {r} |->
               IF x = r THEN [status |-> "pending", gate |-> "open", step |-> request.step]
                        ELSE ledger[x]]

Asked == script[request.step]
(* GatewayToolCaller and try_replay_tool_call: the key an ungated call is *)
(* admitted under.                                                        *)
OwnKey_OfSession == IF Asked.key > 0 THEN [from |-> "own", n |-> Asked.key]
                    ELSE [from |-> "call", n |-> 1]     \* mutant: call_id left out
OwnKey == IF Asked.key > 0 THEN [from |-> "own", n |-> Asked.key]
                           ELSE [from |-> "call", n |-> request.id]
OwnRow == <<Asked.name, OwnKey>>

Init ==
  /\ script \in Scripts
  /\ status = "absent" /\ events = <<>> /\ checkpoint = NoCheckpoint
  /\ snapshot = "complete" /\ ledger = <<>> /\ saved = 0
  /\ pc = "down" /\ request = NoRequest /\ frontier = NoFrontier
  /\ rowKey = <<>> /\ answer = NoAnswer
  /\ position = 1 /\ sent = 0 /\ harness = "ready"
  /\ modelCalls = [i \in Step |-> 0] /\ toolRuns = [i \in Step |-> 0]
  /\ answered = [i \in Step |-> NoAnswer] /\ crashes = 0

Goto(label) == pc' = label /\ UNCHANGED <<request, frontier, rowKey>>
Reply(a) ==
  /\ pc' = "recv"
  /\ harness' = "replied"
  /\ answered' = [answered EXCEPT ![request.step] = a]
  /\ UNCHANGED <<request, rowKey, answer, position, sent, modelCalls, toolRuns, crashes>>

-----------------------------------------------------------------------------
(* The harness *)

(* RuntimeDaemon::start_session *)
Start ==
  /\ pc = "down" /\ status = "absent"
  /\ status' = "running"
  /\ Goto("recv")
  /\ UNCHANGED <<script, events, checkpoint, snapshot, ledger, saved, answer, client, history>>

(* The harness sends the request of its step. *)
Request ==
  /\ pc = "recv" /\ harness = "ready" /\ position \in Step
  /\ request' = [step |-> position,
                 id |-> IF CallIds = "per_step" THEN position ELSE sent + 1]
  /\ sent' = sent + 1
  /\ harness' = "waiting"
  /\ pc' = "replay"
  /\ UNCHANGED <<store, frontier, rowKey, answer, position, history>>

(* It goes on to the next step, with or without storing its progress. *)
Advance ==
  /\ pc = "recv" /\ harness = "replied"
  /\ position' = position + 1
  /\ harness' = "ready"
  /\ saved' \in {saved, position}
  /\ UNCHANGED <<script, status, events, checkpoint, snapshot, ledger, daemon, sent, history>>

(* session.complete: the event, then run's final status. *)
Complete ==
  /\ pc = "recv" /\ harness = "ready" /\ position \notin Step
  /\ Goto("finish")
  /\ UNCHANGED <<store, answer, client, history>>
Finish ==
  /\ pc = "finish"
  /\ status' = "completed"
  /\ Goto("done")
  /\ UNCHANGED <<script, events, checkpoint, snapshot, ledger, saved, answer, client, history>>

-----------------------------------------------------------------------------
(* Replay *)

(* replay_frontier: the events after the latest checkpoint, read once. *)
Loaded ==
  IF frontier.known THEN frontier
  ELSE [known |-> TRUE, label |-> checkpoint.label,
        events |-> SubSeq(events, IF checkpoint = NoCheckpoint THEN 1 ELSE checkpoint.covers + 1,
                          Len(events))]

(* The front event answers the request; a gated call's event has no idem_key *)
(* and so matches any.                                                       *)
Matches_ToolsOnly(e) ==                    \* mutant: llm.call events are not replayed
  /\ e.kind # "llm" /\ Asked.kind # "llm"
  /\ e.name = Asked.name /\ e.args = Asked.args
  /\ e.kind = "tool" => e.key = Asked.key
Matches(e) ==
  /\ (e.kind = "llm") = (Asked.kind = "llm")
  /\ e.name = Asked.name /\ e.args = Asked.args
  /\ e.kind = "tool" => e.key = Asked.key

(* try_replay_llm_call, and the first half of try_replay_tool_call. *)
ReplayEvent ==
  /\ pc = "replay"
  /\ IF Loaded.events # <<>> /\ Matches(Head(Loaded.events))
       THEN /\ frontier' = [Loaded EXCEPT !.events = Tail(@)]
            /\ Reply([step |-> Head(Loaded.events).step, ok |-> Head(Loaded.events).ok])
       ELSE /\ frontier' = Loaded
            /\ pc' = IF Asked.kind = "llm" THEN "pre" ELSE "ledger"
            /\ UNCHANGED <<request, rowKey, answer, client, history>>
  /\ UNCHANGED store

(* The second half: the ledger row of the call's own key. *)
ReplayRow ==
  LET row == RowAt(OwnRow) IN
  /\ pc = "ledger" /\ Terminal(row)
  /\ Reply(RowAnswer(row))
  /\ UNCHANGED <<store, frontier>>

(* A critical call whose outcome is unknown is never fired again: the harness *)
(* is told it is parked.                                                      *)
ParkUnfinished ==
  LET row == RowAt(OwnRow) IN
  /\ pc = "ledger" /\ row.status = "pending" /\ script[row.step].class = "critical"
  /\ status' = "awaiting_dead_letter"
  /\ Goto("recv")
  /\ UNCHANGED <<script, events, checkpoint, snapshot, ledger, saved, answer, client, history>>

GoLive ==
  LET row == RowAt(OwnRow) IN
  /\ pc = "ledger"
  /\ row.status = "pending" => script[row.step].class # "critical"
  /\ ~Terminal(row)
  /\ Goto("pre")
  /\ UNCHANGED <<store, answer, client, history>>

-----------------------------------------------------------------------------
(* Checkpoints: the row, then the paired snapshot of the workspace, which is *)
(* a directory first and its files later.                                    *)
Covering(label) ==
  /\ checkpoint' = [label |-> label, covers |-> Len(events)]
  /\ snapshot' = IF Sandboxed THEN "missing" ELSE "complete"

(* The label the replay frontier started from spares one checkpoint. *)
PreLabel == IF Asked.kind = "llm" THEN "pre-llm" ELSE "pre-tool"
PreCheckpoint ==
  /\ pc = "pre"
  /\ frontier' = [frontier EXCEPT !.label = "none"]
  /\ IF frontier.label = PreLabel
       THEN pc' = "live" /\ UNCHANGED <<checkpoint, snapshot>>
       ELSE pc' = "pre_snapshot" /\ Covering(PreLabel)
  /\ UNCHANGED <<script, status, events, ledger, saved, request, rowKey, answer, client, history>>

PeriodicCheckpoint ==
  /\ pc = "post"
  /\ Covering("periodic")
  /\ Goto("post_snapshot")
  /\ UNCHANGED <<script, status, events, ledger, saved, answer, client, history>>

CopyWorkspace ==
  /\ pc \in {"pre_snapshot", "post_snapshot"} /\ snapshot # "complete"
  /\ snapshot' = IF snapshot = "missing" THEN "partial" ELSE "complete"
  /\ UNCHANGED <<script, status, events, checkpoint, ledger, saved, daemon, client, history>>
SnapshotDone ==
  /\ pc \in {"pre_snapshot", "post_snapshot"} /\ snapshot = "complete"
  /\ Goto(IF pc = "pre_snapshot" THEN "live" ELSE "reply")
  /\ UNCHANGED <<store, answer, client, history>>

-----------------------------------------------------------------------------
(* handle_llm_request and handle_tool_request, past replay *)

Record(kind, a) ==
  events' = Append(events, [kind |-> kind, name |-> Asked.name, args |-> Asked.args,
                            key |-> Asked.key, step |-> a.step, ok |-> a.ok])

(* RouteExecutor::execute answers, or fails: a failure is replied at once,   *)
(* with no event.                                                            *)
ModelAnswers ==
  /\ pc = "live" /\ Asked.kind = "llm"
  /\ modelCalls' = [modelCalls EXCEPT ![request.step] = @ + 1]
  /\ answer' = [step |-> request.step, ok |-> TRUE]
  /\ Goto("record")
  /\ UNCHANGED <<store, client, toolRuns, answered, crashes>>
ModelFails ==
  /\ pc = "live" /\ Asked.kind = "llm"
  /\ Reply([step |-> request.step, ok |-> FALSE])
  /\ UNCHANGED <<store, frontier>>

(* GatewayToolCaller::call: the insert decides who executes. *)
BeginCall_Refires ==                       \* mutant: a pending row is taken over
  /\ pc = "live" /\ Asked.kind = "tool"
  /\ rowKey' = OwnRow
  /\ Insert(OwnRow) /\ pc' = "execute"
  /\ UNCHANGED <<script, status, events, checkpoint, snapshot, saved, request, frontier, answer,
                 client, history>>
BeginCall ==
  /\ pc = "live" /\ Asked.kind = "tool"
  /\ rowKey' = OwnRow
  /\ IF OwnRow \notin DOMAIN ledger
       THEN Insert(OwnRow) /\ pc' = "execute"
       ELSE pc' = "wait" /\ UNCHANGED ledger
  /\ UNCHANGED <<script, status, events, checkpoint, snapshot, saved, request, frontier, answer,
                 client, history>>

(* The executor succeeds, or fails for good. *)
Execute ==
  /\ pc = "execute"
  /\ \E ok \in BOOLEAN :
       /\ answer' = [step |-> request.step, ok |-> ok]
       /\ toolRuns' = [toolRuns EXCEPT ![request.step] = IF ok THEN @ + 1 ELSE @]
  /\ Goto("resolve")
  /\ UNCHANGED <<store, client, modelCalls, answered, crashes>>

Resolved(row, ok) == [row EXCEPT !.status = IF ok THEN "succeeded" ELSE "failed"]
Resolve ==
  /\ pc = "resolve"
  /\ ledger' = [ledger EXCEPT ![rowKey] = Resolved(@, answer.ok)]
  /\ Goto("record")
  /\ UNCHANGED <<script, status, events, checkpoint, snapshot, saved, answer, client, history>>

(* A key the harness sent is not of its session: a daemon of another session *)
(* may have won the insert, and resolves the row in its own time.            *)
BeginElsewhere ==
  \E i \in Step :
    LET r == <<script[i].name, [from |-> "own", n |-> script[i].key]>> IN
    /\ script[i].kind = "tool" /\ script[i].key > 0 /\ r \notin DOMAIN ledger
    /\ ledger' = [x \in DOMAIN ledger \cup {r} |->
                    IF x = r THEN [status |-> "pending", gate |-> "elsewhere", step |-> i]
                             ELSE ledger[x]]
    /\ UNCHANGED <<script, status, events, checkpoint, snapshot, saved, daemon, client, history>>
ResolveElsewhere(r) ==
  /\ ledger[r].status = "pending" /\ ledger[r].gate = "elsewhere"
  /\ \E ok \in BOOLEAN :
       /\ ledger' = [ledger EXCEPT ![r] = Resolved(@, ok)]
       /\ toolRuns' = [toolRuns EXCEPT ![ledger[r].step] = IF ok THEN @ + 1 ELSE @]
  /\ UNCHANGED <<script, status, events, checkpoint, snapshot, saved, daemon, client,
                 modelCalls, answered, crashes>>

(* The loser waits for the row to become terminal. *)
AwaitRow ==
  /\ pc = "wait" /\ Terminal(ledger[rowKey])
  /\ answer' = RowAnswer(ledger[rowKey])
  /\ Goto("record")
  /\ UNCHANGED <<store, client, history>>

(* An ungated call's event is followed by a periodic checkpoint, a gated     *)
(* call's is not.                                                            *)
RecordEvent ==
  /\ pc = "record"
  /\ Record(Asked.kind, answer)
  /\ Goto(IF Asked.kind = "gated" THEN "reply" ELSE "post")
  /\ UNCHANGED <<script, status, checkpoint, snapshot, ledger, saved, answer, client, history>>

SendReply ==
  /\ pc = "reply"
  /\ Reply(answer)
  /\ UNCHANGED <<store, frontier>>

-----------------------------------------------------------------------------
(* park_for_approval and finish_parked_tool_call *)

(* The gated call is admitted under session:(count + 1), whatever idem_key   *)
(* the harness sent.                                                         *)
BeginParked ==
  LET r == <<Asked.name, [from |-> "seq", n |-> RowCount + 1]>> IN
  /\ pc = "live" /\ Asked.kind = "gated"
  /\ Insert(r)
  /\ rowKey' = r
  /\ pc' = "flag"
  /\ UNCHANGED <<script, status, events, checkpoint, snapshot, saved, request, frontier, answer,
                 client, history>>
FlagRow ==
  /\ pc = "flag"
  /\ ledger' = [ledger EXCEPT ![rowKey].gate = "parked"]
  /\ Goto("suspend")
  /\ UNCHANGED <<script, status, events, checkpoint, snapshot, saved, answer, client, history>>
Suspend ==
  /\ pc = "suspend"
  /\ status' = "awaiting_approval"
  /\ Goto("parked")
  /\ UNCHANGED <<script, events, checkpoint, snapshot, ledger, saved, answer, client, history>>
Unpark ==
  /\ pc = "parked" /\ Terminal(ledger[rowKey])
  /\ status' = "running"
  /\ answer' = RowAnswer(ledger[rowKey])
  /\ Goto("record")
  /\ UNCHANGED <<script, events, checkpoint, snapshot, ledger, saved, client, history>>

(* `cybersin approve` and `cybersin deny`, from a process of their own. *)
Approve(r) ==
  /\ ledger[r].status = "pending" /\ ledger[r].gate = "parked"
  /\ ledger' = [ledger EXCEPT ![r].gate = "approved"]
  /\ status' = "running"
  /\ UNCHANGED <<script, events, checkpoint, snapshot, saved, daemon, client, history>>
ExecuteApproved(r) ==
  /\ ledger[r].status = "pending" /\ ledger[r].gate = "approved"
  /\ \E ok \in BOOLEAN :
       /\ ledger' = [ledger EXCEPT ![r] = Resolved(@, ok)]
       /\ toolRuns' = [toolRuns EXCEPT ![ledger[r].step] = IF ok THEN @ + 1 ELSE @]
  /\ UNCHANGED <<script, status, events, checkpoint, snapshot, saved, daemon, client,
                 modelCalls, answered, crashes>>
Deny_OnlyClears(r) ==                      \* mutant: the row is left pending
  /\ ledger[r].status = "pending" /\ ledger[r].gate = "parked"
  /\ ledger' = [ledger EXCEPT ![r].gate = "open"]
  /\ status' = "running"
  /\ UNCHANGED <<script, events, checkpoint, snapshot, saved, daemon, client, history>>
Deny(r) ==
  /\ ledger[r].status = "pending" /\ ledger[r].gate = "parked"
  /\ ledger' = [ledger EXCEPT ![r] = [Resolved(@, FALSE) EXCEPT !.gate = "open"]]
  /\ status' = "running"
  /\ UNCHANGED <<script, events, checkpoint, snapshot, saved, daemon, client, history>>

-----------------------------------------------------------------------------
(* Crash and resume *)

(* The daemon and the harness lose what they had in memory. *)
Lose ==
  /\ crashes < MaxCrashes
  /\ crashes' = crashes + 1
  /\ pc' = "down" /\ request' = NoRequest /\ frontier' = NoFrontier
  /\ rowKey' = <<>> /\ answer' = NoAnswer
  /\ position' = 1 /\ sent' = 0 /\ harness' = "ready"
  /\ UNCHANGED <<modelCalls, toolRuns, answered>>
Crash ==
  /\ pc \notin {"down", "done"}
  /\ Lose
  /\ UNCHANGED store

(* The harness goes away while the daemon waits for a message: run ends and   *)
(* records it.                                                               *)
Disconnect ==
  /\ pc = "recv"
  /\ Lose
  /\ status' = "aborted"
  /\ UNCHANGED <<script, events, checkpoint, snapshot, ledger, saved>>

(* run_resume with resume_with_payload: it needs a checkpoint, and the       *)
(* snapshot paired with the latest one; the harness is given the state it    *)
(* stored.                                                                   *)
Resume ==
  /\ pc = "down" /\ status \notin {"absent", "completed"}
  /\ checkpoint # NoCheckpoint /\ snapshot # "missing"
  /\ status' = "running"
  /\ position' = saved + 1
  /\ pc' = "recv"
  /\ UNCHANGED <<script, events, checkpoint, snapshot, ledger, saved, request, frontier, rowKey,
                 answer, sent, harness, history>>

Harness == Request \/ Advance \/ Complete
Replaying == ReplayEvent \/ ReplayRow \/ ParkUnfinished \/ GoLive
Checkpointing == PreCheckpoint \/ PeriodicCheckpoint \/ CopyWorkspace \/ SnapshotDone
Serving == \/ ModelAnswers \/ ModelFails \/ BeginCall \/ Execute \/ Resolve \/ AwaitRow
           \/ RecordEvent \/ SendReply \/ BeginParked \/ FlagRow \/ Suspend \/ Unpark
Daemon == Start \/ Finish \/ Replaying \/ Checkpointing \/ Serving
Operator == \E r \in DOMAIN ledger : Approve(r) \/ Deny(r) \/ ExecuteApproved(r)
Elsewhere == \E r \in DOMAIN ledger : ResolveElsewhere(r)

Next == \/ Harness \/ Daemon \/ Crash \/ Disconnect \/ Resume \/ Operator
        \/ BeginElsewhere \/ Elsewhere
Spec == Init /\ [][Next]_vars

(* The daemon's loop and the harness go on by themselves; a human decides    *)
(* every parked call and resumes a session that can be resumed; the other     *)
(* sessions' daemons do not die.                                             *)
FairSpec == /\ Spec
            /\ WF_vars(Harness) /\ WF_vars(Daemon)
            /\ WF_vars(Resume) /\ WF_vars(Operator) /\ WF_vars(Elsewhere)

-----------------------------------------------------------------------------
(* Properties *)

Row == Name \X Key
Event == [kind : Kind, name : Name, args : {script[i].args : i \in Step},
          key : Nat, step : Step, ok : BOOLEAN]
Label == {"none", "pre-llm", "pre-tool", "periodic"}

(* Type correctness of the store, the daemon and the harness. *)
TypeOK ==
  /\ script \in Scripts
  /\ status \in {"absent", "running", "awaiting_approval", "awaiting_dead_letter", "aborted",
                "completed"}
  /\ events \in Seq(Event)
  /\ checkpoint \in [label : Label, covers : 0..Len(events)] \cup {NoCheckpoint}
  /\ snapshot \in {"missing", "partial", "complete"}
  /\ IsFiniteSet(DOMAIN ledger) /\ DOMAIN ledger \subseteq Row
  /\ \A r \in DOMAIN ledger :
       ledger[r] \in [status : {"pending", "succeeded", "failed"},
                      gate : {"open", "parked", "approved", "elsewhere"}, step : Step]
  /\ saved \in Step \cup {0}
  /\ request \in [step : Step \cup {0}, id : Nat]
  /\ frontier \in [known : BOOLEAN, label : Label, events : Seq(Event)]
  /\ pc \in {"wait", "execute", "resolve", "flag", "suspend", "parked"}
       => rowKey \in DOMAIN ledger
  /\ answer \in Answers \cup {NoAnswer}
  /\ position \in 1..(Len(script) + 1)
  /\ harness \in {"ready", "waiting", "replied"}
  /\ sent \in Nat
  /\ modelCalls \in [Step -> Nat] /\ toolRuns \in [Step -> Nat]
  /\ answered \in [Step -> Answers \cup {NoAnswer}]

(* A tool call the daemon does not gate has its side effect at most once,    *)
(* wherever the daemon dies and however often the harness asks again         *)
(* (cybersin-spec.md 8.1: calls found succeeded return memoized results).    *)
ToolRunsOnce == \A i \in Step : script[i].kind = "tool" => toolRuns[i] <= 1

(* The harness gets for a request what that very request produced: replay    *)
(* never answers it from another call's event or row.                        *)
RepliesAreOwn == \A i \in Step : answered[i] # NoAnswer => answered[i].step = i

(* What the log holds after the checkpoint a session is first resumed from is*)
(* replayed, not done again (session.rs, the *_after_checkpoint_is_not_*     *)
(* tests), wherever the daemon died and whatever the harness had stored.     *)
DoneAgain == \E n \in 1..Len(frontier.events) : frontier.events[n].step = request.step
FrontierIsReplayed == pc = "live" /\ crashes <= 1 => ~DoneAgain

(* A session that has a checkpoint survives its crashes: it is resumed and   *)
(* completes, once a human has decided what it parked.  It is claimed for    *)
(* scripts without ungated calls, whose rows may stay pending for ever, and  *)
(* unless the daemon dies between a checkpoint's row and its snapshot.       *)
Settled == \A i \in Step : script[i].kind # "tool"
SessionCompletes ==
  Settled /\ checkpoint # NoCheckpoint
    ~> pc = "done" \/ (pc = "down" /\ snapshot = "missing")

-----------------------------------------------------------------------------
(* Expectations of the comments and documents that the code does not meet.   *)

(* A gated call runs at most once: one approval, one side effect             *)
(* (session.rs:851, an approval resolves the call identically whether the    *)
(* task is still running or not).                                            *)
GatedRunsOnce == \A i \in Step : script[i].kind = "gated" => toolRuns[i] <= 1

(* A response that was recorded is never inferred again (cybersin-spec.md    *)
(* 8.1: LLM responses flow through recorded events).                         *)
RecordedResponseIsReused ==
  [][\A i \in Step :
       modelCalls'[i] # modelCalls[i] => \A n \in 1..Len(events) : events[n].step # i]_vars

(* session.rs:1067: whatever was recorded after the checkpoint is replayed;   *)
(* after a second crash an event that is not asked for hides those behind it. *)
EveryResumeReplays == pc = "live" => ~DoneAgain

(* The latest checkpoint of a dead session has its whole workspace snapshot  *)
(* (cybersin-spec.md 8.4: resume restores the paired snapshot).              *)
CheckpointHasSnapshot == pc = "down" => snapshot = "complete"

(* run.rs:467: a completed session is over, a new run is to be started.      *)
CompletedIsFinal == [][status = "completed" => status' = "completed"]_vars

(* session.rs: an unfinished read or write call of a crashed daemon is       *)
(* answered after the resume.                                                *)
RequestsAreAnswered == harness = "waiting" ~> harness # "waiting"

-----------------------------------------------------------------------------
(* The inductive invariants behind ToolRunsOnce and RepliesAreOwn, for        *)
(* harnesses that send the same call_id whenever they come to a step.         *)

(* The row a request of a step is admitted under.                             *)
StepKey(i) == IF script[i].key > 0 THEN [from |-> "own", n |-> script[i].key]
                                   ELSE [from |-> "call", n |-> i]
StepRow(i) == <<script[i].name, StepKey(i)>>
Serves == pc \notin {"down", "recv", "finish", "done"}

(* The daemon serves a step of the script, and has its answer once it records *)
(* it; the harness is at a step, and gone with a daemon that is down.         *)
ServingInv ==
  /\ Serves => request.step \in Step /\ harness # "ready"
  /\ pc \in {"resolve", "record", "post", "post_snapshot", "reply"} => answer # NoAnswer
  /\ harness # "ready" => position \in Step
  /\ pc = "down" => harness = "ready"

(* A row is of the step that inserted it: an ungated one is the step's own    *)
(* row, and only a gated one is ever parked.                                  *)
RowsInv ==
  \A r \in DOMAIN ledger :
    LET i == ledger[r].step IN
    /\ r[2].from # "seq" => script[i].kind = "tool" /\ r = StepRow(i)
    /\ r[2].from = "seq" => script[i].kind = "gated"
    /\ ledger[r].gate \in {"parked", "approved"} => r[2].from = "seq"

(* The daemon serves the step it was asked for, and holds the row of it; what *)
(* it waits for may be another step's.                                        *)
DaemonInv ==
  /\ Serves => request.id = request.step
  /\ pc \in {"execute", "resolve", "wait"} => Asked.kind = "tool" /\ rowKey = OwnRow
  /\ pc \in {"flag", "suspend", "parked"} => rowKey[2].from = "seq"
  /\ pc \in {"execute", "resolve", "flag", "suspend", "parked"}
       => ledger[rowKey].step = request.step
  /\ pc \in {"execute", "resolve"}
       => ledger[rowKey].status = "pending" /\ ledger[rowKey].gate = "open"

(* A step that ran has its row; while that row is still to be run, it has not.*)
ToRun(i) ==
  LET row == RowAt(StepRow(i)) IN
  \/ row.step # i
  \/ row.gate = "elsewhere" /\ row.status = "pending"
  \/ pc = "execute" /\ request.step = i
RunsInv ==
  \A i \in Step : script[i].kind = "tool" => /\ toolRuns[i] <= 1
                                             /\ ToRun(i) => toolRuns[i] = 0

(* When no two steps of a script can be taken for each other, the log and     *)
(* what is left to replay hold what each step itself was answered.            *)
SameRequest(s, i, j) ==
  /\ (s[i].kind = "llm") = (s[j].kind = "llm")
  /\ s[i].name = s[j].name /\ s[i].args = s[j].args
  /\ s[i].kind = "tool" => s[i].key = s[j].key
SameRow(s, i, j) ==
  /\ s[i].kind = "tool" /\ s[j].kind # "llm"
  /\ s[i].name = s[j].name /\ s[i].key > 0 /\ s[i].key = s[j].key
Distinguishable ==
  \A s \in Scripts : \A i, j \in 1..Len(s) : i # j => ~SameRequest(s, i, j) /\ ~SameRow(s, i, j)
OwnEvent ==
  {e \in Event : LET asked == script[e.step] IN
     e.kind = asked.kind /\ e.name = asked.name /\ e.args = asked.args /\ e.key = asked.key}
EventsInv == events \in Seq(OwnEvent) /\ frontier.events \in Seq(OwnEvent)
AnswerInv ==
  /\ pc = "ledger" => Asked.kind # "llm"
  /\ pc \in {"resolve", "record", "post", "post_snapshot", "reply"} => answer.step = request.step

(* A daemon's first life leaves at most one event beyond its checkpoint, and  *)
(* an event that heads the frontier is not the one that a live request asks   *)
(* for.                                                                       *)
Beyond == Len(events) - (IF checkpoint = NoCheckpoint THEN 0 ELSE checkpoint.covers)
FrontierInv ==
  /\ crashes \in Nat
  /\ Serves /\ pc # "replay" => frontier.known
  /\ pc \in {"ledger", "pre", "pre_snapshot", "live"} /\ frontier.events # <<>>
       => ~Matches(Head(frontier.events))
  /\ crashes = 0 =>
       /\ frontier.label = "none" /\ frontier.events = <<>> /\ Beyond <= 1
       /\ ~frontier.known => events = <<>> /\ checkpoint = NoCheckpoint
       /\ pc \in {"pre_snapshot", "live", "execute", "resolve", "wait", "flag", "suspend", "parked",
                  "record"} => Beyond = 0
  /\ crashes = 1 => Len(frontier.events) <= 1 /\ (~frontier.known => Beyond <= 1)
=============================================================================
