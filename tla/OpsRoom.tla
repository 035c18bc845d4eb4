------------------------------ MODULE OpsRoom ------------------------------
(***************************************************************************)
(* `cybersin ops` (crates/cybersin-cli/src/commands/ops.rs): a terminal    *)
(* loop that draws a shared model and reads keys, a task that reloads the  *)
(* model every two seconds, a task that carries out the decisions of the   *)
(* Approvals tab with a gateway of its own, and a thread that runs agents. *)
(* A load reads agents/ first and the parked rows last, and replaces the   *)
(* model when it is done; who loads later may have read earlier.           *)
(*                                                                         *)
(* The Sessions, Traces and Cost pages and the status line are text.  The  *)
(* statements of a decision against another operator's are ToolGateway's:  *)
(* here another process decides a parked row in one step.                  *)
(***************************************************************************)
EXTENDS Integers, FiniteSets, SequencesExt

CONSTANTS
  Call,         \* tool calls that sessions park
  Agent,        \* the agent files there may be, in the order of their names
  Uses,         \* what happens in a behaviour: subsets of Use
  MaxRuns,      \* bound: runs asked for
  MaxDecisions(_)  \* bound: decisions confirmed in a behaviour of that use

(* "runs": agents/ has files and they are run; "edits": its files come, go and *)
(* are malformed for a while; "calls": calls are parked and decided here;      *)
(* "others": by other processes too; "unbuilt": dist/ may be missing.          *)
Use == {"runs", "edits", "calls", "others", "unbuilt"}
Loader == {"refresh", "action", "run"}

ASSUME UseAssumption == \A u \in Uses : u \subseteq Use
ASSUME AgentAssumption == Agent \subseteq Nat \ {0} /\ IsFiniteSet(Agent)
ASSUME BoundAssumption == MaxRuns \in Nat /\ \A u \in Uses : MaxDecisions(u) \in Nat

VARIABLES
  use,        \* the member of Uses of this behaviour; never changes
  rows,       \* tool_calls: "absent", "parked", "cleared" or how it was decided
  parked,     \* the rows awaiting approval, the newest first
  agents,     \* the files under agents/
  broken,     \* one of them does not parse
  shared,     \* OpsModel: the builds and the approvals that are drawn
  loaded,     \* what each loader has read
  pc,         \* the next step of each loader, and of the terminal loop
  ui,         \* its tab, its cursors, its pending confirmation
  drawn,      \* the last frame: the builds, the build and the call marked, how many calls, the question
  decisions,  \* the channel of GatewayActions, with the one at hand
  runs,       \* the channel of RunActions, with the one at hand
  requests,   \* history: how many of each there were
  confirmed,  \* history: the calls whose decision was confirmed
  ends,       \* history: how often each call was executed or denied
  strays      \* history: what was done and was not on the screen

table == <<rows, parked>>
project == <<agents, broken>>
terminal == <<ui, drawn>>
history == <<requests, confirmed, ends, strays>>
vars == <<use, table, project, shared, loaded, pc, terminal, decisions, runs, history>>

NoModel == [builds |-> <<>>, approvals |-> <<>>]
NoCall == "none"
Running == pc["ui"] # "quit"
Discovered == SetToSortSeq(agents, <)     \* discover_ops_builds
Goto(p, step) == pc' = [pc EXCEPT ![p] = step]

Init ==
  /\ use \in Uses
  /\ rows = [c \in Call |-> "absent"] /\ parked = <<>>
  /\ agents = (IF "runs" \in use THEN Agent ELSE {}) /\ broken = FALSE
  /\ shared = [builds |-> Discovered, approvals |-> parked]
  /\ loaded = [l \in Loader |-> NoModel]
  /\ pc = [p \in Loader \cup {"ui"} |->
             CASE p = "refresh" -> "builds" [] p = "ui" -> "draw" [] OTHER -> "recv"]
  /\ ui = [tab |-> "builds", build |-> 1, row |-> 1, pending |-> <<>>]
  /\ drawn = [builds |-> <<>>, agent |-> 0, rows |-> 0, call |-> NoCall, question |-> <<>>]
  /\ decisions = <<>> /\ runs = <<>>
  /\ requests = [runs |-> 0, decisions |-> 0] /\ confirmed = {} /\ ends = [c \in Call |-> 0] /\ strays = {}

-----------------------------------------------------------------------------
(* Loading a model *)

(* execute_ops_snapshot: discover_ops_builds, which fails on one malformed    *)
(* file, ..., list_awaiting_approval; what is read replaces the shared model. *)
Again(l) == IF l = "refresh" THEN "builds" ELSE "recv"
LoadBuilds(l) ==
  /\ Running /\ pc[l] = "builds" /\ ~broken
  /\ loaded' = [loaded EXCEPT ![l] = [builds |-> Discovered, approvals |-> <<>>]]
  /\ Goto(l, "rows")
  /\ UNCHANGED <<use, table, project, shared, terminal, decisions, runs, history>>
LoadFails(l) ==
  /\ Running /\ pc[l] = "builds" /\ broken
  /\ Goto(l, Again(l))
  /\ UNCHANGED <<use, table, project, shared, loaded, terminal, decisions, runs, history>>
LoadRows(l) ==
  /\ Running /\ pc[l] = "rows"
  /\ loaded' = [loaded EXCEPT ![l].approvals = parked]
  /\ Goto(l, "store")
  /\ UNCHANGED <<use, table, project, shared, terminal, decisions, runs, history>>
Store(l) ==
  /\ Running /\ pc[l] = "store"
  /\ shared' = loaded[l] /\ loaded' = [loaded EXCEPT ![l] = NoModel]
  /\ Goto(l, Again(l))
  /\ UNCHANGED <<use, table, project, terminal, decisions, runs, history>>
Load(l) == LoadBuilds(l) \/ LoadFails(l) \/ LoadRows(l) \/ Store(l)

-----------------------------------------------------------------------------
(* tui_loop: a frame, then a key or a quarter of a second *)

Least(i, n) == IF n = 0 THEN 1 ELSE IF i > n THEN n ELSE i
At(seq, i, default) == IF i \in DOMAIN seq THEN seq[i] ELSE default
Draw ==
  /\ Running
  /\ LET build == Least(ui.build, Len(shared.builds))
         row == Least(ui.row, Len(shared.approvals))
     IN  /\ ui' = [ui EXCEPT !.build = build, !.row = row]
         /\ drawn' = [builds |-> shared.builds, agent |-> At(shared.builds, build, 0),
                      rows |-> Len(shared.approvals),
                      call |-> At(shared.approvals, row, NoCall), question |-> ui.pending]
  /\ Goto("ui", "key")
  /\ UNCHANGED <<use, table, project, shared, loaded, decisions, runs, history>>

(* A key is read on the frame drawn and followed by a frame. *)
Press == pc["ui"] = "key" /\ Goto("ui", "draw")
Choosing(tab) == Press /\ ui.pending = <<>> /\ ui.tab = tab
others == <<use, table, project, shared, loaded, drawn>>

SwitchTab(t) ==
  /\ Press /\ ui.pending = <<>>
  /\ ui' = [ui EXCEPT !.tab = t]
  /\ UNCHANGED <<others, decisions, runs, history>>
Moved(i, n) == {IF i = 1 THEN 1 ELSE i - 1, Least(i + 1, n)}
MoveBuild ==
  /\ Choosing("builds")
  /\ \E i \in Moved(ui.build, Len(drawn.builds)) : ui' = [ui EXCEPT !.build = i]
  /\ UNCHANGED <<others, decisions, runs, history>>
MoveRow ==
  /\ Choosing("approvals")
  /\ \E i \in Moved(ui.row, drawn.rows) : ui' = [ui EXCEPT !.row = i]
  /\ UNCHANGED <<others, decisions, runs, history>>
RequestRun ==
  /\ Choosing("builds") /\ "runs" \in use /\ requests.runs < MaxRuns
  /\ ui.build \in DOMAIN drawn.builds
  /\ LET agent == drawn.builds[ui.build]
     IN  /\ runs' = Append(runs, agent)
         /\ strays' = strays \cup (IF agent = drawn.agent THEN {} ELSE {"run"})
  /\ requests' = [requests EXCEPT !.runs = @ + 1]
  /\ UNCHANGED <<others, ui, decisions, confirmed, ends>>
(* approval_call_id: the row under the cursor in the model of this moment. *)
Ask(approve) ==
  /\ Choosing("approvals") /\ requests.decisions < MaxDecisions(use)
  /\ ui.row \in DOMAIN shared.approvals
  /\ LET call == shared.approvals[ui.row]
     IN  /\ ui' = [ui EXCEPT !.pending = <<[call |-> call, approve |-> approve]>>]
         /\ strays' = strays \cup (IF call = drawn.call THEN {} ELSE {"question"})
  /\ UNCHANGED <<others, decisions, runs, requests, confirmed, ends>>
Confirmed_Reread ==                       \* mutant: the row is looked up again on `y`
  IF ui.row \in DOMAIN shared.approvals
  THEN [ui.pending[1] EXCEPT !.call = shared.approvals[ui.row]] ELSE ui.pending[1]
Confirmed == ui.pending[1]
Confirm ==
  /\ Press /\ ui.pending # <<>> /\ requests.decisions < MaxDecisions(use)
  /\ decisions' = Append(decisions, Confirmed)
  /\ confirmed' = confirmed \cup {Confirmed.call}
  /\ strays' = strays \cup (IF <<Confirmed>> = drawn.question THEN {} ELSE {"decision"})
  /\ requests' = [requests EXCEPT !.decisions = @ + 1]
  /\ ui' = [ui EXCEPT !.pending = <<>>]
  /\ UNCHANGED <<others, runs, ends>>
Cancel ==
  /\ Press /\ ui.pending # <<>>
  /\ ui' = [ui EXCEPT !.pending = <<>>]
  /\ UNCHANGED <<others, decisions, runs, history>>
(* The tasks are aborted, and the thread goes with the process. *)
Quit ==
  /\ pc["ui"] = "key" /\ ui.pending = <<>>
  /\ Goto("ui", "quit")
  /\ UNCHANGED <<others, ui, decisions, runs, history>>

-----------------------------------------------------------------------------
(* run_gateway_actions, one decision at a time *)

Decision == Head(decisions)
local == <<use, project, shared, loaded, terminal, runs, requests, confirmed, strays>>

TakeDecision ==
  /\ Running /\ pc["action"] = "recv" /\ decisions # <<>>
  /\ Goto("action", "gateway")
  /\ UNCHANGED <<local, table, decisions, ends>>
Done == decisions' = Tail(decisions) /\ Goto("action", "builds")
GatewayFails ==
  /\ Running /\ pc["action"] = "gateway" /\ "unbuilt" \in use
  /\ Done
  /\ UNCHANGED <<local, table, ends>>
(* parked_row: a row that is decided already is an error. *)
Look_Unchecked ==                         \* mutant: a decided row is decided again
  /\ Running /\ pc["action"] = "gateway"
  /\ Goto("action", "clear") /\ UNCHANGED decisions
  /\ UNCHANGED <<local, table, ends>>
Look ==
  /\ Running /\ pc["action"] = "gateway"
  /\ IF rows[Decision.call] = "parked" THEN Goto("action", "clear") /\ UNCHANGED decisions
     ELSE Done
  /\ UNCHANGED <<local, table, ends>>
Without(c) == SelectSeq(parked, LAMBDA d : d # c)
Unpark(c, how) ==
  /\ rows' = [rows EXCEPT ![c] = IF @ = "parked" THEN how ELSE @]
  /\ parked' = Without(c)
Clear ==
  /\ Running /\ pc["action"] = "clear"
  /\ Unpark(Decision.call, "cleared")
  /\ Goto("action", "decide")
  /\ UNCHANGED <<local, decisions, ends>>
(* approve executes the call to its end; deny resolves it as failed. *)
Decide_DenyOnlyClears ==                  \* mutant: a denial leaves the row pending
  /\ Running /\ pc["action"] = "decide"
  /\ rows' = [rows EXCEPT ![Decision.call] = IF Decision.approve THEN "approved" ELSE @]
  /\ ends' = [ends EXCEPT ![Decision.call] = @ + 1]
  /\ Done
  /\ UNCHANGED <<local, parked>>
Decide ==
  /\ Running /\ pc["action"] = "decide"
  /\ rows' = [rows EXCEPT ![Decision.call] = IF Decision.approve THEN "approved" ELSE "denied"]
  /\ ends' = [ends EXCEPT ![Decision.call] = @ + 1]
  /\ Done
  /\ UNCHANGED <<local, parked>>

(* run_agents, one agent at a time *)
StartRun ==
  /\ Running /\ pc["run"] = "recv" /\ runs # <<>>
  /\ Goto("run", "session")
  /\ UNCHANGED <<others, ui, decisions, runs, history>>
EndRun ==
  /\ Running /\ pc["run"] = "session"
  /\ runs' = Tail(runs) /\ Goto("run", "builds")
  /\ UNCHANGED <<others, ui, decisions, history>>

(* Sessions park calls, other processes decide them, and agents/ is edited. *)
ours == <<use, shared, loaded, pc, terminal, decisions, runs, requests, confirmed, strays>>
Park(c) ==
  /\ "calls" \in use /\ rows[c] = "absent"
  /\ rows' = [rows EXCEPT ![c] = "parked"] /\ parked' = <<c>> \o parked
  /\ UNCHANGED <<ours, project, ends>>
DecideElsewhere(c) ==
  /\ "others" \in use /\ rows[c] = "parked"
  /\ Unpark(c, "elsewhere")
  /\ ends' = [ends EXCEPT ![c] = @ + 1]
  /\ UNCHANGED <<ours, project>>
EditAgents ==
  /\ "edits" \in use
  /\ \/ \E a \in Agent : agents' = SymDiff(agents, {a}) /\ broken' = (broken /\ agents' # {})
     \/ agents' = agents /\ broken' = (~broken /\ agents # {})
  /\ UNCHANGED <<ours, table, ends>>

Act == \E l \in Loader : Load(l)
Work == TakeDecision \/ GatewayFails \/ Look \/ Clear \/ Decide \/ StartRun \/ EndRun
Keys ==
  \/ \E t \in {"builds", "text", "approvals"} : SwitchTab(t)
  \/ MoveBuild \/ MoveRow \/ RequestRun \/ Confirm \/ Cancel \/ Quit
  \/ \E approve \in BOOLEAN : Ask(approve)
Environment == EditAgents \/ \E c \in Call : Park(c) \/ DecideElsewhere(c)
Next == Act \/ Work \/ Draw \/ Keys \/ Environment
Spec == Init /\ [][Next]_vars

(* The ticker ticks and a load ends; the task and the thread go on, and a    *)
(* tool or a session ends, as its limits demand: their work is bounded, so   *)
(* that one condition for both is enough.  Nobody has to press a key.        *)
FairSpec ==
  /\ Spec /\ WF_vars(Load("refresh"))
  /\ WF_vars(Work \/ Load("action") \/ Load("run"))

-----------------------------------------------------------------------------
(* What is decided and run is what the screen named when it was confirmed,    *)
(* whatever was loaded between two frames: the question names the call that   *)
(* `y` decides, and the highlighted agent is the one that Enter runs.         *)
ShownIsDone == strays \subseteq {"question"}

(* A call is executed or denied once, whatever is confirmed while the list    *)
(* still shows it; races with other processes are ToolGateway's.              *)
DecidedOnce == "others" \notin use => \A c \in Call : ends[c] <= 1

(* A call that no longer waits leaves the list for good, although a load that *)
(* read it earlier may bring it back for a while, once agents/ parses.        *)
DecidedLeaves ==
  \/ []<>broken
  \/ <>[](Running => \A c \in Call : c \in ToSet(shared.approvals) => rows[c] = "parked")

(* Who confirms a decision and stays gets it: the call is executed or denied. *)
Owed == "unbuilt" \notin use /\ \E c \in confirmed : rows[c] \in {"parked", "cleared"}
ConfirmedIsDecided == Owed ~> ~Running \/ ~Owed

-----------------------------------------------------------------------------
(* What the code's comments say and the code does not do. *)

(* ops.rs:766: re-read at press time, as a refresh can reorder the list: what  *)
(* is asked about is then another call than the one highlighted.               *)
QuestionIsHighlighted == "question" \notin strays

(* gateway.rs:327: approval runs the call to a normal terminal outcome; when   *)
(* the terminal is closed meanwhile the task is aborted and the row stays      *)
(* pending, listed nowhere.                                                    *)
ApprovalRunsToEnd ==
  \A c \in Call : rows[c] = "cleared" ~> rows[c] \in {"approved", "denied"}
=============================================================================
