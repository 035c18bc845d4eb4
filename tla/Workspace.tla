----------------------------- MODULE Workspace -----------------------------
(***************************************************************************)
(* The workspace of one session whose tools have sandbox.scope: session:   *)
(* WorkspaceStore and Workspace (cybersin-sandbox), SandboxToolExecutor    *)
(* (tool_executor.rs), the snapshots that RuntimeDaemon pairs with its     *)
(* checkpoints and the restore of SessionSupervisor.  Executors take the   *)
(* session's file lock; snapshots and restores do not.  Directories are    *)
(* copied and cleared file by file, and a process dies between two files.  *)
(*                                                                         *)
(* After a resume the harness goes on with its next call: what replay      *)
(* answers changes no file, and is SessionReplay's.                        *)
(***************************************************************************)
EXTENDS Integers, FiniteSets

CONSTANTS
  Operator,      \* processes of `cybersin approve` and `cybersin dlq retry`
  Asset,         \* the files of dist/tools
  Environments,  \* what may happen in a behaviour: subsets of Circumstance
  MaxCalls,      \* bound: tool calls
  MaxCrashes,    \* bound: crashes
  Daemon, None   \* the daemon's process; nobody

(* "operator": gated calls, approved or retried by another process;          *)
(* "crash": processes die, while they neither run a container nor write a    *)
(* snapshot; "tear": while a snapshot is written; "orphan": while a          *)
(* container runs, which nobody stops.                                       *)
Circumstance == {"operator", "crash", "tear", "orphan"}
Proc == Operator \cup {Daemon}
Call == 1..MaxCalls
File == Asset \cup Call                   \* a call's file is what its tool makes

ASSUME NameAssumption == Daemon \notin Operator /\ None \notin Proc /\ Asset \cap Nat = {}
ASSUME EnvironmentAssumption == \A e \in Environments : e \subseteq Circumstance
ASSUME BoundAssumption == MaxCalls \in Nat /\ MaxCrashes \in Nat

VARIABLES
  env,       \* the member of Environments of this behaviour; never changes
  dir,       \* does the workspace directory exist?
  files,     \* its files but args.json
  args,      \* the call whose arguments args.json holds, 0 if there is none
  lock,      \* who holds the session's file lock
  running,   \* the calls whose container runs in the workspace
  label,     \* the label of the latest checkpoint
  snapshot,  \* its snapshot: is the directory there, what is in it, is it whole
  ledger,    \* call -> its tool_calls status
  calls,     \* how many calls the harness has made
  pc,        \* the next step of each process
  call,      \* the call it is about, 0 if none
  goal,      \* what the daemon does after its checkpoint
  covered,   \* the daemon's replay frontier has the label pre-tool
  fresh,     \* Workspace::is_fresh of the executor's workspace
  taken,     \* history: the workspace's files when the checkpoint's row was inserted
  crashes    \* history

workspace == <<dir, files, args, lock, running>>
store == <<label, snapshot, ledger>>
local == <<pc, call, goal, covered, fresh>>
vars == <<env, workspace, store, calls, local, taken, crashes>>

NoSnapshot == [made |-> FALSE, files |-> {}, whole |-> FALSE]

Init ==
  /\ env \in Environments
  /\ dir = FALSE /\ files = {} /\ args = 0 /\ lock = None /\ running = {}
  /\ label = "none" /\ snapshot = NoSnapshot
  /\ ledger = [c \in Call |-> "absent"] /\ calls = 0
  /\ pc = [p \in Proc |-> IF p = Daemon THEN "recv" ELSE "idle"]
  /\ call = [p \in Proc |-> 0] /\ goal = "recv" /\ covered = FALSE
  /\ fresh = [p \in Proc |-> FALSE]
  /\ taken = {} /\ crashes = 0

At(p, step) == pc[p] = step
Goto(p, step) == pc' = [pc EXCEPT ![p] = step]

-----------------------------------------------------------------------------
(* The daemon's requests and checkpoints *)

(* The harness asks for a model call or a checkpoint, or for a tool call,    *)
(* before which the daemon takes a checkpoint unless it resumed from one     *)
(* with the same label.                                                      *)
ToolRequest ==
  /\ At(Daemon, "recv") /\ calls < MaxCalls
  /\ calls' = calls + 1 /\ call' = [call EXCEPT ![Daemon] = calls']
  /\ goal' \in {"begin"} \cup (IF "operator" \in env THEN {"park"} ELSE {})
  /\ covered' = FALSE
  /\ Goto(Daemon, IF covered THEN goal' ELSE "row")
  /\ UNCHANGED <<env, workspace, store, fresh, taken, crashes>>
OtherRequest ==
  /\ At(Daemon, "recv")
  /\ goal' = "recv" /\ covered' = FALSE
  /\ Goto(Daemon, "row")
  /\ UNCHANGED <<env, workspace, store, calls, call, fresh, taken, crashes>>

(* create_checkpoint: the row; open, which creates the workspace; the        *)
(* snapshot's directory, and its files.                                      *)
InsertRow ==
  /\ At(Daemon, "row")
  /\ label' = IF goal = "recv" THEN "other" ELSE "pre-tool"
  /\ snapshot' = NoSnapshot /\ taken' = files
  /\ Goto(Daemon, "open")
  /\ UNCHANGED <<env, workspace, ledger, calls, call, goal, covered, fresh, crashes>>
OpenForSnapshot ==
  /\ At(Daemon, "open")
  /\ dir' = TRUE
  /\ snapshot' = [snapshot EXCEPT !.made = TRUE]
  /\ Goto(Daemon, "copy")
  /\ UNCHANGED <<env, files, args, lock, running, label, ledger, calls, call, goal,
                 covered, fresh, taken, crashes>>
CopyOut ==
  /\ At(Daemon, "copy")
  /\ \E f \in files \ snapshot.files :
       snapshot' = [snapshot EXCEPT !.files = @ \cup {f}]
  /\ UNCHANGED <<env, workspace, label, ledger, calls, local, taken, crashes>>
CopiedOut_Early ==                         \* mutant: done before every file is copied
  /\ At(Daemon, "copy")
  /\ snapshot' = [snapshot EXCEPT !.whole = TRUE]
  /\ Goto(Daemon, goal)
  /\ UNCHANGED <<env, workspace, label, ledger, calls, call, goal, covered, fresh, taken,
                 crashes>>
CopiedOut ==
  /\ At(Daemon, "copy") /\ files \subseteq snapshot.files
  /\ snapshot' = [snapshot EXCEPT !.whole = TRUE]
  /\ Goto(Daemon, goal)
  /\ UNCHANGED <<env, workspace, label, ledger, calls, call, goal, covered, fresh,
                 taken, crashes>>

-----------------------------------------------------------------------------
(* The ledger *)

Begin ==
  /\ At(Daemon, "begin")
  /\ ledger' = [ledger EXCEPT ![call[Daemon]] = "pending"]
  /\ Goto(Daemon, "lock")
  /\ UNCHANGED <<env, workspace, label, snapshot, calls, call, goal, covered, fresh,
                 taken, crashes>>
Park ==
  /\ At(Daemon, "park")
  /\ ledger' = [ledger EXCEPT ![call[Daemon]] = "parked"]
  /\ Goto(Daemon, "parked")
  /\ UNCHANGED <<env, workspace, label, snapshot, calls, call, goal, covered, fresh,
                 taken, crashes>>
(* A gated call is answered without a periodic checkpoint. *)
Unpark ==
  /\ At(Daemon, "parked") /\ ledger[call[Daemon]] \in {"succeeded", "failed"}
  /\ Goto(Daemon, "recv")
  /\ UNCHANGED <<env, workspace, store, calls, call, goal, covered, fresh, taken, crashes>>

(* approve takes a parked call and dlq retry a failed one; deny fails it. *)
Take(o) ==
  /\ "operator" \in env /\ At(o, "idle")
  /\ \E c \in Call :
       /\ ledger[c] \in {"parked", "failed"}
       /\ ledger' = [ledger EXCEPT ![c] = "pending"]
       /\ call' = [call EXCEPT ![o] = c]
  /\ Goto(o, "lock")
  /\ UNCHANGED <<env, workspace, label, snapshot, calls, goal, covered, fresh, taken,
                 crashes>>
Deny ==
  /\ \E c \in Call : ledger[c] = "parked" /\ ledger' = [ledger EXCEPT ![c] = "failed"]
  /\ UNCHANGED <<env, workspace, label, snapshot, calls, local, taken, crashes>>

-----------------------------------------------------------------------------
(* SandboxToolExecutor::execute *)

(* lock_session, then open: the workspace is fresh if open created it. *)
Lock_Never(p) ==                           \* mutant: the lock is not awaited
  /\ At(p, "lock")
  /\ lock' = p /\ dir' = TRUE
  /\ fresh' = [fresh EXCEPT ![p] = ~dir]
  /\ Goto(p, "prepare")
  /\ UNCHANGED <<env, files, args, running, store, calls, call, goal, covered, taken, crashes>>
Lock(p) ==
  /\ At(p, "lock") /\ lock = None
  /\ lock' = p /\ dir' = TRUE
  /\ fresh' = [fresh EXCEPT ![p] = ~dir]
  /\ Goto(p, "prepare")
  /\ UNCHANGED <<env, files, args, running, store, calls, call, goal, covered, taken, crashes>>

(* The assets of a fresh workspace, args.json, and the container. *)
Prepare(p) ==
  /\ At(p, "prepare")
  /\ files' = files \cup (IF fresh[p] THEN Asset ELSE {})
  /\ args' = call[p]
  /\ running' = running \cup {call[p]}
  /\ Goto(p, "exec")
  /\ UNCHANGED <<env, dir, lock, store, calls, call, goal, covered, fresh, taken, crashes>>

(* The tool writes its file, whoever waits for it. *)
ToolWrites ==
  /\ \E c \in running : c \notin files /\ files' = files \cup {c}
  /\ UNCHANGED <<env, dir, args, lock, running, store, calls, local, taken, crashes>>

(* The container ends and the lock is dropped.  A failure is retried within  *)
(* the retry class, or recorded; a success needs the tool's file.            *)
Exit(p) ==
  /\ At(p, "exec")
  /\ running' = running \ {call[p]}
  /\ lock' = None
  /\ \/ call[p] \in files /\ Goto(p, "succeeded")
     \/ Goto(p, "failed")
     \/ Goto(p, "lock")
  /\ UNCHANGED <<env, dir, files, args, store, calls, call, goal, covered, fresh, taken,
                 crashes>>

(* resolve_tool_call; then the daemon takes its periodic checkpoint. *)
Resolve(p) ==
  /\ pc[p] \in {"succeeded", "failed"}
  /\ ledger' = [ledger EXCEPT ![call[p]] = pc[p]]
  /\ Goto(p, IF p = Daemon THEN "row" ELSE "idle")
  /\ goal' = IF p = Daemon THEN "recv" ELSE goal
  /\ UNCHANGED <<env, workspace, label, snapshot, calls, call, covered, fresh, taken,
                 crashes>>

(* A container that outlived its process ends. *)
OrphanExits ==
  /\ \E c \in running : /\ \A p \in Proc : At(p, "exec") => call[p] # c
                        /\ running' = running \ {c}
  /\ UNCHANGED <<env, dir, files, args, lock, store, calls, local, taken, crashes>>

-----------------------------------------------------------------------------
(* Crash and resume *)

MayDie(p) == CASE At(p, "exec") -> "orphan" \in env
               [] pc[p] \in {"open", "copy"} -> "tear" \in env
               [] OTHER -> "crash" \in env
(* The lock goes with the process that holds it. *)
Crash(p) ==
  /\ pc[p] \notin {"down", "idle"} /\ MayDie(p) /\ crashes < MaxCrashes
  /\ crashes' = crashes + 1
  /\ lock' = IF lock = p THEN None ELSE lock
  /\ Goto(p, IF p = Daemon THEN "down" ELSE "idle")
  /\ call' = [call EXCEPT ![p] = 0]
  /\ UNCHANGED <<env, dir, files, args, running, store, calls, goal, covered, fresh, taken>>

(* resume_with_payload: the latest checkpoint's snapshot, which must be a    *)
(* directory, replaces what is in the workspace.                             *)
Resume ==
  /\ At(Daemon, "down") /\ snapshot.made
  /\ dir' = TRUE
  /\ Goto(Daemon, "clear")
  /\ UNCHANGED <<env, files, args, lock, running, store, calls, call, goal, covered, fresh,
                 taken, crashes>>
ClearOne ==
  /\ At(Daemon, "clear")
  /\ \/ args # 0 /\ args' = 0 /\ UNCHANGED files
     \/ \E f \in files : files' = files \ {f} /\ UNCHANGED args
  /\ UNCHANGED <<env, dir, lock, running, store, calls, local, taken, crashes>>
Cleared_Early ==                           \* mutant: the snapshot is copied over what is there
  /\ At(Daemon, "clear")
  /\ Goto(Daemon, "fill")
  /\ UNCHANGED <<env, workspace, store, calls, call, goal, covered, fresh, taken, crashes>>
Cleared ==
  /\ At(Daemon, "clear") /\ files = {} /\ args = 0
  /\ Goto(Daemon, "fill")
  /\ UNCHANGED <<env, workspace, store, calls, call, goal, covered, fresh, taken, crashes>>
CopyIn ==
  /\ At(Daemon, "fill")
  /\ \E f \in snapshot.files \ files : files' = files \cup {f}
  /\ UNCHANGED <<env, dir, args, lock, running, store, calls, local, taken, crashes>>
CopiedIn ==
  /\ At(Daemon, "fill") /\ snapshot.files \subseteq files
  /\ covered' = (label = "pre-tool")
  /\ Goto(Daemon, "recv")
  /\ UNCHANGED <<env, workspace, store, calls, call, goal, fresh, taken, crashes>>

Checkpointing == InsertRow \/ OpenForSnapshot \/ CopyOut \/ CopiedOut
Restoring == Resume \/ ClearOne \/ Cleared \/ CopyIn \/ CopiedIn
Executing(p) == Lock(p) \/ Prepare(p) \/ Exit(p) \/ Resolve(p)

Next ==
  \/ ToolRequest \/ OtherRequest \/ Begin \/ Park \/ Unpark \/ Deny
  \/ Checkpointing \/ Restoring \/ ToolWrites \/ OrphanExits
  \/ \E o \in Operator : Take(o)
  \/ \E p \in Proc : Executing(p) \/ Crash(p)

Spec == Init /\ [][Next]_vars

-----------------------------------------------------------------------------
(* Properties *)

Label == {"recv", "row", "open", "copy", "begin", "park", "parked", "lock", "prepare", "exec",
          "succeeded", "failed", "down", "clear", "fill", "idle"}
TypeOK ==
  /\ env \in Environments /\ dir \in BOOLEAN /\ files \subseteq File
  /\ args \in Call \cup {0} /\ lock \in Proc \cup {None} /\ running \subseteq Call
  /\ label \in {"none", "pre-tool", "other"} /\ taken \subseteq File
  /\ snapshot \in [made : BOOLEAN, files : SUBSET File, whole : BOOLEAN]
  /\ ledger \in [Call -> {"absent", "pending", "parked", "succeeded", "failed"}]
  /\ pc \in [Proc -> Label] /\ call \in [Proc -> Call \cup {0}]
  /\ goal \in {"recv", "begin", "park"} /\ covered \in BOOLEAN
  /\ fresh \in [Proc -> BOOLEAN] /\ calls \in 0..MaxCalls /\ crashes \in 0..MaxCrashes

(* Only one session-scoped tool runs at a time, with its own arguments       *)
(* (tool_executor.rs, concurrent_session_calls_are_serialized_and_keep_      *)
(* their_own_arguments), whoever runs it.  A container that outlives its     *)
(* process does not hold the lock, and a daemon that is resumed while an     *)
(* operator's tool runs takes its arguments away.                            *)
ToolsAreAlone ==
  "orphan" \notin env =>
    /\ Cardinality(running) <= 1
    /\ "operator" \notin env \/ env \cap {"crash", "tear"} = {} => running \subseteq {args}

(* A resumed daemon serves from the workspace of its latest checkpoint,      *)
(* wherever the daemons before it died, in a restore or not                  *)
(* (cybersin-spec.md 8.4: resume restores the paired snapshot); as long as   *)
(* nobody else's tool runs and the snapshot was finished.                    *)
ResumeRestores ==
  [][At(Daemon, "fill") /\ At(Daemon, "recv")' /\ env \cap {"operator", "orphan"} = {}
       => files' = IF snapshot.whole THEN taken ELSE snapshot.files]_vars

(* A crash undoes the files of at most one call that the ledger goes on to   *)
(* answer: the checkpoints before and after each call bound what a restore   *)
(* takes away, if none is torn.                                              *)
Lost == {c \in Call : ledger[c] = "succeeded" /\ c \notin files}
LossIsBounded ==
  env \subseteq {"crash"} /\ At(Daemon, "recv") => Cardinality(Lost) <= crashes

-----------------------------------------------------------------------------
(* Expectations of the comments and documents that the code does not meet.   *)

(* A tool finds the assets of the project: they are seeded into a fresh      *)
(* workspace (tool_executor.rs:439), which the daemon's checkpoint has       *)
(* created before.                                                           *)
ToolsFindAssets == \A p \in Proc : At(p, "exec") => Asset \subseteq files

(* cybersin-spec.md 8.4: the snapshot is what makes the file effects of      *)
(* succeeded calls survive a crash.                                          *)
EffectsSurvive == At(Daemon, "recv") => Lost = {}

(* A finished snapshot is the workspace at the moment of its checkpoint.     *)
SnapshotIsMoment == snapshot.whole => snapshot.files = taken
=============================================================================
