---------------------------- MODULE SessionLease ----------------------------
(***************************************************************************)
(* Who drives a session: `cybersin run`, `run --resume [--force]`,         *)
(* `sessions resume | kill | migrate` and the decisions of an operator, for *)
(* one session (crates/cybersin-cli/src/commands/run.rs, sessions.rs,      *)
(* crates/cybersin-runtime/src/supervisor.rs, session.rs).                 *)
(*                                                                         *)
(* The lease is a heartbeat in the session's row.  Only the resume gate    *)
(* reads it, nothing claims it, and a daemon writes it once per message.   *)
(* Statements of different processes interleave; a process that is not     *)
(* idle may die before any of them.                                        *)
(***************************************************************************)
EXTENDS Integers, FiniteSets

CONSTANTS
  Proc,           \* processes that run `cybersin run`
  Environments,   \* sets of circumstances to study: subsets of Circumstance
  MaxCrashes,     \* bound: daemons that die, and harnesses that fail to start
  MaxMigrations   \* bound: migrations of the session

(* What may go on around a session: daemons that crash, or whose handling of *)
(* a message fails, --force, messages that take longer than the lease,       *)
(* harnesses that are silent for longer, or wait for signals and approvals,  *)
(* starts while another start is under way, denials whose last statement is  *)
(* late, `sessions resume`, which starts no daemon, kills.                   *)
Circumstance == {"crash", "fail", "force", "slow", "silent", "wait", "race", "deny",
                 "relabel", "kill"}
ASSUME EnvironmentAssumption == \A e \in Environments : e \subseteq Circumstance
ASSUME BoundAssumption == MaxCrashes \in Nat /\ MaxMigrations \in Nat

VARIABLES
  env,         \* the member of Environments of this behaviour; never changes
  status,      \* sessions.status, "absent" before the row exists
  beat,        \* sessions.last_heartbeat_unix_ms: "none", or its age
  hash,        \* sessions.config_hash: how often the session was migrated
  bundle,      \* is the pinned bundle in the store?
  harness,     \* did a run record its harness?  The built-in starter does not.
  checkpoint,  \* the latest checkpoint: "none", "whole", or who still copies its snapshot
  pc,          \* what each process does next
  seen,        \* config_hash as run_resume read it
  unheard,     \* messages a process served since its last heartbeat, at most 2
  call,        \* the gated call a process waits for
  orphan,      \* is a dead daemon's gated call undecided?
  denying,     \* has a deny resolved its call, but not written the session?
  ended,       \* history: sessions.status was "completed"
  crashes      \* history: counts deaths

pinned == <<hash, bundle, harness>>
session == <<status, beat, pinned, checkpoint>>
outside == <<orphan, denying>>
history == <<ended, crashes>>
vars == <<env, session, pc, seen, unheard, call, outside, history>>

(* is_terminal_session_status *)
TerminalStatus == {"completed", "aborted", "failed", "halted", "killed"}
Starting(p) == pc[p] \in {"create", "gated", "restore", "launch", "first"}
Driving(p) == pc[p] \in {"first", "loop", "recv", "busy", "copying", "waiting", "flagged",
                         "parked", "completed", "halted", "disconnected"}

Init ==
  /\ env \in Environments
  /\ status = "absent" /\ beat = "none" /\ hash = 0
  /\ bundle = FALSE /\ harness = FALSE /\ checkpoint = "none"
  /\ pc = [p \in Proc |-> "idle"]
  /\ seen = [p \in Proc |-> 0]
  /\ unheard = [p \in Proc |-> 0]
  /\ call = [p \in Proc |-> "none"]
  /\ orphan = FALSE /\ denying = FALSE /\ ended = FALSE /\ crashes = 0

Step(p, from, to) == pc[p] = from /\ pc' = [pc EXCEPT ![p] = to]
(* Starting a daemon is a check and then statements; in an environment       *)
(* without races nobody begins one before the others have their first        *)
(* heartbeat written.                                                        *)
MayStart == "race" \in env \/ \A q \in Proc : ~Starting(q)

-----------------------------------------------------------------------------
(* cybersin run: ensure_fresh_session_id, *)
RunCheck(p) ==
  /\ MayStart
  /\ status = "absent"
  /\ Step(p, "idle", "create")
  /\ UNCHANGED <<env, session, seen, unheard, call, outside, history>>

(* then start_session: INSERT OR IGNORE, and session.start to the harness.   *)
(* A live run has stored the bundle and its harness; the bundle of the        *)
(* built-in starter may have no hash.                                        *)
Create(p) ==
  /\ Step(p, "create", "first")
  /\ status' = IF status = "absent" THEN "running" ELSE status
  /\ harness' \in {harness, TRUE}
  /\ bundle' \in {bundle, TRUE}
  /\ UNCHANGED <<env, beat, hash, checkpoint, seen, unheard, call, outside, history>>

(* cybersin run --resume: resume_gate decides from the row as it is read, *)
Gate_Strict(force) ==                             \* mutant: only a session at work is resumed
  status = "running" /\ (force \/ beat # "fresh")
Gate(force) ==
  \/ status \in {"aborted", "failed"}
  \/ status = "running" /\ (force \/ beat # "fresh")
  \/ status \notin TerminalStatus \cup {"running", "absent"}
ResumeGate(p) ==
  /\ MayStart
  /\ \E force \in {FALSE} \cup {"force" \in env} : Gate(force)
  /\ Step(p, "idle", "gated")
  /\ seen' = [seen EXCEPT ![p] = hash]
  /\ UNCHANGED <<env, session, unheard, call, outside, history>>

(* needs the pinned bundle, a checkpoint and the command of the harness,     *)
ResumeChecks(p) ==
  /\ IF bundle /\ harness /\ checkpoint # "none"
       THEN Step(p, "gated", "restore")
       ELSE Step(p, "gated", "idle")
  /\ UNCHANGED <<env, session, seen, unheard, call, outside, history>>

(* and the hash still to be what the gate read, restores the snapshot of the  *)
(* checkpoint (a copy not finished may be there, in part, or not at all), and *)
(* makes the session running,                                               *)
ResumeRefused(p) ==
  /\ hash # seen[p] \/ checkpoint # "whole"
  /\ Step(p, "restore", "idle")
  /\ UNCHANGED <<env, session, seen, unheard, call, outside, history>>
ResumeStatus(p) ==
  /\ hash = seen[p]
  /\ Step(p, "restore", "launch")
  /\ status' = "running"
  /\ UNCHANGED <<env, beat, pinned, checkpoint, seen, unheard, call, outside, history>>

(* and starts the harness. *)
Launch(p) ==
  /\ Step(p, "launch", "first")
  /\ UNCHANGED <<env, session, seen, unheard, call, outside, history>>

-----------------------------------------------------------------------------
(* RuntimeDaemon::run: a heartbeat, then a message. *)
Heartbeat_Once(p) ==                              \* mutant: only the first pass writes it
  /\ pc[p] \in {"first", "loop"}
  /\ pc' = [pc EXCEPT ![p] = "recv"]
  /\ unheard' = IF pc[p] = "first" THEN [unheard EXCEPT ![p] = 0] ELSE unheard
  /\ beat' = IF pc[p] = "first" THEN "fresh" ELSE beat
  /\ UNCHANGED <<env, status, pinned, checkpoint, seen, call, outside, history>>
Heartbeat(p) ==
  /\ pc[p] \in {"first", "loop"}
  /\ pc' = [pc EXCEPT ![p] = "recv"]
  /\ unheard' = [unheard EXCEPT ![p] = 0]
  /\ beat' = "fresh"
  /\ UNCHANGED <<env, status, pinned, checkpoint, seen, call, outside, history>>

(* A request, and its answer; most take checkpoints: the row of one, then     *)
(* the copy of the workspace that belongs to it.                             *)
Serve(p) ==
  /\ Step(p, "recv", "busy")
  /\ UNCHANGED <<env, session, seen, unheard, call, outside, history>>
Checkpoint(p) ==
  /\ Step(p, "busy", "copying")
  /\ checkpoint' = p
  /\ UNCHANGED <<env, status, beat, pinned, seen, unheard, call, outside, history>>
Snapshot(p) ==
  /\ Step(p, "copying", "busy")
  /\ checkpoint' = IF checkpoint = p THEN "whole" ELSE checkpoint
  /\ UNCHANGED <<env, status, beat, pinned, seen, unheard, call, outside, history>>
Served(p) ==
  /\ Step(p, "busy", "loop")
  /\ unheard' = [unheard EXCEPT ![p] = IF @ < 2 THEN @ + 1 ELSE 2]
  /\ UNCHANGED <<env, session, seen, call, outside, history>>

(* signal.wait *)
SignalWait(p) ==
  /\ "wait" \in env
  /\ Step(p, "recv", "waiting")
  /\ status' = "waiting"
  /\ UNCHANGED <<env, beat, pinned, checkpoint, seen, unheard, call, outside, history>>
SignalTaken(p) ==
  /\ Step(p, "waiting", "loop")
  /\ status' = "running"
  /\ UNCHANGED <<env, beat, pinned, checkpoint, seen, unheard, call, outside, history>>

(* park_for_approval: the row is flagged, then the session, then it polls. *)
FlagRow(p) ==
  /\ "wait" \in env
  /\ Step(p, "busy", "flagged")
  /\ call' = [call EXCEPT ![p] = "open"]
  /\ UNCHANGED <<env, session, seen, unheard, outside, history>>
Suspend(p) ==
  /\ Step(p, "flagged", "parked")
  /\ status' = "awaiting_approval"
  /\ UNCHANGED <<env, beat, pinned, checkpoint, seen, unheard, call, outside, history>>
Unpark(p) ==
  /\ call[p] = "resolved"
  /\ Step(p, "parked", "busy")
  /\ call' = [call EXCEPT ![p] = "none"]
  /\ status' = "running"
  /\ UNCHANGED <<env, beat, pinned, checkpoint, seen, unheard, outside, history>>

(* The session is out of budget. *)
Halt(p) ==
  /\ Step(p, "busy", "halted")
  /\ status' = "halted"
  /\ UNCHANGED <<env, beat, pinned, checkpoint, seen, unheard, call, outside, history>>
(* session.complete is logged first, or the channel closes, *)
Complete(p) ==
  /\ Step(p, "recv", "completed")
  /\ UNCHANGED <<env, session, seen, unheard, call, outside, history>>
Disconnect(p) ==
  /\ Step(p, "recv", "disconnected")
  /\ UNCHANGED <<env, session, seen, unheard, call, outside, history>>
(* and the loop's end writes the status, but for a halt, which has. *)
StatusAtEnd(p) ==
  CASE pc[p] = "completed" -> "completed"
    [] pc[p] = "halted" -> status
    [] OTHER -> "aborted"
Finish_Unwritten(p) ==                            \* mutant: a closed channel leaves the status
  /\ pc[p] \in {"completed", "halted", "disconnected"}
  /\ pc' = [pc EXCEPT ![p] = "idle"]
  /\ status' = IF pc[p] = "completed" THEN "completed" ELSE status
  /\ ended' = (ended \/ pc[p] = "completed")
  /\ UNCHANGED <<env, beat, pinned, checkpoint, seen, unheard, call, outside, crashes>>
Finish(p) ==
  /\ pc[p] \in {"completed", "halted", "disconnected"}
  /\ pc' = [pc EXCEPT ![p] = "idle"]
  /\ status' = StatusAtEnd(p)
  /\ ended' = (ended \/ pc[p] = "completed")
  /\ UNCHANGED <<env, beat, pinned, checkpoint, seen, unheard, call, outside, crashes>>

-----------------------------------------------------------------------------
(* cybersin approve: the session is running before the call executes and is   *)
(* resolved; deny resolves the call first.  The call may be a dead daemon's. *)
ApproveStarts(p) ==
  /\ call[p] = "open"
  /\ call' = [call EXCEPT ![p] = "approved"]
  /\ status' = "running"
  /\ UNCHANGED <<env, beat, pinned, checkpoint, pc, seen, unheard, outside, history>>
ApproveResolves(p) ==
  /\ call[p] = "approved"
  /\ call' = [call EXCEPT ![p] = "resolved"]
  /\ UNCHANGED <<env, session, pc, seen, unheard, outside, history>>
DenyResolves(p) ==
  /\ "deny" \in env /\ call[p] = "open" /\ ~denying
  /\ call' = [call EXCEPT ![p] = "resolved"]
  /\ denying' = TRUE
  /\ UNCHANGED <<env, session, pc, seen, unheard, orphan, history>>
DenyResumes ==
  /\ denying
  /\ denying' = FALSE
  /\ status' = "running"
  /\ UNCHANGED <<env, beat, pinned, checkpoint, pc, seen, unheard, call, orphan, history>>
DecideOrphan ==
  /\ orphan
  /\ orphan' = FALSE
  /\ status' = "running"
  /\ UNCHANGED <<env, beat, pinned, checkpoint, pc, seen, unheard, call, denying, history>>

(* SessionSupervisor::kill writes a status and nothing else. *)
Kill ==
  /\ "kill" \in env /\ status # "absent"
  /\ status' = "killed"
  /\ UNCHANGED <<env, beat, pinned, checkpoint, pc, seen, unheard, call, outside, history>>

(* cybersin sessions resume: resume_with_payload, and no daemon. *)
SessionsResume ==
  /\ "relabel" \in env /\ status # "absent"
  /\ status' = "running"
  /\ UNCHANGED <<env, beat, pinned, checkpoint, pc, seen, unheard, call, outside, history>>

(* cybersin sessions migrate, to a bundle that is stored *)
Migrate ==
  /\ status # "absent" /\ hash < MaxMigrations
  /\ hash' = hash + 1
  /\ bundle' = TRUE
  /\ UNCHANGED <<env, status, beat, harness, checkpoint, pc, seen, unheard, call, outside, history>>

-----------------------------------------------------------------------------
(* DEFAULT_HEARTBEAT_STALE_AFTER_MS go by with no heartbeat: nobody drives,   *)
(* or a driver waits in a call, or in recv for a silent harness (the one      *)
(* heartbeat before recv is all there is), or its messages take long: where   *)
(* they come and are answered within 15 s each, two go by before the lease.   *)
Expire ==
  /\ beat = "fresh"
  /\ "slow" \in env \/ \A p \in Proc : Driving(p) =>
       \/ pc[p] \in {"waiting", "flagged", "parked"} \/ unheard[p] = 2
       \/ "silent" \in env /\ pc[p] = "recv"
  /\ beat' = "stale"
  /\ UNCHANGED <<env, status, pinned, checkpoint, pc, seen, unheard, call, outside, history>>

(* The process ends without another statement, *)
Gone(p) ==
  /\ pc' = [pc EXCEPT ![p] = "idle"]
  /\ call' = [call EXCEPT ![p] = "none"]
  /\ orphan' = (orphan \/ call[p] \in {"open", "approved"})
  /\ UNCHANGED <<env, session, seen, unheard, denying, ended>>
(* because it dies, or its harness does or does not start, *)
Crash(p) ==
  /\ "crash" \in env /\ crashes < MaxCrashes
  /\ pc[p] # "idle"
  /\ Gone(p)
  /\ crashes' = crashes + 1
(* or because a statement or a message fails: `?` leaves RuntimeDaemon::run   *)
(* before its last lines.                                                    *)
Fail(p) ==
  /\ "fail" \in env
  /\ Driving(p) /\ pc[p] # "recv"
  /\ Gone(p)
  /\ UNCHANGED crashes

Resume(p) == ResumeGate(p) \/ ResumeChecks(p) \/ ResumeRefused(p) \/ ResumeStatus(p) \/ Launch(p)
Drive(p) == \/ Create(p) \/ Heartbeat(p) \/ Checkpoint(p) \/ Snapshot(p) \/ Served(p)
            \/ SignalTaken(p) \/ FlagRow(p) \/ Suspend(p) \/ Unpark(p) \/ Halt(p) \/ Finish(p)
Receive(p) == Serve(p) \/ SignalWait(p) \/ Complete(p) \/ Disconnect(p)
Decide(p) == ApproveStarts(p) \/ ApproveResolves(p) \/ DenyResolves(p)

Next ==
  \/ \E p \in Proc : \/ RunCheck(p) \/ Resume(p) \/ Drive(p) \/ Receive(p) \/ Decide(p)
                     \/ Crash(p) \/ Fail(p)
  \/ DenyResumes \/ DecideOrphan \/ Kill \/ SessionsResume \/ Migrate \/ Expire

Spec == Init /\ [][Next]_vars
(* Time passes, someone resumes what can be resumed, and a process that has   *)
(* begun to resume goes on.                                                  *)
FairSpec == /\ Spec /\ WF_vars(Expire)
            /\ \A p \in Proc : WF_vars(Resume(p)) /\ WF_vars(Create(p))
                                 /\ WF_vars(Heartbeat(p) /\ pc[p] = "first")

-----------------------------------------------------------------------------
(* Properties *)

(* Type correctness of the row and of the processes' positions. *)
TypeOK ==
  /\ env \in Environments
  /\ status \in TerminalStatus \cup {"absent", "running", "waiting", "awaiting_approval"}
  /\ beat \in {"none", "fresh", "stale"}
  /\ hash \in Nat /\ bundle \in BOOLEAN /\ harness \in BOOLEAN
  /\ checkpoint \in {"none", "whole"} \cup Proc
  /\ \A p \in Proc : Starting(p) \/ Driving(p) \/ pc[p] = "idle"
  /\ seen \in [Proc -> Nat] /\ unheard \in [Proc -> 0..2]
  /\ call \in [Proc -> {"none", "open", "approved", "resolved"}]
  /\ orphan \in BOOLEAN /\ denying \in BOOLEAN /\ ended \in BOOLEAN /\ crashes \in Nat

(* The lease holds one daemon to a session only as far as its heartbeat      *)
(* reaches: a session whose messages come and are answered within 15 s each,  *)
(* which waits for nobody, and which is resumed by one process at a time and  *)
(* without --force, is never driven by two, wherever daemons die or fail and  *)
(* whoever kills or migrates it.  A silent harness is enough to lose it.      *)
OneDaemon ==
  env \cap {"force", "slow", "silent", "wait", "race"} = {} =>
    \A p, q \in Proc : Driving(p) /\ Driving(q) => p = q

(* When the last daemon has ended of its own accord, by session.complete, a   *)
(* closed channel or a halt, the row says how the session ended, whatever the *)
(* other daemons, signals and approvals did to it.  A daemon that dies, or    *)
(* whose handling of a message fails, leaves it as it was.                   *)
EndedIsTerminal ==
  env \cap {"crash", "fail", "deny", "relabel"} = {} =>
    status \in TerminalStatus \cup {"absent"}
      \/ \E p \in Proc : Driving(p) \/ Starting(p)

(* A session that lost its daemon after a checkpoint and its snapshot is      *)
(* driven again, from whatever status it was left in, given somebody resumes  *)
(* it, unless it was over; if it is one that `cybersin run` started with a    *)
(* harness of its own and whose bundle is stored.                            *)
Lost == checkpoint = "whole" /\ bundle /\ harness /\ \A p \in Proc : ~Driving(p)
Over == status \in {"completed", "killed", "halted"}
LostIsRecovered == Lost /\ ~Over ~> (\E p \in Proc : Driving(p)) \/ Over

-----------------------------------------------------------------------------
(* Expectations of the comments and documents that the code does not meet.   *)

(* run.rs:472, resume_gate: a completed session is not resumed, a new run is  *)
(* started instead.                                                          *)
CompletedIsNotRerun == [][ended => \A p \in Proc : Driving(p)' => Driving(p)]_vars

(* session.rs:616: an inspectable terminal status is not overwritten with the *)
(* generic "aborted".                                                        *)
KilledIsFinal == [][status = "killed" => status' = "killed"]_vars

(* run.rs:481: a session that still runs is not resumed without --force.  The  *)
(* heartbeat goes stale under a daemon whose harness is silent.              *)
LiveIsNotResumed ==
  "force" \notin env => \A p, q \in Proc : Driving(p) /\ Driving(q) => p = q

(* session.rs:605: a session is driven until the harness disconnects or sends *)
(* session.complete; one message that cannot be handled ends the daemon too.  *)
DrivenToTheEnd ==
  [][\A p \in Proc : Driving(p) /\ ~Driving(p)' => Over' \/ status' = "aborted"]_vars

(* run.rs:838: a session whose id exists is to be resumed. *)
StartedIsRecoverable ==
  status # "absent" /\ (\A p \in Proc : ~Driving(p) /\ ~Starting(p)) ~>
    (\E p \in Proc : Driving(p)) \/ Over
=============================================================================
