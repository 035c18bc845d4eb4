---------------------------- MODULE Orchestration ----------------------------
(***************************************************************************)
(* The workers of one parent session: Orchestrator::spawn as the daemon's  *)
(* Spawn handler calls it, charge, worker_exit and approval_parked          *)
(* (crates/cybersin-runtime/src/orchestration.rs, session.rs).             *)
(*                                                                         *)
(* A worker is a record in typed state, read and written back whole.  The  *)
(* parent's log of worker.spawned events is kept as the sum of its budgets, *)
(* which is all that spawn reads of it.  Money is in whole units.          *)
(***************************************************************************)
EXTENDS Integers

CONSTANTS
  Proc,           \* processes that hold an Orchestrator
  Child,          \* ids of workers: the parent's id and the call's
  Request,        \* budgets that are asked for, which nobody has validated
  Cost,           \* what is charged
  Budget,         \* usd_per_session of the parent's build, or Unlimited
  Unlimited,      \* a daemon without a budget, as every one the CLI starts is
  MaxRestarts,    \* max_restarts of every worker
  Environments,   \* sets of circumstances to study: subsets of Circumstance
  MaxSpawns, MaxExits, MaxCrashes    \* bounds: calls of spawn and worker_exit, deaths

(* Processes that die; two that work on one worker; two daemons that drive   *)
(* the parent; harnesses that ask for a worker they have.                    *)
Circumstance == {"crash", "race", "twins", "respawn"}
ASSUME EnvironmentAssumption == \A e \in Environments : e \subseteq Circumstance
ASSUME AmountAssumption == Request \subseteq Int /\ Cost \subseteq Nat \ {0}
ASSUME BudgetAssumption == Budget \in Nat \/ Budget = Unlimited
ASSUME BoundAssumption ==
  MaxRestarts \in Nat /\ MaxSpawns \in Nat /\ MaxExits \in Nat /\ MaxCrashes \in Nat

VARIABLES
  env,         \* the member of Environments of this behaviour; never changes
  ceiling,     \* state orchestration/budget_usd of the parent, -1 before there is one
  allocated,   \* the sum of the budgets of the parent's worker.spawned events
  worker,      \* state orchestration/worker of each child
  session,     \* sessions.status of each child
  told,        \* the parent's mail: pairs of a child and its news
  local,       \* what each process does: step, child, record to save, news or cost
  billed,      \* history: what was charged, over all workers
  resumed,     \* history: how often each child was resumed
  spawns, exits, crashes    \* history: counts calls and deaths

durable == <<ceiling, allocated, worker, session, told>>
history == <<billed, resumed, spawns, exits, crashes>>
vars == <<env, durable, local, history>>

NoWorker == [budget |-> 0, spent |-> 0, restarts |-> 0, status |-> "absent"]
Fresh(b) == [budget |-> b, spent |-> 0, restarts |-> 0, status |-> "running"]
Idle == [step |-> "idle", child |-> "none", record |-> NoWorker, news |-> "none", usd |-> 0]

(* register_parent writes budget_usd as JSON, where INFINITY is null, and     *)
(* spawn reads null as 0.                                                    *)
RegisteredCeiling == IF Budget = Unlimited THEN 0 ELSE Budget

Init ==
  /\ env \in Environments
  /\ ceiling = -1 /\ allocated = 0 /\ told = {}
  /\ worker = [c \in Child |-> NoWorker]
  /\ session = [c \in Child |-> "absent"]
  /\ local = [p \in Proc |-> Idle]
  /\ billed = 0 /\ resumed = [c \in Child |-> 0]
  /\ spawns = 0 /\ exits = 0 /\ crashes = 0

Works(p, step) == local[p].step = step
Enter(p, step, c, record, news, usd) ==
  local' = [local EXCEPT ![p] = [step |-> step, child |-> c, record |-> record,
                                 news |-> news, usd |-> usd]]
Goto(p, step) == local' = [local EXCEPT ![p].step = step]
Return(p) == local' = [local EXCEPT ![p] = Idle]

Spawning(p) == local[p].step \in {"create", "save_spawned", "log_spawned"}
(* One process at a time works on a worker, and one spawns, unless the        *)
(* environment has races.                                                    *)
MayStart(p, c) ==
  /\ Works(p, "idle")
  /\ "race" \in env \/ \A q \in Proc : Works(q, "idle") \/ local[q].child # c

-----------------------------------------------------------------------------
(* The Spawn handler: it registers the parent, and compares the request with  *)
(* what the log has allocated. *)
SpawnCheck_Negative(p, c, b) ==                   \* mutant: a negative budget is granted
  /\ MayStart(p, c) /\ spawns < MaxSpawns
  /\ "twins" \in env \/ \A q \in Proc : ~Spawning(q)
  /\ "respawn" \in env \/ worker[c] = NoWorker
  /\ ceiling' = RegisteredCeiling
  /\ spawns' = spawns + 1
  /\ IF allocated + b > RegisteredCeiling
       THEN UNCHANGED local
       ELSE Enter(p, "create", c, Fresh(b), "none", 0)
  /\ UNCHANGED <<env, allocated, worker, session, told, billed, resumed, exits, crashes>>
SpawnCheck(p, c, b) ==
  /\ MayStart(p, c) /\ spawns < MaxSpawns
  /\ "twins" \in env \/ \A q \in Proc : ~Spawning(q)
  /\ "respawn" \in env \/ worker[c] = NoWorker
  /\ ceiling' = RegisteredCeiling
  /\ spawns' = spawns + 1
  /\ IF b < 0 \/ allocated + b > RegisteredCeiling
       THEN UNCHANGED local
       ELSE Enter(p, "create", c, Fresh(b), "none", 0)
  /\ UNCHANGED <<env, allocated, worker, session, told, billed, resumed, exits, crashes>>

(* create_session_pinned leaves a session that exists alone. *)
CreateChild(p) ==
  /\ Works(p, "create")
  /\ Goto(p, "save_spawned")
  /\ session' = [session EXCEPT ![local[p].child] = IF @ = "absent" THEN "running" ELSE @]
  /\ UNCHANGED <<env, ceiling, allocated, worker, told, history>>
SaveSpawned(p) ==
  /\ Works(p, "save_spawned")
  /\ Goto(p, "log_spawned")
  /\ worker' = [worker EXCEPT ![local[p].child] = local[p].record]
  /\ UNCHANGED <<env, ceiling, allocated, session, told, history>>
LogSpawned(p) ==
  /\ Works(p, "log_spawned")
  /\ Return(p)
  /\ allocated' = allocated + local[p].record.budget
  /\ UNCHANGED <<env, ceiling, worker, session, told, history>>

-----------------------------------------------------------------------------
(* charge: read, compare, *)
Charge(p, c, usd) ==
  /\ MayStart(p, c)
  /\ worker[c] # NoWorker
  /\ worker[c].spent + usd <= worker[c].budget
  /\ Enter(p, "save_charged", c, [worker[c] EXCEPT !.spent = @ + usd], "none", usd)
  /\ UNCHANGED <<env, durable, history>>
(* and write back the record that was read. *)
SaveCharged(p) ==
  /\ Works(p, "save_charged")
  /\ Return(p)
  /\ billed' = billed + local[p].usd
  /\ worker' = [worker EXCEPT ![local[p].child] = local[p].record]
  /\ UNCHANGED <<env, ceiling, allocated, session, told, resumed, spawns, exits, crashes>>

-----------------------------------------------------------------------------
(* worker_exit: a crash of the harness within the limit resumes the worker,   *)
(* any other exit fails it. *)
Restarted(r) == [r EXCEPT !.restarts = @ + 1, !.status = "running"]
HarnessCrash(p, c) ==
  /\ MayStart(p, c) /\ exits < MaxExits
  /\ worker[c] # NoWorker
  /\ exits' = exits + 1
  /\ IF worker[c].restarts < MaxRestarts
       THEN Enter(p, "set_status", c, Restarted(worker[c]), "restarted", 0)
       ELSE Enter(p, "set_status", c, [worker[c] EXCEPT !.status = "permanently_failed"],
                  "permanently_failed", 0)
  /\ UNCHANGED <<env, durable, billed, resumed, spawns, crashes>>
Failed(p, c) ==
  /\ MayStart(p, c) /\ exits < MaxExits
  /\ worker[c] # NoWorker
  /\ exits' = exits + 1
  /\ Enter(p, "set_status", c, [worker[c] EXCEPT !.status = "failed"], "failed", 0)
  /\ UNCHANGED <<env, durable, billed, resumed, spawns, crashes>>

(* approval_parked *)
ApprovalParked(p, c) ==
  /\ MayStart(p, c) /\ exits < MaxExits
  /\ worker[c] # NoWorker
  /\ exits' = exits + 1
  /\ Enter(p, "set_status", c, [worker[c] EXCEPT !.status = "awaiting_approval"],
           "awaiting_approval", 0)
  /\ UNCHANGED <<env, durable, billed, resumed, spawns, crashes>>

(* All three write the session (worker_exit by SessionSupervisor::resume or   *)
(* set_session_status), send the parent mail, and save the record last. *)
SetStatus(p) ==
  /\ Works(p, "set_status")
  /\ Goto(p, "tell")
  /\ LET c == local[p].child  news == local[p].news IN
     /\ session' = [session EXCEPT ![c] =
                      CASE news = "restarted" -> "running"
                        [] news = "awaiting_approval" -> "awaiting_approval"
                        [] OTHER -> "failed"]
     /\ resumed' = [resumed EXCEPT ![c] = IF news = "restarted" THEN @ + 1 ELSE @]
  /\ UNCHANGED <<env, ceiling, allocated, worker, told, billed, spawns, exits, crashes>>
Tell_Restarts(p) ==                               \* mutant: only restarts are told
  /\ Works(p, "tell")
  /\ Goto(p, "save_exit")
  /\ told' = IF local[p].news = "restarted" THEN told \cup {<<local[p].child, local[p].news>>} ELSE told
  /\ UNCHANGED <<env, ceiling, allocated, worker, session, history>>
Tell(p) ==
  /\ Works(p, "tell")
  /\ Goto(p, "save_exit")
  /\ told' = told \cup {<<local[p].child, local[p].news>>}
  /\ UNCHANGED <<env, ceiling, allocated, worker, session, history>>
SaveExit(p) ==
  /\ Works(p, "save_exit")
  /\ Return(p)
  /\ worker' = [worker EXCEPT ![local[p].child] = local[p].record]
  /\ UNCHANGED <<env, ceiling, allocated, session, told, history>>

(* The process dies between two statements. *)
Crash(p) ==
  /\ "crash" \in env /\ crashes < MaxCrashes
  /\ ~Works(p, "idle")
  /\ crashes' = crashes + 1
  /\ Return(p)
  /\ UNCHANGED <<env, durable, billed, resumed, spawns, exits>>

Start(p, c) ==
  \/ \E b \in Request : SpawnCheck(p, c, b)
  \/ \E usd \in Cost : Charge(p, c, usd)
  \/ HarnessCrash(p, c) \/ Failed(p, c) \/ ApprovalParked(p, c)
Continue(p) ==
  \/ CreateChild(p) \/ SaveSpawned(p) \/ LogSpawned(p) \/ SaveCharged(p)
  \/ SetStatus(p) \/ Tell(p) \/ SaveExit(p)

Next == \E p \in Proc : (\E c \in Child : Start(p, c)) \/ Continue(p) \/ Crash(p)
Spec == Init /\ [][Next]_vars

-----------------------------------------------------------------------------
(* Properties *)

Records == [budget : Int, spent : Int, restarts : Nat,
            status : {"absent", "running", "awaiting_approval", "failed", "permanently_failed"}]
News == {"none", "restarted", "awaiting_approval", "failed", "permanently_failed"}
Steps == {"idle", "create", "save_spawned", "log_spawned", "save_charged", "set_status", "tell",
          "save_exit"}

(* Type correctness: what a worker's record and session can hold, and what    *)
(* the parent is told.                                                       *)
TypeOK ==
  /\ env \in Environments
  /\ ceiling \in Int /\ allocated \in Int /\ billed \in Nat
  /\ worker \in [Child -> Records]
  /\ session \in [Child -> {"absent", "running", "awaiting_approval", "failed"}]
  /\ told \subseteq Child \X News
  /\ local \in [Proc -> [step : Steps, child : Child \cup {"none"}, record : Records,
                       news : News, usd : Nat]]
  /\ resumed \in [Child -> Nat]
  /\ spawns \in Nat /\ exits \in Nat /\ crashes \in Nat

(* The allocations in the parent's log never pass its ceiling while one       *)
(* daemon drives it, wherever it dies and however often it is resumed and     *)
(* asks for the same worker again.                                           *)
AllocatedWithinCeiling ==
  "twins" \notin env => allocated <= RegisteredCeiling

(* What all workers together were charged respects the parent's ceiling, even *)
(* when a resumed harness spawns a worker anew and its spending starts from   *)
(* zero: as long as one daemon spawns, one process at a time works on a       *)
(* worker, and no spawn is cut short before the log has its allocation.       *)
SpendWithinCeiling ==
  env \cap {"twins", "race", "crash"} = {} => billed <= RegisteredCeiling

(* A worker is resumed max_restarts times at most, and once more for every    *)
(* process that died between resuming it and saving the count, unless it is   *)
(* spawned anew or two processes count at once.                              *)
RestartsBounded ==
  env \cap {"race", "respawn"} = {} => \A c \in Child : resumed[c] <= MaxRestarts + crashes

(* A worker that its record calls failed, or parked, is one its parent has    *)
(* mail about, whoever raced for the record and died.                        *)
TroubleIsTold ==
  \A c \in Child : worker[c].status \notin {"absent", "running"} => <<c, worker[c].status>> \in told

-----------------------------------------------------------------------------
(* What the code's comments say and the code does not do.                     *)

(* orchestration.rs:103: spawn fixes the allocation permanently.              *)
AllocationIsFixed ==
  [][\A c \in Child : worker[c] # NoWorker =>
       /\ worker'[c].budget = worker[c].budget
       /\ worker'[c].spent >= worker[c].spent]_vars

(* spec.md:265: total spend respects the parent's budget.                     *)
SpendRespectsCeiling == billed <= RegisteredCeiling
=============================================================================
