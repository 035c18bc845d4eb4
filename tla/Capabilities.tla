----------------------------- MODULE Capabilities -----------------------------
(***************************************************************************)
(* The registry of what cybersin can be asked to do, the safety profile of  *)
(* each capability (crates/cybersin-cli/src/capabilities.rs), and the gate  *)
(* that the command line puts before some of them (main.rs).                *)
(***************************************************************************)
(* SafetyProfile, as far as anything depends on it: what a capability may    *)
(* change, what it does to processes, and whether it asks first.            *)
ReadOnly == [files |-> "none", state |-> "none", process |-> "none", confirm |-> "none"]

WritesProjectFiles == [ReadOnly EXCEPT !.files = "project"]
RuntimeRead == [ReadOnly EXCEPT !.process = "controls"]
StartsChild == [ReadOnly EXCEPT !.process = "child"]
RuntimeWrites(process) == [ReadOnly EXCEPT !.state = "runtime", !.process = process]
RuntimeMutation(confirm) == [RuntimeWrites("controls") EXCEPT !.confirm = confirm]
ToolExecution(confirm) == [RuntimeWrites("child") EXCEPT !.confirm = confirm]
SandboxExec == [ToolExecution("recommended") EXCEPT !.files = "runtime"]
SandboxLifecycle(files, confirm) ==
  [ReadOnly EXCEPT !.files = files, !.state = "runtime", !.confirm = confirm]

(* registry(), in its order.                                                *)
CompileAndRun ==
  [build |-> WritesProjectFiles, build_watch |-> WritesProjectFiles, diff |-> ReadOnly,
   check |-> ReadOnly, convert |-> WritesProjectFiles, init |-> WritesProjectFiles,
   fmt |-> WritesProjectFiles, fmt_check |-> ReadOnly, run_stub |-> RuntimeWrites("none"),
   run |-> RuntimeWrites("child"), trace_ls |-> RuntimeRead]
Inspections ==
  [trace_show |-> RuntimeRead, trace_sample |-> [RuntimeRead EXCEPT !.files = "project"],
   cost |-> RuntimeRead, eval |-> StartsChild, explain |-> RuntimeRead, doctor |-> ReadOnly,
   setup |-> WritesProjectFiles, ops |-> RuntimeMutation("recommended"),
   daemon |-> RuntimeWrites("daemon"), dlq_ls |-> RuntimeRead, dlq_show |-> RuntimeRead]
Controls ==
  [dlq_retry |-> ToolExecution("recommended"), dlq_drop |-> RuntimeMutation("recommended"),
   approve |-> ToolExecution("required"), deny |-> RuntimeMutation("required"),
   sessions_ls |-> RuntimeRead, sessions_show |-> RuntimeRead,
   sessions_resume |-> RuntimeMutation("recommended"), sessions_kill |-> RuntimeMutation("required"),
   sessions_migrate |-> RuntimeMutation("recommended"), materialize |-> WritesProjectFiles,
   notify |-> RuntimeMutation("recommended")]
SandboxAndWorkflows ==
  [sandbox_exec |-> SandboxExec, sandbox_snapshot |-> SandboxLifecycle("runtime", "none"),
   sandbox_diff |-> ReadOnly, sandbox_restore |-> SandboxLifecycle("destructive", "required"),
   scaffold_prompt_agent |-> WritesProjectFiles, optimize |-> WritesProjectFiles,
   scaffold_build |-> WritesProjectFiles]

Registry ==
  [id \in UNION {DOMAIN part : part \in {CompileAndRun, Inspections, Controls, SandboxAndWorkflows}} |->
     CASE id \in DOMAIN CompileAndRun -> CompileAndRun[id]
       [] id \in DOMAIN Inspections -> Inspections[id]
       [] id \in DOMAIN Controls -> Controls[id]
       [] id \in DOMAIN SandboxAndWorkflows -> SandboxAndWorkflows[id]]

(* The capabilities that main.rs puts behind the gate.                       *)
Gated ==
  {"daemon", "dlq_retry", "dlq_drop", "approve", "deny", "sessions_resume", "sessions_kill",
   "sessions_migrate", "notify", "sandbox_exec", "sandbox_restore"}

(* apply_safety_gate, as ensure_cli_safety calls it: --yes answers for the   *)
(* person; without a terminal, what is only recommended goes ahead and what *)
(* is required does not; with one, the person decides.                      *)
Admitted_NoTerminal(id, yes, terminal, answer) ==
  \/ Registry[id].confirm = "none" \/ yes
  \/ ~terminal
  \/ terminal /\ answer = "y"
Admitted(id, yes, terminal, answer) ==
  \/ Registry[id].confirm = "none" \/ yes
  \/ ~terminal /\ Registry[id].confirm = "recommended"
  \/ terminal /\ answer = "y"
=============================================================================
