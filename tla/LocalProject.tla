----------------------------- MODULE LocalProject -----------------------------
(***************************************************************************)
(* A project directory and the commands that work on it: init, setup,       *)
(* doctor, convert, check, build, run, the terminal UI's scaffold-build,    *)
(* explain, diff, eval, trace sample, optimize and the gated controls       *)
(* (crates/cybersin-cli/src).  The files, the local      *)
(* configuration and the environment are what couples them: one command     *)
(* writes what another one judges and a third one uses.                     *)
(*                                                                         *)
(* A build runs the passes of PromptContext on one prompt after another; a  *)
(* run assembles the context of the built-in starter's one request.  Every  *)
(* other command is one step, for one person works on the project.          *)
(***************************************************************************)
EXTENDS PromptFrontend, LocalConfig, Capabilities, Evals

CONSTANTS
  OwnTiers,       \* qualities that a person's own lockfile has priced models for
  Starter,        \* the starter template's prompt file
  Repaired,       \* what a person writes in place of a file that does not compile
  Models,         \* models a person may choose
  Drafts,         \* what the drafting model may answer
  Said,           \* what a person may ask `convert` for
  Outputs,        \* what a live provider may answer an eval
  Studied,        \* texts of the prompt whose build is studied
  Projects,       \* projects to begin with, and who works on them
  MaxCommands     \* bound: commands of a person who follows no advice

(* What is in a prompt file, an answer of the drafting model, a project.    *)
Body == Text \cup Fragment
IsFile(file) == file.sections \in Seq([id : Id, priority : Priority, body : Body])
IsDraft(draft) ==
  draft.sections \in Seq([id : Id, priority : Priority, text : Text, unmapped : BOOLEAN])
IsListing(l) == l = [providers |-> l.providers, models |-> l.models]
IsConfig(c) == DOMAIN c = DOMAIN EmptyConfig /\ IsListing(c.permitted) /\ IsListing(c.legacy)
IsTree(t) == DOMAIN t = {"manifest", "lock", "prompts", "agents", "agent", "evals", "tuned", "notes"}
ArePrompts(named) ==
  DOMAIN named \subseteq {"draft", "starter"} /\ \A n \in DOMAIN named : IsFile(named[n])
ASSUME TierAssumption == OwnTiers \subseteq DOMAIN Tier
ASSUME SourceAssumption == IsFile(Starter) /\ IsFile(Repaired)
ASSUME DraftAssumption == Said \subseteq Text /\ \A draft \in Drafts : IsDraft(draft)
ASSUME LiveAssumption ==
  \A live \in LiveContext :
    live \in Seq(ToSet(live)) /\ \A s \in ToSet(live) : s.priority \in Int /\ s.text \in Text
ASSUME ProjectAssumption ==
  \A p \in Projects : IsTree(p.tree) /\ IsConfig(p.config) /\ ArePrompts(p.prompts)

VARIABLES
  tree,       \* the manifest, the lockfile, the directories, the agent, evals/, the report of optimize,
              \* and which of the YAML files that commands rewrite have comments
  prompts,    \* prompts/: the files by name
  config,     \* cybersin.local.yaml
  dotenv,     \* .env
  exported,   \* variables of the person's shell
  dist,       \* dist/
  rows,       \* the runtime's state, as a stamp
  report,     \* what doctor said, if nothing changed since
  command,    \* the command that runs or ran last
  queue,      \* prompts that the build has yet to compile
  outcome,    \* how the command ended
  person,     \* who works on the project
  todo,       \* what the report and the last outcome call for
  left        \* commands that may still be typed

compiler == vars
files == <<tree, prompts, config, dotenv>>
session == <<exported, person>>
agenda == <<todo, left>>
project == <<vars, files, dist, rows, report, command, queue, outcome, session, agenda>>
-----------------------------------------------------------------------------
Stamps == 2
NoReport == [given |-> FALSE, ok |-> FALSE, next |-> {}]
NoDist == [present |-> FALSE, whole |-> FALSE, routes |-> "none", prompts |-> <<>>]
With(f, key, value) == [x \in DOMAIN f \cup {key} |-> IF x = key THEN value ELSE f[x]]
Typing(id) == [id |-> id, force |-> FALSE, confirmed |-> FALSE]
Env == exported \cup dotenv.vars
Rooted == tree.manifest # "absent"

(* A command that leaves the compiler alone, with its result.               *)
End(id, result) ==
  /\ pc = "idle" /\ command' = Typing(id) /\ outcome' = result
  /\ UNCHANGED <<compiler, queue>>
Touch == report' = NoReport
Untouched == UNCHANGED <<files, dist, rows>>
-----------------------------------------------------------------------------
(* diagnose: no root ends it; otherwise all that is missing is told.        *)
Missing == {part \in {"lock", "prompts", "agents"} :
              CASE part = "lock" -> tree.lock = "absent"
                [] part = "prompts" -> ~tree.prompts
                [] part = "agents" -> ~tree.agents}
Advice ==
  IF ~Rooted THEN {"init"}
  ELSE {"init" : part \in Missing}
       \cup {a \in {"copy example"} : ~config.present}
       \cup {a \in {"create .env"} : ~dotenv.present}
       \cup ProviderFailures(config, Env) \cup ProviderWarnings(config)
       \cup ToolWarnings(config, Env)
       \cup {a \in {"build"} : ~dist.present}
Diagnosis ==
  [given |-> TRUE, next |-> Advice,
   ok |-> Rooted /\ Missing = {} /\ ProviderFailures(config, Env) = {}]
Diagnose ==
  /\ End("doctor", "reported") /\ Untouched
  /\ report' = Diagnosis
  /\ UNCHANGED session
-----------------------------------------------------------------------------
(* init writes what is missing; with --force it writes the rest as well.    *)
Written(old, force) == IF old = "absent" \/ force THEN "scaffold" ELSE old
Commented(force) == tree.notes \cup {f \in {"lock comments"} : tree.lock = "absent" \/ force}
Scaffolded_OnlyNew(force) ==
  IF Rooted /\ ~force THEN tree
  ELSE [tree EXCEPT !.manifest = Written(@, force), !.lock = Written(@, force),
                    !.notes = Commented(force), !.prompts = TRUE, !.agents = TRUE]
Scaffolded(force) ==
  [tree EXCEPT !.manifest = Written(@, force), !.lock = Written(@, force),
               !.notes = Commented(force), !.prompts = TRUE, !.agents = TRUE]
Sources(template, force) ==
  IF template = "starter" /\ (force \/ "starter" \notin DOMAIN prompts)
  THEN With(prompts, "starter", Starter) ELSE prompts

(* setup writes the configuration anew, from its values, if it changes it;   *)
(* it ends with a diagnosis of what it wrote, and fails if that is bad.     *)
Plain(new, t) == IF new = config THEN t ELSE [t EXCEPT !.notes = @ \ {"config comments"}]
Concluded ==
  /\ report' = Diagnosis'
  /\ outcome' = IF report'.ok THEN "done" ELSE "not ready"

ScaffoldProject(template, force, dry, setup) ==
  /\ pc = "idle"
  /\ command' = [Typing("init") EXCEPT !.force = force]
  /\ UNCHANGED <<compiler, queue, dotenv, dist, rows, session>>
  /\ IF dry THEN UNCHANGED <<tree, prompts, config>>
     ELSE /\ config' = IF setup THEN SetUp(config, OpenRouterKey, "default") ELSE config
          /\ tree' = Plain(config', Scaffolded(force)) /\ prompts' = Sources(template, force)
  /\ IF setup /\ ~dry THEN Concluded ELSE Touch /\ outcome' = "done"

Setup(variable, model) ==
  /\ pc = "idle" /\ command' = Typing("setup")
  /\ UNCHANGED <<compiler, queue, prompts, dotenv, dist, rows, session>>
  /\ IF Rooted
     THEN /\ config' = SetUp(config, variable, model) /\ tree' = Plain(config', tree)
          /\ Concluded
     ELSE UNCHANGED <<tree, config>> /\ Touch /\ outcome' = "no project"

(* check, and the commands that only read the runtime's state.              *)
Bad == {n \in DOMAIN prompts : ~Compiles(prompts[n])}
Check ==
  /\ End("check", IF prompts = <<>> THEN "no sources" ELSE IF Bad # {} THEN "bad prompt" ELSE "done")
  /\ Untouched /\ UNCHANGED <<report, session>>
Inspect(id, result) == End(id, result) /\ Untouched /\ UNCHANGED <<report, session>>

(* convert writes the draft before it compiles it, and leaves it there.     *)
ConvertResult(draft, raw) ==
  IF ~Rooted THEN "no project"
  ELSE IF ~KeyFound(config, Env) THEN "no key"
  ELSE IF DraftRefused(draft, raw) THEN "refused"
  ELSE IF "draft" \in DOMAIN prompts THEN "exists"
  ELSE IF Compiles(DraftFile(draft, raw)) THEN "converted" ELSE "invalid"
Convert(draft, raw) ==
  LET result == ConvertResult(draft, raw) IN
  /\ End("convert", result)
  /\ IF result \in {"converted", "invalid"}
     THEN /\ prompts' = With(prompts, "draft", DraftFile(draft, raw))
          /\ tree' = [tree EXCEPT !.prompts = TRUE]
     ELSE UNCHANGED <<tree, prompts>>
  /\ Touch
  /\ UNCHANGED <<config, dotenv, dist, rows, session>>
-----------------------------------------------------------------------------
(* A build: all files compile before dist/ is cleared, then the passes run   *)
(* on each.                                                                 *)

Load(file) ==
  /\ pc' = "lint-fast" /\ profile' = "dev" /\ declared' = DOMAIN file.inputs
  /\ source' = Resolved(file)
  /\ ir' = [i \in DOMAIN file.sections |->
       [id |-> source'[i].id, priority |-> source'[i].priority, text |-> source'[i].text, ref |-> None]]
  /\ plans' = <<>> /\ pins' = Pinned /\ failed' = FALSE /\ dead' = {}
  /\ system' = <<>> /\ user' = <<>> /\ context' = NoContext

(* prompts/ in the order of its paths.                                      *)
InOrder(S) ==
  (IF "draft" \in S THEN <<"draft">> ELSE <<>>) \o (IF "starter" \in S THEN <<"starter">> ELSE <<>>)

BuildRefused(sources) ==
  IF ~Rooted THEN "no project"
  ELSE IF tree.lock = "absent" THEN "no lock"
  ELSE IF sources = {} THEN "no sources"
  ELSE IF \E n \in sources : ~Compiles(prompts[n]) THEN "bad prompt" ELSE None
Build(id, sources, tree1) ==
  /\ pc = "idle" /\ command' = Typing(id) /\ tree' = tree1
  /\ outcome' = BuildRefused(sources)
  /\ IF outcome' = None
     THEN /\ dist' = [NoDist EXCEPT !.present = TRUE]
          /\ queue' = InOrder(sources) /\ Load(prompts[InOrder(sources)[1]])
     ELSE UNCHANGED <<compiler, queue, dist>>
  /\ Touch
  /\ UNCHANGED <<prompts, config, dotenv, rows, session>>

(* The terminal UI writes an agent for one prompt, over the one that it      *)
(* wrote before, and builds that prompt.                                    *)
ScaffoldBuild(n) ==
  /\ n \in DOMAIN prompts
  /\ Build("scaffold_build", {n},
       [tree EXCEPT !.agents = TRUE, !.agent = IF @ = "elsewhere" THEN @ ELSE "generated"])

BuildStops(result) ==
  /\ pc' = "idle" /\ queue' = <<>> /\ outcome' = result
  /\ UNCHANGED <<profile, declared, source, ir, plans, pins, failed, dead, system, user, context>>
  /\ UNCHANGED <<prompts, config, dotenv, rows, report, command, session, agenda>>

(* A diagnostic of a pass leaves dist/ without its manifest.                 *)
BuildFails == pc = "failed" /\ BuildStops("bad prompt") /\ UNCHANGED <<tree, dist>>

Artifact == [source |-> source, declared |-> declared, profile |-> profile, ir |-> ir,
             plans |-> plans, pins |-> pins, dead |-> dead, system |-> system, user |-> user]
Made == [dist EXCEPT !.prompts = With(@, Head(queue), Artifact)]

(* A prompt is written before a backend may refuse it.                       *)
Rejected(file) == file.sections = <<>> \/ file.tools = "misnamed"
PromptRejected ==
  /\ pc = "assemble" /\ queue # <<>> /\ Rejected(prompts[Head(queue)])
  /\ dist' = Made /\ BuildStops("bad prompt") /\ UNCHANGED tree

(* All prompts are routed at the end, if a model is priced for each; a       *)
(* scaffold's lockfile prices a stub, and its manifest no web search.       *)
PinnedTiers == IF tree.lock = "scaffold" THEN {"medium"} ELSE OwnTiers
Routable(file) ==
  /\ file.quality \in PinnedTiers
  /\ tree.manifest = "scaffold" => file.grounded \cap PinnedTiers = {}
Routed == \A n \in DOMAIN Made.prompts : Routable(prompts[n])

(* The last step writes the lockfile anew, from the fields it knows, unless  *)
(* the build is frozen, which only `build` can be.                          *)
LockWritten ==
  \E frozen \in BOOLEAN :
    /\ frozen => command.id = "build"
    /\ tree' = IF frozen THEN tree ELSE [tree EXCEPT !.notes = @ \ {"lock comments"}]

PromptWritten ==
  /\ pc = "assemble" /\ queue # <<>> /\ ~Rejected(prompts[Head(queue)])
  /\ \/ /\ Len(queue) > 1 /\ queue' = Tail(queue)
        /\ dist' = Made /\ Load(prompts[queue[2]])
        /\ UNCHANGED <<files, rows, report, command, outcome, session, agenda>>
     \/ /\ Len(queue) = 1 /\ Routed
        /\ dist' = [Made EXCEPT !.whole = TRUE, !.routes = tree.lock]
        /\ LockWritten /\ BuildStops("built")
     \/ /\ Len(queue) = 1 /\ ~Routed
        /\ dist' = Made /\ BuildStops("no model") /\ UNCHANGED tree
-----------------------------------------------------------------------------
(* Commands about what was built.                                           *)

(* diff builds twice in a place of its own, frozen, once from a commit.      *)
Diff ==
  \E result \in IF BuildRefused(DOMAIN prompts) # None \/ \E n \in DOMAIN prompts : ~Routable(prompts[n]) THEN {"failed"} ELSE {"failed", "done"} :
    Inspect("diff", result)

(* eval, with recorded outputs or those of a provider that may fail.        *)
Declared == [n \in DOMAIN dist.prompts |-> dist.prompts[n].declared]
Evaluate(gate, live) ==
  \E result \in IF SuitesRefused(tree.evals, Declared) THEN {"bad suite"}
                ELSE IF live THEN {"failed"} \cup LiveVerdicts(tree.evals, gate, Outputs)
                ELSE {RecordedVerdict(tree.evals, gate)} :
    Inspect("eval", result)

(* trace sample writes a suite over whatever has its name, if there is a     *)
(* call of the prompt in the traces.                                        *)
TraceSample(n, file) ==
  \/ Inspect("trace_sample", "no span")
  \/ /\ End("trace_sample", "sampled") /\ Touch
     /\ tree' = [tree EXCEPT !.evals = With(@, file, Sampled(n))]
     /\ UNCHANGED <<prompts, config, dotenv, dist, rows, session>>

(* optimize writes its report, then builds.                                 *)
Optimize ==
  \/ Inspect("optimize", IF Rooted THEN "no traces" ELSE "no project")
  \/ Rooted /\ Build("optimize", DOMAIN prompts, [tree EXCEPT !.tuned = TRUE])

-----------------------------------------------------------------------------
(* A run.  The routes of a scaffold's lockfile lead to a stub.              *)

Route == IF dist.routes = "scaffold" THEN Stub ELSE [provider |-> "anthropic", name |-> "pinned"]
Listing == IF config.present THEN Allowlist(config) ELSE Unlisted

(* explain names the candidate that the routes and the listing leave.        *)
Effective == IF Allows(Listing, Route) THEN Route ELSE [Route EXCEPT !.provider = None]
Explain(n) ==
  Inspect("explain", IF n \notin DOMAIN dist.prompts THEN "no prompt"
                     ELSE IF ~dist.whole THEN "broken dist" ELSE "done")

(* infer_run_target, for at most one agent.                                 *)
RunRefused ==
  IF ~dist.present THEN "no dist"
  ELSE IF tree.agent # "absent" THEN (IF dist.whole THEN None ELSE "broken dist")
  ELSE IF ~Rooted THEN "no target"
  ELSE IF ~dist.whole THEN "broken dist"
  ELSE IF Cardinality(DOMAIN dist.prompts) # 1 THEN "no target" ELSE None

(* What becomes of the request: only the built-in starter is retargeted, and *)
(* OpenRouter knows no stub.                                                *)
Reached == IF tree.agent = "absent" /\ config.present THEN Retarget(config, Route) ELSE Route
Answer ==
  IF ~Allows(Listing, Reached) THEN "denied"
  ELSE IF ~KeyFound(config, Env) THEN "no key"
  ELSE IF Reached = Stub THEN "failed" ELSE "answered"

Run ==
  /\ pc = "idle" /\ command' = Typing("run") /\ outcome' = RunRefused
  /\ IF outcome' = None
     THEN \E n \in DOMAIN dist.prompts : LET made == dist.prompts[n] IN
          /\ pc' = "assemble" /\ context' = NoContext
          /\ source' = made.source /\ declared' = made.declared /\ profile' = made.profile
          /\ ir' = made.ir /\ plans' = made.plans /\ pins' = made.pins /\ dead' = made.dead
          /\ system' = made.system /\ user' = made.user /\ failed' = FALSE
          /\ rows' = (rows + 1) % Stamps
     ELSE UNCHANGED <<compiler, rows>>
  /\ UNCHANGED <<files, dist, report, queue, session>>

(* The daemon assembles the context of the request, and calls a model.       *)
Ask(live, target) ==
  /\ queue = <<>> /\ Assemble(live, target)
  /\ UNCHANGED <<files, dist, rows, report, command, queue, outcome, session, agenda>>
Answered ==
  /\ pc = "done" /\ pc' = "idle" /\ context' = NoContext /\ outcome' = Answer
  /\ UNCHANGED <<profile, declared, source, ir, plans, pins, failed, dead, system, user>>
  /\ UNCHANGED <<files, dist, rows, report, command, queue, session, agenda>>

(* A control: the gate, then whatever the command does to the runtime's      *)
(* state.  Some of them need dist/.                                         *)
Control(id, yes, terminal, answer) ==
  LET goes == Admitted(id, yes, terminal, answer)
      stops == id \in {"dlq_retry", "dlq_drop", "approve", "deny"} /\ ~dist.present IN
  /\ pc = "idle"
  /\ command' = [Typing(id) EXCEPT !.confirmed = yes \/ (terminal /\ answer = "y")]
  /\ outcome' = IF ~goes THEN "blocked" ELSE IF stops THEN "no dist" ELSE "done"
  /\ rows' \in IF outcome' = "done" THEN {rows, (rows + 1) % Stamps} ELSE {rows}
  /\ UNCHANGED <<compiler, files, dist, report, queue, session>>
-----------------------------------------------------------------------------
(* What a person writes.                                                    *)

EditConfig(new) ==
  /\ End("edit", "done") /\ Touch
  /\ config' = [new EXCEPT !.present = TRUE]
  /\ UNCHANGED <<tree, prompts, dotenv, dist, rows, session>>
SetVariables(S) ==
  /\ End("edit", "done") /\ Touch
  /\ dotenv' = [present |-> TRUE, vars |-> dotenv.vars \cup S]
  /\ UNCHANGED <<tree, prompts, config, dist, rows, session>>
WriteSource ==
  /\ End("edit", "done") /\ Touch
  /\ prompts' = [n \in IF prompts = <<>> THEN {"draft"} ELSE DOMAIN prompts |-> Repaired]
  /\ UNCHANGED <<tree, config, dotenv, dist, rows, session>>

(* A person who does what doctor and the commands say, in their order, and   *)
(* runs the project once doctor has nothing to say.                         *)
Tasks == <<"init", "copy example", "create .env", "availability", "key", "default provider",
           "default model", "allow provider", "allow model", "add tool", "add tool key", "tool key",
           "starter", "convert", "write", "build", "doctor", "run">>
Due == Tasks[Min({i \in DOMAIN Tasks : Tasks[i] \in todo})]
Calls(o) ==
  CASE o = "no sources" -> {{"starter", "build"}, {"convert", "build"}}
    [] o \in {"refused", "invalid"} -> {{"write"}}
    [] o \in {"bad prompt", "no model"} -> {{"write", "build"}}
    [] o \in {"no dist", "broken dist"} -> {{"build", "doctor"}}
    [] OTHER -> {}
React ==
  /\ pc = "idle" /\ \E more \in Calls(outcome) : todo' = todo \cup more
  /\ outcome' = "noted"
  /\ UNCHANGED <<compiler, files, dist, rows, report, command, queue, session>>

Tell(task) ==
  \/ task = "init" /\ ScaffoldProject("basic", FALSE, FALSE, FALSE)
  \/ task = "starter" /\ ScaffoldProject("starter", FALSE, FALSE, FALSE)
  \/ task = "create .env" /\ \E S \in {{}, {OpenRouterKey}} : SetVariables(S)
  \/ task = "copy example" /\ \E model \in Models : Setup(OpenRouterKey, model)
  \/ task = "key" /\ SetVariables({KeyVariable(config)})
  \/ task = "tool key" /\ SetVariables({config.tool})
  \/ \E new \in Advised(config, task, Models) : EditConfig(new)
  \/ task = "convert" /\ \E draft \in Drafts, raw \in Said : Convert(draft, raw)
  \/ task = "write" /\ WriteSource
  \/ task = "build" /\ Build("build", DOMAIN prompts, tree)
  \/ task = "run" /\ Run
Guided ==
  /\ person = "guided" /\ UNCHANGED left
  /\ \/ React
     \/ /\ Calls(outcome) = {} /\ todo # {} /\ Due # "doctor"
        /\ Tell(Due) /\ todo' = todo \ {Due}
     \/ /\ Calls(outcome) = {} /\ todo # {} /\ Due = "doctor"
        /\ Diagnose /\ todo' = IF Advice = {} THEN {"run"} ELSE Advice \cup {"doctor"}

(* A person who types what comes to mind.                                   *)
Anything ==
  \/ \E template \in {"basic", "starter"}, force, dry, setup \in BOOLEAN :
       ScaffoldProject(template, force, dry, setup)
  \/ Diagnose
  \/ \E variable \in {OpenRouterKey, "OTHER_KEY"}, model \in Models : Setup(variable, model)
  \/ Check
  \/ \E id \in {"trace_show", "cost", "sessions_ls", "sessions_show"}, result \in {"done", "failed"} :
       Inspect(id, result)
  \/ \E draft \in Drafts, raw \in Said : Convert(draft, raw)
  \/ Build("build", DOMAIN prompts, tree)
  \/ Diff \/ Optimize
  \/ \E gate, live \in BOOLEAN : Evaluate(gate, live)
  \/ \E n \in {"starter", "draft"} : Explain(n) \/ \E file \in {"own", "sampled"} : TraceSample(n, file)
  \/ \E n \in DOMAIN prompts : ScaffoldBuild(n)
  \/ Run
  \/ \E id \in Gated, yes, terminal \in BOOLEAN, answer \in {"y", "n"} : Control(id, yes, terminal, answer)
Free == person = "free" /\ left > 0 /\ left' = left - 1 /\ UNCHANGED todo /\ Anything

(* A build under way is followed by a run.                                  *)
Builder == person = "builder" /\ outcome = "built" /\ Run /\ UNCHANGED agenda
-----------------------------------------------------------------------------
Building == Passing /\ UNCHANGED <<files, dist, rows, report, command, queue, outcome, session, agenda>>

FileOf(sections) ==
  [quality |-> "low", grounded |-> {}, tools |-> "none", inputs |-> [n \in declared |-> "string"],
   sections |-> [i \in DOMAIN sections |->
     [id |-> sections[i].id, priority |-> sections[i].priority, body |-> sections[i].text]]]
NoEvals == <<>>
Ready == [tree |-> [manifest |-> "own", lock |-> "own", prompts |-> TRUE, agents |-> TRUE, agent |-> "absent",
                    evals |-> NoEvals, tuned |-> FALSE, notes |-> {}],
          config |-> NoConfig, exported |-> {OpenRouterKey}, dotenv |-> [present |-> FALSE, vars |-> {}]]
Begins(p) == tree = p.tree /\ config = p.config /\ exported = p.exported /\ dotenv = p.dotenv

ProjectInit ==
  /\ rows = 0 /\ report = NoReport
  /\ \/ /\ Init /\ Begins(Ready) /\ \A i \in DOMAIN source : source[i].text \in Studied
        /\ person = "builder" /\ todo = {} /\ left = 0
        /\ prompts = [n \in {"starter"} |-> FileOf(source)] /\ Compiles(prompts["starter"]) /\ dist = [NoDist EXCEPT !.present = TRUE]
        /\ queue = <<"starter">> /\ command = Typing("build") /\ outcome = None
     \/ \E p \in Projects :
        /\ pc = "idle" /\ profile = "dev" /\ declared = {} /\ source = <<>> /\ ir = <<>>
        /\ plans = <<>> /\ pins = Pinned /\ failed = FALSE /\ dead = {}
        /\ system = <<>> /\ user = <<>> /\ context = NoContext
        /\ Begins(p) /\ prompts = p.prompts /\ dist = NoDist
        /\ queue = <<>> /\ command = Typing("edit") /\ outcome = "none"
        /\ person = p.person
        /\ todo = IF p.person = "guided" THEN {"doctor"} ELSE {}
        /\ left = IF p.person = "guided" THEN 0 ELSE MaxCommands

Work ==
  \/ Building
  \/ BuildFails
  \/ PromptRejected
  \/ PromptWritten
  \/ \E live \in IF person = "builder" THEN LiveContext ELSE {<<>>}, target \in Requested : Ask(live, target)
  \/ Answered
  \/ Guided

ProjectNext == Work \/ Free \/ Builder

(* Commands end, and a person who follows the advice goes on.               *)
ProjectSpec ==
  ProjectInit /\ [][ProjectNext]_project /\ WF_project(person = "guided" /\ Work)
-----------------------------------------------------------------------------
(* doctor says "None. Setup looks ready." (doctor.rs:345): then the next run *)
(* of a scaffolded prompt is neither denied by the local allowlist, which    *)
(* doctor reads by its own rules, nor without a key, nor sent to a stub; but *)
(* a default model with the stub's own name, which doctor takes for any      *)
(* other, has the route stay with the stub (run.rs:881).                    *)
GreenRuns ==
  report.given /\ report.next = {} /\ config.model # Stub.name =>
    (tree.agent = "absent" /\ dist.routes = "scaffold" => Answer = "answered")

(* convert makes the inputs fit the templates by one parser and validates    *)
(* them by another: a draft it leaves behind as invalid has an unknown      *)
(* quality or a broken template, or mentions a name only where the          *)
(* typechecker does not look, or uses one both plainly and in a loop, or    *)
(* names as an input what the first parser takes for a word of the language.*)
DraftsCompile ==
  command.id = "convert" /\ outcome = "invalid" =>
    LET file == prompts["draft"]
        texts == {file.sections[i].body : i \in DOMAIN file.sections}
        refs == UNION {Refs[t] : t \in texts}
        names(how) == {r.name : r \in {r \in refs : r.how = how}} IN
    \/ file.quality \notin DOMAIN Tier \/ texts \cap Malformed # {}
    \/ ~(names("hidden") \subseteq names("plain") \cup names("loop"))
    \/ names("plain") \cap names("loop") # {} \/ names("reserved") # {}

(* What a command overwrites without being forced: a build the lockfile's    *)
(* comments (and fields that it does not know), scaffold-build an agent that *)
(* was edited since it was generated, setup the configuration's comments,   *)
(* trace sample a suite of the name it is given.                            *)
Overwritten(id) ==
  CASE id \in {"build", "optimize"} -> {"lock comments"}
    [] id = "scaffold_build" -> {"lock comments", "agent"}
    [] id \in {"init", "setup"} -> {"config comments"}
    [] id = "trace_sample" -> {"suite"}
    [] OTHER -> {}

(* What a command does stays within what the registry says of it, and what   *)
(* is required to be confirmed was; without --force what a person wrote is  *)
(* as it was, except for what Overwritten names.                            *)
Changed(suites, new) == {f \in DOMAIN suites : f \notin DOMAIN new \/ new[f] # suites[f]}
Kept ==
  /\ tree.notes \ tree'.notes \subseteq Overwritten(command'.id)
  /\ tree.agent \in {"edited", "elsewhere"} /\ tree'.agent # tree.agent => "agent" \in Overwritten(command'.id)
  /\ Changed(tree.evals, tree'.evals) # {} => "suite" \in Overwritten(command'.id)
  /\ \A f, g \in Changed(tree.evals, tree'.evals) : f = g
  /\ \A part \in {"manifest", "lock"} : tree[part] # "absent" => tree'[part] = tree[part]
  /\ \A n \in DOMAIN prompts : n \in DOMAIN prompts' /\ prompts'[n] = prompts[n]
  /\ \A f \in {"availability", "key", "provider", "model"} : config[f] # Unset => config'[f] = config[f]
  /\ config.permitted.providers \subseteq config'.permitted.providers /\ dotenv' = dotenv
Within(safety) ==
  /\ files' # files \/ dist' # dist => safety.files = "project"
  /\ rows' # rows =>
       safety.state = "runtime" /\ (safety.confirm = "required" => command'.confirmed)
CommandsKeepTheirWord ==
  [][command'.id # "edit" => Within(Registry[command'.id]) /\ (command'.force \/ Kept)]_project

(* README.md:88: init, setup, build, run.  Someone who does what doctor and  *)
(* the commands ask for gets an answer, wherever the project began.         *)
AdviceSuffices == <>(person = "guided" => outcome = "answered")

-----------------------------------------------------------------------------
(* Expectations of the documents that the code does not meet. *)

(* capabilities.rs:1262: explain names the first candidate that a real run    *)
(* would actually reach in this environment; a run has it retargeted.        *)
ExplainedIsReached ==
  command.id = "explain" /\ outcome = "done" /\ Effective.provider # None => Effective = Reached

(* cybersin-spec.md:169: trace sample promotes traces to fixtures; eval can   *)
(* use what it wrote, as long as the prompt stays what it was.               *)
SampledIsUsable ==
  command.id = "trace_sample" /\ outcome = "sampled" =>
    \A f \in DOMAIN tree.evals : tree.evals[f].prompt \in DOMAIN dist.prompts =>
      ~SuitesRefused(f :> tree.evals[f], Declared)
=============================================================================
