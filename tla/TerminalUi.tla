---------------------------- MODULE TerminalUi ----------------------------
(***************************************************************************)
(* The terminal UI that bare `cybersin` opens (crates/cybersin-cli/src/    *)
(* commands/tui.rs): one loop draws the screen, reads a key and awaits the *)
(* job it asked for; a build runs in a thread, and the loop goes on        *)
(* reading keys beside it.  The Build tab's workflow is scaffold, then     *)
(* build of one prompt (capabilities.rs, execute_scaffold_build).          *)
(*                                                                         *)
(* A text is its length, that of blanks alone 0; the registry has one      *)
(* capability that builds and one that the browser cannot run.             *)
(***************************************************************************)
EXTENDS Sorting, SequencesExt

CONSTANTS
  Source,      \* the prompt sources there may be, in the order of their names
  Uses         \* what happens in a behaviour: subsets of Use

Use == {"type", "browse", "build", "files"}
Capability == <<"compile.build", "runtime.kill">>
MaxText == 1   \* bound: the length of a text

ASSUME SourcesAssumption == Source \subseteq Nat \ {0} /\ IsFiniteSet(Source)
ASSUME UsesAssumption == \A u \in Uses : u \subseteq Use

VARIABLES
  use,      \* the member of Uses of this behaviour; never changes
  sources, agents, built, log,  \* files: prompts/, agents/, the prompts in dist/, dist/build.log
  app,      \* App
  loop,     \* where run_terminal or run_build_interactive is
  job,      \* what a job is about: the source it builds, the agent it runs
  shown,    \* the prompt source highlighted when "build" was asked for, 0 if none
  thread,   \* the next step of the build thread
  channel,  \* its messages
  about     \* history: the texts and the form that the statuses shown are about

disk == <<sources, agents, built, log>>
build == <<thread, channel>>
uiVars == <<use, disk, app, loop, job, shown, build, about>>

Least(i, n) == IF i <= n THEN i ELSE IF n = 0 THEN 1 ELSE n
Down(i, n) == Least(i + 1, n)
Up(i) == IF i = 1 THEN 1 ELSE i - 1
Highlighted(seq, i) == IF seq = <<>> THEN 0 ELSE seq[Least(i, Len(seq))]

Tabs == <<"convert", "build", "ops">>
UiInit ==
  /\ use \in Uses
  /\ sources \in SUBSET Source /\ agents = {} /\ built = {} /\ log = FALSE
  /\ app = [screen |-> "home", tab |-> "convert", focus |-> "navigation", help |-> FALSE,
            quit |-> FALSE, prompt |-> 0, model |-> 1, out |-> 0, convert |-> "idle",
            build |-> "idle", source |-> 1, ops |-> "idle", entries |-> <<>>, entry |-> 1,
            builds |-> <<>>, pick |-> 1, run |-> "idle", capability |-> 1,
            form |-> [capability |-> 1, text |-> 1], status |-> "idle"]
  /\ loop = "draw" /\ job = 0 /\ shown = 0
  /\ thread = "none" /\ channel = <<>>
  /\ about = [texts |-> <<0, 0, 0>>, form |-> [capability |-> 0, text |-> 0]]

-----------------------------------------------------------------------------
(* render: what the screen shows of an app over the files: the places that it *)
(* marks when they have the focus, the highlighted row of its lists, and the  *)
(* statuses that it tells.                                                    *)

View(places, rows, says) == [places |-> places, rows |-> rows, says |-> says]
NoRows == [capability |-> 0, source |-> 0, entry |-> 0, agent |-> 0]

HomeView == View({"navigation"}, NoRows, {})

(* The list, and the details and the form of the highlighted capability. *)
BrowserView(a) ==
  View({"navigation", "form"}, [NoRows EXCEPT !.capability = Least(a.capability, Len(Capability))],
       {a.status})

ConvertView(a) == View({"prompt", "model", "out", "action"}, NoRows, {a.convert})

(* The sources are those that are there when the screen is drawn. *)
SourcesView(a, S) == [NoRows EXCEPT !.source = Highlighted(Sorted(S), a.source)]
BuildView(a, S) == View({"navigation"}, SourcesView(a, S), {a.build})

(* The row "Builds" is a list of agents of its own, the others are texts. *)
BuildsPanel(a, entry) ==
  View({"navigation", "builds"},
       [NoRows EXCEPT !.entry = entry, !.agent = Highlighted(a.builds, a.pick)], {a.ops, a.run})
OpsView(a) ==
  LET entry == Least(a.entry, Len(a.entries)) IN
  IF a.ops # "success" THEN View({"navigation"}, NoRows, {a.ops})
  ELSE IF a.entries # <<>> /\ a.entries[entry] = "Builds" THEN BuildsPanel(a, entry)
  ELSE View({"navigation"}, [NoRows EXCEPT !.entry = IF a.entries = <<>> THEN 0 ELSE entry], {a.ops})

WorkspaceView(a, S) ==
  CASE a.tab = "convert" -> ConvertView(a)
    [] a.tab = "build" -> BuildView(a, S)
    [] a.tab = "ops" -> OpsView(a)
Rendered(a, S) ==
  CASE a.screen = "home" -> HomeView
    [] a.screen = "browser" -> BrowserView(a)
    [] a.screen = "workspace" -> WorkspaceView(a, S)

-----------------------------------------------------------------------------
(* App::handle_key: the app after a key, and the action that it asks for *)

Key == {"?", "act", "b", "esc", "left", "right", "tab", "backtab", "up", "down", "q",
        "enter", "ctrl-c", "backspace", "char"}
TypedInto(a) == a.focus \in {"prompt", "model", "out"}
Filling(a) == a.screen = "browser" /\ a.focus = "form"

SwitchTab(a, tab) ==
  [a EXCEPT !.tab = tab, !.focus = IF tab = "convert" THEN "prompt" ELSE "navigation"]
Beside(tab, k) ==
  LET i == CHOOSE i \in 1..3 : Tabs[i] = tab
  IN  Tabs[IF k = "right" THEN (i % 3) + 1 ELSE ((i + 1) % 3) + 1]

(* A form belongs to a capability and is built anew for another one. *)
SyncForm(a) ==
  IF a.form.capability = a.capability THEN a
  ELSE [a EXCEPT !.form = [capability |-> a.capability,
                           text |-> IF Capability[a.capability] = "compile.build" THEN 1 ELSE 0]]
Refill(a, text) == [a EXCEPT !.form.text = text, !.status = "idle"]

GoBack(a) ==
  IF a.screen = "home" THEN [a EXCEPT !.quit = TRUE]
  ELSE [a EXCEPT !.screen = "home", !.focus = "navigation"]

OnBuildsRow(a) ==
  a.ops = "success" /\ a.entry \in DOMAIN a.entries /\ a.entries[a.entry] = "Builds"
ToggleOps_OnRow(a) ==                      \* mutant: only from the row "Builds"
  IF ~OnBuildsRow(a) THEN a
  ELSE [a EXCEPT !.focus = IF a.focus # "builds" THEN "builds" ELSE "navigation"]
ToggleOps(a) ==
  [a EXCEPT !.focus = IF a.focus # "builds" /\ OnBuildsRow(a) THEN "builds" ELSE "navigation"]
Ring == <<"prompt", "model", "out", "action">>
Focus(a, k) ==
  CASE a.screen = "browser" -> [a EXCEPT !.focus = IF @ = "form" THEN "navigation" ELSE "form"]
    [] a.screen = "workspace" /\ a.tab = "convert" ->
         LET i == CHOOSE i \in 1..4 : Ring[i] = a.focus
         IN  [a EXCEPT !.focus = Ring[IF k = "tab" THEN (i % 4) + 1 ELSE ((i + 2) % 4) + 1]]
    [] a.screen = "workspace" /\ a.tab = "ops" -> ToggleOps(a)
    [] OTHER -> a

Move(a, k) ==
  LET step(i, n) == IF k = "up" THEN Up(i) ELSE Down(i, n) IN
  CASE a.screen = "browser" /\ a.focus # "form" ->
         SyncForm([a EXCEPT !.capability = step(@, Len(Capability)), !.status = "idle"])
    [] a.screen = "workspace" /\ a.tab = "build" ->
         [a EXCEPT !.source = step(@, Cardinality(sources))]
    [] a.screen = "workspace" /\ a.tab = "ops" ->
         IF a.focus = "builds" THEN [a EXCEPT !.pick = step(@, Len(a.builds))]
         ELSE [a EXCEPT !.entry = step(@, IF a.ops = "success" THEN Len(a.entries) ELSE 0)]
    [] OTHER -> a

Longer == [n \in 0..MaxText |-> IF n < MaxText THEN n + 1 ELSE n]
NewLine == [Longer EXCEPT ![0] = 0]
Shorter == [n \in 0..MaxText |-> IF n > 0 THEN n - 1 ELSE 0]
Edit(a, change) ==
  CASE Filling(a) -> Refill(a, change[a.form.text])
    [] a.focus = "prompt" -> [a EXCEPT !.prompt = change[@], !.convert = "idle"]
    [] a.focus = "model" -> [a EXCEPT !.model = change[@], !.convert = "idle"]
    [] a.focus = "out" -> [a EXCEPT !.out = change[@], !.convert = "idle"]
    [] OTHER -> a

(* request_action, and whether a key asks for it. *)
Requests(a, k) ==
  \/ k = "act"
  \/ /\ k = "enter"
     /\ \/ a.screen = "browser" \/ a.focus = "action"
        \/ a.screen = "workspace" /\ a.tab = "build"
        \/ a.screen = "workspace" /\ a.tab = "ops" /\ a.focus # "builds"
Refused(a) == a.screen = "workspace" /\ a.tab = "convert" /\ a.prompt = 0
RequestedAction(a) ==
  CASE a.screen = "browser" -> "capability"
    [] a.screen = "home" \/ Refused(a) -> "none"
    [] OTHER -> CASE a.tab = "convert" -> "convert" [] a.tab = "build" -> "build"
                  [] a.tab = "ops" -> "refresh"

Quits(a, k) ==
  \/ k = "q" /\ a.focus \notin {"prompt", "form"}
  \/ k = "ctrl-c" /\ a.focus # "prompt"
Handled(a, k) ==
  CASE a.help -> [a EXCEPT !.help = FALSE]
    [] ~a.help /\ k = "?" -> [a EXCEPT !.help = TRUE]
    [] ~a.help /\ Requests(a, k) -> IF Refused(a) THEN [a EXCEPT !.convert = "failure"] ELSE a
    [] ~a.help /\ k = "b" /\ a.screen = "home" ->
         SyncForm([a EXCEPT !.screen = "browser", !.focus = "navigation"])
    [] ~a.help /\ k = "esc" -> GoBack(a)
    [] ~a.help /\ k \in {"left", "right"} ->
         IF a.screen = "workspace" THEN SwitchTab(a, Beside(a.tab, k))
         ELSE IF Filling(a) THEN Refill(a, a.form.text) ELSE a
    [] ~a.help /\ k \in {"tab", "backtab"} -> Focus(a, k)
    [] ~a.help /\ k \in {"up", "down"} -> Move(a, k)
    [] ~a.help /\ Quits(a, k) -> [a EXCEPT !.quit = TRUE]
    [] ~a.help /\ k = "enter" /\ ~Requests(a, k) ->
         IF a.screen = "home" THEN SwitchTab([a EXCEPT !.screen = "workspace"], "convert")
         ELSE IF a.focus = "prompt" THEN Edit(a, NewLine) ELSE a
    [] ~a.help /\ k = "backspace" -> Edit(a, Shorter)
    [] OTHER -> Edit(a, Longer)

Action(a, k) ==
  CASE a.help -> "none"
    [] ~a.help /\ Requests(a, k) -> RequestedAction(a)
    [] ~a.help /\ k = "enter" /\ a.screen = "workspace" /\ a.tab = "ops" /\ a.focus = "builds" ->
         IF a.pick \in DOMAIN a.builds THEN "run" ELSE "none"
    [] ~a.help /\ k \in {"left", "right"} /\ a.screen = "workspace" ->
         IF Beside(a.tab, k) = "ops" /\ a.ops = "idle" THEN "refresh" ELSE "none"
    [] OTHER -> "none"

(* The keys that a behaviour has. *)
Pressable(k) ==
  /\ k \in {"char", "backspace", "ctrl-c", "q"} =>
       (IF app.screen = "browser" THEN "browse" ELSE "type") \in use
  /\ k = "b" => "browse" \in use
  /\ k \in {"left", "right"} => use # {"type"} \/ app.screen # "workspace"
Asked(action) == action \in {"build", "run"} => "build" \in use

-----------------------------------------------------------------------------
(* run_terminal *)

Texts(a) == <<a.prompt, a.model, a.out>>
About(a) == IF a.convert = "failure" /\ app.convert # "failure"
              THEN [about EXCEPT !.texts = Texts(a)] ELSE about

Draw ==
  /\ loop = "draw"
  /\ shown' = Rendered(app, sources).rows.source
  /\ loop' = IF app.quit THEN "closed" ELSE "read"
  /\ UNCHANGED <<use, disk, app, job, build, about>>

(* A key, and the statuses that say what is running. *)
Press(k) ==
  /\ loop = "read" /\ Pressable(k)
  /\ LET a == Handled(app, k)
         action == Action(app, k) IN
     /\ Asked(action)
     /\ loop' = IF action = "none" THEN "draw" ELSE action
     /\ job' = IF action = "run" THEN a.builds[a.pick] ELSE 0
     /\ app' = CASE action = "convert" -> [a EXCEPT !.convert = "running"]
                 [] action = "refresh" -> [a EXCEPT !.ops = "running"]
                 [] action = "run" -> [a EXCEPT !.run = "running"]
                 [] action = "capability" -> [a EXCEPT !.status = "running"]
                 [] OTHER -> a
     /\ shown' = IF action = "build" THEN shown ELSE 0
     /\ about' = About(a)
  /\ UNCHANGED <<use, disk, build>>

(* A conversion writes a prompt source that is not there yet, unless it has a *)
(* path of its own; it fails before that, or when it checks what it wrote. *)
RunConvert ==
  /\ loop = "convert"
  /\ \E written \in {{}} \cup {{s} : s \in Source \ sources} :
       /\ sources' = sources \cup written
       /\ \/ app' = [app EXCEPT !.convert = "failure"]
          \/ /\ written # {} \/ app.out > 0
             /\ app' = [app EXCEPT !.convert = "success"]
  /\ about' = [about EXCEPT !.texts = Texts(app)]
  /\ loop' = "draw"
  /\ UNCHANGED <<use, agents, built, log, job, shown, build>>

(* The logs come before the other rows of the Ops tab; its selections are     *)
(* kept within what was loaded. *)
Refresh ==
  /\ loop = "refresh"
  /\ \E ok \in BOOLEAN :
       LET entries == IF ok THEN (IF log THEN <<"build.log">> ELSE <<>>) \o <<"Builds", "Sessions">>
                      ELSE <<>>
           builds == Sorted(agents)
       IN  app' = [app EXCEPT !.ops = IF ok THEN "success" ELSE "failure", !.entries = entries,
                              !.entry = Least(@, Len(entries)),
                              !.builds = builds, !.pick = Least(@, Len(builds))]
  /\ loop' = "draw"
  /\ UNCHANGED <<use, disk, job, shown, build, about>>

(* A session of an agent, which needs its prompt in dist/. *)
RunAgent ==
  /\ loop = "run"
  /\ \/ app' = [app EXCEPT !.run = "failure"]
     \/ job \in built /\ app' = [app EXCEPT !.run = "success"]
  /\ loop' = "draw" /\ job' = 0
  /\ UNCHANGED <<use, disk, shown, build, about>>

(* run_generic_capability.  "compile.build" compiles every prompt; what it     *)
(* says is shown as a success, even if it is that the build failed, before   *)
(* or after dist/ was cleared.                                              *)
RunCapability ==
  /\ loop = "capability"
  /\ \/ app' = [app EXCEPT !.status = "failure"] /\ UNCHANGED <<built, log>>
     \/ /\ Capability[app.capability] = "compile.build" /\ app.form.text > 0
        /\ app' = [app EXCEPT !.status = "success"]
        /\ \/ UNCHANGED <<built, log>>
           \/ sources # {} /\ log' = FALSE /\ built' \in {{}, sources}
  /\ about' = [about EXCEPT !.form = app.form]
  /\ loop' = "draw"
  /\ UNCHANGED <<use, sources, agents, job, shown, build>>

-----------------------------------------------------------------------------
(* run_build_interactive *)

(* The source is the selected one of those that are there now. *)
StartBuild ==
  /\ loop = "build"
  /\ shown' = 0
  /\ job' = Highlighted(Sorted(sources), app.source)
  /\ IF job' = 0
       THEN /\ app' = [app EXCEPT !.build = "failure"]
            /\ loop' = "draw" /\ UNCHANGED <<thread, channel>>
       ELSE /\ app' = [app EXCEPT !.build = "running"]
            /\ loop' = "drain" /\ thread' = "scaffold" /\ channel' = <<>>
  /\ UNCHANGED <<use, disk, about>>

(* The thread: an agent for the prompt, a compile that may fail, dist/ with   *)
(* nothing but this prompt.  Each step tells, the last one the result. *)
Notify(message) == channel' = Append(channel, message)
Scaffold ==
  /\ thread = "scaffold"
  /\ \/ thread' = "compile" /\ agents' = agents \cup {job} /\ UNCHANGED channel
     \/ thread' = "none" /\ Notify("failure") /\ UNCHANGED agents
  /\ UNCHANGED <<use, sources, built, log, app, loop, job, shown, about>>
Compile ==
  /\ thread = "compile"
  /\ \/ thread' = "write" /\ Notify("progress") /\ built' = {} /\ log' = FALSE
     \/ thread' = "none" /\ Notify("failure") /\ UNCHANGED <<built, log>>
  /\ UNCHANGED <<use, sources, agents, app, loop, job, shown, about>>
Write ==
  /\ thread = "write"
  /\ thread' = "none"
  /\ \/ Notify("success") /\ built' = {job}
     \/ Notify("failure") /\ UNCHANGED built
  /\ UNCHANGED <<use, sources, agents, log, app, loop, job, shown, about>>

(* The loop takes the messages that are there; the result is logged. *)
TakeProgress ==
  /\ loop = "drain" /\ channel # <<>> /\ Head(channel) = "progress"
  /\ channel' = Tail(channel)
  /\ UNCHANGED <<use, disk, app, loop, job, shown, thread, about>>
TakeResult_KeepsOps ==                     \* mutant: the Ops tab is not reset
  /\ loop = "drain" /\ channel # <<>> /\ Head(channel) # "progress"
  /\ channel' = Tail(channel)
  /\ log' = TRUE
  /\ app' = [app EXCEPT !.build = Head(channel)]
  /\ loop' = "draw" /\ job' = 0
  /\ UNCHANGED <<use, sources, agents, built, shown, thread, about>>
TakeResult ==
  /\ loop = "drain" /\ channel # <<>> /\ Head(channel) # "progress"
  /\ channel' = Tail(channel)
  /\ log' = TRUE
  /\ LET a == [app EXCEPT !.build = Head(channel)]
     IN  app' = IF Head(channel) = "success" THEN [a EXCEPT !.ops = "idle", !.entry = 1] ELSE a
  /\ loop' = "draw" /\ job' = 0
  /\ UNCHANGED <<use, sources, agents, built, shown, thread, about>>

(* It draws, and handles a key if there is one; the action that the key asks  *)
(* for is dropped. *)
DrawBuild ==
  /\ loop = "drain" /\ channel = <<>>
  /\ loop' = "poll"
  /\ UNCHANGED <<use, disk, app, job, shown, build, about>>
PollKey(k) ==
  /\ loop = "poll" /\ Pressable(k)
  /\ app' = Handled(app, k)
  /\ about' = About(app')
  /\ loop' = "drain"
  /\ UNCHANGED <<use, disk, job, shown, build>>
PollNothing ==
  /\ loop = "poll"
  /\ loop' = "drain"
  /\ UNCHANGED <<use, disk, app, job, shown, build, about>>

(* Somebody else's editor adds or removes a source. *)
EditFiles ==
  /\ "files" \in use
  /\ \E S \in SUBSET Source : Cardinality(S) # Cardinality(sources) /\ sources' = S
  /\ UNCHANGED <<use, agents, built, log, app, loop, job, shown, build, about>>

Thread == Scaffold \/ Compile \/ Write
Watching == TakeProgress \/ TakeResult \/ DrawBuild \/ PollNothing
Running == RunConvert \/ Refresh \/ RunAgent \/ RunCapability \/ StartBuild
UiNext ==
  \/ Draw \/ Running \/ Thread \/ Watching \/ EditFiles
  \/ \E k \in Key : Press(k) \/ PollKey(k)
UiSpec == UiInit /\ [][UiNext]_uiVars
(* The loop draws and goes on beside a build, whose thread goes on; nobody    *)
(* has to press a key, and the other jobs may take for ever. *)
FairUiSpec == UiSpec /\ WF_uiVars(Draw) /\ WF_uiVars(StartBuild) /\ WF_uiVars(Thread)
                 /\ WF_uiVars(TakeProgress \/ TakeResult \/ DrawBuild)
                 /\ WF_uiVars(PollNothing \/ \E k \in Key : PollKey(k))

-----------------------------------------------------------------------------
(* Properties *)

Result == {"success", "failure"}
Status == {"idle", "running"} \cup Result
Capabilities == DOMAIN Capability
App ==
  [screen : {"home", "browser", "workspace"}, tab : {"convert", "build", "ops"},
   focus : {"prompt", "model", "out", "action", "navigation", "builds", "form"}, help : BOOLEAN, quit : BOOLEAN,
   prompt : 0..MaxText, model : 0..MaxText, out : 0..MaxText, convert : Status,
   build : Status, source : Nat \ {0},
   ops : Status, entries : Seq({"build.log", "Builds", "Sessions"}), entry : Nat \ {0},
   builds : Seq(Source), pick : Nat \ {0}, run : Status,
   capability : Capabilities, form : [capability : Capabilities, text : 0..MaxText], status : Status]
UiTypeOK ==
  /\ use \in Uses
  /\ sources \subseteq Source /\ agents \subseteq Source /\ built \subseteq Source /\ log \in BOOLEAN
  /\ app \in App
  /\ loop \in {"draw", "read", "closed", "convert", "build", "refresh", "run", "capability",
              "drain", "poll"}
  /\ job \in Source \cup {0} /\ shown \in Source \cup {0}
  /\ thread \in {"none", "scaffold", "compile", "write"}
  /\ channel \in Seq({"progress"} \cup Result)
  /\ about \in [texts : [1..3 -> 0..MaxText], form : [capability : 0..Len(Capability), text : 0..MaxText]]

(* Keys go where the user looks: the focus is one that the screen and its tab *)
(* know, whatever was pressed, beside a build as well; no key takes it to     *)
(* where nothing is drawn; and where a build or a load that ended has left it *)
(* beneath the list of agents, which is not drawn any more, Tab finds it.     *)
Places(a, S) == Rendered(a, S).places
AgentsLoaded(a) == [a EXCEPT !.ops = "success", !.entries = <<"Builds">>]
TabFindsTheFocus ==
  app.focus \notin Places(app, sources) /\ ~app.help =>
    LET a == Handled(app, "tab") IN a.focus \in Places(a, sources)
FocusIsShown ==
  [][/\ app'.focus \in Places(AgentsLoaded(app'), sources')
     /\ loop \in {"read", "poll"} /\ app.focus \in Places(app, sources)
          => (app'.focus \in Places(app', sources') \/ app'.ops = "running")
     /\ TabFindsTheFocus']_uiVars

(* The list of agents that the Ops tab has loaded, of which Enter runs one,   *)
(* is that of agents/, whatever was built and pressed since: but while a     *)
(* build runs, and after one that failed, which may have written an agent    *)
(* and does not have the list loaded again (tui.rs:1434).                    *)
OpsAreFresh == app.ops = "success" /\ app.build \in {"idle", "success"} => app.builds = Sorted(agents)

(* The outcome of a conversion or of a capability stands on the screen beside *)
(* the texts and the form it is about, or not at all.                        *)
StatusIsCurrent ==
  Rendered(app, sources).says \cap {"success", "failure"} # {} =>
    /\ app.screen = "workspace" /\ app.tab = "convert" => about.texts = Texts(app)
    /\ app.screen = "browser" => about.form = app.form

(* Quitting closes the UI, beside a build once that has ended.               *)
QuitIsHeeded == app.quit ~> loop = "closed"

-----------------------------------------------------------------------------
(* Expectations of the comments and of the screen that the code does not meet. *)

(* tui.rs:62-66: the focus is on the Builds list only while the row "Builds"  *)
(* is selected; so Enter runs the agent that is highlighted there (:742).     *)
RunIsShown ==
  [][loop = "read" /\ loop' = "run" => job' = Rendered(app, sources).rows.agent]_uiVars

(* The prompt that is built is the highlighted one. *)
BuildIsShown == [][loop = "build" /\ thread' = "scaffold" => job' = shown]_uiVars

(* A q typed into the fields Model and Out, of which qwen would start with    *)
(* one, is text (:97 calls the tab the one "with editable fields").           *)
TypingDoesNotQuit == [][TypedInto(app) /\ app'.quit => app.quit]_uiVars

(* The Ops tab has the log of the last build among its rows, of one that      *)
(* failed or was asked for in the capability browser as well.                *)
OpsSeeEveryBuild ==
  loop = "read" /\ app.ops = "success" => (log <=> "build.log" \in ToSet(app.entries))

(* What the Build tab has built can be run. *)
BuiltCanRun == loop = "read" /\ app.build = "success" => agents \subseteq built
=============================================================================
