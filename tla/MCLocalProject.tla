---------------------------- MODULE MCLocalProject ----------------------------
(* Texts, targets, drafts and projects for the TLC instance of LocalProject. *)
EXTENDS LocalProject

(* "shout" mentions a name in a filter only, "each" loops over one, "void"   *)
(* has a bare word of the template language, "torn" is not a template,      *)
(* "json" asks for structured output.                                       *)
Texts == {"", "rule", "ask", "brief", "shout", "each", "void", "torn", "json"}
Short == {"", "rule", "ask", "brief"}
NoText == ""
Length == "" :> 0 @@ "rule" :> 3 @@ "ask" :> 2 @@ "brief" :> 1 @@ [t \in Texts \ Short |-> 1]
Asking == {"ask", "shout", "each", "void", "torn"}
Topic == {"topic"}
Mentioned == {"topic", "none"}
References ==
  [t \in Texts |-> CASE t = "ask" -> {[name |-> "topic", how |-> "plain"]}
                     [] t = "each" -> {[name |-> "topic", how |-> "loop"]}
                     [] t = "shout" -> {[name |-> "topic", how |-> "hidden"]}
                     [] t = "void" -> {[name |-> "none", how |-> "reserved"]}
                     [] OTHER -> {}]
Named == [t \in Texts |-> {r.name : r \in References[t]}]
Ranks == {1, 2}
Lock == "ask" :> "ask" @@ "rule" :> "brief"
Unavailable == <<>>
Backends == <<[target |-> "openai", window |-> 5, reserved |-> 1],
              [target |-> "generic", window |-> 1, reserved |-> 2]>>
Routes == {"openai", "anthropic"}
Memory == [id |-> "d", priority |-> 2, text |-> "rule"]
Document == [id |-> "e", priority |-> 1, text |-> "brief"]
Shadow == [id |-> "a", priority |-> 1, text |-> "ask"]
Extras == {<<>>, <<Document, Memory>>, <<Shadow, Document, Document>>}

(* Fragments: one includes another twice, one includes itself, one a file    *)
(* that is not there.                                                       *)
Paths == {"intro.md", "twice.md", "loop.md", "lost.md", "gone.md"}
Files == "intro.md" :> <<"rule">> @@ "twice.md" :> <<"intro.md", "", "intro.md">>
         @@ "loop.md" :> <<"", "loop.md">> @@ "lost.md" :> <<"gone.md">>
First(texts) == LET said == {i \in DOMAIN texts : texts[i] # ""} IN
  IF said = {} THEN "" ELSE texts[Min(said)]

Piece(id, body) == [id |-> id, priority |-> 1, body |-> body]
Prompt(quality, inputs, sections) ==
  [quality |-> quality, grounded |-> {}, tools |-> "none", inputs |-> inputs, sections |-> sections]
Takes(type) == "topic" :> type
Starting == Prompt("medium", Takes("string"), <<Piece("role", "twice.md"), Piece("a", "ask")>>)
Mended == Prompt("medium", Takes("string"), <<Piece("a", "ask")>>)
Doubled == Prompt("low", Takes("string"), <<Piece("a", "ask"), Piece("a", "rule")>>)
Voided == Prompt("medium", "none" :> "string", <<Piece("a", "void")>>)
Priced == {"low", "medium"}
Troubled ==
  {Mended, Doubled, Voided, [Mended EXCEPT !.quality = "low"], [Mended EXCEPT !.tools = "misnamed"],
   [Mended EXCEPT !.grounded = {"medium"}], [Mended EXCEPT !.grounded = {"low"}],
   Prompt("low", Takes("string"), <<Piece("a", "loop.md")>>),
   Prompt("low", Takes("string"), <<Piece("a", "lost.md")>>),
   Prompt("odd", Takes("string"), <<Piece("a", "ask")>>),
   Prompt("low", Takes("odd"), <<Piece("a", "ask")>>),
   Prompt("low", Takes("list"), <<Piece("a", "ask")>>),
   Prompt("low", Takes("string"), <<Piece("a", "rule")>>),
   Prompt("low", Takes("string"), <<Piece("a", "ask"), Piece("b", "torn")>>),
   [Prompt("low", Takes("string"), <<Piece("a", "ask")>>) EXCEPT !.grounded = {"high"}]}

(* What the drafting model may make of what was said.                       *)
Part(id, text) == [id |-> id, priority |-> 1, text |-> text, unmapped |-> FALSE]
Draft(inputs, sections) ==
  [safeName |-> TRUE, quality |-> "medium", inputs |-> inputs, sections |-> sections,
   tools |-> "none", contract |-> None]
Nothing == <<>>
Answers ==
  {Draft(Nothing, <<Part("a", "rule")>>), Draft(Nothing, <<>>),
   [Draft(Nothing, <<Part("a", "rule")>>) EXCEPT !.contract = "bad"],
   [Draft(Nothing, <<Part("a", "rule")>>) EXCEPT !.safeName = FALSE],
   [Draft(Nothing, <<Part("a", "rule")>>) EXCEPT !.quality = "odd"],
   [Draft(Nothing, <<Part("a", "rule")>>) EXCEPT !.quality = "low"],
   [Draft(Nothing, <<Part("a", "rule")>>) EXCEPT !.tools = "misnamed"],
   Draft("none" :> "string", <<Part("a", "void")>>),
   Draft(Takes("odd"), <<Part("a", "rule"), Part("b", "ask")>>)}
  \cup {Draft(inputs, <<Part("a", t), Part("b", u)>>) :
          inputs \in {Nothing, Takes("integer"), Takes("list")},
          t \in {"rule", "ask", "each", "torn"}, u \in {"brief", "ask", "shout"}}
Requests == {"rule", "ask", "shout", "json"}
Demanding == {"json"}

Chosen == {"m1", "m2"}
Listings == {Unlisted, [providers |-> {OpenRouter}, models |-> {}],
             [providers |-> {"anthropic"}, models |-> {}],
             [providers |-> {}, models |-> {{"m1"}}]}
Configs ==
  {NoConfig} \cup
  {[EmptyConfig EXCEPT !.availability = a, !.key = k, !.provider = p, !.model = m,
                       !.permitted = l, !.legacy = g, !.tool = t] :
     a \in {Unset, "unavailable"}, k \in {Unset, "OTHER_KEY"}, p \in {Unset, "anthropic", OpenRouter},
     m \in {Unset, "m2"}, l \in Listings, g \in Listings, t \in {Unset, "TOOL_KEY"}}
Bare == [manifest |-> "absent", lock |-> "absent", prompts |-> FALSE, agents |-> FALSE, agent |-> "absent",
         evals |-> NoEvals, tuned |-> FALSE, notes |-> {}]
Spine == [Bare EXCEPT !.manifest = "scaffold", !.lock = "scaffold", !.prompts = TRUE, !.agents = TRUE,
                      !.notes = {"lock comments"}]

(* Outputs and suites for eval: the last runs once less than it has outputs.  *)
Good == Sample(TRUE, {"topic"}, 2)
Poor == Sample(FALSE, {"rude"}, 1)
Given == {Good, Poor}
Case(given, misfits, assertions, recorded) ==
  [given |-> given, misfits |-> misfits, says |-> {"topic"}, assertions |-> assertions, recorded |-> recorded]
Asserted == <<JsonValid, ContainsNone({"rude"}), Judge({"good"}, 2), Custom({"topic"})>>
Suite(runs, cases) == [prompt |-> "starter", runs |-> runs, cases |-> cases]
Suites ==
  {NoEvals, "own" :> Suite(0, <<>>), "own" :> Suite(1, <<>>),
   "own" :> Suite(1, <<Case(Topic, {}, <<>>, <<>>)>>), "own" :> Suite(1, <<Case(Topic, {}, <<JsonValid>>, <<>>)>>),
   "own" :> Suite(2, <<Case(Topic, {}, Asserted, <<Good, Poor>>)>>),
   "own" :> Suite(1, <<Case(Topic, {}, Asserted, <<Good, Poor>>)>>)}
  \cup {"own" :> Suite(1, <<c>>) :
          c \in {Case({}, {}, <<>>, <<>>), Case(Topic, Topic, <<>>, <<>>), Case(Topic \cup {"odd"}, {}, <<>>, <<>>)}
                \cup {Case(Topic, {}, <<a>>, <<Good>>) :
                        a \in {Judge({}, 1), Judge({"good"}, 3), ContainsNone({}), Custom({})}}}
NoEnv == [present |-> FALSE, vars |-> {}]
Beginning(who, t, p, c, e) ==
  [person |-> who, tree |-> t, prompts |-> p, config |-> c, exported |-> e, dotenv |-> NoEnv]
Laid == {Bare, [Spine EXCEPT !.manifest = "own", !.lock = "own", !.agent = "elsewhere"],
         [Spine EXCEPT !.agent = "edited", !.notes = @ \cup {"config comments"}]}
Drawn == {<<>>, "starter" :> Mended, "starter" :> Doubled, "starter" :> Mended @@ "draft" :> Starting}
Beginnings ==
  {Beginning("guided", Spine, "starter" :> Mended, c, e) :
     c \in Configs, e \in {{}, {OpenRouterKey}, {"OTHER_KEY"}}}
  \cup {Beginning("guided", t, <<>>, NoConfig, {}) :
     t \in {Bare, [Spine EXCEPT !.lock = "absent"], [Spine EXCEPT !.prompts = FALSE]}}
  \cup {Beginning("guided", Spine, "starter" :> f, NoConfig, {OpenRouterKey}) : f \in Troubled}
  \cup {Beginning("free", t, p, NoConfig, {}) : t \in Laid, p \in Drawn}
  \cup {Beginning("free", t, p, c, {OpenRouterKey}) :
     t \in Laid, p \in {<<>>, "starter" :> Mended},
     c \in {NoConfig, [EmptyConfig EXCEPT !.model = "m2", !.permitted.providers = {"anthropic"}]}}
  \cup {Beginning("free", [Spine EXCEPT !.evals = suites], "starter" :> Mended, NoConfig, {}) : suites \in Suites}
=============================================================================
