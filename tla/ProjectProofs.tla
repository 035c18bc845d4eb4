----------------------------- MODULE ProjectProofs -----------------------------
(***************************************************************************)
(* What one person does with a project: at the terminal UI (TerminalUi),    *)
(* whose focus is always on something that the screen shows and whose Ops   *)
(* tab is never older than the last build; and by the commands             *)
(* (LocalProject), which keep to what the registry says of them, of which   *)
(* doctor says what a run will find, and convert leaves no draft behind     *)
(* that the frontend refuses without one of four reasons.  What they build  *)
(* has every text of the source (PromptContext), and what they ask sheds no *)
(* section that it could keep.  For any files, texts, drafts, models,       *)
(* windows and number of commands.                                         *)
(***************************************************************************)
EXTENDS LocalProject, TerminalUi, SequenceTheorems, FiniteSetTheorems, WellFoundedInduction, TLAPS

-----------------------------------------------------------------------------
(* Sorted lists *)

(* Sorting a finite set by a strict total order lists every member, each    *)
(* before those that it precedes.                                           *)
LEMMA RankedList ==
  ASSUME NEW S, IsFiniteSet(S), NEW R,
         \A x \in S : <<x, x>> \notin R,
         \A x, y, z \in S : <<x, y>> \in R /\ <<y, z>> \in R => <<x, z>> \in R,
         \A x, y \in S : x # y => <<x, y>> \in R \/ <<y, x>> \in R
  PROVE  /\ Cardinality(S) \in Nat
         /\ Ranked(S, R) \in [1..Cardinality(S) -> S]
         /\ \A x \in S : \E i \in 1..Cardinality(S) : Ranked(S, R)[i] = x
         /\ \A i, j \in 1..Cardinality(S) : i < j => <<Ranked(S, R)[i], Ranked(S, R)[j]>> \in R
<1>. DEFINE n == Cardinality(S)
            Below(x) == {y \in S : <<y, x>> \in R}
            rank == [x \in S |-> Cardinality(Below(x))]
<1>1. n \in Nat
  BY FS_CardinalityType
<1>2. ASSUME NEW x \in S
      PROVE  IsFiniteSet(Below(x)) /\ Cardinality(Below(x)) \in 0..n - 1
  <2>1. Below(x) \subseteq S \ {x}
    OBVIOUS
  <2>2. IsFiniteSet(S \ {x}) /\ Cardinality(S \ {x}) = n - 1
    BY FS_RemoveElement
  <2>3. IsFiniteSet(Below(x)) /\ Cardinality(Below(x)) <= n - 1
    <3>. HIDE DEF Below
    <3>. QED
      BY <2>1, <2>2, FS_Subset
  <2>. QED
    <3>. HIDE DEF Below
    <3>. QED
      BY <1>1, <2>3, FS_CardinalityType
<1>3. ASSUME NEW x \in S, NEW z \in S, <<x, z>> \in R
      PROVE  rank[x] < rank[z]
  <2>1. Below(x) \subseteq Below(z) /\ x \in Below(z) /\ x \notin Below(x)
    BY <1>3
  <2>2. rank[x] = Cardinality(Below(x)) /\ rank[z] = Cardinality(Below(z))
    OBVIOUS
  <2>. HIDE DEF Below, rank, n
  <2>3. Cardinality(Below(x)) <= Cardinality(Below(z)) /\ Cardinality(Below(x)) # Cardinality(Below(z))
    BY <1>2, <2>1, FS_Subset
  <2>4. Cardinality(Below(x)) \in Int /\ Cardinality(Below(z)) \in Int
    BY <1>1, <1>2
  <2>. QED
    BY <2>2, <2>3, <2>4
<1>4. rank \in [S -> 0..n - 1] /\ \A x, z \in S : rank[x] = rank[z] => x = z
  <2>1. rank \in [S -> 0..n - 1]
    BY <1>2
  <2>2. ASSUME NEW x \in S, NEW z \in S, rank[x] = rank[z] PROVE x = z
    <3>1. rank[x] \in Int /\ rank[z] \in Int
      BY <2>1
    <3>. HIDE DEF rank
    <3>2. ~(<<x, z>> \in R) /\ ~(<<z, x>> \in R)
      BY <1>3, <2>2, <3>1
    <3>. QED
      BY <3>2
  <2>. QED
    BY <2>1, <2>2
<1>5. ASSUME NEW i \in 1..n PROVE \E x \in S : rank[x] = i - 1
  <2>1. IsFiniteSet(0..n - 1) /\ Cardinality(0..n - 1) = n
    <3>. HIDE DEF n
    <3>. QED
      BY <1>1, FS_Interval
  <2>. HIDE DEF rank, Below, n
  <2>2. rank \in Injection(S, 0..n - 1)
    BY <1>4 DEF Injection, IsInjective
  <2>3. rank \in Surjection(S, 0..n - 1)
    BY <2>1, <2>2, FS_Injection DEF n
  <2>4. i - 1 \in 0..n - 1
    BY <1>1
  <2>. QED
    BY <2>3, <2>4 DEF Surjection
<1>. DEFINE q == Ranked(S, R)
<1>6. q = [i \in 1..n |-> CHOOSE x \in S : Cardinality(Below(x)) = i - 1]
  BY DEF Ranked
<1>7. \A i \in 1..n : q[i] \in S /\ rank[q[i]] = i - 1
  <2>1. \A x \in S : rank[x] = Cardinality(Below(x))
    OBVIOUS
  <2>. HIDE DEF q, n, Below, rank
  <2>. QED
    BY <1>5, <1>6, <2>1
<1>8. q \in [1..n -> S]
  <2>. HIDE DEF Below, rank, n
  <2>1. q = [i \in 1..n |-> q[i]]
    BY <1>6
  <2>. HIDE DEF q
  <2>. QED
    BY <1>7, <2>1
<1>. HIDE DEF q, n, Below, rank
<1>9. \A x \in S : \E i \in 1..n : q[i] = x
  <2>. TAKE x \in S
  <2>1. rank[x] + 1 \in 1..n /\ rank[x] + 1 - 1 = rank[x]
    BY <1>1, <1>4
  <2>. QED
    BY <1>4, <1>7, <2>1
<1>10. \A i, j \in 1..n : i < j => <<q[i], q[j]>> \in R
  <2>. SUFFICES ASSUME NEW i \in 1..n, NEW j \in 1..n, i < j PROVE <<q[i], q[j]>> \in R
    OBVIOUS
  <2>1. rank[q[i]] < rank[q[j]] /\ ~(rank[q[j]] < rank[q[i]])
    BY <1>1, <1>7
  <2>. QED
    BY <1>3, <1>7, <2>1
<1>. QED
  BY <1>1, <1>8, <1>9, <1>10 DEF q, n

LEMMA SortedList ==
  ASSUME NEW S \in SUBSET Int, IsFiniteSet(S)
  PROVE  /\ Cardinality(S) \in Nat
         /\ Sorted(S) \in [1..Cardinality(S) -> S]
         /\ \A x \in S : \E i \in 1..Cardinality(S) : Sorted(S)[i] = x
         /\ \A i, j \in 1..Cardinality(S) : i < j => Sorted(S)[i] < Sorted(S)[j]
<1>. DEFINE R == {p \in S \X S : p[1] < p[2]}
<1>1. \A x, y : <<x, y>> \in R <=> x \in S /\ y \in S /\ x < y
  OBVIOUS
<1>2. \A x \in S : x \in Int
  OBVIOUS
<1>3. Sorted(S) = Ranked(S, R)
  BY DEF Sorted
<1>. HIDE DEF R
<1>4. /\ \A x \in S : <<x, x>> \notin R
      /\ \A x, y, z \in S : <<x, y>> \in R /\ <<y, z>> \in R => <<x, z>> \in R
      /\ \A x, y \in S : x # y => <<x, y>> \in R \/ <<y, x>> \in R
  BY <1>1, <1>2
<1>5. /\ Cardinality(S) \in Nat
      /\ Ranked(S, R) \in [1..Cardinality(S) -> S]
      /\ \A x \in S : \E i \in 1..Cardinality(S) : Ranked(S, R)[i] = x
      /\ \A i, j \in 1..Cardinality(S) : i < j => <<Ranked(S, R)[i], Ranked(S, R)[j]>> \in R
  BY <1>4, RankedList
<1>. QED
  BY <1>1, <1>3, <1>5

-----------------------------------------------------------------------------
(* The places of a screen: what it draws for an app, and what it would with   *)
(* the list of agents loaded.                                                *)
OnAgents(a) == a.ops = "success" /\ a.entries # <<>> /\ a.entries[Least(a.entry, Len(a.entries))] = "Builds"
Around(a, loaded) ==
  CASE a.screen = "browser" -> {"navigation", "form"}
    [] a.screen = "workspace" /\ a.tab = "convert" -> {"prompt", "model", "out", "action"}
    [] a.screen = "workspace" /\ a.tab = "ops" /\ loaded -> {"navigation", "builds"}
    [] OTHER -> {"navigation"}
Shown(a) == a.focus \in Around(a, OnAgents(a))
Known(a) == a.focus \in Around(a, TRUE)

LEMMA PlacesAround ==
  ASSUME NEW a \in App, NEW S
  PROVE  Places(a, S) = Around(a, OnAgents(a))
<1>1. CASE a.screen = "home"
  BY <1>1 DEF Places, Rendered, HomeView, View, Around
<1>2. CASE a.screen = "browser"
  BY <1>2 DEF Places, Rendered, BrowserView, View, Around
<1>3. CASE a.screen = "workspace" /\ a.tab = "convert"
  BY <1>3 DEF Places, Rendered, WorkspaceView, ConvertView, View, Around
<1>4. CASE a.screen = "workspace" /\ a.tab = "build"
  BY <1>4 DEF Places, Rendered, WorkspaceView, BuildView, View, Around
<1>5. CASE a.screen = "workspace" /\ a.tab = "ops"
  <2>1. Places(a, S) = OpsView(a).places
    BY <1>5 DEF Places, Rendered, WorkspaceView
  <2>2. CASE OnAgents(a)
    <3>1. OpsView(a) = BuildsPanel(a, Least(a.entry, Len(a.entries)))
      BY <2>2 DEF OpsView, OnAgents
    <3>. QED
      BY <1>5, <2>1, <2>2, <3>1 DEF BuildsPanel, View, Around
  <2>3. CASE ~OnAgents(a)
    <3>1. OpsView(a).places = {"navigation"}
      BY <2>3 DEF OpsView, OnAgents, View
    <3>. QED
      BY <1>5, <2>1, <2>3, <3>1 DEF Around
  <2>. QED
    BY <2>2, <2>3
<1>. QED
  BY <1>1, <1>2, <1>3, <1>4, <1>5 DEF App

LEMMA LoadedAround ==
  ASSUME NEW a \in App, NEW S
  PROVE  Places(AgentsLoaded(a), S) = Around(a, TRUE)
<1>. DEFINE b == AgentsLoaded(a)
<1>0. <<"Builds">> \in Seq({"build.log", "Builds", "Sessions"})
  OBVIOUS
<1>1. /\ b \in App /\ b.screen = a.screen /\ b.tab = a.tab /\ b.ops = "success"
      /\ b.entries = <<"Builds">> /\ b.entry = a.entry
  BY ZenonT(30), <1>0 DEF AgentsLoaded, App, Status, Result
<1>2. Least(b.entry, 1) = 1
  BY SMTT(20), <1>1 DEF Least, App
<1>3. OnAgents(b)
  BY <1>1, <1>2 DEF OnAgents
<1>. QED
  BY <1>1, <1>3, PlacesAround DEF Around

-----------------------------------------------------------------------------
(* Sequences of files *)

LEMMA LeastIsIndex ==
  ASSUME NEW i \in Nat \ {0}, NEW n \in Nat
  PROVE  /\ Least(i, n) \in Nat \ {0} /\ Down(i, n) \in Nat \ {0} /\ Up(i) \in Nat \ {0}
         /\ n > 0 => Least(i, n) \in 1..n
         /\ i \in 1..n => Least(i, n) = i /\ Down(i, n) \in 1..n /\ Up(i) \in 1..n
BY DEF Least, Down, Up

-----------------------------------------------------------------------------
(* What a key makes of the app *)

(* The build and the list of agents, which no key and no other job touches.   *)
SameBuilds(a, b) == b.build = a.build /\ b.builds = a.builds
Alike(a, b) ==
  /\ b.screen = a.screen /\ b.tab = a.tab /\ b.focus = a.focus
  /\ b.ops = a.ops /\ b.entries = a.entries /\ b.entry = a.entry
  /\ SameBuilds(a, b)
Handles(a, b) ==
  b \in App /\ b.ops = a.ops /\ SameBuilds(a, b) /\ Known(b) /\ (Shown(a) => Shown(b))

(* A key that leaves the screen, its tab and the selected row alone.          *)
LEMMA Stays ==
  ASSUME NEW a \in App, Known(a), NEW b \in App, Alike(a, b)
  PROVE  Handles(a, b)
BY DEF Alike, Handles, Known, Shown, Around, OnAgents

LEMMA Nothing == ASSUME NEW a \in App, Known(a) PROVE Handles(a, a)
BY Stays DEF Alike, SameBuilds

LEMMA RefillKeeps ==
  ASSUME NEW a \in App, NEW n \in 0..MaxText
  PROVE  Refill(a, n) \in App /\ Alike(a, Refill(a, n))
<1>. DEFINE form == [a.form EXCEPT !.text = n]
<1>1. form \in [capability : Capabilities, text : 0..MaxText]
  BY DEF App
<1>2. Refill(a, n) = [a EXCEPT !.form = form, !.status = "idle"]
  BY DEF Refill
<1>. HIDE DEF form
<1>3. Refill(a, n) \in App
  BY ZenonT(30), <1>1, <1>2 DEF App, Status
<1>4. Alike(a, Refill(a, n))
  BY <1>2 DEF Alike, SameBuilds, App
<1>. QED
  BY <1>3, <1>4

LEMMA SyncFormKeeps ==
  ASSUME NEW a \in App
  PROVE  /\ SyncForm(a) \in App
         /\ Alike(a, SyncForm(a))
<1>. DEFINE form == [capability |-> a.capability,
                     text |-> IF Capability[a.capability] = "compile.build" THEN 1 ELSE 0]
<1>1. form \in [capability : Capabilities, text : 0..MaxText]
  BY DEF App, MaxText
<1>2. SyncForm(a) \in {a, [a EXCEPT !.form = form]}
  BY DEF SyncForm
<1>. HIDE DEF form
<1>3. SyncForm(a) \in App
  BY SMTT(20), <1>1, <1>2 DEF App
<1>4. Alike(a, SyncForm(a))
  BY <1>2 DEF Alike, SameBuilds, App
<1>. QED
  BY <1>3, <1>4

LEMMA EditKeeps ==
  ASSUME NEW a \in App, Known(a), NEW change \in [0..MaxText -> 0..MaxText]
  PROVE  Handles(a, Edit(a, change))
<1>. DEFINE b == Edit(a, change)
<1>. SUFFICES Handles(a, b)
  OBVIOUS
<1>1. CASE Filling(a)
  <2>1. b = Refill(a, change[a.form.text])
    BY <1>1 DEF Edit, Filling
  <2>2. change[a.form.text] \in 0..MaxText
    BY DEF App
  <2>. QED
    BY <2>1, <2>2, RefillKeeps, Stays
<1>2. CASE ~Filling(a)
  <2>1. CASE a.focus = "prompt"
    <3>1. b = [a EXCEPT !.prompt = change[@], !.convert = "idle"]
      BY <1>2, <2>1 DEF Edit
    <3>2. b \in App /\ Alike(a, b)
      BY ZenonT(30), <3>1 DEF Alike, SameBuilds, App, Status
    <3>. QED
      BY <3>2, Stays
  <2>2. CASE a.focus = "model"
    <3>1. b = [a EXCEPT !.model = change[@], !.convert = "idle"]
      BY <1>2, <2>2 DEF Edit
    <3>2. b \in App /\ Alike(a, b)
      BY ZenonT(30), <3>1 DEF Alike, SameBuilds, App, Status
    <3>. QED
      BY <3>2, Stays
  <2>3. CASE a.focus = "out"
    <3>1. b = [a EXCEPT !.out = change[@], !.convert = "idle"]
      BY <1>2, <2>3 DEF Edit
    <3>2. b \in App /\ Alike(a, b)
      BY ZenonT(30), <3>1 DEF Alike, SameBuilds, App, Status
    <3>. QED
      BY <3>2, Stays
  <2>4. CASE a.focus \notin {"prompt", "model", "out"}
    <3>1. b = a
      BY <1>2, <2>4 DEF Edit
    <3>. QED
      BY <3>1, Nothing
  <2>. QED
    BY <2>1, <2>2, <2>3, <2>4
<1>. QED
  BY <1>1, <1>2

LEMMA MoveKeeps ==
  ASSUME NEW a \in App, Known(a), NEW k, IsFiniteSet(sources)
  PROVE  Handles(a, Move(a, k))
<1>. DEFINE step(i, n) == IF k = "up" THEN Up(i) ELSE Down(i, n)
            b == Move(a, k)
<1>. SUFFICES Handles(a, b)
  OBVIOUS
<1>0. /\ \A i \in Nat \ {0}, n \in Nat : step(i, n) \in Nat \ {0}
      /\ \A i \in Capabilities : step(i, Len(Capability)) \in Capabilities
  <2>1. Len(Capability) = 2 /\ Capabilities = 1..2
    BY DEF Capabilities, Capability
  <2>2. ASSUME NEW i \in 1..2 PROVE step(i, 2) \in 1..2
    BY DEF Down, Least, Up
  <2>3. ASSUME NEW i \in Nat \ {0}, NEW n \in Nat PROVE step(i, n) \in Nat \ {0}
    BY LeastIsIndex
  <2>. QED
    BY <2>1, <2>2, <2>3
<1>1. CASE a.screen = "browser" /\ a.focus # "form"
  <2>. DEFINE c == [a EXCEPT !.capability = step(@, Len(Capability)), !.status = "idle"]
  <2>1. b = SyncForm(c)
    BY <1>1 DEF Move
  <2>2. c \in App /\ Alike(a, c)
    <3>. DEFINE n == step(a.capability, Len(Capability))
    <3>1. n \in Capabilities
      BY <1>0 DEF App
    <3>2. c = [a EXCEPT !.capability = n, !.status = "idle"]
      OBVIOUS
    <3>. HIDE DEF n, c
    <3>. QED
      BY <3>1, <3>2 DEF Alike, SameBuilds, App, Status
  <2>9. b \in App /\ Alike(a, b)
    BY <2>1, <2>2, SyncFormKeeps DEF Alike, SameBuilds
  <2>. QED
    BY <2>9, Stays
<1>2. CASE a.screen = "workspace" /\ a.tab = "build"
  <2>1. b = [a EXCEPT !.source = step(@, Cardinality(sources))]
    BY <1>2 DEF Move
  <2>2. step(a.source, Cardinality(sources)) \in Nat \ {0}
    BY <1>0, FS_CardinalityType DEF App
  <2>. HIDE DEF step, b
  <2>9. b \in App /\ Alike(a, b)
    BY <2>1, <2>2 DEF Alike, SameBuilds, App
  <2>. QED
    BY <2>9, Stays
<1>3. CASE a.screen = "workspace" /\ a.tab = "ops" /\ a.focus = "builds"
  <2>1. b = [a EXCEPT !.pick = step(@, Len(a.builds))]
    BY <1>3 DEF Move
  <2>2. step(a.pick, Len(a.builds)) \in Nat \ {0}
    BY <1>0, LenProperties DEF App
  <2>. HIDE DEF step, b
  <2>9. b \in App /\ Alike(a, b)
    BY <2>1, <2>2 DEF Alike, SameBuilds, App
  <2>. QED
    BY <2>9, Stays
<1>4. CASE a.screen = "workspace" /\ a.tab = "ops" /\ a.focus # "builds"
  <2>. DEFINE n == IF a.ops = "success" THEN Len(a.entries) ELSE 0
  <2>1. b = [a EXCEPT !.entry = step(@, n)]
    BY <1>4 DEF Move
  <2>2. step(a.entry, n) \in Nat \ {0}
    BY <1>0, LenProperties DEF App
  <2>. HIDE DEF step, b, n
  <2>3. /\ b \in App /\ b.ops = a.ops /\ b.screen = a.screen /\ b.tab = a.tab /\ b.focus = a.focus
        /\ SameBuilds(a, b)
    BY <2>1, <2>2 DEF App, SameBuilds
  <2>. QED
    BY <1>4, <2>3 DEF Handles, Known, Shown, Around
<1>5. CASE ~ \/ a.screen = "browser" /\ a.focus # "form"
             \/ a.screen = "workspace" /\ a.tab = "build"
             \/ a.screen = "workspace" /\ a.tab = "ops"
  <2>1. b = a
    BY <1>5 DEF Move
  <2>9. b \in App /\ Alike(a, b)
    BY <2>1 DEF Alike, SameBuilds
  <2>. QED
    BY <2>9, Stays
<1>. QED
  BY <1>1, <1>2, <1>3, <1>4, <1>5

LEMMA FocusKeeps ==
  ASSUME NEW a \in App, Known(a), NEW k
  PROVE  Handles(a, Focus(a, k))
<1>. DEFINE b == Focus(a, k)
<1>. SUFFICES Handles(a, b)
  OBVIOUS
<1>1. CASE a.screen = "browser"
  <2>1. b = [a EXCEPT !.focus = IF @ = "form" THEN "navigation" ELSE "form"]
    BY <1>1 DEF Focus
  <2>. QED
    BY <1>1, <2>1 DEF Handles, SameBuilds, Known, Shown, Around, App
<1>2. CASE a.screen = "workspace" /\ a.tab = "convert"
  <2>1. PICK i \in 1..4 : b = [a EXCEPT !.focus = Ring[i]]
    <3>1. a.focus \in {"prompt", "model", "out", "action"}
      BY <1>2 DEF Known, Around
    <3>2. \E i \in 1..4 : Ring[i] = a.focus
      BY <3>1 DEF Ring
    <3>. DEFINE i == CHOOSE i \in 1..4 : Ring[i] = a.focus
                j == IF k = "tab" THEN (i % 4) + 1 ELSE ((i + 2) % 4) + 1
    <3>3. i \in 1..4
      BY <3>2
    <3>4. j \in 1..4
      <4>. HIDE DEF i
      <4>. QED
        BY <3>3
    <3>5. b = [a EXCEPT !.focus = Ring[j]]
      BY <1>2 DEF Focus
    <3>. QED
      BY <3>4, <3>5
  <2>2. Ring[i] \in {"prompt", "model", "out", "action"}
    BY DEF Ring
  <2>. HIDE DEF b
  <2>. QED
    BY <1>2, <2>1, <2>2 DEF Handles, SameBuilds, Known, Shown, Around, App
<1>3. CASE a.screen = "workspace" /\ a.tab = "ops"
  <2>1. b = ToggleOps(a)
    BY <1>3 DEF Focus
  <2>2. OnBuildsRow(a) => OnAgents(a)
    <3>. SUFFICES ASSUME OnBuildsRow(a) PROVE OnAgents(a)
      OBVIOUS
    <3>1. Len(a.entries) \in Nat /\ DOMAIN a.entries = 1..Len(a.entries)
      BY LenProperties DEF App
    <3>2. a.entries # <<>> /\ Least(a.entry, Len(a.entries)) = a.entry
      BY <3>1 DEF OnBuildsRow, Least
    <3>. QED
      BY <3>2 DEF OnBuildsRow, OnAgents
  <2>3. /\ b \in App /\ b.ops = a.ops /\ b.screen = a.screen /\ b.tab = a.tab
        /\ b.entries = a.entries /\ b.entry = a.entry /\ SameBuilds(a, b)
        /\ b.focus \in {"navigation"} \cup (IF OnBuildsRow(a) THEN {"builds"} ELSE {})
    <3>. HIDE DEF b
    <3>. QED
      BY <2>1 DEF ToggleOps, SameBuilds, App
  <2>. HIDE DEF b
  <2>4. OnAgents(b) <=> OnAgents(a)
    BY <2>3 DEF OnAgents
  <2>. QED
    BY <1>3, <2>2, <2>3, <2>4 DEF Handles, Known, Shown, Around
<1>4. CASE a.screen # "browser" /\ ~(a.screen = "workspace" /\ a.tab \in {"convert", "ops"})
  <2>1. b = a
    BY <1>4 DEF Focus
  <2>9. b \in App /\ Alike(a, b)
    BY <2>1 DEF Alike, SameBuilds
  <2>. QED
    BY <2>9, Stays
<1>. QED
  BY <1>1, <1>2, <1>3, <1>4

LEMMA SwitchKeeps ==
  ASSUME NEW a \in App, NEW tab \in {"convert", "build", "ops"}, a.screen = "workspace"
  PROVE  Handles(a, SwitchTab(a, tab))
BY DEF SwitchTab, Handles, SameBuilds, Known, Shown, Around, App

LEMMA BesideIsTab ==
  ASSUME NEW tab \in {"convert", "build", "ops"}, NEW k
  PROVE  Beside(tab, k) \in {"convert", "build", "ops"}
<1>. DEFINE i == CHOOSE i \in 1..3 : Tabs[i] = tab
            j == IF k = "right" THEN (i % 3) + 1 ELSE ((i + 1) % 3) + 1
<1>1. \E n \in 1..3 : Tabs[n] = tab
  BY DEF Tabs
<1>2. i \in 1..3
  BY <1>1
<1>3. j \in 1..3
  <2>. HIDE DEF i
  <2>. QED
    BY <1>2
<1>4. Beside(tab, k) = Tabs[j]
  BY DEF Beside
<1>. HIDE DEF j
<1>. QED
  BY <1>3, <1>4 DEF Tabs

LEMMA HandledKeeps ==
  ASSUME NEW a \in App, Known(a), NEW k \in Key, IsFiniteSet(sources)
  PROVE  Handles(a, Handled(a, k))
<1>. DEFINE b == Handled(a, k)
<1>. SUFFICES Handles(a, b)
  OBVIOUS
<1>0. /\ Longer \in [0..MaxText -> 0..MaxText] /\ Shorter \in [0..MaxText -> 0..MaxText]
      /\ NewLine \in [0..MaxText -> 0..MaxText]
  BY DEF Longer, Shorter, NewLine, MaxText
<1>1. CASE a.help
  <2>1. b = [a EXCEPT !.help = FALSE]
    BY <1>1 DEF Handled
  <2>9. b \in App /\ Alike(a, b)
    BY <2>1 DEF Alike, SameBuilds, App
  <2>. QED
    BY <2>9, Stays
<1>2. CASE ~a.help /\ k = "?"
  <2>1. b = [a EXCEPT !.help = TRUE]
    BY <1>2 DEF Handled, Requests, Quits
  <2>9. b \in App /\ Alike(a, b)
    BY <2>1 DEF Alike, SameBuilds, App
  <2>. QED
    BY <2>9, Stays
<1>3. CASE ~a.help /\ Requests(a, k)
  <2>1. b = [a EXCEPT !.convert = "failure"] \/ b = a
    BY <1>3 DEF Handled, Requests, Quits
  <2>2. CASE b = [a EXCEPT !.convert = "failure"]
    <3>1. b \in App /\ Alike(a, b)
      BY ZenonT(30), <2>2 DEF Alike, SameBuilds, App, Status, Result
    <3>. QED
      BY <3>1, Stays
  <2>. QED
    BY <2>1, <2>2, Nothing
<1>4. CASE ~a.help /\ k = "b" /\ a.screen = "home"
  <2>. DEFINE c == [a EXCEPT !.screen = "browser", !.focus = "navigation"]
  <2>1. b = SyncForm(c)
    BY <1>4 DEF Handled, Requests, Quits
  <2>2. c \in App
    BY DEF App
  <2>3. /\ b \in App /\ b.ops = a.ops /\ b.screen = "browser" /\ b.focus = "navigation"
        /\ SameBuilds(a, b)
    <3>1. c.ops = a.ops /\ c.screen = "browser" /\ c.focus = "navigation" /\ SameBuilds(a, c)
      BY DEF App, SameBuilds
    <3>. QED
      BY <2>1, <2>2, <3>1, SyncFormKeeps DEF Alike, SameBuilds
  <2>. HIDE DEF b
  <2>. QED
    BY <2>3 DEF Handles, Known, Shown, Around
<1>5. CASE ~a.help /\ k = "esc"
  <2>1. b = GoBack(a)
    BY <1>5 DEF Handled, Requests, Quits
  <2>2. CASE a.screen = "home"
    <3>1. b = [a EXCEPT !.quit = TRUE]
      BY <2>1, <2>2 DEF GoBack
    <3>9. b \in App /\ Alike(a, b)
      BY <3>1 DEF Alike, SameBuilds, App
    <3>. QED
      BY <3>9, Stays
  <2>3. CASE a.screen # "home"
    <3>1. b = [a EXCEPT !.screen = "home", !.focus = "navigation"]
      BY <2>1, <2>3 DEF GoBack
    <3>. QED
      BY ZenonT(30), <3>1 DEF Handles, SameBuilds, Known, Shown, Around, App
  <2>. QED
    BY <2>2, <2>3
<1>6. CASE ~a.help /\ k \in {"left", "right"}
  <2>1. b = IF a.screen = "workspace" THEN SwitchTab(a, Beside(a.tab, k))
            ELSE IF Filling(a) THEN Refill(a, a.form.text) ELSE a
    BY <1>6 DEF Handled, Requests, Quits
  <2>2. CASE a.screen = "workspace"
    <3>1. b = SwitchTab(a, Beside(a.tab, k)) /\ a.tab \in {"convert", "build", "ops"}
      BY <2>1, <2>2 DEF App
    <3>. HIDE DEF b
    <3>. QED
      BY <2>2, <3>1, BesideIsTab, SwitchKeeps
  <2>3. CASE a.screen # "workspace" /\ Filling(a)
    <3>1. b = Refill(a, a.form.text)
      BY <2>1, <2>3
    <3>. HIDE DEF b
    <3>9. b \in App /\ Alike(a, b)
      BY <3>1 DEF Alike, SameBuilds, Refill, App, Status
    <3>. QED
      BY <3>9, Stays
  <2>4. CASE a.screen # "workspace" /\ ~Filling(a)
    BY <2>1, <2>4, Nothing
  <2>. QED
    BY <2>2, <2>3, <2>4
<1>7. CASE ~a.help /\ k \in {"tab", "backtab"}
  <2>1. b = Focus(a, k)
    BY <1>7 DEF Handled, Requests, Quits
  <2>. QED
    BY <2>1, FocusKeeps
<1>8. CASE ~a.help /\ k \in {"up", "down"}
  <2>1. b = Move(a, k)
    BY <1>8 DEF Handled, Requests, Quits
  <2>. QED
    BY <2>1, MoveKeeps
<1>9. CASE ~a.help /\ Quits(a, k)
  <2>1. b = [a EXCEPT !.quit = TRUE]
    BY <1>9 DEF Handled, Requests, Quits
  <2>9. b \in App /\ Alike(a, b)
    BY <2>1 DEF Alike, SameBuilds, App
  <2>. QED
    BY <2>9, Stays
<1>10. CASE ~a.help /\ k = "enter" /\ ~Requests(a, k)
  <2>1. b = IF a.screen = "home" THEN SwitchTab([a EXCEPT !.screen = "workspace"], "convert")
            ELSE IF a.focus = "prompt" THEN Edit(a, NewLine) ELSE a
    BY <1>10 DEF Handled, Quits
  <2>2. CASE a.screen = "home"
    <3>. DEFINE c == [a EXCEPT !.screen = "workspace"]
    <3>1. c \in App /\ c.screen = "workspace" /\ c.ops = a.ops /\ SameBuilds(a, c)
      BY DEF App, SameBuilds
    <3>2. b = SwitchTab(c, "convert")
      BY <2>1, <2>2
    <3>3. b.screen = "workspace" /\ b.tab = "convert" /\ b.focus = "prompt"
      BY <3>1, <3>2 DEF SwitchTab, App
    <3>4. b \in App /\ b.ops = a.ops /\ SameBuilds(a, b)
      BY ZenonT(30), <3>1, <3>2 DEF SwitchTab, App, SameBuilds
    <3>. HIDE DEF b
    <3>. QED
      BY <3>3, <3>4 DEF Handles, Known, Shown, Around
  <2>3. CASE a.screen # "home" /\ a.focus = "prompt"
    BY <1>0, <2>1, <2>3, EditKeeps
  <2>4. CASE a.screen # "home" /\ a.focus # "prompt"
    BY <2>1, <2>4, Nothing
  <2>. QED
    BY <2>2, <2>3, <2>4
<1>11. CASE ~a.help /\ k = "backspace"
  <2>1. b = Edit(a, Shorter)
    BY <1>11 DEF Handled, Requests, Quits
  <2>. QED
    BY <1>0, <2>1, EditKeeps
<1>12. CASE ~(\/ a.help \/ k = "?" \/ Requests(a, k) \/ (k = "b" /\ a.screen = "home") \/ k = "esc"
              \/ k \in {"left", "right", "tab", "backtab", "up", "down"} \/ Quits(a, k)
              \/ k = "enter" \/ k = "backspace")
  <2>1. b = Edit(a, Longer)
    BY <1>12 DEF Handled
  <2>. QED
    BY <1>0, <2>1, EditKeeps
<1>. QED
  BY <1>1, <1>2, <1>3, <1>4, <1>5, <1>6, <1>7, <1>8, <1>9, <1>10, <1>11, <1>12

-----------------------------------------------------------------------------
(* Types *)

(* The members of a finite set of numbers, each at the place that its rank    *)
(* gives it.                                                                 *)
LEMMA SortedSeq ==
  ASSUME NEW S, S \subseteq Nat, IsFiniteSet(S)
  PROVE  Sorted(S) \in Seq(S) /\ Len(Sorted(S)) = Cardinality(S)
<1>. DEFINE s == Sorted(S)
            n == Cardinality(S)
<1>1. n \in Nat /\ s \in [1..n -> S]
  BY SortedList
<1>. HIDE DEF s, n
<1>2. s \in Seq(S)
  BY <1>1, SeqDef
<1>. QED
  BY <1>1, <1>2, LenProperties DEF s, n

LEMMA HighlightedType ==
  ASSUME NEW S \in SUBSET Source, NEW i \in Nat \ {0}
  PROVE  Highlighted(Sorted(S), i) \in S \cup {0}
<1>1. Sorted(S) \in Seq(S)
  BY SourcesAssumption, FS_Subset, SortedSeq
<1>. DEFINE s == Sorted(S)
<1>2. Len(s) \in Nat /\ s \in [1..Len(s) -> S] /\ (s # <<>> => Len(s) > 0)
  BY <1>1, LenProperties, EmptySeq
<1>. HIDE DEF s
<1>. QED
  BY <1>2, LeastIsIndex DEF Highlighted, s

LEMMA RowsType ==
  ASSUME NEW a \in App, NEW S \in SUBSET Source
  PROVE  Rendered(a, S).rows.source \in Source \cup {0}
<1>0. /\ NoRows.source = 0
      /\ \A n : [NoRows EXCEPT !.capability = n].source = 0 /\ [NoRows EXCEPT !.entry = n].source = 0
      /\ \A m, n : [NoRows EXCEPT !.entry = m, !.agent = n].source = 0
  BY DEF NoRows
<1>1. CASE a.screen = "home"
  BY <1>0, <1>1 DEF Rendered, HomeView, View
<1>2. CASE a.screen = "browser"
  BY <1>0, <1>2 DEF Rendered, BrowserView, View
<1>3. CASE a.screen = "workspace" /\ a.tab = "convert"
  BY <1>0, <1>3 DEF Rendered, WorkspaceView, ConvertView, View
<1>4. CASE a.screen = "workspace" /\ a.tab = "build"
  <2>1. Rendered(a, S).rows.source = Highlighted(Sorted(S), a.source)
    BY <1>4 DEF Rendered, WorkspaceView, BuildView, View, SourcesView, NoRows
  <2>2. a.source \in Nat \ {0}
    BY DEF App
  <2>. QED
    BY <2>1, <2>2, HighlightedType
<1>5. CASE a.screen = "workspace" /\ a.tab = "ops"
  BY <1>0, <1>5 DEF Rendered, WorkspaceView, OpsView, BuildsPanel, View
<1>. QED
  BY <1>1, <1>2, <1>3, <1>4, <1>5 DEF App

(* A build thread is about a prompt, is watched, and has told no result yet.  *)
BuildInv ==
  thread # "none" =>
    /\ job # 0 /\ loop \in {"drain", "poll"} /\ app.build = "running"
    /\ \A i \in DOMAIN channel : channel[i] = "progress"
UiInv == UiTypeOK /\ BuildInv /\ Known(app) /\ OpsAreFresh

LEMMA InitUi == UiInit => UiInv
<1>. SUFFICES ASSUME UiInit PROVE UiInv
  OBVIOUS
<1>1. <<>> \in Seq({"build.log", "Builds", "Sessions"}) /\ <<>> \in Seq(Source)
      /\ <<>> \in Seq({"progress"} \cup Result)
  BY EmptySeq
<1>2. app \in App
  BY <1>1 DEF UiInit, App, Status, Capabilities, Capability, MaxText
<1>3. Known(app) /\ OpsAreFresh
  BY DEF UiInit, Known, Around, OpsAreFresh
<1>4. about \in [texts : [1..3 -> 0..MaxText], form : [capability : 0..Len(Capability), text : 0..MaxText]]
  BY DEF UiInit, MaxText, Capability
<1>. QED
  BY <1>1, <1>2, <1>3, <1>4 DEF UiInit, UiInv, UiTypeOK, BuildInv

LEMMA AboutType ==
  ASSUME UiTypeOK, NEW a \in App, NEW b
  PROVE  /\ [about EXCEPT !.texts = Texts(a)] \in
              [texts : [1..3 -> 0..MaxText], form : [capability : 0..Len(Capability), text : 0..MaxText]]
         /\ About(a) \in
              [texts : [1..3 -> 0..MaxText], form : [capability : 0..Len(Capability), text : 0..MaxText]]
<1>1. Texts(a) \in [1..3 -> 0..MaxText]
  BY DEF Texts, App
<1>. QED
  BY <1>1 DEF About, UiTypeOK

(* A step of the loop that leaves the app, the files and the build alone.    *)
LEMMA FilesFinite == UiTypeOK => IsFiniteSet(sources) /\ IsFiniteSet(agents)
BY SourcesAssumption, FS_Subset DEF UiTypeOK

LEMMA DrawUi == UiInv /\ Draw => UiInv'
<1>. SUFFICES ASSUME UiInv, Draw PROVE UiInv'
  OBVIOUS
<1>1. shown' \in Source \cup {0}
  BY RowsType DEF Draw, UiInv, UiTypeOK
<1>. QED
  BY <1>1 DEF Draw, UiInv, UiTypeOK, BuildInv, Known, OpsAreFresh, disk, build

(* What a key does, and what it says is running.                             *)
LEMMA ActionKinds ==
  ASSUME NEW a \in App, NEW k \in Key
  PROVE  Action(a, k) \in {"none", "convert", "build", "refresh", "run", "capability"}
BY DEF Action, RequestedAction, App

LEMMA PressUi == ASSUME UiInv, NEW k \in Key, Press(k) PROVE UiInv'
<1>. DEFINE a == Handled(app, k)
            action == Action(app, k)
<1>1. Handles(app, a)
  BY HandledKeeps, FilesFinite DEF UiInv, UiTypeOK
<1>2. action \in {"none", "convert", "build", "refresh", "run", "capability"}
  BY ActionKinds DEF UiInv, UiTypeOK
<1>3. /\ app' \in App /\ Known(app') /\ (app'.ops = "success" => app.ops = "success")
      /\ SameBuilds(app, app')
  <2>1. app' \in {[a EXCEPT !.convert = "running"], [a EXCEPT !.ops = "running"],
                  [a EXCEPT !.run = "running"], [a EXCEPT !.status = "running"], a}
    BY <1>2 DEF Press
  <2>2. a \in App /\ a.ops = app.ops /\ Known(a) /\ SameBuilds(app, a)
    BY <1>1 DEF Handles
  <2>. HIDE DEF a
  <2>3. CASE app' = [a EXCEPT !.convert = "running"]
    BY <2>2, <2>3 DEF App, Status, Known, Around, SameBuilds
  <2>4. CASE app' = [a EXCEPT !.ops = "running"]
    BY <2>2, <2>4 DEF App, Status, Known, Around, SameBuilds
  <2>5. CASE app' = [a EXCEPT !.run = "running"]
    BY <2>2, <2>5 DEF App, Status, Known, Around, SameBuilds
  <2>6. CASE app' = [a EXCEPT !.status = "running"]
    BY <2>2, <2>6 DEF App, Status, Known, Around, SameBuilds
  <2>. QED
    BY <2>1, <2>2, <2>3, <2>4, <2>5, <2>6
<1>4. job' \in Source \cup {0}
  <2>1. CASE action # "run"
    BY <2>1 DEF Press
  <2>2. CASE action = "run"
    <3>1. ~app.help /\ k = "enter" /\ ~Requests(app, k) /\ app.pick \in DOMAIN app.builds
          /\ app.screen = "workspace" /\ app.tab = "ops" /\ app.focus = "builds"
      <4>1. app.tab \in {"convert", "build", "ops"}
        BY DEF UiInv, UiTypeOK, App
      <4>2. RequestedAction(app) # "run"
        BY <4>1 DEF RequestedAction
      <4>3. app.help \in BOOLEAN
        BY DEF UiInv, UiTypeOK, App
      <4>4. CASE app.help
        BY <2>2, <4>4 DEF Action
      <4>5. CASE ~app.help /\ Requests(app, k)
        <5>1. Action(app, k) = RequestedAction(app)
          BY <4>3, <4>5 DEF Action, Requests
        <5>. QED
          BY <2>2, <4>2, <5>1
      <4>. QED
        BY <2>2, <4>3, <4>4, <4>5 DEF Action
    <3>2. a = app
      BY <3>1 DEF Handled, Quits
    <3>3. job' = app.builds[app.pick]
      BY <2>2, <3>2 DEF Press
    <3>. QED
      <4>1. app.builds \in Seq(Source)
        BY DEF UiInv, UiTypeOK, App
      <4>2. app.pick \in 1..Len(app.builds)
        BY <3>1, <4>1, LenProperties
      <4>. QED
        BY <3>3, <4>1, <4>2, ElementOfSeq
  <2>. QED
    BY <2>1, <2>2
<1>5. about' \in [texts : [1..3 -> 0..MaxText], form : [capability : 0..Len(Capability), text : 0..MaxText]]
  BY <1>1, AboutType DEF Press, UiInv, Handles
<1>6. loop = "read" /\ loop' \in {"draw", "convert", "build", "refresh", "run", "capability"}
  BY <1>2 DEF Press
<1>7. shown' \in Source \cup {0} /\ UNCHANGED <<use, disk, build>>
  BY DEF Press, UiInv, UiTypeOK
<1>. QED
  BY <1>3, <1>4, <1>5, <1>6, <1>7 DEF UiInv, UiTypeOK, BuildInv, OpsAreFresh, SameBuilds, disk, build

(* The jobs of run_terminal. *)
LEMMA SameFocus ==
  ASSUME NEW a, NEW b, Known(a), b.focus = a.focus, b.screen = a.screen, b.tab = a.tab
  PROVE  Known(b)
BY DEF Known, Around

LEMMA ConvertUi == ASSUME UiInv, RunConvert PROVE UiInv'
<1>1. PICK written \in {{}} \cup {{s} : s \in Source \ sources} : sources' = sources \cup written
  BY DEF RunConvert
<1>2. sources' \subseteq Source
  BY <1>1 DEF UiInv, UiTypeOK
<1>3. \/ app' = [app EXCEPT !.convert = "failure"]
      \/ app' = [app EXCEPT !.convert = "success"]
  BY DEF RunConvert
<1>4. /\ app' \in App /\ app'.ops = app.ops /\ SameBuilds(app, app')
      /\ app'.focus = app.focus /\ app'.screen = app.screen /\ app'.tab = app.tab
  <2>1. app \in App
    BY DEF UiInv, UiTypeOK
  <2>2. CASE app' = [app EXCEPT !.convert = "failure"]
    BY <2>1, <2>2 DEF App, Status, Result, SameBuilds
  <2>3. CASE app' = [app EXCEPT !.convert = "success"]
    BY <2>1, <2>3 DEF App, Status, Result, SameBuilds
  <2>. QED
    BY <1>3, <2>2, <2>3
<1>5. Known(app')
  BY <1>4, SameFocus DEF UiInv
<1>6. about' \in [texts : [1..3 -> 0..MaxText], form : [capability : 0..Len(Capability), text : 0..MaxText]]
  BY AboutType DEF RunConvert, UiInv, UiTypeOK
<1>. QED
  BY <1>2, <1>4, <1>5, <1>6 DEF RunConvert, UiInv, UiTypeOK, BuildInv, Known, OpsAreFresh, SameBuilds, build

LEMMA RefreshUi == ASSUME UiInv, Refresh PROVE UiInv'
<1>1. PICK ok \in BOOLEAN :
        LET entries == IF ok THEN (IF log THEN <<"build.log">> ELSE <<>>) \o <<"Builds", "Sessions">>
                       ELSE <<>>
            builds == Sorted(agents)
        IN  app' = [app EXCEPT !.ops = IF ok THEN "success" ELSE "failure", !.entries = entries,
                               !.entry = Least(@, Len(entries)),
                               !.builds = builds, !.pick = Least(@, Len(builds))]
  BY DEF Refresh
<1>. DEFINE EntryNames == {"build.log", "Builds", "Sessions"}
            entries == IF ok THEN (IF log THEN <<"build.log">> ELSE <<>>) \o <<"Builds", "Sessions">>
                       ELSE <<>>
            builds == Sorted(agents)
            entry == Least(app.entry, Len(entries))
            pick == Least(app.pick, Len(builds))
            ops == IF ok THEN "success" ELSE "failure"
<1>2. entries \in Seq(EntryNames)
  <2>1. <<"Builds", "Sessions">> \in Seq(EntryNames) /\ <<"build.log">> \in Seq(EntryNames) /\ <<>> \in Seq(EntryNames)
    OBVIOUS
  <2>. HIDE DEF EntryNames
  <2>. QED
    BY <2>1, ConcatProperties
<1>3. builds \in Seq(Source)
  <2>1. builds \in Seq(agents)
    BY SortedSeq, FilesFinite, SourcesAssumption DEF UiInv, UiTypeOK
  <2>. QED
    BY <2>1, SeqMonotonic DEF UiInv, UiTypeOK
<1>4. entry \in Nat \ {0} /\ pick \in Nat \ {0}
  <2>1. Len(entries) \in Nat /\ Len(builds) \in Nat
    BY <1>2, <1>3, LenProperties
  <2>2. app.entry \in Nat \ {0} /\ app.pick \in Nat \ {0}
    BY DEF UiInv, UiTypeOK, App
  <2>. HIDE DEF entries, builds
  <2>. QED
    BY <2>1, <2>2, LeastIsIndex
<1>5. app' = [app EXCEPT !.ops = ops, !.entries = entries, !.entry = entry, !.builds = builds, !.pick = pick]
  BY <1>1
<1>6. ops \in Result
  BY DEF Result
<1>. HIDE DEF entries, builds, entry, pick, ops
<1>7. /\ app' \in App /\ app'.builds = Sorted(agents) /\ app'.build = app.build
      /\ app'.focus = app.focus /\ app'.screen = app.screen /\ app'.tab = app.tab
  <2>1. app \in App
    BY DEF UiInv, UiTypeOK
  <2>. QED
    BY <1>2, <1>3, <1>4, <1>5, <1>6, <2>1 DEF App, Status, builds
<1>8. Known(app')
  BY <1>7, SameFocus DEF UiInv
<1>. QED
  BY <1>7, <1>8 DEF Refresh, UiInv, UiTypeOK, BuildInv, Known, OpsAreFresh, SameBuilds, disk, build

LEMMA RunAgentUi == ASSUME UiInv, RunAgent PROVE UiInv'
<1>1. app' = [app EXCEPT !.run = "failure"] \/ app' = [app EXCEPT !.run = "success"]
  BY DEF RunAgent
<1>2. /\ app' \in App /\ app'.ops = app.ops /\ SameBuilds(app, app')
      /\ app'.focus = app.focus /\ app'.screen = app.screen /\ app'.tab = app.tab
  <2>1. app \in App
    BY DEF UiInv, UiTypeOK
  <2>2. CASE app' = [app EXCEPT !.run = "failure"]
    BY <2>1, <2>2 DEF App, Status, Result, SameBuilds
  <2>3. CASE app' = [app EXCEPT !.run = "success"]
    BY <2>1, <2>3 DEF App, Status, Result, SameBuilds
  <2>. QED
    BY <1>1, <2>2, <2>3
<1>3. Known(app')
  BY <1>2, SameFocus DEF UiInv
<1>. QED
  BY <1>2, <1>3 DEF RunAgent, UiInv, UiTypeOK, BuildInv, OpsAreFresh, SameBuilds, disk, build

LEMMA RunCapabilityUi == ASSUME UiInv, RunCapability PROVE UiInv'
<1>1. app' = [app EXCEPT !.status = "failure"] \/ app' = [app EXCEPT !.status = "success"]
  BY DEF RunCapability
<1>2. /\ app' \in App /\ app'.ops = app.ops /\ SameBuilds(app, app')
      /\ app'.focus = app.focus /\ app'.screen = app.screen /\ app'.tab = app.tab
  <2>1. app \in App
    BY DEF UiInv, UiTypeOK
  <2>2. CASE app' = [app EXCEPT !.status = "failure"]
    BY <2>1, <2>2 DEF App, Status, Result, SameBuilds
  <2>3. CASE app' = [app EXCEPT !.status = "success"]
    BY <2>1, <2>3 DEF App, Status, Result, SameBuilds
  <2>. QED
    BY <1>1, <2>2, <2>3
<1>3. Known(app')
  BY <1>2, SameFocus DEF UiInv
<1>4. built' \subseteq Source /\ log' \in BOOLEAN
  BY DEF RunCapability, UiInv, UiTypeOK
<1>5. about' \in [texts : [1..3 -> 0..MaxText], form : [capability : 0..Len(Capability), text : 0..MaxText]]
  <2>1. app.form \in [capability : 0..Len(Capability), text : 0..MaxText]
    BY DEF UiInv, UiTypeOK, App, Capabilities, Capability
  <2>. QED
    BY <2>1 DEF RunCapability, UiInv, UiTypeOK
<1>6. /\ loop = "capability" /\ loop' = "draw"
      /\ UNCHANGED <<use, sources, agents, job, shown, build>>
  BY DEF RunCapability
<1>. QED
  BY <1>2, <1>3, <1>4, <1>5, <1>6 DEF UiInv, UiTypeOK, BuildInv, OpsAreFresh, SameBuilds, build

LEMMA StartBuildUi == ASSUME UiInv, StartBuild PROVE UiInv'
<1>1. app' = [app EXCEPT !.build = "failure"] \/ app' = [app EXCEPT !.build = "running"]
  BY DEF StartBuild
<1>2. /\ app' \in App /\ app'.ops = app.ops /\ app'.build \in {"failure", "running"}
      /\ app'.focus = app.focus /\ app'.screen = app.screen /\ app'.tab = app.tab
  <2>1. app \in App
    BY DEF UiInv, UiTypeOK
  <2>2. CASE app' = [app EXCEPT !.build = "failure"]
    BY SMTT(20), <2>1, <2>2 DEF App, Status, Result
  <2>3. CASE app' = [app EXCEPT !.build = "running"]
    BY <2>1, <2>3 DEF App, Status, Result
  <2>. QED
    BY <1>1, <2>2, <2>3
<1>3. Known(app')
  BY <1>2, SameFocus DEF UiInv
<1>4. job' \in Source \cup {0}
  <2>1. sources \in SUBSET Source /\ app.source \in Nat \ {0}
    BY DEF UiInv, UiTypeOK, App
  <2>. QED
    BY <2>1, HighlightedType DEF StartBuild
<1>5. \/ job' = 0 /\ loop' = "draw" /\ UNCHANGED <<thread, channel>>
      \/ /\ job' # 0 /\ loop' = "drain" /\ thread' = "scaffold" /\ channel' = <<>>
         /\ app'.build = "running"
  BY DEF StartBuild, UiInv, UiTypeOK, App
<1>6. loop = "build" /\ shown' = 0 /\ UNCHANGED <<use, disk, about>>
  BY DEF StartBuild
<1>. QED
  <2>1. <<>> \in Seq({"progress"} \cup Result) /\ Len(<<>>) = 0
    BY EmptySeq
  <2>2. CASE job' = 0 /\ loop' = "draw" /\ UNCHANGED <<thread, channel>>
    <3>1. thread = "none"
      BY <1>6 DEF UiInv, BuildInv
    <3>. QED
      BY <3>1, <1>2, <1>3, <1>4, <1>6, <2>2 DEF UiInv, UiTypeOK, BuildInv, OpsAreFresh, disk
  <2>3. CASE /\ job' # 0 /\ loop' = "drain" /\ thread' = "scaffold" /\ channel' = <<>>
             /\ app'.build = "running"
    BY <1>2, <1>3, <1>4, <1>6, <2>1, <2>3 DEF UiInv, UiTypeOK, BuildInv, OpsAreFresh, disk
  <2>. QED
    BY <1>5, <2>2, <2>3

(* The build beside the loop. *)
LEMMA ThreadUi == ASSUME UiInv, Thread PROVE UiInv'
<1>1. /\ UNCHANGED <<use, sources, app, loop, job, shown, about>>
      /\ thread # "none" /\ job \in Source /\ thread' \in {"none", "compile", "write"}
      /\ agents' \subseteq Source /\ built' \subseteq Source /\ log' \in BOOLEAN
  BY DEF Thread, Scaffold, Compile, Write, UiInv, UiTypeOK, BuildInv
<1>2. \/ channel' = channel
      \/ \E m \in {"progress"} \cup Result :
           channel' = Append(channel, m) /\ (m # "progress" => thread' = "none")
  BY DEF Thread, Scaffold, Compile, Write, Notify, Result
<1>3. /\ channel' \in Seq({"progress"} \cup Result)
      /\ thread' # "none" => \A i \in DOMAIN channel' : channel'[i] = "progress"
  <2>1. channel \in Seq({"progress"} \cup Result) /\ \A i \in DOMAIN channel : channel[i] = "progress"
    BY <1>1 DEF UiInv, UiTypeOK, BuildInv
  <2>2. CASE channel' = channel
    BY <2>1, <2>2
  <2>3. ASSUME NEW m \in {"progress"} \cup Result, channel' = Append(channel, m),
               m # "progress" => thread' = "none"
        PROVE  /\ channel' \in Seq({"progress"} \cup Result)
               /\ thread' # "none" => \A i \in DOMAIN channel' : channel'[i] = "progress"
    <3>1. /\ channel' \in Seq({"progress"} \cup Result) /\ Len(channel') = Len(channel) + 1
          /\ \A i \in 1..Len(channel) : channel'[i] = channel[i]
          /\ channel'[Len(channel) + 1] = m
      BY <2>1, <2>3, AppendProperties
    <3>2. /\ Len(channel) \in Nat /\ DOMAIN channel = 1..Len(channel)
          /\ DOMAIN channel' = 1..Len(channel')
      BY <2>1, <3>1, LenProperties
    <3>. QED
      BY <2>1, <2>3, <3>1, <3>2
  <2>. QED
    BY <1>2, <2>2, <2>3
<1>. QED
  BY <1>1, <1>3 DEF UiInv, UiTypeOK, BuildInv, Known, OpsAreFresh

LEMMA TakeUi == ASSUME UiInv, TakeProgress \/ TakeResult PROVE UiInv'
<1>1. /\ channel # <<>> /\ channel' = Tail(channel) /\ loop = "drain"
      /\ channel \in Seq({"progress"} \cup Result)
  BY DEF TakeProgress, TakeResult, UiInv, UiTypeOK
<1>2. /\ Len(channel) \in Nat \ {0} /\ DOMAIN channel = 1..Len(channel)
      /\ channel' \in Seq({"progress"} \cup Result)
      /\ Len(channel') = Len(channel) - 1 /\ DOMAIN channel' = 1..Len(channel')
      /\ \A i \in 1..Len(channel') : channel'[i] = channel[i + 1]
      /\ Head(channel) = channel[1] /\ channel[1] \in {"progress"} \cup Result
  BY <1>1, EmptySeq, LenProperties, HeadTailProperties, ElementOfSeq
<1>3. CASE TakeProgress
  <2>1. UNCHANGED <<use, disk, app, loop, job, shown, thread, about>>
    BY <1>3 DEF TakeProgress
  <2>2. (\A i \in DOMAIN channel : channel[i] = "progress") => \A i \in DOMAIN channel' : channel'[i] = "progress"
    BY <1>2
  <2>. QED
    BY <1>2, <2>1, <2>2 DEF UiInv, UiTypeOK, BuildInv, Known, OpsAreFresh, disk
<1>4. CASE TakeResult
  <2>1. Head(channel) \in Result /\ thread = "none"
    BY <1>2, <1>4 DEF TakeResult, UiInv, BuildInv
  <2>2. /\ log' = TRUE /\ loop' = "draw" /\ job' = 0
        /\ UNCHANGED <<use, sources, agents, built, shown, thread, about>>
    BY <1>4 DEF TakeResult
  <2>3. /\ app' \in App /\ app'.focus = app.focus /\ app'.screen = app.screen /\ app'.tab = app.tab
        /\ app'.build = Head(channel) /\ (Head(channel) = "success" => app'.ops = "idle")
    <3>. DEFINE a == [app EXCEPT !.build = Head(channel)]
                b == [a EXCEPT !.ops = "idle", !.entry = 1]
    <3>1. /\ a \in App /\ a.focus = app.focus /\ a.screen = app.screen /\ a.tab = app.tab
          /\ a.build = Head(channel)
      BY <2>1 DEF UiInv, UiTypeOK, App, Status
    <3>2. app' = IF Head(channel) = "success" THEN b ELSE a
      BY <1>4 DEF TakeResult
    <3>. HIDE DEF a
    <3>3. /\ b \in App /\ b.focus = a.focus /\ b.screen = a.screen /\ b.tab = a.tab
          /\ b.ops = "idle" /\ b.build = a.build
      <4>1. 1 \in Nat \ {0} /\ "idle" \in Status
        BY DEF Status
      <4>. QED
        BY <3>1, <4>1 DEF App
    <3>. HIDE DEF b
    <3>. QED
      BY <3>1, <3>2, <3>3
  <2>4. Known(app')
    BY <2>3, SameFocus DEF UiInv
  <2>. QED
    BY <1>2, <2>1, <2>2, <2>3, <2>4 DEF UiInv, UiTypeOK, BuildInv, OpsAreFresh, Result
<1>. QED
  BY <1>3, <1>4

LEMMA PollKeyUi == ASSUME UiInv, NEW k \in Key, PollKey(k) PROVE UiInv'
<1>1. Handles(app, app')
  BY HandledKeeps, FilesFinite DEF PollKey, UiInv, UiTypeOK
<1>2. app' \in App /\ app'.ops = app.ops /\ Known(app') /\ SameBuilds(app, app')
  BY <1>1 DEF Handles
<1>3. about' \in [texts : [1..3 -> 0..MaxText], form : [capability : 0..Len(Capability), text : 0..MaxText]]
  BY <1>2, AboutType DEF PollKey, UiInv
<1>4. loop = "poll" /\ loop' = "drain" /\ UNCHANGED <<use, disk, job, shown, build>>
  BY DEF PollKey
<1>. QED
  BY <1>2, <1>3, <1>4 DEF UiInv, UiTypeOK, BuildInv, OpsAreFresh, SameBuilds, disk, build

LEMMA OtherUi == ASSUME UiInv, DrawBuild \/ PollNothing \/ EditFiles \/ UNCHANGED uiVars PROVE UiInv'
<1>1. CASE DrawBuild
  BY <1>1 DEF DrawBuild, UiInv, UiTypeOK, BuildInv, Known, OpsAreFresh, disk, build
<1>2. CASE PollNothing
  BY <1>2 DEF PollNothing, UiInv, UiTypeOK, BuildInv, Known, OpsAreFresh, disk, build
<1>3. CASE EditFiles
  BY <1>3 DEF EditFiles, UiInv, UiTypeOK, BuildInv, Known, OpsAreFresh, build
<1>4. CASE UNCHANGED uiVars
  BY <1>4 DEF uiVars, UiInv, UiTypeOK, BuildInv, Known, OpsAreFresh, disk, build
<1>. QED
  BY <1>1, <1>2, <1>3, <1>4

LEMMA UiStep == UiInv /\ [UiNext]_uiVars => UiInv'
BY DrawUi, PressUi, ConvertUi, RefreshUi, RunAgentUi, RunCapabilityUi, StartBuildUi, ThreadUi, TakeUi, PollKeyUi,
   OtherUi DEF UiNext, Running, Watching

THEOREM UiTypes == UiSpec => []UiTypeOK
<1>1. UiInv => UiTypeOK
  BY DEF UiInv
<1>. QED
  BY InitUi, UiStep, <1>1, PTL DEF UiSpec

(* tui.rs: the agents that the Ops tab offers to run are those of agents/,    *)
(* whatever was built and whatever keys were pressed meanwhile; but while a   *)
(* build runs and after one that failed.                                      *)
THEOREM OpsTabIsFresh == UiSpec => []OpsAreFresh
<1>1. UiInv => OpsAreFresh
  BY DEF UiInv
<1>. QED
  BY InitUi, UiStep, <1>1, PTL DEF UiSpec

LEMMA FocusStep ==
  ASSUME UiInv, UiInv', [UiNext]_uiVars
  PROVE  /\ app'.focus \in Places(AgentsLoaded(app'), sources')
         /\ loop \in {"read", "poll"} /\ app.focus \in Places(app, sources)
              => (app'.focus \in Places(app', sources') \/ app'.ops = "running")
<1>1. app'.focus \in Places(AgentsLoaded(app'), sources')
  <2>1. app' \in App /\ Known(app')
    BY DEF UiInv, UiTypeOK
  <2>. QED
    BY <2>1, LoadedAround DEF Known
<1>2. ASSUME loop \in {"read", "poll"}, app.focus \in Places(app, sources), app'.ops # "running"
      PROVE  app'.focus \in Places(app', sources')
  <2>1. app \in App /\ app' \in App /\ Known(app) /\ IsFiniteSet(sources)
    BY FilesFinite DEF UiInv, UiTypeOK
  <2>2. Shown(app)
    BY <1>2, <2>1, PlacesAround DEF Shown
  <2>3. \/ app' = app
        \/ \E k \in Key : Press(k) \/ PollKey(k)
    BY <1>2 DEF UiNext, uiVars, Running, Watching, Draw, RunConvert, Refresh, RunAgent, RunCapability, StartBuild,
                Thread, Scaffold, Compile, Write, TakeProgress, TakeResult, DrawBuild, PollNothing, EditFiles
  <2>4. ASSUME NEW k \in Key, Press(k) \/ PollKey(k) PROVE Shown(app')
    <3>. DEFINE a == Handled(app, k)
    <3>1. Shown(a) /\ a \in App
      BY <2>1, <2>2, HandledKeeps DEF Handles
    <3>2. app' \in {a, [a EXCEPT !.convert = "running"], [a EXCEPT !.run = "running"],
                    [a EXCEPT !.status = "running"]}
      <4>1. CASE PollKey(k)
        BY <4>1 DEF PollKey
      <4>2. CASE Press(k)
        <5>1. [a EXCEPT !.ops = "running"].ops = "running"
          BY <3>1 DEF App
        <5>2. Action(app, k) # "refresh"
          BY <1>2, <4>2, <5>1 DEF Press
        <5>. QED
          BY <2>1, <4>2, <5>2, ActionKinds DEF Press
      <4>. QED
        BY <2>4, <4>1, <4>2
    <3>. HIDE DEF a
    <3>. QED
      BY SMTT(20), <3>1, <3>2 DEF Shown, Around, OnAgents, App
  <2>5. Shown(app')
    BY <2>2, <2>3, <2>4
  <2>. QED
    BY <2>1, <2>5, PlacesAround DEF Shown
<1>. QED
  BY <1>1, <1>2

(* tui.rs: the focus that a build or a load has left beneath the list of      *)
(* agents, where nothing is drawn any more, is found again with Tab.          *)
LEMMA FocusIsFound == UiInv => TabFindsTheFocus
<1>1. ASSUME UiInv PROVE TabFindsTheFocus
  <2>. SUFFICES ASSUME ~app.help, app.focus \notin Places(app, sources)
                PROVE  Handled(app, "tab").focus \in Places(Handled(app, "tab"), sources)
    BY DEF TabFindsTheFocus
  <2>1. app \in App /\ Known(app) /\ IsFiniteSet(sources)
    BY <1>1, FilesFinite DEF UiInv, UiTypeOK
  <2>2. app.screen = "workspace" /\ app.tab = "ops" /\ app.focus = "builds"
    BY <2>1, PlacesAround DEF Known, Around, App
  <2>3. Handled(app, "tab") = [app EXCEPT !.focus = "navigation"]
    BY <2>2 DEF Handled, Requests, Quits, Focus, ToggleOps
  <2>. DEFINE a == [app EXCEPT !.focus = "navigation"]
  <2>4. a \in App /\ a.focus = "navigation" /\ a.screen = "workspace" /\ a.tab = "ops"
    BY <2>1, <2>2 DEF App
  <2>. HIDE DEF a
  <2>5. a.focus \in Places(a, sources)
    BY <2>4, PlacesAround DEF Around
  <2>. QED
    BY <2>3, <2>5 DEF a
<1>. QED
  BY <1>1

(* tui.rs: whatever is pressed, beside a build as well, the focus is on a     *)
(* place that the screen and its tab know, no key takes it where nothing is   *)
(* drawn, and Tab finds it where a build or a load has left it.              *)
THEOREM FocusStaysShown == UiSpec => FocusIsShown
<1>1. UiInv /\ UiInv' /\ [UiNext]_uiVars =>
        [/\ app'.focus \in Places(AgentsLoaded(app'), sources')
         /\ loop \in {"read", "poll"} /\ app.focus \in Places(app, sources)
              => (app'.focus \in Places(app', sources') \/ app'.ops = "running")
         /\ TabFindsTheFocus']_uiVars
  <2>1. UiInv' => TabFindsTheFocus'
    BY FocusIsFound, PTL
  <2>. QED
    BY <2>1, FocusStep
<1>. QED
  BY InitUi, UiStep, <1>1, PTL DEF UiSpec, FocusIsShown

-----------------------------------------------------------------------------
(* The commands, as far as the proofs tell them apart. *)
Inspecting ==
  \E id \in {"check", "trace_show", "cost", "sessions_ls", "sessions_show", "diff", "eval", "explain",
             "trace_sample", "optimize"} : \E result : Inspect(id, result)
Sampling == \E n, file : End("trace_sample", "sampled") /\ Touch
     /\ tree' = [tree EXCEPT !.evals = With(@, file, Sampled(n))]
     /\ UNCHANGED <<prompts, config, dotenv, dist, rows, session>>
BuildTree(t) ==
  t \in {tree, [tree EXCEPT !.tuned = TRUE],
         [tree EXCEPT !.agents = TRUE, !.agent = IF @ = "elsewhere" THEN @ ELSE "generated"]}
Compiling ==
  \E id \in {"build", "scaffold_build", "optimize"}, chosen \in SUBSET DOMAIN prompts :
    \E tree1 : /\ BuildTree(tree1) /\ Build(id, chosen, tree1)
               /\ id # "scaffold_build" => tree1 \in {tree, [tree EXCEPT !.tuned = TRUE]}
Command ==
  \/ \E template \in {"basic", "starter"}, force, dry, setup \in BOOLEAN :
       ScaffoldProject(template, force, dry, setup)
  \/ \E variable : \E model \in Models : Setup(variable, model)
  \/ \E S : SetVariables(S)
  \/ \E task : \E new \in Advised(config, task, Models) : EditConfig(new)
  \/ \E draft \in Drafts, raw \in Said : Convert(draft, raw)
  \/ WriteSource
  \/ Compiling
  \/ Run \/ Diagnose \/ Inspecting \/ Sampling
  \/ \E id \in Gated, yes, terminal \in BOOLEAN, answer \in {"y", "n"} : Control(id, yes, terminal, answer)
Other ==
  \/ Building \/ BuildFails \/ PromptRejected \/ PromptWritten \/ Answered
  \/ \E live \in LiveContext \cup {<<>>}, target \in Requested : Ask(live, target)
  \/ React

LEMMA Optimizing == Optimize => Inspecting \/ Compiling
BY DEF Optimize, Inspecting, Compiling, BuildTree

LEMMA Scaffolding == \A n \in DOMAIN prompts : ScaffoldBuild(n) => Compiling
BY DEF ScaffoldBuild, Compiling, BuildTree

LEMMA TellsCommand == \A task : Tell(task) => Command
<1>. SUFFICES ASSUME NEW task, Tell(task) PROVE Command
  OBVIOUS
<1>2. CASE Build("build", DOMAIN prompts, tree)
  BY <1>2 DEF Command, Compiling, BuildTree
<1>. QED
  BY <1>2 DEF Tell, Command

LEMMA AnythingIsCommand == Anything => Command
<1>. SUFFICES ASSUME Anything PROVE Command
  OBVIOUS
<1>2. CASE Build("build", DOMAIN prompts, tree)
  BY <1>2 DEF Command, Compiling, BuildTree
<1>3. Check \/ Diff \/ (\E gate, live \in BOOLEAN : Evaluate(gate, live))
        \/ (\E n \in {"starter", "draft"} : Explain(n)) => Inspecting
  BY DEF Check, Diff, Evaluate, Explain, Inspecting, Inspect
<1>4. ASSUME NEW n, NEW file, TraceSample(n, file) PROVE Inspecting \/ Sampling
  BY <1>4 DEF TraceSample, Inspecting, Sampling
<1>. QED
  BY <1>2, <1>3, <1>4, Optimizing, Scaffolding DEF Anything, Command, Inspecting

LEMMA StepsOfProject == ProjectNext => Command \/ Other
<1>. SUFFICES ASSUME ProjectNext PROVE Command \/ Other
  OBVIOUS
<1>1. CASE Work
  <2>1. CASE Guided
    BY <2>1, TellsCommand DEF Guided, Command, Other
  <2>. QED
    BY <1>1, <2>1 DEF Work, Other
<1>2. CASE Free
  BY <1>2, AnythingIsCommand DEF Free
<1>3. CASE Builder
  BY <1>3 DEF Builder, Command
<1>. QED
  BY <1>1, <1>2, <1>3 DEF ProjectNext

-----------------------------------------------------------------------------
(* What doctor says is so until something it looks at changes.              *)
Fresh == report.given => report.next = Advice
GreenInv == Fresh /\ IsConfig(config) /\ IsTree(tree) /\ DOMAIN dist = DOMAIN NoDist

(* What becomes of dist/ and of the queue when a prompt is written.          *)
LEMMA WrittenStep ==
  ASSUME DOMAIN dist = DOMAIN NoDist, PromptWritten \/ PromptRejected
  PROVE  /\ pc = "assemble" /\ queue # <<>>
         /\ dist'.prompts = With(dist.prompts, Head(queue), Artifact)
         /\ dist'.present = dist.present /\ DOMAIN dist' = DOMAIN dist
         /\ tree' \in {tree, [tree EXCEPT !.notes = tree.notes \ {"lock comments"}]}
         /\ UNCHANGED <<prompts, config, dotenv, rows, report, command, session>>
         /\ \/ Len(queue) > 1 /\ queue' = Tail(queue) /\ Load(prompts[queue[2]]) /\ outcome' = outcome
            \/ /\ queue' = <<>> /\ pc' = "idle" /\ outcome' \in {"built", "bad prompt", "no model"}
               /\ UNCHANGED <<profile, source, ir, plans, system, user>>
<1>1. DOMAIN Made = DOMAIN dist /\ Made.present = dist.present
      /\ Made.prompts = With(dist.prompts, Head(queue), Artifact)
  BY DEF Made, NoDist
<1>. DEFINE Entire == [Made EXCEPT !.whole = TRUE, !.routes = tree.lock]
<1>2. DOMAIN Entire = DOMAIN dist /\ Entire.present = dist.present /\ Entire.prompts = Made.prompts
  BY <1>1 DEF NoDist
<1>3. dist' \in {Made, Entire}
  BY DEF PromptWritten, PromptRejected
<1>4. tree' \in {tree, [tree EXCEPT !.notes = tree.notes \ {"lock comments"}]}
  BY DEF PromptWritten, PromptRejected, LockWritten, files
<1>. HIDE DEF Entire
<1>5. CASE BuildStops("built") \/ BuildStops("bad prompt") \/ BuildStops("no model")
  BY <1>1, <1>2, <1>3, <1>4, <1>5 DEF PromptWritten, PromptRejected, BuildStops, session
<1>6. CASE ~(BuildStops("built") \/ BuildStops("bad prompt") \/ BuildStops("no model"))
  BY <1>1, <1>2, <1>3, <1>4, <1>6 DEF PromptWritten, PromptRejected, files, session
<1>. QED
  BY <1>5, <1>6

LEMMA UnlistedListing == IsListing(Unlisted)
BY DEF IsListing, Unlisted

LEMMA EmptyIsConfig == IsConfig(EmptyConfig) /\ IsConfig(NoConfig)
BY UnlistedListing DEF IsConfig, EmptyConfig, NoConfig

LEMMA ChangedConfig ==
  ASSUME NEW c, IsConfig(c), NEW field \in {"present", "availability", "key", "provider", "model", "tool"}, NEW value
  PROVE  IsConfig([c EXCEPT ![field] = value])
BY DEF IsConfig, EmptyConfig

LEMMA ListedConfig ==
  ASSUME NEW c, IsConfig(c), NEW value
  PROVE  /\ IsConfig([c EXCEPT !.permitted.providers = value])
         /\ IsConfig([c EXCEPT !.permitted.models = value])
<1>1. ASSUME NEW l, IsListing(l)
      PROVE  IsListing([l EXCEPT !.providers = value]) /\ IsListing([l EXCEPT !.models = value])
  BY <1>1 DEF IsListing
<1>2. ASSUME NEW l, IsListing(l) PROVE IsConfig([c EXCEPT !.permitted = l]) /\ IsConfig([c EXCEPT !.legacy = l])
  BY <1>2 DEF IsConfig, EmptyConfig
<1>. QED
  BY <1>1, <1>2 DEF IsConfig

LEMMA SetUpIsConfig == ASSUME NEW c, IsConfig(c), NEW variable, NEW model PROVE IsConfig(SetUp(c, variable, model))
<1>1. ASSUME NEW b, IsConfig(b), NEW field \in {"present", "availability", "key", "provider", "model", "tool"}, NEW value
      PROVE  IsConfig(SetMissing(b, field, value))
  BY <1>1, ChangedConfig DEF SetMissing
<1>. DEFINE a == SetMissing(c, "availability", "available")
            b == SetMissing(a, "key", variable)
            e == SetMissing(b, "provider", OpenRouter)
            d == SetMissing(e, "model", model)
<1>2. IsConfig(d)
  <2>1. IsConfig(a)
    BY <1>1
  <2>2. IsConfig(b)
    BY <1>1, <2>1
  <2>3. IsConfig(e)
    BY <1>1, <2>2
  <2>. QED
    BY <1>1, <2>3
<1>3. SetUp(c, variable, model) = [d EXCEPT !.present = TRUE, !.permitted.providers = @ \cup {OpenRouter, Stub.provider}]
  BY DEF SetUp
<1>. HIDE DEF d
<1>. QED
  BY <1>2, <1>3 DEF IsConfig, EmptyConfig, IsListing

LEMMA AdvisedIsConfig ==
  ASSUME NEW c, IsConfig(c), NEW task, NEW new \in Advised(c, task, Models)
  PROVE  IsConfig([new EXCEPT !.present = TRUE])
<1>1. IsConfig(new)
  <2>1. IsConfig([c EXCEPT !.permitted = Unlisted, !.legacy = Unlisted])
    BY UnlistedListing DEF IsConfig, EmptyConfig
  <2>2. CASE task = "allow provider"
    <3>1. new \in {[c EXCEPT !.permitted.providers = c.permitted.providers \cup {OpenRouter}],
                  [c EXCEPT !.permitted = Unlisted, !.legacy = Unlisted]}
      BY <2>2 DEF Advised
    <3>. DEFINE providers == c.permitted.providers \cup {OpenRouter}
    <3>2. IsConfig([c EXCEPT !.permitted.providers = providers])
      <4>. HIDE DEF providers
      <4>. QED
        BY ListedConfig
    <3>. QED
      BY <2>1, <3>1, <3>2
  <2>3. CASE task = "allow model"
    <3>1. \/ new = [c EXCEPT !.permitted.models = {UNION c.permitted.models \cup {c.model}}]
          \/ \E m : new = [c EXCEPT !.model = m]
      BY <2>3 DEF Advised
    <3>. DEFINE models == {UNION c.permitted.models \cup {c.model}}
    <3>2. IsConfig([c EXCEPT !.permitted.models = models])
      <4>. HIDE DEF models
      <4>. QED
        BY ListedConfig
    <3>3. \A m : IsConfig([c EXCEPT !.model = m])
      BY ChangedConfig
    <3>. HIDE DEF models
    <3>. QED
      BY <3>1, <3>2, <3>3 DEF models
  <2>4. CASE task \notin {"allow provider", "allow model"}
    <3>1. \/ new = EmptyConfig
          \/ \E value : \/ new = [c EXCEPT !.availability = value] \/ new = [c EXCEPT !.provider = value]
                        \/ new = [c EXCEPT !.model = value] \/ new = [c EXCEPT !.tool = value]
      BY <2>4 DEF Advised
    <3>. QED
      BY <3>1, ChangedConfig, EmptyIsConfig
  <2>. QED
    BY <2>2, <2>3, <2>4
<1>. QED
  BY <1>1, ChangedConfig

LEMMA GreenCommands == GreenInv /\ Command => GreenInv'
<1>. SUFFICES ASSUME GreenInv, Command PROVE GreenInv'
  OBVIOUS
<1>0. ~NoReport.given
  BY DEF NoReport
<1>1. ASSUME Touch PROVE Fresh'
  BY <1>0, <1>1 DEF Touch, Fresh
<1>2. ASSUME report' = Diagnosis' PROVE Fresh'
  BY <1>2 DEF Diagnosis, Fresh
<1>3. ASSUME NEW template, NEW force, NEW dry, NEW setup, ScaffoldProject(template, force, dry, setup)
      PROVE  GreenInv'
  <2>1. Fresh'
    BY <1>1, <1>2, <1>3 DEF ScaffoldProject, Concluded
  <2>2. IsTree(tree') /\ IsConfig(config') /\ dist' = dist
    <3>1. IsTree(Scaffolded(force)) /\ \A new, t : IsTree(t) => IsTree(Plain(new, t))
      BY DEF GreenInv, IsTree, Scaffolded, Plain
    <3>. QED
      BY ZenonT(30), <1>3, <3>1, SetUpIsConfig DEF ScaffoldProject, GreenInv
  <2>. QED
    BY <2>1, <2>2 DEF GreenInv
<1>4. ASSUME NEW variable, NEW model, Setup(variable, model) PROVE GreenInv'
  <2>1. Fresh'
    BY <1>1, <1>2, <1>4 DEF Setup, Concluded
  <2>2. IsTree(tree')
    BY <1>4 DEF Setup, GreenInv, IsTree, Plain
  <2>. QED
    BY <1>4, <2>1, <2>2, SetUpIsConfig DEF Setup, GreenInv
<1>5. ASSUME NEW S, SetVariables(S) PROVE GreenInv'
  BY <1>1, <1>5 DEF SetVariables, GreenInv
<1>6. ASSUME NEW task, NEW new \in Advised(config, task, Models), EditConfig(new) PROVE GreenInv'
  BY <1>1, <1>6, AdvisedIsConfig DEF EditConfig, GreenInv
<1>7. ASSUME NEW draft, NEW raw, Convert(draft, raw) PROVE GreenInv'
  BY <1>1, <1>7 DEF Convert, GreenInv, IsTree
<1>8. CASE WriteSource
  BY <1>1, <1>8 DEF WriteSource, GreenInv
<1>9. CASE Compiling
  <2>1. PICK id, chosen, tree1 : BuildTree(tree1) /\ Build(id, chosen, tree1)
    BY <1>9 DEF Compiling
  <2>2. IsTree(tree')
    BY <2>1 DEF Build, BuildTree, GreenInv, IsTree
  <2>3. DOMAIN dist' = DOMAIN NoDist
    BY <2>1 DEF Build, GreenInv, NoDist
  <2>. QED
    BY <1>1, <2>1, <2>2, <2>3 DEF Build, GreenInv
<1>10. CASE Run
  BY ZenonT(30), <1>10 DEF Run, GreenInv, Fresh, files, session, Advice, Rooted, Missing, Env
<1>11. CASE Diagnose
  <2>1. report'.next = Advice'
    BY ZenonT(30), <1>11 DEF Diagnose, Diagnosis, Untouched, files, session, Advice, Rooted, Missing, Env
  <2>. QED
    BY <1>11, <2>1 DEF Diagnose, GreenInv, Fresh, Untouched, files
<1>12. CASE Inspecting
  <2>1. UNCHANGED <<tree, config, dotenv, report, exported, dist>>
    BY <1>12 DEF Inspecting, Inspect, Untouched, files, session
  <2>. QED
    BY ZenonT(30), <2>1 DEF GreenInv, Fresh, Advice, Rooted, Missing, Env
<1>13. CASE Sampling
  BY <1>1, <1>13 DEF Sampling, GreenInv, IsTree
<1>14. ASSUME NEW id, NEW yes, NEW terminal, NEW answer, Control(id, yes, terminal, answer) PROVE GreenInv'
  BY ZenonT(30), <1>14 DEF Control, GreenInv, Fresh, files, session, Advice, Rooted, Missing, Env
<1>. QED
  BY <1>3, <1>4, <1>5, <1>6, <1>7, <1>8, <1>9, <1>10, <1>11, <1>12, <1>13, <1>14 DEF Command

LEMMA GreenOthers == GreenInv /\ (Other \/ UNCHANGED project) => GreenInv'
<1>. SUFFICES ASSUME GreenInv, Other \/ UNCHANGED project PROVE GreenInv'
  OBVIOUS
<1>1. CASE PromptWritten \/ PromptRejected
  <2>1. /\ tree' \in {tree, [tree EXCEPT !.notes = tree.notes \ {"lock comments"}]}
        /\ UNCHANGED <<config, dotenv, report, exported>>
        /\ dist'.present = dist.present /\ DOMAIN dist' = DOMAIN dist
    BY <1>1, WrittenStep DEF GreenInv, session
  <2>2. /\ IsTree(tree') /\ tree'.manifest = tree.manifest /\ tree'.lock = tree.lock
        /\ tree'.prompts = tree.prompts /\ tree'.agents = tree.agents
    BY <2>1 DEF GreenInv, IsTree
  <2>3. Missing' = Missing /\ Rooted' = Rooted /\ Env' = Env
    BY <2>1, <2>2 DEF Rooted, Missing, Env
  <2>4. Advice' = Advice
    <3>. HIDE DEF Missing, Rooted, Env
    <3>. QED
      BY <2>1, <2>3 DEF Advice
  <2>. QED
    BY <2>1, <2>2, <2>4 DEF GreenInv, Fresh
<1>2. CASE ~(PromptWritten \/ PromptRejected)
  <2>1. UNCHANGED <<tree, config, dotenv, report, exported, dist>>
    BY <1>2 DEF Other, Building, BuildFails, BuildStops, Answered, Ask, React, project, files, session
  <2>2. Advice' = Advice
    BY <2>1 DEF Advice, Rooted, Missing, Env
  <2>. QED
    BY <2>1, <2>2 DEF GreenInv, Fresh
<1>. QED
  BY <1>1, <1>2

LEMMA GreenStart == ProjectInit => GreenInv
<1>. SUFFICES ASSUME ProjectInit PROVE GreenInv
  OBVIOUS
<1>1. Fresh
  BY DEF ProjectInit, Fresh, NoReport
<1>2. IsTree(tree) /\ IsConfig(config)
  BY ProjectAssumption, EmptyIsConfig DEF ProjectInit, Begins, Ready, IsTree
<1>3. DOMAIN dist = DOMAIN NoDist
  BY DEF ProjectInit, NoDist
<1>. QED
  BY <1>1, <1>2, <1>3 DEF GreenInv

LEMMA GreenIsAnswered == GreenInv => GreenRuns
<1>. SUFFICES ASSUME GreenInv, report.given, report.next = {}, tree.agent = "absent", dist.routes = "scaffold",
                     config.model # Stub.name
              PROVE  Answer = "answered"
  BY DEF GreenRuns
<1>1. Advice = {}
  BY DEF GreenInv, Fresh
<1>2. Rooted
  BY <1>1 DEF Advice
<1>3. /\ config.present /\ ProviderFailures(config, Env) = {} /\ ProviderWarnings(config) = {}
  BY <1>1, <1>2 DEF Advice
<1>4. KeyReady(config, Env) /\ ProviderAllowed(config) /\ (config.model # Unset => ModelAllowed(config))
  BY <1>3 DEF ProviderFailures
<1>5. config.provider = OpenRouter /\ config.model # Unset
  BY <1>3 DEF ProviderWarnings
<1>6. Reached = [provider |-> OpenRouter, name |-> config.model]
  BY <1>3, <1>5 DEF Reached, Route, Retarget, Stub, OpenRouter, Unset
<1>7. RoutingSource(config) = Listing
  BY <1>3 DEF GreenInv, IsConfig, IsListing, RoutingSource, Listing, Allowlist, Unlisted
<1>8. Allows(Listing, Reached)
  BY <1>4, <1>5, <1>6, <1>7 DEF Allows, ProviderAllowed, ModelAllowed
<1>9. KeyFound(config, Env)
  BY <1>4 DEF KeyReady, KeyVariable, KeyFound
<1>10. Reached # Stub
  BY <1>6 DEF Stub, OpenRouter
<1>. QED
  BY <1>8, <1>9, <1>10 DEF Answer

(* When doctor has nothing to advise, the next run of a scaffolded prompt is  *)
(* answered, whatever was typed before.                                     *)
THEOREM GreenProjectsRun == ProjectSpec => []GreenRuns
<1>1. GreenInv /\ [ProjectNext]_project => GreenInv'
  BY StepsOfProject, GreenCommands, GreenOthers
<1>. QED
  BY GreenStart, <1>1, GreenIsAnswered, PTL DEF ProjectSpec

-----------------------------------------------------------------------------
(* What may be wrong with a draft that convert leaves in prompts/.          *)
Excused(file) ==
  LET texts == {file.sections[i].body : i \in DOMAIN file.sections}
      refs == UNION {Refs[t] : t \in texts}
      names(how) == {r.name : r \in {r \in refs : r.how = how}} IN
  \/ file.quality \notin DOMAIN Tier \/ texts \cap Malformed # {}
  \/ ~(names("hidden") \subseteq names("plain") \cup names("loop"))
  \/ names("plain") \cap names("loop") # {} \/ names("reserved") # {}

LEMMA DraftTextsAreTexts ==
  ASSUME NEW draft \in Drafts, NEW raw \in Said
  PROVE  \A i \in DOMAIN DraftTexts(draft, raw) : DraftTexts(draft, raw)[i] \in Text
<1>1. \A i \in DOMAIN draft.sections : draft.sections[i].text \in Text
  <2>1. draft.sections \in Seq([id : Id, priority : Priority, text : Text, unmapped : BOOLEAN])
    BY DraftAssumption DEF IsDraft
  <2>. DEFINE Parts == [id : Id, priority : Priority, text : Text, unmapped : BOOLEAN]
  <2>2. \A i \in DOMAIN draft.sections : draft.sections[i] \in Parts
    <3>. HIDE DEF Parts
    <3>. QED
      BY <2>1, ElementOfSeq, LenProperties DEF Parts
  <2>. QED
    BY <2>2
<1>. QED
  BY <1>1, DraftAssumption DEF DraftTexts

(* The sections of a draft are texts, which no include changes.             *)
LEMMA DraftResolved ==
  ASSUME NEW draft \in Drafts, NEW raw \in Said
  PROVE  LET file == DraftFile(draft, raw) IN
         /\ Resolves(file)
         /\ DOMAIN Resolved(file) = DOMAIN file.sections
         /\ \A i \in DOMAIN file.sections :
              /\ Resolved(file)[i].text = file.sections[i].body /\ file.sections[i].body \in Text
              /\ file.sections[i].body = DraftTexts(draft, raw)[i]
<1>. DEFINE file == DraftFile(draft, raw)
            texts == DraftTexts(draft, raw)
<1>1. DOMAIN file.sections = DOMAIN texts /\ \A i \in DOMAIN texts : file.sections[i].body = texts[i]
  BY DEF DraftFile
<1>2. \A i \in DOMAIN texts : texts[i] \in Text
  BY DraftTextsAreTexts
<1>. HIDE DEF file, texts
<1>3. ASSUME NEW t \in Text PROVE Resolve(t) = <<t>> /\ Resolve(t) # Broken /\ Joined(Resolve(t)) = t
  BY FragmentAssumption, JoinedAssumption DEF Resolve, Broken
<1>4. Resolves(file)
  BY <1>1, <1>2, <1>3 DEF Resolves
<1>5. DOMAIN Resolved(file) = DOMAIN file.sections
      /\ \A i \in DOMAIN file.sections : Resolved(file)[i].text = file.sections[i].body
  BY <1>1, <1>2, <1>3 DEF Resolved
<1>. QED
  BY <1>1, <1>2, <1>4, <1>5 DEF file, texts

(* The repaired inputs: every name that a text mentions, with a type of the   *)
(* grammar, a list exactly if it is looped over.                            *)
LEMMA RepairedInputs ==
  ASSUME NEW inputs, \A n \in DOMAIN inputs : inputs[n] \in Types, NEW refs
  PROVE  LET new == Repair(inputs, refs) IN
         /\ DOMAIN new = {r.name : r \in refs}
         /\ \A n \in DOMAIN new : new[n] \in Types /\ (new[n] = "list" <=> n \in Collections(refs))
BY DEF Repair, Types

LEMMA NormalizedTypes == \A raw : NormalizedType(raw) \in Types
BY DEF NormalizedType, Types

LEMMA DraftIsExcused ==
  ASSUME NEW draft \in Drafts, NEW raw \in Said, ~Compiles(DraftFile(draft, raw))
  PROVE  Excused(DraftFile(draft, raw))
<1>. DEFINE file == DraftFile(draft, raw)
            texts == {file.sections[i].body : i \in DOMAIN file.sections}
            refs == UNION {Refs[t] : t \in texts}
            names(how) == {r.name : r \in {r \in refs : r.how = how}}
            used == UNION {Seen(Resolved(file)[i].text) : i \in DOMAIN Resolved(file)}
<1>1. /\ Resolves(file) /\ DOMAIN Resolved(file) = DOMAIN file.sections
      /\ \A i \in DOMAIN file.sections :
           Resolved(file)[i].text = file.sections[i].body /\ file.sections[i].body \in Text
  BY DraftResolved
<1>2. used = {r \in refs : r.how # "hidden"}
  <2>1. used = UNION {Seen(t) : t \in texts}
    BY <1>1
  <2>. HIDE DEF texts, file
  <2>. QED
    BY <2>1 DEF Seen
<1>3. refs \subseteq [name : Inputs, how : {"plain", "loop", "hidden", "reserved"}]
  BY <1>1, RefAssumption
<1>4. ASSUME names("reserved") = {}
      PROVE  /\ DOMAIN file.inputs = {r.name : r \in refs}
             /\ \A n \in DOMAIN file.inputs :
                  file.inputs[n] \in Types /\ (file.inputs[n] = "list" <=> n \in Collections(refs))
  <2>. DEFINE raws == [n \in DOMAIN draft.inputs |-> NormalizedType(draft.inputs[n])]
              mentioned == TemplateRefs(DraftTexts(draft, raw))
  <2>1. file.inputs = Repair(raws, mentioned)
    BY DEF DraftFile
  <2>2. mentioned = refs
    <3>1. DOMAIN file.sections = DOMAIN DraftTexts(draft, raw)
      BY DEF DraftFile
    <3>2. \A i \in DOMAIN file.sections : file.sections[i].body = DraftTexts(draft, raw)[i]
      BY DraftResolved
    <3>3. \A r \in refs : r.how # "reserved"
      BY <1>4
    <3>4. UNION {Refs[DraftTexts(draft, raw)[i]] : i \in DOMAIN DraftTexts(draft, raw)} = refs
      <4>. HIDE DEF file
      <4>. QED
        BY <3>1, <3>2
    <3>. HIDE DEF file, refs
    <3>. QED
      BY <3>3, <3>4 DEF TemplateRefs
  <2>3. \A n \in DOMAIN raws : raws[n] \in Types
    BY NormalizedTypes
  <2>. HIDE DEF file, refs, raws, mentioned
  <2>4. /\ DOMAIN Repair(raws, mentioned) = {r.name : r \in mentioned}
        /\ \A n \in DOMAIN Repair(raws, mentioned) :
             /\ Repair(raws, mentioned)[n] \in Types
             /\ Repair(raws, mentioned)[n] = "list" <=> n \in Collections(mentioned)
    BY <2>3, RepairedInputs
  <2>. QED
    BY <2>1, <2>2, <2>4
<1>5. file.grounded = {}
  BY DEF DraftFile
<1>. HIDE DEF file, refs, used
<1>6. ASSUME names("hidden") \subseteq names("plain") \cup names("loop"), names("plain") \cap names("loop") = {},
             names("reserved") = {}
      PROVE  Issues(file) = {}
  <2>1. Typed(file) = DOMAIN file.inputs
    BY <1>4, <1>6 DEF Typed
  <2>2. \A r \in used : r.name \in Typed(file) /\ (file.inputs[r.name] = "list" <=> r.how = "loop")
    <3>. TAKE r \in used
    <3>1. r \in refs /\ r.how \in {"plain", "loop"}
      BY <1>2, <1>3, <1>6
    <3>2. r.how = "loop" => r.name \in Collections(refs)
      BY <3>1 DEF Collections
    <3>3. r.how = "plain" => r.name \notin Collections(refs)
      <4>1. Collections(refs) = names("loop")
        BY DEF Collections
      <4>2. r.how = "plain" => r.name \in names("plain")
        BY <3>1
      <4>. HIDE DEF names
      <4>. QED
        BY <1>6, <4>1, <4>2
    <3>. QED
      BY <1>4, <1>6, <2>1, <3>1, <3>2, <3>3
  <2>3. \A n \in DOMAIN file.inputs : \E r \in used : r.name = n
    <3>. TAKE n \in DOMAIN file.inputs
    <3>1. PICK r \in refs : r.name = n
      BY <1>4, <1>6
    <3>2. CASE r.how # "hidden"
      BY <1>2, <3>1, <3>2
    <3>3. CASE r.how = "hidden"
      <4>1. n \in names("plain") \cup names("loop")
        BY <1>6, <3>1, <3>3
      <4>2. PICK q \in refs : q.name = n /\ q.how \in {"plain", "loop"}
        BY <4>1
      <4>. QED
        BY <1>2, <4>2
    <3>. QED
      BY <3>2, <3>3
  <2>4. DOMAIN file.inputs \ Typed(file) = {}
    BY <2>1
  <2>5. {r \in used : r.name \notin Typed(file)} = {}
    BY <2>2
  <2>6. {r \in used : r.name \in Typed(file) /\ (file.inputs[r.name] = "list") # (r.how = "loop")} = {}
    BY <2>2
  <2>7. {n \in Typed(file) : \A r \in used : r.name # n} = {}
    BY <2>1, <2>3
  <2>. QED
    BY <1>5, <2>4, <2>5, <2>6, <2>7 DEF Issues, used
<1>7. ASSUME file.quality \in DOMAIN Tier, texts \cap Malformed = {}, Issues(file) = {}
      PROVE  Compiles(file)
  BY <1>1, <1>7 DEF Compiles, CompileErrors
<1>8. Excused(file) <=>
        \/ file.quality \notin DOMAIN Tier \/ texts \cap Malformed # {}
        \/ ~(names("hidden") \subseteq names("plain") \cup names("loop"))
        \/ names("plain") \cap names("loop") # {} \/ names("reserved") # {}
  BY DEF Excused, refs
<1>9. ~Compiles(file)
  BY DEF file
<1>. HIDE DEF names, texts
<1>. QED
  BY <1>6, <1>7, <1>8, <1>9 DEF file

LEMMA DraftsCommands == DraftsCompile /\ Command => DraftsCompile'
<1>. SUFFICES ASSUME DraftsCompile, Command, command'.id = "convert", outcome' = "invalid"
              PROVE  Excused(prompts'["draft"])
  BY DEF DraftsCompile, Excused
<1>1. PICK draft \in Drafts, raw \in Said : Convert(draft, raw)
  BY DEF Command, ScaffoldProject, Setup, SetVariables, EditConfig, WriteSource, Compiling, Build, Run, Diagnose,
         Inspecting, Inspect, Sampling, Control, Gated, End, Typing
<1>2. ConvertResult(draft, raw) = "invalid" /\ prompts' = With(prompts, "draft", DraftFile(draft, raw))
  BY <1>1 DEF Convert, End
<1>3. ~Compiles(DraftFile(draft, raw))
  BY <1>2 DEF ConvertResult
<1>4. prompts'["draft"] = DraftFile(draft, raw)
  BY <1>2 DEF With
<1>. QED
  BY <1>3, <1>4, DraftIsExcused

LEMMA DraftsOthers == DraftsCompile /\ (Other \/ UNCHANGED project) => DraftsCompile'
<1>. SUFFICES ASSUME DraftsCompile, Other \/ UNCHANGED project PROVE DraftsCompile'
  OBVIOUS
<1>1. UNCHANGED <<prompts, command>> /\ (outcome' = outcome \/ outcome' # "invalid")
  BY DEF Other, Building, BuildFails, BuildStops, PromptRejected, PromptWritten, Answered, Answer, Ask, React,
         project, files
<1>. QED
  BY <1>1 DEF DraftsCompile

(* A draft that convert leaves behind as invalid has one of the known faults. *)
THEOREM InvalidDraftsAreExcused == ProjectSpec => []DraftsCompile
<1>1. ProjectInit => DraftsCompile
  BY DEF ProjectInit, DraftsCompile, Typing
<1>2. DraftsCompile /\ [ProjectNext]_project => DraftsCompile'
  BY StepsOfProject, DraftsCommands, DraftsOthers
<1>. QED
  BY <1>1, <1>2, PTL DEF ProjectSpec

-----------------------------------------------------------------------------
(* A build is under way exactly while prompts are queued.                   *)
Builds == {"build", "scaffold_build", "optimize"}
QueueInv ==
  /\ queue \in Seq({"draft", "starter"})
  /\ pc \in {"idle", "done"} => queue = <<>>
  /\ queue # <<>> => command.id \in Builds
  /\ pc = "compress" => profile # "dev"

(* The pass that follows each of them. *)
Passes == {"lint-fast", "dedupe", "compress", "reorder", "budget", "lint", "render"}
LEMMA FollowingAt ==
  ASSUME NEW i \in DOMAIN Plan, pc = Plan[i], Plan \in Seq(Passes), \A j \in DOMAIN Plan : Plan[j] = Plan[i] => j = i
  PROVE  Following = IF i = Len(Plan) THEN "render" ELSE Plan[i + 1]
<1>1. (CHOOSE j \in DOMAIN Plan : Plan[j] = pc) = i
  OBVIOUS
<1>2. Len(Plan) \in Nat /\ i \in 1..Len(Plan) /\ Plan # <<>>
  BY LenProperties, EmptySeq
<1>3. /\ Tail(Plan) \in Seq(Passes) /\ Len(Tail(Plan)) = Len(Plan) - 1
      /\ \A j \in 1..Len(Plan) - 1 : Tail(Plan)[j] = Plan[j + 1]
  BY <1>2, HeadTailProperties, LenProperties
<1>4. /\ \A j \in 1..Len(Plan) - 1 : Append(Tail(Plan), "render")[j] = Tail(Plan)[j]
      /\ Append(Tail(Plan), "render")[Len(Plan) - 1 + 1] = "render"
  BY <1>3, AppendProperties DEF Passes
<1>5. Len(Plan) - 1 + 1 = Len(Plan)
  BY <1>2
<1>6. Following = Append(Tail(Plan), "render")[i]
  BY <1>1 DEF Following
<1>. HIDE DEF Plan
<1>7. CASE i = Len(Plan)
  BY <1>4, <1>5, <1>6, <1>7
<1>8. CASE i # Len(Plan)
  BY <1>2, <1>3, <1>4, <1>6, <1>8
<1>. QED
  BY <1>7, <1>8

LEMMA FollowingPasses ==
  /\ pc = "lint-fast" => Following = "dedupe"
  /\ pc = "dedupe" => Following = IF profile = "dev" THEN "reorder" ELSE "compress"
  /\ pc = "compress" /\ profile # "dev" => Following = "reorder"
  /\ pc = "reorder" => Following = "budget"
  /\ pc = "budget" => Following = "lint"
  /\ pc = "lint" => Following = "render"
<1>1. CASE profile = "dev"
  <2>1. Plan = <<"lint-fast", "dedupe", "reorder", "budget", "lint">>
    BY <1>1 DEF Plan
  <2>2. Plan \in Seq(Passes) /\ Len(Plan) = 5 /\ DOMAIN Plan = 1..5
    BY <2>1 DEF Passes
  <2>3. \A i, j \in DOMAIN Plan : Plan[j] = Plan[i] => j = i
    BY <2>1
  <2>4. \A i \in 1..5 : pc = Plan[i] => Following = IF i = 5 THEN "render" ELSE Plan[i + 1]
    BY <2>2, <2>3, FollowingAt
  <2>. QED
    BY <1>1, <2>1, <2>4
<1>2. CASE profile # "dev"
  <2>1. Plan = <<"lint-fast", "dedupe", "compress", "reorder", "budget", "lint">>
    BY <1>2 DEF Plan
  <2>2. Plan \in Seq(Passes) /\ Len(Plan) = 6 /\ DOMAIN Plan = 1..6
    BY <2>1 DEF Passes
  <2>3. \A i, j \in DOMAIN Plan : Plan[j] = Plan[i] => j = i
    BY <2>1
  <2>4. \A i \in 1..6 : pc = Plan[i] => Following = IF i = 6 THEN "render" ELSE Plan[i + 1]
    BY <2>2, <2>3, FollowingAt
  <2>. QED
    BY <1>2, <2>1, <2>4
<1>. QED
  BY <1>1, <1>2

LEMMA PassesGoOn ==
  ASSUME QueueInv, Passing
  PROVE  /\ pc' \in {"dedupe", "compress", "reorder", "budget", "lint", "render", "assemble", "failed"}
         /\ pc' = "compress" => profile # "dev"
         /\ profile' = profile
<1>1. CASE Render
  BY <1>1 DEF Render
<1>2. CASE ~Render
  <2>1. /\ pc' \in {"failed", Following} /\ profile' = profile
        /\ pc \in {"lint-fast", "dedupe", "compress", "reorder", "budget", "lint"}
    BY <1>2 DEF Passing, LintFast, Dedupe, Compress, Reorder, Budget, Lint, Pass
  <2>. QED
    BY <2>1, FollowingPasses DEF QueueInv
<1>. QED
  BY <1>1, <1>2

LEMMA InOrderSeq ==
  ASSUME NEW S \in SUBSET {"draft", "starter"}
  PROVE  InOrder(S) \in Seq({"draft", "starter"})
<1>. DEFINE drafts == IF "draft" \in S THEN <<"draft">> ELSE <<>>
            starters == IF "starter" \in S THEN <<"starter">> ELSE <<>>
<1>1. drafts \in Seq({"draft", "starter"}) /\ starters \in Seq({"draft", "starter"})
  <2>1. <<>> \in Seq({"draft", "starter"}) /\ <<"draft">> \in Seq({"draft", "starter"})
        /\ <<"starter">> \in Seq({"draft", "starter"})
    BY EmptySeq
  <2>. QED
    BY <2>1
<1>2. InOrder(S) = drafts \o starters
  BY DEF InOrder
<1>. HIDE DEF drafts, starters
<1>. QED
  BY <1>1, <1>2, ConcatProperties

LEMMA QueueStep ==
  QueueInv /\ GreenInv /\ ArePrompts(prompts) /\ (Command \/ Other \/ UNCHANGED project) => QueueInv'
<1>. SUFFICES ASSUME QueueInv, GreenInv, ArePrompts(prompts), Command \/ Other \/ UNCHANGED project PROVE QueueInv'
  OBVIOUS
<1>1. CASE Command /\ ~Compiling
  <2>1. pc = "idle" /\ queue' = queue /\ (pc' = pc \/ pc' = "assemble")
    BY <1>1 DEF Command, ScaffoldProject, Setup, SetVariables, EditConfig, Convert, WriteSource, Run, Diagnose,
                Inspecting, Inspect, Sampling, Control, End, compiler, vars
  <2>. QED
    BY <2>1 DEF QueueInv
<1>2. CASE Compiling
  <2>0. PICK tree1 : \E id \in Builds, chosen \in SUBSET DOMAIN prompts : Build(id, chosen, tree1)
    BY <1>2 DEF Compiling, Builds
  <2>1. PICK id \in Builds, chosen \in SUBSET DOMAIN prompts : Build(id, chosen, tree1)
    BY <2>0
  <2>2. pc = "idle" /\ command'.id = id
    BY <2>1 DEF Build, Typing
  <2>3. CASE outcome' = None
    <3>1. queue' = InOrder(chosen) /\ pc' = "lint-fast"
      BY <2>1, <2>3 DEF Build, Load
    <3>2. chosen \in SUBSET {"draft", "starter"}
      BY DEF ArePrompts
    <3>. QED
      BY <2>2, <3>1, <3>2, InOrderSeq DEF QueueInv
  <2>4. CASE outcome' # None
    BY <2>1, <2>2, <2>4 DEF Build, QueueInv, compiler, vars
  <2>. QED
    BY <2>3, <2>4
<1>3. CASE Building
  BY <1>3, PassesGoOn DEF Building, QueueInv
<1>4. CASE BuildFails
  BY <1>4, EmptySeq DEF BuildFails, BuildStops, QueueInv
<1>5. CASE PromptWritten \/ PromptRejected
  <2>1. /\ queue # <<>> /\ command' = command
        /\ \/ queue' = Tail(queue) /\ Load(prompts[queue[2]])
           \/ queue' = <<>> /\ pc' = "idle"
    BY <1>5, WrittenStep DEF GreenInv
  <2>2. CASE queue' = Tail(queue) /\ Load(prompts[queue[2]])
    <3>1. queue' \in Seq({"draft", "starter"})
      BY <2>1, <2>2, HeadTailProperties DEF QueueInv
    <3>. QED
      BY <2>1, <2>2, <3>1 DEF Load, QueueInv
  <2>3. CASE queue' = <<>> /\ pc' = "idle"
    BY <2>3, EmptySeq DEF QueueInv
  <2>. QED
    BY <2>1, <2>2, <2>3
<1>6. CASE Answered
  BY <1>6 DEF Answered, QueueInv
<1>7. ASSUME NEW live, NEW target, Ask(live, target) PROVE QueueInv'
  BY <1>7 DEF Ask, Assemble, QueueInv
<1>8. CASE React \/ UNCHANGED project
  BY <1>8 DEF React, project, compiler, vars, QueueInv
<1>. QED
  BY <1>1, <1>2, <1>3, <1>4, <1>5, <1>6, <1>7, <1>8 DEF Other

(* The sections of a draft and of a prompt to study make a prompt file.      *)
LEMMA DraftIsFile ==
  ASSUME NEW draft \in Drafts, NEW raw \in Said, draft.sections # <<>>
  PROVE  IsFile(DraftFile(draft, raw))
<1>. DEFINE Parts == [id : Id, priority : Priority, text : Text, unmapped : BOOLEAN]
            Pieces == [id : Id, priority : Priority, body : Body]
            texts == DraftTexts(draft, raw)
            n == Len(draft.sections)
<1>1. draft.sections \in Seq(Parts)
  BY DraftAssumption DEF IsDraft
<1>2. n \in Nat \ {0} /\ draft.sections \in [1..n -> Parts]
  <2>. HIDE DEF Parts
  <2>. QED
    BY <1>1, LenProperties, EmptySeq
<1>3. DOMAIN texts = 1..n
  BY <1>2 DEF DraftTexts, LoneSection
<1>4. \A i \in 1..n : texts[i] \in Body
  BY <1>3, DraftTextsAreTexts DEF Body
<1>. DEFINE made == [i \in DOMAIN texts |->
     [id |-> draft.sections[i].id, priority |-> draft.sections[i].priority, body |-> texts[i]]]
<1>5. made \in [1..n -> Pieces]
  <2>. HIDE DEF texts, n
  <2>. QED
    BY <1>2, <1>3, <1>4
<1>6. made \in Seq(Pieces)
  <2>. HIDE DEF made, Pieces, n
  <2>. QED
    BY <1>2, <1>5, SeqDef
<1>7. DraftFile(draft, raw).sections = made
  BY DEF DraftFile
<1>. QED
  BY <1>6, <1>7 DEF IsFile

LEMMA SectionsAreFile ==
  ASSUME NEW sections \in Seq(Section)
  PROVE  IsFile(FileOf(sections))
<1>. DEFINE Pieces == [id : Id, priority : Priority, body : Body]
            n == Len(sections)
            made == [i \in DOMAIN sections |->
     [id |-> sections[i].id, priority |-> sections[i].priority, body |-> sections[i].text]]
<1>1. n \in Nat /\ sections \in [1..n -> Section]
  BY LenProperties
<1>2. made \in [1..n -> Pieces]
  BY <1>1 DEF Section, Body
<1>3. made \in Seq(Pieces)
  <2>. HIDE DEF made, Pieces, n
  <2>. QED
    BY <1>1, <1>2, SeqDef
<1>. QED
  BY <1>3 DEF IsFile, FileOf

(* Only prompt files are in prompts/. *)
LEMMA ProjectFiles == ArePrompts(prompts) /\ Command => ArePrompts(prompts')
<1>. SUFFICES ASSUME ArePrompts(prompts), Command PROVE ArePrompts(prompts')
  OBVIOUS
<1>1. ASSUME NEW named, ArePrompts(named), NEW n \in {"draft", "starter"}, NEW file, IsFile(file)
      PROVE  ArePrompts(With(named, n, file))
  BY <1>1 DEF ArePrompts, With
<1>2. ASSUME NEW template, NEW force, NEW dry, NEW setup, ScaffoldProject(template, force, dry, setup)
      PROVE  ArePrompts(prompts')
  BY <1>1, <1>2, SourceAssumption DEF ScaffoldProject, Sources
<1>3. ASSUME NEW draft \in Drafts, NEW raw \in Said, Convert(draft, raw) PROVE ArePrompts(prompts')
  <2>1. prompts' = prompts \/ (~DraftRefused(draft, raw) /\ prompts' = With(prompts, "draft", DraftFile(draft, raw)))
    BY <1>3 DEF Convert, ConvertResult
  <2>. QED
    BY <1>1, <2>1, DraftIsFile DEF DraftRefused
<1>4. CASE WriteSource
  BY <1>4, SourceAssumption DEF WriteSource, ArePrompts
<1>5. ASSUME ~WriteSource, \A template, force, dry, setup : ~ScaffoldProject(template, force, dry, setup),
             \A draft \in Drafts, raw \in Said : ~Convert(draft, raw)
      PROVE  prompts' = prompts
  BY <1>5 DEF Command, Setup, SetVariables, EditConfig, Compiling, Build, Run, Diagnose, Inspecting, Inspect,
              Sampling, Control, Untouched, files
<1>. QED
  BY <1>2, <1>3, <1>4, <1>5 DEF Command

LEMMA RegistryOf ==
  /\ \A id \in {"init", "setup", "convert", "build", "scaffold_build", "optimize", "trace_sample"} :
       Registry[id].files = "project"
  /\ Registry["run"].state = "runtime" /\ Registry["run"].confirm = "none"
  /\ \A id \in Gated : Registry[id].state = "runtime"
<1>1. /\ DOMAIN CompileAndRun = {"build", "build_watch", "diff", "check", "convert", "init", "fmt", "fmt_check",
                               "run_stub", "run", "trace_ls"}
      /\ DOMAIN Inspections = {"trace_show", "trace_sample", "cost", "eval", "explain", "doctor", "setup", "ops",
                             "daemon", "dlq_ls", "dlq_show"}
      /\ DOMAIN Controls = {"dlq_retry", "dlq_drop", "approve", "deny", "sessions_ls", "sessions_show",
                          "sessions_resume", "sessions_kill", "sessions_migrate", "materialize", "notify"}
      /\ DOMAIN SandboxAndWorkflows = {"sandbox_exec", "sandbox_snapshot", "sandbox_diff", "sandbox_restore",
                                     "scaffold_prompt_agent", "optimize", "scaffold_build"}
  BY DEF CompileAndRun, Inspections, Controls, SandboxAndWorkflows
<1>2. /\ \A id \in DOMAIN CompileAndRun : Registry[id] = CompileAndRun[id]
      /\ \A id \in DOMAIN Inspections : Registry[id] = Inspections[id]
      /\ \A id \in DOMAIN Controls : Registry[id] = Controls[id]
      /\ \A id \in DOMAIN SandboxAndWorkflows : Registry[id] = SandboxAndWorkflows[id]
  BY <1>1 DEF Registry
<1>3. /\ CompileAndRun.init.files = "project" /\ CompileAndRun.build.files = "project"
      /\ CompileAndRun.convert.files = "project"
      /\ CompileAndRun.run.state = "runtime" /\ CompileAndRun.run.confirm = "none"
  BY DEF CompileAndRun, WritesProjectFiles, RuntimeWrites, ReadOnly
<1>4. /\ Inspections.setup.files = "project" /\ Inspections.trace_sample.files = "project"
      /\ Inspections.daemon.state = "runtime"
  BY DEF Inspections, WritesProjectFiles, RuntimeWrites, RuntimeRead, ReadOnly
<1>5. \A id \in {"dlq_retry", "dlq_drop", "approve", "deny", "sessions_resume", "sessions_kill", "sessions_migrate",
                "notify"} : Controls[id].state = "runtime"
  <2>1. \A process : RuntimeWrites(process).state = "runtime" /\ DOMAIN RuntimeWrites(process) = DOMAIN ReadOnly
    BY DEF RuntimeWrites, ReadOnly
  <2>2. \A confirm : RuntimeMutation(confirm).state = "runtime" /\ ToolExecution(confirm).state = "runtime"
    BY <2>1 DEF RuntimeMutation, ToolExecution, ReadOnly
  <2>. QED
    BY <2>2 DEF Controls
<1>6. /\ SandboxAndWorkflows.sandbox_exec.state = "runtime" /\ SandboxAndWorkflows.sandbox_restore.state = "runtime"
      /\ SandboxAndWorkflows.optimize.files = "project" /\ SandboxAndWorkflows.scaffold_build.files = "project"
  BY DEF SandboxAndWorkflows, SandboxExec, SandboxLifecycle, ToolExecution, RuntimeWrites, WritesProjectFiles, ReadOnly
<1>. QED
  BY <1>1, <1>2, <1>3, <1>4, <1>5, <1>6 DEF Gated

(* A control that changes the runtime's state was let through by the gate.   *)
LEMMA ControlKeepsWord ==
  ASSUME NEW id \in Gated, NEW yes \in BOOLEAN, NEW terminal \in BOOLEAN, NEW answer, Control(id, yes, terminal, answer)
  PROVE  Within(Registry[id]) /\ Kept
<1>1. UNCHANGED <<files, dist>>
  BY DEF Control
<1>2. ASSUME rows' # rows, Registry[id].confirm = "required" PROVE command'.confirmed
  <2>1. outcome' = "done"
    BY <1>2 DEF Control
  <2>2. Admitted(id, yes, terminal, answer)
    BY <2>1 DEF Control
  <2>3. yes \/ (terminal /\ answer = "y")
    BY <1>2, <2>2 DEF Admitted
  <2>. QED
    BY <2>3 DEF Control, Typing
<1>3. Kept
  BY <1>1 DEF Kept, Changed, files
<1>. QED
  BY <1>1, <1>2, <1>3, RegistryOf DEF Within, files

LEMMA SetUpKeeps ==
  ASSUME NEW c, IsConfig(c), NEW variable, NEW model
  PROVE  LET new == SetUp(c, variable, model) IN
         /\ \A f \in {"availability", "key", "provider", "model"} : c[f] # Unset => new[f] = c[f]
         /\ c.permitted.providers \subseteq new.permitted.providers
<1>1. ASSUME NEW b, IsConfig(b), NEW field \in {"availability", "key", "provider", "model"}, NEW value
      PROVE  /\ IsConfig(SetMissing(b, field, value))
             /\ \A f \in {"availability", "key", "provider", "model"} :
                  b[f] # Unset => SetMissing(b, field, value)[f] = b[f]
             /\ SetMissing(b, field, value).permitted = b.permitted
  BY <1>1, ChangedConfig DEF SetMissing, IsConfig, EmptyConfig
<1>. DEFINE a == SetMissing(c, "availability", "available")
            b == SetMissing(a, "key", variable)
            e == SetMissing(b, "provider", OpenRouter)
            d == SetMissing(e, "model", model)
            Same(x, y) == /\ \A f \in {"availability", "key", "provider", "model"} : x[f] # Unset => y[f] = x[f]
                          /\ y.permitted = x.permitted
<1>2. IsConfig(d) /\ Same(c, d)
  <2>1. IsConfig(a) /\ Same(c, a)
    BY <1>1
  <2>2. IsConfig(b) /\ Same(a, b)
    BY <1>1, <2>1
  <2>3. IsConfig(e) /\ Same(b, e)
    BY <1>1, <2>2
  <2>4. IsConfig(d) /\ Same(e, d)
    BY <1>1, <2>3
  <2>. HIDE DEF a, b, e, d
  <2>. QED
    BY <2>1, <2>2, <2>3, <2>4
<1>3. SetUp(c, variable, model) = [d EXCEPT !.present = TRUE, !.permitted.providers = @ \cup {OpenRouter, Stub.provider}]
  BY DEF SetUp
<1>. HIDE DEF d
<1>. QED
  BY <1>2, <1>3 DEF IsConfig, EmptyConfig, IsListing

(* What is kept of the files other than the configuration and the prompts.   *)
KeptTree(id, new) ==
  /\ \A part \in {"manifest", "lock"} : tree[part] # "absent" => new[part] = tree[part]
  /\ tree.notes \ new.notes \subseteq Overwritten(id)
  /\ tree.agent \in {"edited", "elsewhere"} /\ new.agent # tree.agent => "agent" \in Overwritten(id)
  /\ Changed(tree.evals, new.evals) # {} => "suite" \in Overwritten(id)
  /\ \A f, g \in Changed(tree.evals, new.evals) : f = g

LEMMA KeptParts ==
  ASSUME KeptTree(command'.id, tree'),
         \A n \in DOMAIN prompts : n \in DOMAIN prompts' /\ prompts'[n] = prompts[n],
         \A f \in {"availability", "key", "provider", "model"} : config[f] # Unset => config'[f] = config[f],
         config.permitted.providers \subseteq config'.permitted.providers, dotenv' = dotenv
  PROVE  Kept
BY DEF KeptTree, Kept

LEMMA SuitesStay == \A suites : Changed(suites, suites) = {}
BY DEF Changed

LEMMA TreeStays == \A id : KeptTree(id, tree)
BY SuitesStay DEF KeptTree

LEMMA NothingLost ==
  ASSUME NEW id, NEW new, \A part \in {"manifest", "lock"} : tree[part] # "absent" => new[part] = tree[part],
         tree.notes \ new.notes \subseteq Overwritten(id), new.agent = tree.agent, new.evals = tree.evals
  PROVE  KeptTree(id, new)
BY SuitesStay DEF KeptTree

LEMMA CommentsLost ==
  ASSUME GreenInv, NEW id, NEW lost \in Overwritten(id)
  PROVE  KeptTree(id, [tree EXCEPT !.notes = tree.notes \ {lost}])
<1>. DEFINE new == [tree EXCEPT !.notes = tree.notes \ {lost}]
<1>1. /\ new.manifest = tree.manifest /\ new.lock = tree.lock /\ new.agent = tree.agent /\ new.evals = tree.evals
      /\ new.notes = tree.notes \ {lost}
  BY DEF GreenInv, IsTree
<1>. HIDE DEF new
<1>2. tree.notes \ new.notes \subseteq Overwritten(id)
  BY <1>1
<1>3. KeptTree(id, new)
  BY <1>1, <1>2, NothingLost
<1>. QED
  BY <1>3 DEF new

LEMMA FilesStay == ASSUME UNCHANGED files PROVE Kept
BY TreeStays, KeptParts DEF files

LEMMA OverwrittenBy ==
  /\ \A id \in {"build", "optimize", "scaffold_build"} : "lock comments" \in Overwritten(id)
  /\ "agent" \in Overwritten("scaffold_build") /\ "suite" \in Overwritten("trace_sample")
  /\ \A id \in {"init", "setup"} : "config comments" \in Overwritten(id)
BY DEF Overwritten

LEMMA CommandsKeep ==
  ASSUME GreenInv, Command, command'.id # "edit"
  PROVE  Within(Registry[command'.id]) /\ (command'.force \/ Kept)
<1>1. ASSUME NEW template, NEW force \in BOOLEAN, NEW dry, NEW setup, ScaffoldProject(template, force, dry, setup)
      PROVE  Within(Registry[command'.id]) /\ (command'.force \/ Kept)
  <2>1. command'.id = "init" /\ command'.force = force /\ UNCHANGED <<dotenv, dist, rows>>
    BY <1>1 DEF ScaffoldProject, Typing
  <2>2. ASSUME ~force PROVE Kept
    <3>. DEFINE laid == Scaffolded(force)
                plain == [laid EXCEPT !.notes = laid.notes \ {"config comments"}]
    <3>0. tree' \in {tree, laid, plain}
      BY <1>1 DEF ScaffoldProject, Plain
    <3>1. /\ \A part \in {"manifest", "lock"} : tree[part] # "absent" => laid[part] = tree[part]
          /\ tree.notes \subseteq laid.notes /\ laid.agent = tree.agent /\ laid.evals = tree.evals
          /\ DOMAIN laid = DOMAIN tree
      BY <2>2 DEF Scaffolded, Written, Commented, GreenInv, IsTree
    <3>2. /\ \A part \in {"manifest", "lock"} : tree[part] # "absent" => plain[part] = tree[part]
          /\ tree.notes \ plain.notes \subseteq {"config comments"}
          /\ plain.agent = tree.agent /\ plain.evals = tree.evals
      <4>. HIDE DEF laid
      <4>. QED
        BY <3>1 DEF GreenInv, IsTree
    <3>3. KeptTree("init", tree')
      <4>. HIDE DEF laid, plain
      <4>1. KeptTree("init", laid)
        BY <3>1, NothingLost
      <4>2. KeptTree("init", plain)
        BY <3>2, NothingLost, OverwrittenBy
      <4>. QED
        BY <3>0, <4>1, <4>2, TreeStays
    <3>4. \A n \in DOMAIN prompts : n \in DOMAIN prompts' /\ prompts'[n] = prompts[n]
      BY <1>1, <2>2 DEF ScaffoldProject, Sources, With
    <3>5. config' = config \/ config' = SetUp(config, OpenRouterKey, "default")
      BY <1>1 DEF ScaffoldProject
    <3>. QED
      BY <2>1, <3>3, <3>4, <3>5, SetUpKeeps, KeptParts DEF GreenInv
  <2>. QED
    BY <2>1, <2>2, RegistryOf DEF Within
<1>2. ASSUME NEW variable, NEW model, Setup(variable, model)
      PROVE  Within(Registry[command'.id]) /\ Kept
  <2>1. /\ command'.id = "setup" /\ UNCHANGED <<prompts, dotenv, dist, rows>>
        /\ config' = config \/ config' = SetUp(config, variable, model)
        /\ tree' \in {tree, [tree EXCEPT !.notes = tree.notes \ {"config comments"}]}
    BY <1>2 DEF Setup, Typing, Plain
  <2>2. KeptTree("setup", [tree EXCEPT !.notes = tree.notes \ {"config comments"}])
    BY CommentsLost, OverwrittenBy
  <2>3. KeptTree("setup", tree')
    BY <2>1, <2>2, TreeStays
  <2>4. /\ \A f \in {"availability", "key", "provider", "model"} : config[f] # Unset => config'[f] = config[f]
        /\ config.permitted.providers \subseteq config'.permitted.providers
    <3>1. LET new == SetUp(config, variable, model) IN
          /\ \A f \in {"availability", "key", "provider", "model"} : config[f] # Unset => new[f] = config[f]
          /\ config.permitted.providers \subseteq new.permitted.providers
      BY SetUpKeeps DEF GreenInv
    <3>. QED
      BY <2>1, <3>1
  <2>5. Kept
    BY <2>1, <2>3, <2>4, KeptParts
  <2>. QED
    BY <2>1, <2>5, RegistryOf DEF Within
<1>3. ASSUME NEW S, SetVariables(S) PROVE FALSE
  BY <1>3 DEF SetVariables, End, Typing
<1>4. ASSUME NEW new, EditConfig(new) PROVE FALSE
  BY <1>4 DEF EditConfig, End, Typing
<1>5. ASSUME NEW draft, NEW raw, Convert(draft, raw) PROVE Within(Registry[command'.id]) /\ Kept
  <2>1. command'.id = "convert" /\ UNCHANGED <<config, dotenv, dist, rows>>
    BY <1>5 DEF Convert, End, Typing
  <2>2. ASSUME prompts' # prompts PROVE "draft" \notin DOMAIN prompts
    BY <1>5, <2>2 DEF Convert, ConvertResult
  <2>3. \A n \in DOMAIN prompts : n \in DOMAIN prompts' /\ prompts'[n] = prompts[n]
    BY <1>5, <2>2 DEF Convert, With
  <2>4. tree' \in {tree, [tree EXCEPT !.prompts = TRUE]}
    BY <1>5 DEF Convert
  <2>5. KeptTree("convert", [tree EXCEPT !.prompts = TRUE])
    BY NothingLost DEF GreenInv, IsTree
  <2>6. KeptTree("convert", tree')
    BY <2>4, <2>5, TreeStays
  <2>. QED
    BY <2>1, <2>3, <2>6, RegistryOf, KeptParts DEF Within
<1>6. CASE WriteSource
  BY <1>6 DEF WriteSource, End, Typing
<1>7. CASE Compiling
  <2>1. PICK id, chosen, tree1 :
             /\ id \in Builds /\ BuildTree(tree1) /\ Build(id, chosen, tree1)
             /\ tree1.agent # tree.agent => id = "scaffold_build" \/ tree.agent \notin {"edited", "elsewhere"}
    <3>1. PICK id, chosen, tree1 :
               /\ BuildTree(tree1) /\ Build(id, chosen, tree1)
               /\ id \in Builds /\ (id # "scaffold_build" => tree1 \in {tree, [tree EXCEPT !.tuned = TRUE]})
      BY <1>7 DEF Compiling, Builds
    <3>. QED
      BY <3>1 DEF GreenInv, IsTree
  <2>2. command'.id = id /\ tree' = tree1 /\ UNCHANGED <<prompts, config, dotenv, rows>>
    BY <2>1 DEF Build, Typing
  <2>3. /\ \A part \in {"manifest", "lock", "notes", "evals"} : tree1[part] = tree[part]
    BY <2>1 DEF BuildTree, GreenInv, IsTree
  <2>4. KeptTree(id, tree1)
    BY <2>1, <2>3, SuitesStay, OverwrittenBy DEF KeptTree
  <2>. QED
    BY <2>1, <2>2, <2>4, RegistryOf, KeptParts DEF Within, Builds
<1>8. CASE Run
  BY <1>8, RegistryOf, FilesStay DEF Run, Typing, Within
<1>9. CASE Diagnose \/ Inspecting
  BY <1>9, FilesStay DEF Diagnose, Inspecting, Inspect, Untouched, Within
<1>10. CASE Sampling
  <2>1. command'.id = "trace_sample" /\ UNCHANGED <<prompts, config, dotenv, dist, rows>>
    BY <1>10 DEF Sampling, End, Typing
  <2>2. PICK n, file : tree' = [tree EXCEPT !.evals = With(tree.evals, file, Sampled(n))]
    BY <1>10 DEF Sampling
  <2>3. /\ \A part \in {"manifest", "lock", "notes", "agent"} : tree'[part] = tree[part]
        /\ tree'.evals = With(tree.evals, file, Sampled(n))
    BY <2>2 DEF GreenInv, IsTree
  <2>4. \A f \in Changed(tree.evals, tree'.evals) : f = file
    BY <2>3 DEF Changed, With
  <2>5. KeptTree("trace_sample", tree')
    BY <2>3, <2>4, OverwrittenBy DEF KeptTree
  <2>. QED
    BY <2>1, <2>5, RegistryOf, KeptParts DEF Within
<1>11. ASSUME NEW id \in Gated, NEW yes \in BOOLEAN, NEW terminal \in BOOLEAN, NEW answer,
              Control(id, yes, terminal, answer)
       PROVE  Within(Registry[command'.id]) /\ Kept
  <2>1. command'.id = id
    BY <1>11 DEF Control, Typing
  <2>. QED
    BY <1>11, <2>1, ControlKeepsWord
<1>. QED
  BY <1>1, <1>2, <1>3, <1>4, <1>5, <1>6, <1>7, <1>8, <1>9, <1>10, <1>11 DEF Command

LEMMA OthersKeep ==
  ASSUME QueueInv, GreenInv, Other
  PROVE  Within(Registry[command'.id]) /\ Kept
<1>1. CASE PromptWritten \/ PromptRejected
  <2>1. /\ tree' \in {tree, [tree EXCEPT !.notes = tree.notes \ {"lock comments"}]}
        /\ command' = command /\ queue # <<>> /\ UNCHANGED <<prompts, config, dotenv, rows>>
    BY <1>1, WrittenStep DEF GreenInv
  <2>2. command'.id \in Builds
    BY <2>1 DEF QueueInv
  <2>3. KeptTree(command'.id, [tree EXCEPT !.notes = tree.notes \ {"lock comments"}])
    BY <2>2, CommentsLost, OverwrittenBy DEF Builds
  <2>4. Kept
    BY <2>1, <2>3, TreeStays, KeptParts
  <2>. QED
    BY <2>1, <2>2, <2>4, RegistryOf DEF Within, Builds
<1>2. CASE ~(PromptWritten \/ PromptRejected)
  <2>1. UNCHANGED <<files, dist, rows>>
    BY <1>2 DEF Other, Building, BuildFails, BuildStops, Answered, Ask, React, files
  <2>. QED
    BY <2>1, FilesStay DEF Within
<1>. QED
  BY <1>1, <1>2

ProjectInv == GreenInv /\ QueueInv /\ ArePrompts(prompts)

LEMMA ProjectStart == ProjectInit => ProjectInv
<1>. SUFFICES ASSUME ProjectInit PROVE ProjectInv
  OBVIOUS
<1>1. QueueInv
  <2>1. <<>> \in Seq({"draft", "starter"}) /\ <<"starter">> \in Seq({"draft", "starter"})
    BY EmptySeq
  <2>. QED
    <3>1. \/ pc = "lint-fast" /\ queue = <<"starter">> /\ command.id = "build"
          \/ pc = "idle" /\ queue = <<>>
      BY DEF ProjectInit, Init, Typing
    <3>. QED
      BY <2>1, <3>1 DEF QueueInv, Builds
<1>2. ArePrompts(prompts)
  <2>1. ASSUME prompts = [n \in {"starter"} |-> FileOf(source)], Init PROVE ArePrompts(prompts)
    <3>1. source \in Seq(Section)
      BY <2>1 DEF Init, BoundedSeq, SeqOf
    <3>2. IsFile(FileOf(source))
      BY <3>1, SectionsAreFile
    <3>. QED
      BY <2>1, <3>2 DEF ArePrompts
  <2>. QED
    BY <2>1, ProjectAssumption DEF ProjectInit
<1>. QED
  BY <1>1, <1>2, GreenStart DEF ProjectInv

LEMMA ProjectStep == ProjectInv /\ [ProjectNext]_project => ProjectInv'
<1>1. ArePrompts(prompts) /\ (Other \/ UNCHANGED project) => ArePrompts(prompts')
  BY DEF Other, Building, BuildFails, BuildStops, PromptRejected, PromptWritten, Answered, Ask, React, project, files
<1>2. ArePrompts(prompts)' <=> ArePrompts(prompts')
  BY DEF ArePrompts, IsFile
<1>. QED
  BY <1>1, <1>2, StepsOfProject, GreenCommands, GreenOthers, QueueStep, ProjectFiles DEF ProjectInv

(* What a command does stays within what the registry says of it, required   *)
(* confirmations included; unless it is forced it keeps what a person wrote,*)
(* but for what Overwritten names: comments of the files that builds and    *)
(* setup write anew, an edited agent, a suite of the name that is sampled.  *)
THEOREM CommandsStayWithinSafety == ProjectSpec => CommandsKeepTheirWord
<1>1. ProjectInv /\ [ProjectNext]_project =>
        [command'.id # "edit" => Within(Registry[command'.id]) /\ (command'.force \/ Kept)]_project
  BY StepsOfProject, CommandsKeep, OthersKeep DEF ProjectInv
<1>. QED
  BY ProjectStart, ProjectStep, <1>1, PTL DEF ProjectSpec, CommandsKeepTheirWord

-----------------------------------------------------------------------------
(* What the passes make of a prompt *)

FinalAs(p, t) == IF p = "release" /\ t # Blank THEN Output(t) ELSE t
Holder(s, j) == IF s[j].ref = None THEN s[j].id ELSE s[j].ref
FromSource(src, s) ==
  s = [i \in DOMAIN src |->
        [id |-> src[i].id, priority |-> src[i].priority, text |-> src[i].text, ref |-> None]]

(* Each text is held by a section, its own one or the one that this refers to. *)
Reaches(src, s, p) ==
  \A i \in DOMAIN src : \E j, k \in DOMAIN s :
    /\ s[j].id = src[i].id /\ s[k].id = Holder(s, j)
    /\ s[k].ref = None /\ s[k].text = FinalAs(p, src[i].text)
UniqueIds(s) == \A i, j \in DOMAIN s : s[i].id = s[j].id => i = j

Conveys(src, s, p, messages) ==
  \A i \in DOMAIN src : \E j, k \in DOMAIN s :
    /\ s[j].id = src[i].id /\ s[k].id = Holder(s, j)
    /\ s[k].text = FinalAs(p, src[i].text)
    /\ Cardinality({n \in DOMAIN messages : messages[n] = s[k].id}) = 1

LEMMA LeastOf ==
  ASSUME NEW S \in SUBSET Nat, S # {}
  PROVE  Min(S) \in S /\ \A m \in S : Min(S) <= m
<1>1. PICK n \in S : \A m \in S : <<m, n>> \notin OpToRel(<, Nat)
  BY WFMin, NatLessThanWellFounded, Zenon
<1>2. \A m \in S : ~(m < n)
  BY <1>1, Zenon DEF OpToRel
<1>3. n \in S /\ \A m \in S : n <= m
  BY <1>2
<1>. QED
  BY <1>3 DEF Min

LEMMA SectionsOf ==
  ASSUME NEW S, NEW s \in Seq(S)
  PROVE  /\ Len(s) \in Nat /\ DOMAIN s = 1..Len(s) /\ s \in [1..Len(s) -> S]
         /\ \A i \in DOMAIN s : s[i] \in S
BY LenProperties, ElementOfSeq

LEMMA ListOf ==
  ASSUME NEW S, NEW n \in Nat, NEW f \in [1..n -> S]
  PROVE  f \in Seq(S) /\ Len(f) = n /\ DOMAIN f = 1..n
<1>1. f \in Seq(S)
  BY SeqDef
<1>. QED
  BY <1>1, LenProperties

LEMMA SourceReaches ==
  ASSUME NEW src \in Seq(Section), NEW s, FromSource(src, s)
  PROVE  s \in Seq(Compiled) /\ DOMAIN s = DOMAIN src
<1>1. Len(src) \in Nat /\ DOMAIN src = 1..Len(src) /\ \A i \in DOMAIN src : src[i] \in Section
  BY SectionsOf
<1>2. s \in [1..Len(src) -> Compiled]
  BY <1>1 DEF FromSource, Section, Compiled
<1>3. s \in Seq(Compiled)
  <2>. HIDE DEF Compiled
  <2>. QED
    BY <1>1, <1>2, ListOf
<1>. QED
  BY <1>3 DEF FromSource

(* Dedupe keeps a text in the first section that has it.                    *)
LEMMA DedupeKeeps ==
  ASSUME source \in Seq(Section), FromSource(source, ir), Dedupe
  PROVE  ir' \in Seq(Compiled) /\ Reaches(source, ir', "dev")
<1>1. /\ ir \in Seq(Compiled) /\ DOMAIN ir = DOMAIN source /\ Len(ir) \in Nat /\ DOMAIN ir = 1..Len(ir)
      /\ \A i \in DOMAIN ir : ir[i] \in Compiled
  BY SourceReaches, SectionsOf
<1>2. /\ DOMAIN ir' = DOMAIN ir
      /\ \A i \in DOMAIN ir : ir'[i] = IF Twins(i) = {} THEN ir[i]
                                       ELSE [ir[i] EXCEPT !.text = Blank, !.ref = ir[Min(Twins(i))].id]
  BY DEF Dedupe
<1>3. \A i \in DOMAIN ir : ir[i] = [id |-> source[i].id, priority |-> source[i].priority,
                                    text |-> source[i].text, ref |-> None]
  BY <1>1 DEF FromSource
<1>4. ASSUME NEW i \in DOMAIN ir, Twins(i) # {}
      PROVE  LET k == Min(Twins(i)) IN
             k \in DOMAIN ir /\ ir[k].text = ir[i].text /\ ir[i].text # Blank /\ Twins(k) = {}
  <2>. DEFINE k == Min(Twins(i))
  <2>1. Twins(i) \subseteq Nat
    BY <1>1 DEF Twins
  <2>2. k \in Twins(i) /\ \A m \in Twins(i) : k <= m
    BY <1>4, <2>1, LeastOf
  <2>. HIDE DEF k
  <2>3. k \in 1..i - 1 /\ i \in 1..Len(ir) /\ ir[k].text = ir[i].text /\ ir[i].text # Blank
    BY <1>1, <2>2 DEF Twins
  <2>4. \A m \in Twins(k) : m \in Twins(i) /\ m < k
    BY <1>1, <2>3 DEF Twins
  <2>5. Twins(k) = {}
    <3>. SUFFICES ASSUME NEW m \in Twins(k) PROVE FALSE
      OBVIOUS
    <3>1. m \in Nat /\ k \in Nat /\ k <= m /\ m < k
      BY <2>1, <2>2, <2>4
    <3>. QED
      BY <3>1
  <2>. QED
    BY <1>1, <2>3, <2>5 DEF k
<1>5. ASSUME NEW i \in DOMAIN ir PROVE ir'[i] \in Compiled
  <2>1. CASE Twins(i) = {}
    BY <1>1, <1>2, <2>1
  <2>2. CASE Twins(i) # {}
    <3>1. ir[Min(Twins(i))].id \in Id /\ ir[i] \in Compiled
      BY <1>1, <1>4, <2>2 DEF Compiled
    <3>. QED
      BY <1>2, <2>2, <3>1, TextAssumption DEF Compiled
  <2>. QED
    BY <2>1, <2>2
<1>6. ir' \in Seq(Compiled)
  <2>1. ir' = [i \in 1..Len(ir) |-> ir'[i]]
    BY <1>1 DEF Dedupe
  <2>2. ir' \in [1..Len(ir) -> Compiled]
    BY <1>1, <1>5, <2>1
  <2>. QED
    BY <1>1, <2>2, ListOf
<1>7. ASSUME NEW i \in DOMAIN source
      PROVE  \E j, k \in DOMAIN ir' : /\ ir'[j].id = source[i].id /\ ir'[k].id = Holder(ir', j)
                                      /\ ir'[k].ref = None /\ ir'[k].text = FinalAs("dev", source[i].text)
  <2>1. CASE Twins(i) = {}
    <3>1. /\ i \in DOMAIN ir' /\ ir'[i].id = source[i].id /\ ir'[i].ref = None
          /\ ir'[i].text = source[i].text
      <4>1. i \in DOMAIN ir' /\ ir'[i] = ir[i]
        BY <1>1, <1>2, <2>1
      <4>2. ir[i].id = source[i].id /\ ir[i].ref = None /\ ir[i].text = source[i].text
        BY <1>1, <1>3
      <4>. QED
        BY <4>1, <4>2
    <3>. QED
      BY <3>1 DEF Holder, FinalAs
  <2>2. CASE Twins(i) # {}
    <3>. DEFINE k == Min(Twins(i))
    <3>1. k \in DOMAIN ir /\ ir[k].text = ir[i].text /\ Twins(k) = {}
      BY <1>1, <1>4, <2>2
    <3>0. ir'[i] = [ir[i] EXCEPT !.text = Blank, !.ref = ir[k].id] /\ ir[i] \in Compiled
      BY <1>1, <1>2, <2>2
    <3>. HIDE DEF k
    <3>2. ir'[i].id = ir[i].id /\ ir'[i].ref = ir[k].id
      BY <3>0 DEF Compiled
    <3>3. ir'[k] = ir[k]
      BY <1>2, <3>1
    <3>4. ir[k].id # None
      BY <1>1, <3>1, SectionAssumption DEF Compiled
    <3>5. ir[k].ref = None /\ ir[k].text = source[i].text /\ ir[i].id = source[i].id
      BY <1>1, <1>3, <3>1
    <3>6. i \in DOMAIN ir' /\ k \in DOMAIN ir' /\ Holder(ir', i) = ir'[k].id
      BY <1>1, <1>2, <3>1, <3>2, <3>3, <3>4 DEF Holder
    <3>. QED
      BY <3>2, <3>3, <3>5, <3>6 DEF FinalAs
  <2>. QED
    BY <2>1, <2>2
<1>. QED
  BY <1>6, <1>7 DEF Reaches

(* Compress replaces the texts that are held, and none of the references.    *)
LEMMA CompressKeeps ==
  ASSUME source \in Seq(Section), ir \in Seq(Compiled), Reaches(source, ir, "dev"), Compress, pc' # "failed"
  PROVE  ir' \in Seq(Compiled) /\ Reaches(source, ir', "release")
<1>1. Len(ir) \in Nat /\ DOMAIN ir = 1..Len(ir) /\ \A i \in DOMAIN ir : ir[i] \in Compiled
  BY SectionsOf
<1>2. {i \in DOMAIN ir : Held(i) /\ ~Compressible(i)} = {}
  BY DEF Compress, Pass
<1>3. ir' = [i \in DOMAIN ir |-> IF Held(i) THEN [ir[i] EXCEPT !.text = Output(@)] ELSE ir[i]]
  BY <1>2 DEF Compress
<1>4. ASSUME NEW i \in DOMAIN ir PROVE ir'[i] \in Compiled
  <2>1. CASE Held(i)
    <3>1. Output(ir[i].text) \in Text
      BY <1>2, <2>1, LockAssumption DEF Compressible, Output
    <3>2. ir'[i] = [ir[i] EXCEPT !.text = Output(ir[i].text)]
      BY <1>3, <2>1
    <3>. QED
      BY <1>1, <3>1, <3>2 DEF Compiled
  <2>. QED
    BY <1>1, <1>3, <2>1
<1>5. ir' \in Seq(Compiled)
  <2>1. ir' = [i \in 1..Len(ir) |-> ir'[i]]
    BY <1>1, <1>3
  <2>2. ir' \in [1..Len(ir) -> Compiled]
    BY <1>1, <1>4, <2>1
  <2>. QED
    BY <1>1, <2>2, ListOf
<1>6. \A i \in DOMAIN ir : /\ ir'[i].id = ir[i].id /\ ir'[i].ref = ir[i].ref
                           /\ ir[i].ref = None => ir'[i].text = FinalAs("release", ir[i].text)
  <2>. TAKE i \in DOMAIN ir
  <2>1. CASE Held(i)
    BY <1>1, <1>3, <2>1 DEF Compiled, Held, FinalAs
  <2>2. CASE ~Held(i)
    BY <1>1, <1>3, <2>2 DEF Held, FinalAs
  <2>. QED
    BY <2>1, <2>2
<1>7. DOMAIN ir' = DOMAIN ir
  BY <1>3
<1>8. ASSUME NEW i \in DOMAIN source
      PROVE  \E j, k \in DOMAIN ir' : /\ ir'[j].id = source[i].id /\ ir'[k].id = Holder(ir', j)
                                      /\ ir'[k].ref = None /\ ir'[k].text = FinalAs("release", source[i].text)
  <2>1. PICK j, k \in DOMAIN ir : /\ ir[j].id = source[i].id /\ ir[k].id = Holder(ir, j)
                                  /\ ir[k].ref = None /\ ir[k].text = FinalAs("dev", source[i].text)
    BY DEF Reaches
  <2>2. ir[k].text = source[i].text
    BY <2>1 DEF FinalAs
  <2>. QED
    BY <1>6, <1>7, <2>1, <2>2 DEF Holder
<1>. QED
  BY <1>5, <1>8 DEF Reaches

(* The sections at given places, in their order.                            *)
LEMMA PickedList ==
  ASSUME ir \in Seq(Compiled), NEW S \in SUBSET DOMAIN ir
  PROVE  \E at, n :
           /\ n \in Nat /\ at \in [1..n -> S] /\ Picked(S) = [k \in 1..n |-> ir[at[k]]]
           /\ \A i \in S : \E k \in 1..n : at[k] = i
           /\ \A k, l \in 1..n : at[k] = at[l] => k = l
<1>. DEFINE at == Sorted(S)
            n == Cardinality(S)
<1>1. Len(ir) \in Nat /\ DOMAIN ir = 1..Len(ir)
  BY SectionsOf
<1>2. S \in SUBSET Int /\ IsFiniteSet(S)
  <2>1. IsFiniteSet(1..Len(ir)) /\ S \in SUBSET (1..Len(ir))
    BY <1>1, FS_Interval
  <2>2. IsFiniteSet(S)
    BY <2>1, FS_Subset
  <2>. QED
    BY <2>1, <2>2
<1>3. /\ n \in Nat /\ at \in [1..n -> S] /\ \A i \in S : \E k \in 1..n : at[k] = i
      /\ \A k, l \in 1..n : k < l => at[k] < at[l]
  BY <1>2, SortedList
<1>4. Picked(S) = [k \in 1..n |-> ir[at[k]]]
  BY <1>3 DEF Picked
<1>. HIDE DEF at, n
<1>5. \A k, l \in 1..n : at[k] = at[l] => k = l
  <2>. SUFFICES ASSUME NEW k \in 1..n, NEW l \in 1..n, at[k] = at[l] PROVE k = l
    OBVIOUS
  <2>1. at[k] \in Int /\ ~(at[k] < at[l]) /\ ~(at[l] < at[k])
    BY <1>2, <1>3
  <2>2. k \in Int /\ l \in Int /\ ~(k < l) /\ ~(l < k)
    BY <1>3, <2>1
  <2>. QED
    BY <2>2
<1>. QED
  BY <1>3, <1>4, <1>5

LEMMA ReorderKeeps ==
  ASSUME source \in Seq(Section), ir \in Seq(Compiled), NEW p, Reaches(source, ir, p), Reorder
  PROVE  ir' \in Seq(Compiled) /\ Reaches(source, ir', p)
<1>. DEFINE A == {i \in DOMAIN ir : Stable(ir[i])}
            B == {i \in DOMAIN ir : ~Stable(ir[i])}
<1>1. ir' = Picked(A) \o Picked(B) /\ A \cup B = DOMAIN ir
  BY DEF Reorder
<1>2. ASSUME NEW S \in SUBSET DOMAIN ir
      PROVE  /\ Picked(S) \in Seq(Compiled)
             /\ \A i \in S : \E k \in 1..Len(Picked(S)) : Picked(S)[k] = ir[i]
  <2>0. \A i \in DOMAIN ir : ir[i] \in Compiled
    BY SectionsOf
  <2>1. PICK at, n : /\ n \in Nat /\ at \in [1..n -> S] /\ Picked(S) = [k \in 1..n |-> ir[at[k]]]
                     /\ \A i \in S : \E k \in 1..n : at[k] = i
                     /\ \A k, l \in 1..n : at[k] = at[l] => k = l
    BY PickedList
  <2>2. Picked(S) \in [1..n -> Compiled]
    BY <2>0, <2>1
  <2>3. Picked(S) \in Seq(Compiled) /\ Len(Picked(S)) = n
    BY <2>1, <2>2, ListOf
  <2>. QED
    BY <2>1, <2>3
<1>. HIDE DEF A, B
<1>3. /\ Picked(A) \in Seq(Compiled) /\ Picked(B) \in Seq(Compiled)
      /\ \A i \in A : \E k \in 1..Len(Picked(A)) : Picked(A)[k] = ir[i]
      /\ \A i \in B : \E k \in 1..Len(Picked(B)) : Picked(B)[k] = ir[i]
  BY <1>1, <1>2
<1>. DEFINE a == Picked(A)
            b == Picked(B)
<1>4. /\ a \in Seq(Compiled) /\ b \in Seq(Compiled) /\ ir' = a \o b
      /\ \A i \in A : \E k \in 1..Len(a) : a[k] = ir[i]
      /\ \A i \in B : \E k \in 1..Len(b) : b[k] = ir[i]
  BY <1>1, <1>3
<1>. HIDE DEF a, b
<1>5. /\ ir' \in Seq(Compiled) /\ Len(a) \in Nat /\ Len(b) \in Nat
      /\ Len(ir') = Len(a) + Len(b) /\ DOMAIN ir' = 1..Len(ir')
      /\ \A m \in 1..Len(a) + Len(b) : ir'[m] = IF m <= Len(a) THEN a[m] ELSE b[m - Len(a)]
  BY <1>4, ConcatProperties, LenProperties
<1>6. ASSUME NEW i \in DOMAIN ir PROVE \E m \in DOMAIN ir' : ir'[m] = ir[i]
  <2>1. CASE i \in A
    <3>1. PICK k \in 1..Len(a) : a[k] = ir[i]
      BY <1>4, <2>1
    <3>. QED
      BY SMTT(20), <1>5, <3>1
  <2>2. CASE i \in B
    <3>1. PICK k \in 1..Len(b) : b[k] = ir[i]
      BY <1>4, <2>2
    <3>2. k + Len(a) \in 1..Len(ir') /\ ~(k + Len(a) <= Len(a)) /\ k + Len(a) - Len(a) = k
      BY <1>5, <3>1
    <3>. QED
      BY SMTT(20), <1>5, <3>1, <3>2
  <2>. QED
    BY <1>1, <2>1, <2>2
<1>7. ASSUME NEW i \in DOMAIN source
      PROVE  \E j, k \in DOMAIN ir' : /\ ir'[j].id = source[i].id /\ ir'[k].id = Holder(ir', j)
                                      /\ ir'[k].ref = None /\ ir'[k].text = FinalAs(p, source[i].text)
  <2>1. PICK j, k \in DOMAIN ir : /\ ir[j].id = source[i].id /\ ir[k].id = Holder(ir, j)
                                  /\ ir[k].ref = None /\ ir[k].text = FinalAs(p, source[i].text)
    BY DEF Reaches
  <2>2. PICK j2 \in DOMAIN ir' : ir'[j2] = ir[j]
    BY <1>6
  <2>3. PICK k2 \in DOMAIN ir' : ir'[k2] = ir[k]
    BY <1>6
  <2>. QED
    BY <2>1, <2>2, <2>3 DEF Holder
<1>. QED
  BY <1>5, <1>7 DEF Reaches

(* A prompt that lint lets pass has as many ids as sections.                 *)
LEMMA LintedIds ==
  ASSUME ir \in Seq(Compiled), Lint, pc' # "failed"
  PROVE  UniqueIds(ir)
<1>1. Len(ir) \in Nat /\ DOMAIN ir = 1..Len(ir)
  BY SectionsOf
<1>2. ~(Cardinality(Ids(ir)) < Len(ir))
  BY DEF Lint, Pass
<1>. DEFINE f == [i \in DOMAIN ir |-> ir[i].id]
<1>3. f \in Surjection(1..Len(ir), Ids(ir))
  BY <1>1 DEF Surjection, Ids
<1>4. IsFiniteSet(1..Len(ir)) /\ Cardinality(1..Len(ir)) = Len(ir)
  BY <1>1, FS_Interval
<1>5. /\ IsFiniteSet(Ids(ir)) /\ Cardinality(Ids(ir)) <= Len(ir)
      /\ Cardinality(Ids(ir)) = Len(ir) => f \in Injection(1..Len(ir), Ids(ir))
  <2>. HIDE DEF f
  <2>. QED
    BY <1>3, <1>4, FS_Surjection
<1>6. Cardinality(Ids(ir)) \in Nat
  BY <1>5, FS_CardinalityType
<1>7. f \in Injection(1..Len(ir), Ids(ir))
  BY <1>1, <1>2, <1>5, <1>6
<1>. QED
  BY <1>1, <1>7 DEF UniqueIds, Injection, IsInjective

(* The ids of the sections at given places, if no two sections share one.     *)
IdsAt(S) == LET sections == Picked(S) IN [k \in DOMAIN sections |-> sections[k].id]
LEMMA PickedIds ==
  ASSUME ir \in Seq(Compiled), UniqueIds(ir), NEW S \in SUBSET DOMAIN ir
  PROVE  /\ IdsAt(S) \in Seq(Id)
         /\ \A i \in S : \E k \in 1..Len(IdsAt(S)) :
              /\ IdsAt(S)[k] = ir[i].id
              /\ \A l \in 1..Len(IdsAt(S)) : IdsAt(S)[l] = ir[i].id => l = k
         /\ \A i \in DOMAIN ir \ S : \A k \in 1..Len(IdsAt(S)) : IdsAt(S)[k] # ir[i].id
<1>. DEFINE q == IdsAt(S)
<1>1. \A i \in DOMAIN ir : ir[i].id \in Id
  <2>1. \A i \in DOMAIN ir : ir[i] \in Compiled
    BY SectionsOf
  <2>. QED
    BY <2>1 DEF Compiled
<1>2. PICK at, n :
           /\ n \in Nat /\ at \in [1..n -> S] /\ Picked(S) = [k \in 1..n |-> ir[at[k]]]
           /\ \A i \in S : \E k \in 1..n : at[k] = i
           /\ \A k, l \in 1..n : at[k] = at[l] => k = l
  BY PickedList
<1>3. q = [k \in 1..n |-> ir[at[k]].id]
  BY <1>2 DEF IdsAt
<1>. HIDE DEF q
<1>4. q \in [1..n -> Id]
  BY <1>1, <1>2, <1>3
<1>5. q \in Seq(Id) /\ Len(q) = n
  BY <1>2, <1>4, ListOf
<1>6. \A k \in 1..n : \A i \in DOMAIN ir : q[k] = ir[i].id => at[k] = i
  BY <1>2, <1>3 DEF UniqueIds
<1>7. ASSUME NEW i \in S
      PROVE  \E k \in 1..Len(q) : q[k] = ir[i].id /\ \A l \in 1..Len(q) : q[l] = ir[i].id => l = k
  <2>1. PICK k \in 1..n : at[k] = i
    BY <1>2
  <2>. QED
    BY <1>2, <1>3, <1>5, <1>6, <2>1
<1>8. ASSUME NEW i \in DOMAIN ir \ S, NEW k \in 1..Len(q), q[k] = ir[i].id PROVE FALSE
  BY <1>2, <1>5, <1>6, <1>8
<1>. QED
  BY <1>5, <1>7, <1>8 DEF q

LEMMA RenderConveys ==
  ASSUME source \in Seq(Section), ir \in Seq(Compiled), UniqueIds(ir), NEW p, Reaches(source, ir, p), Render
  PROVE  Conveys(source, ir, p, system' \o user')
<1>. DEFINE own == {i \in DOMAIN ir : ir[i].ref = None}
            head == {i \in own : i = 1 \/ ir[i].id \in {"role", "system"}}
            rest == own \ head
<1>1. system' = IdsAt(head) /\ user' = IdsAt(rest)
  BY DEF Render, IdsAt
<1>2. head \subseteq own /\ rest = own \ head /\ own \subseteq DOMAIN ir
  OBVIOUS
<1>. HIDE DEF own, head, rest
<1>3. /\ system' \in Seq(Id) /\ user' \in Seq(Id)
      /\ \A i \in head : \E k \in 1..Len(system') :
           system'[k] = ir[i].id /\ \A l \in 1..Len(system') : system'[l] = ir[i].id => l = k
      /\ \A i \in DOMAIN ir \ head : \A k \in 1..Len(system') : system'[k] # ir[i].id
      /\ \A i \in rest : \E k \in 1..Len(user') :
           user'[k] = ir[i].id /\ \A l \in 1..Len(user') : user'[l] = ir[i].id => l = k
      /\ \A i \in DOMAIN ir \ rest : \A k \in 1..Len(user') : user'[k] # ir[i].id
  <2>1. head \in SUBSET DOMAIN ir /\ rest \in SUBSET DOMAIN ir
    BY <1>2
  <2>2. /\ IdsAt(head) \in Seq(Id)
        /\ \A i \in head : \E k \in 1..Len(IdsAt(head)) :
             /\ IdsAt(head)[k] = ir[i].id
             /\ \A l \in 1..Len(IdsAt(head)) : IdsAt(head)[l] = ir[i].id => l = k
        /\ \A i \in DOMAIN ir \ head : \A k \in 1..Len(IdsAt(head)) : IdsAt(head)[k] # ir[i].id
    BY <2>1, PickedIds
  <2>3. /\ IdsAt(rest) \in Seq(Id)
        /\ \A i \in rest : \E k \in 1..Len(IdsAt(rest)) :
             /\ IdsAt(rest)[k] = ir[i].id
             /\ \A l \in 1..Len(IdsAt(rest)) : IdsAt(rest)[l] = ir[i].id => l = k
        /\ \A i \in DOMAIN ir \ rest : \A k \in 1..Len(IdsAt(rest)) : IdsAt(rest)[k] # ir[i].id
    BY <2>1, PickedIds
  <2>. QED
    BY <1>1, <2>2, <2>3
<1>. DEFINE a == system'
            b == user'
            m == a \o b
<1>4. /\ Len(a) \in Nat /\ Len(b) \in Nat /\ DOMAIN m = 1..Len(a) + Len(b)
      /\ \A i \in 1..Len(a) + Len(b) : m[i] = IF i <= Len(a) THEN a[i] ELSE b[i - Len(a)]
  BY <1>3, ConcatProperties, LenProperties
<1>5. ASSUME NEW i \in own
      PROVE  \E n \in DOMAIN m : m[n] = ir[i].id /\ \A l \in DOMAIN m : m[l] = ir[i].id => l = n
  <2>1. CASE i \in head
    <3>1. PICK k \in 1..Len(a) : a[k] = ir[i].id /\ \A l \in 1..Len(a) : a[l] = ir[i].id => l = k
      BY <1>3, <2>1
    <3>2. \A l \in 1..Len(b) : b[l] # ir[i].id
      BY <1>2, <1>3, <2>1
    <3>3. \A l \in DOMAIN m : (l \in 1..Len(a) /\ m[l] = a[l])
                              \/ (~(l <= Len(a)) /\ l - Len(a) \in 1..Len(b) /\ m[l] = b[l - Len(a)])
      BY <1>4
    <3>4. k \in DOMAIN m /\ m[k] = a[k]
      BY <1>4
    <3>. HIDE DEF m, a, b
    <3>. QED
      BY <3>1, <3>2, <3>3, <3>4
  <2>2. CASE i \notin head
    <3>1. PICK k \in 1..Len(b) : b[k] = ir[i].id /\ \A l \in 1..Len(b) : b[l] = ir[i].id => l = k
      BY <1>2, <1>3, <2>2
    <3>2. \A l \in 1..Len(a) : a[l] # ir[i].id
      BY <1>2, <1>3, <2>2
    <3>3. \A l \in DOMAIN m : l \in Int
                              /\ ((l \in 1..Len(a) /\ m[l] = a[l])
                                  \/ (~(l <= Len(a)) /\ l - Len(a) \in 1..Len(b) /\ m[l] = b[l - Len(a)]))
      BY <1>4
    <3>4. k + Len(a) \in DOMAIN m /\ k + Len(a) - Len(a) = k /\ ~(k + Len(a) <= Len(a))
      BY <1>4
    <3>5. m[k + Len(a)] = b[k] /\ Len(a) \in Int
      BY <1>4, <3>4
    <3>. HIDE DEF m, a, b
    <3>6. ASSUME NEW l \in DOMAIN m, m[l] = ir[i].id PROVE l = k + Len(a)
      <4>1. ~(l \in 1..Len(a))
        BY <3>2, <3>3, <3>6
      <4>2. l - Len(a) = k /\ l \in Int
        BY <3>1, <3>3, <3>6, <4>1
      <4>. QED
        BY <3>5, <4>2
    <3>. QED
      BY <3>1, <3>4, <3>5, <3>6
  <2>. QED
    BY <2>1, <2>2
<1>6. ASSUME NEW i \in own PROVE Cardinality({n \in DOMAIN m : m[n] = ir[i].id}) = 1
  <2>. HIDE DEF m
  <2>1. PICK n \in DOMAIN m : m[n] = ir[i].id /\ \A l \in DOMAIN m : m[l] = ir[i].id => l = n
    BY <1>5
  <2>2. {l \in DOMAIN m : m[l] = ir[i].id} = {n}
    BY <2>1
  <2>. QED
    BY <2>2, FS_Singleton
<1>7. ASSUME NEW i \in DOMAIN source
      PROVE  \E j, k \in DOMAIN ir : /\ ir[j].id = source[i].id /\ ir[k].id = Holder(ir, j)
                                     /\ ir[k].text = FinalAs(p, source[i].text) /\ k \in own
  BY DEF Reaches, own
<1>. HIDE DEF m
<1>8. Conveys(source, ir, p, m)
  <2>1. ASSUME NEW i \in DOMAIN source
        PROVE  \E j, k \in DOMAIN ir :
                 /\ ir[j].id = source[i].id /\ ir[k].id = Holder(ir, j)
                 /\ ir[k].text = FinalAs(p, source[i].text)
                 /\ Cardinality({n \in DOMAIN m : m[n] = ir[k].id}) = 1
    <3>1. PICK j, k \in DOMAIN ir : /\ ir[j].id = source[i].id /\ ir[k].id = Holder(ir, j)
                                    /\ ir[k].text = FinalAs(p, source[i].text) /\ k \in own
      BY <1>7
    <3>2. Cardinality({n \in DOMAIN m : m[n] = ir[k].id}) = 1
      BY <1>6, <3>1
    <3>. QED
      BY <3>1, <3>2
  <2>. QED
    BY <2>1 DEF Conveys
<1>. QED
  BY <1>8 DEF m

(* A plan names every section, the least important first.                   *)
Planned(s, order) ==
  /\ order \in Seq(Ids(s))
  /\ \A x \in Ids(s) : \E k \in DOMAIN order : order[k] = x
  /\ \A k, l \in DOMAIN order : k < l =>
       \E i, j \in DOMAIN s : order[k] = s[i].id /\ order[l] = s[j].id /\ s[i].priority <= s[j].priority
PlansFit(s, made) ==
  /\ 1 \in DOMAIN made /\ DOMAIN made \subseteq Nat
  /\ \A k \in DOMAIN made : made[k].available \in Nat /\ Planned(s, made[k].order)

LEMMA MaxOfTwo ==
  ASSUME NEW a \in Int, NEW b \in Int
  PROVE  Max({a, b}) = IF a >= b THEN a ELSE b
<1>1. \E x \in {a, b} : \A y \in {a, b} : x >= y
  OBVIOUS
<1>2. Max({a, b}) \in {a, b} /\ \A y \in {a, b} : Max({a, b}) >= y
  BY <1>1 DEF Max
<1>. QED
  BY <1>2

LEMMA EvictionOrderPlanned == ir \in Seq(Compiled) => Planned(ir, EvictionOrder)
<1>. SUFFICES ASSUME ir \in Seq(Compiled) PROVE Planned(ir, EvictionOrder)
  OBVIOUS
<1>. DEFINE R == {p \in (DOMAIN ir) \X (DOMAIN ir) :
                    \/ ir[p[1]].priority < ir[p[2]].priority
                    \/ ir[p[1]].priority = ir[p[2]].priority /\ p[1] < p[2]}
            q == Ranked(DOMAIN ir, R)
            n == Cardinality(DOMAIN ir)
<1>1. Len(ir) \in Nat /\ DOMAIN ir = 1..Len(ir) /\ \A i \in DOMAIN ir : ir[i].id \in Id /\ ir[i].priority \in Int
  <2>1. Len(ir) \in Nat /\ DOMAIN ir = 1..Len(ir) /\ \A i \in DOMAIN ir : ir[i] \in Compiled
    BY SectionsOf
  <2>. QED
    BY <2>1, SectionAssumption DEF Compiled
<1>2. IsFiniteSet(DOMAIN ir)
  BY <1>1, FS_Interval
<1>3. \A i, j : <<i, j>> \in R <=>
        /\ i \in DOMAIN ir /\ j \in DOMAIN ir
        /\ ir[i].priority < ir[j].priority \/ (ir[i].priority = ir[j].priority /\ i < j)
  OBVIOUS
<1>4. EvictionOrder = [k \in DOMAIN q |-> ir[q[k]].id]
  BY DEF EvictionOrder
<1>. HIDE DEF R
<1>5. /\ \A i \in DOMAIN ir : <<i, i>> \notin R
      /\ \A i, j, k \in DOMAIN ir : <<i, j>> \in R /\ <<j, k>> \in R => <<i, k>> \in R
      /\ \A i, j \in DOMAIN ir : i # j => <<i, j>> \in R \/ <<j, i>> \in R
  BY SMTT(20), <1>1, <1>3
<1>6. /\ n \in Nat /\ q \in [1..n -> DOMAIN ir]
      /\ \A i \in DOMAIN ir : \E k \in 1..n : q[k] = i
      /\ \A k, l \in 1..n : k < l => <<q[k], q[l]>> \in R
  <2>. DEFINE D == DOMAIN ir
  <2>1. /\ IsFiniteSet(D) /\ \A i \in D : <<i, i>> \notin R
        /\ \A i, j, k \in D : <<i, j>> \in R /\ <<j, k>> \in R => <<i, k>> \in R
        /\ \A i, j \in D : i # j => <<i, j>> \in R \/ <<j, i>> \in R
    BY <1>2, <1>5
  <2>. HIDE DEF D
  <2>2. /\ Cardinality(D) \in Nat /\ Ranked(D, R) \in [1..Cardinality(D) -> D]
        /\ \A i \in D : \E k \in 1..Cardinality(D) : Ranked(D, R)[k] = i
        /\ \A k, l \in 1..Cardinality(D) : k < l => <<Ranked(D, R)[k], Ranked(D, R)[l]>> \in R
    BY <2>1, RankedList
  <2>. QED
    BY <2>2 DEF D
<1>. HIDE DEF q, n
<1>7. EvictionOrder = [k \in 1..n |-> ir[q[k]].id]
  BY <1>4, <1>6
<1>8. EvictionOrder \in Seq(Ids(ir)) /\ DOMAIN EvictionOrder = 1..n
  <2>1. EvictionOrder \in [1..n -> Ids(ir)]
    BY <1>6, <1>7 DEF Ids
  <2>. QED
    BY <1>6, <2>1, ListOf
<1>9. \A x \in Ids(ir) : \E k \in 1..n : EvictionOrder[k] = x
  BY <1>6, <1>7 DEF Ids
<1>10. ASSUME NEW k \in 1..n, NEW l \in 1..n, k < l
       PROVE  \E i, j \in DOMAIN ir : EvictionOrder[k] = ir[i].id /\ EvictionOrder[l] = ir[j].id
                                      /\ ir[i].priority <= ir[j].priority
  <2>1. q[k] \in DOMAIN ir /\ q[l] \in DOMAIN ir /\ <<q[k], q[l]>> \in R
    BY <1>6, <1>10
  <2>2. ir[q[k]].priority <= ir[q[l]].priority
    BY <1>1, <1>3, <2>1
  <2>. QED
    BY <1>7, <2>1, <2>2
<1>. HIDE DEF R
<1>11. /\ EvictionOrder \in Seq(Ids(ir))
       /\ \A x \in Ids(ir) : \E k \in DOMAIN EvictionOrder : EvictionOrder[k] = x
       /\ \A k, l \in DOMAIN EvictionOrder : k < l =>
            \E i, j \in DOMAIN ir : EvictionOrder[k] = ir[i].id /\ EvictionOrder[l] = ir[j].id
                                    /\ ir[i].priority <= ir[j].priority
  <2>1. \A x \in Ids(ir) : \E k \in DOMAIN EvictionOrder : EvictionOrder[k] = x
    BY <1>8, <1>9
  <2>2. \A k, l \in DOMAIN EvictionOrder : k < l =>
          \E i, j \in DOMAIN ir : EvictionOrder[k] = ir[i].id /\ EvictionOrder[l] = ir[j].id
                                  /\ ir[i].priority <= ir[j].priority
    <3>. TAKE k, l \in DOMAIN EvictionOrder
    <3>1. k \in 1..n /\ l \in 1..n
      BY <1>8
    <3>. HAVE k < l
    <3>. QED
      BY <1>10, <3>1
  <2>. QED
    BY <1>8, <2>1, <2>2
<1>. QED
  BY <1>11 DEF Planned

LEMMA BudgetPlans ==
  ASSUME ir \in Seq(Compiled), Budget
  PROVE  PlansFit(ir, plans')
<1>1. DOMAIN Targets \subseteq Nat /\ 1 \in DOMAIN Targets
  <2>1. Len(Targets) \in Nat \ {0} /\ DOMAIN Targets = 1..Len(Targets)
    BY TargetAssumption, EmptySeq, LenProperties
  <2>. QED
    BY <2>1
<1>2. \A i \in DOMAIN Targets : Available(Targets[i]) \in Nat
  <2>. TAKE i \in DOMAIN Targets
  <2>1. Targets[i].window - Targets[i].reserved \in Int
    BY TargetAssumption
  <2>. QED
    BY <2>1, MaxOfTwo DEF Available
<1>3. Planned(ir, EvictionOrder)
  BY EvictionOrderPlanned
<1>4. plans' = [i \in DOMAIN Targets |->
       [target |-> Targets[i].target, available |-> Available(Targets[i]), order |-> EvictionOrder]]
  BY DEF Budget
<1>. QED
  BY <1>1, <1>2, <1>3, <1>4 DEF PlansFit

-----------------------------------------------------------------------------
(* What a prompt is when its messages are rendered, and on the way there.    *)
Finished(src, s, p, made, first, others) ==
  /\ src \in Seq(Section) /\ s \in Seq(Compiled) /\ UniqueIds(s)
  /\ PlansFit(s, made) /\ Conveys(src, s, p, first \o others)
InPass ==
  /\ source \in Seq(Section) /\ ir \in Seq(Compiled) /\ profile \in {"dev", "release"}
  /\ pc \in {"lint-fast", "dedupe"} => FromSource(source, ir)
  /\ pc = "compress" => Reaches(source, ir, "dev")
  /\ pc \in {"reorder", "budget", "lint", "render"} => Reaches(source, ir, profile)
  /\ pc \in {"lint", "render"} => PlansFit(ir, plans)
  /\ pc = "render" => UniqueIds(ir)
  /\ pc = "assemble" => Finished(source, ir, profile, plans, system, user)
ArtifactsFinished ==
  \A n \in DOMAIN dist.prompts : LET made == dist.prompts[n] IN
    /\ made.profile \in {"dev", "release"}
    /\ Finished(made.source, made.ir, made.profile, made.plans, made.system, made.user)
QueueCompiles == \A m \in DOMAIN queue : queue[m] \in DOMAIN prompts /\ Compiles(prompts[queue[m]])
BuiltInv == InPass /\ ArtifactsFinished /\ QueueCompiles

LEMMA LoadFits ==
  ASSUME NEW file, IsFile(file), Compiles(file), Load(file)
  PROVE  /\ source' \in Seq(Section) /\ FromSource(source', ir') /\ ir' \in Seq(Compiled)
         /\ profile' = "dev" /\ pc' = "lint-fast"
<1>. DEFINE Pieces == [id : Id, priority : Priority, body : Body]
            n == Len(file.sections)
<1>1. /\ n \in Nat /\ DOMAIN file.sections = 1..n
      /\ \A i \in 1..n : file.sections[i] \in Pieces
  <2>1. file.sections \in Seq(Pieces)
    BY DEF IsFile
  <2>. HIDE DEF Pieces
  <2>. QED
    BY <2>1, SectionsOf
<1>2. Resolves(file)
  BY DEF Compiles, CompileErrors
<1>3. ASSUME NEW i \in 1..n PROVE Joined(Resolve(file.sections[i].body)) \in Text
  <2>1. file.sections[i].body \in Body /\ Resolve(file.sections[i].body) # Broken
    BY <1>1, <1>2 DEF Resolves
  <2>2. CASE file.sections[i].body \in Fragment
    BY <2>1, <2>2, JoinedAssumption
  <2>3. CASE file.sections[i].body \notin Fragment
    BY <2>1, <2>3, JoinedAssumption DEF Body, Resolve
  <2>. QED
    BY <2>2, <2>3
<1>4. source' = [i \in 1..n |->
     [id |-> file.sections[i].id, priority |-> file.sections[i].priority,
      text |-> Joined(Resolve(file.sections[i].body))]]
  BY <1>1 DEF Load, Resolved
<1>. HIDE DEF n
<1>5. source' \in [1..n -> Section]
  BY <1>1, <1>3, <1>4 DEF Section
<1>6. source' \in Seq(Section)
  <2>. HIDE DEF Section
  <2>. QED
    BY <1>1, <1>5, ListOf
<1>7. FromSource(source', ir') /\ profile' = "dev" /\ pc' = "lint-fast"
  <2>1. DOMAIN source' = DOMAIN file.sections
    BY <1>1, <1>4
  <2>. QED
    BY <2>1 DEF Load, FromSource
<1>. QED
  BY <1>6, <1>7, SourceReaches

LEMMA InOrderMembers ==
  ASSUME NEW S \in SUBSET {"draft", "starter"}
  PROVE  /\ \A m \in DOMAIN InOrder(S) : InOrder(S)[m] \in S
         /\ S # {} => InOrder(S)[1] \in S
<1>1. CASE "draft" \in S /\ "starter" \in S
  <2>1. InOrder(S) = <<"draft">> \o <<"starter">>
    BY <1>1 DEF InOrder
  <2>. DEFINE a == <<"draft">>
              b == <<"starter">>
              q == a \o b
  <2>2. /\ a \in Seq({"draft", "starter"}) /\ Len(a) = 1 /\ a[1] = "draft"
        /\ b \in Seq({"draft", "starter"}) /\ Len(b) = 1 /\ b[1] = "starter"
    OBVIOUS
  <2>. HIDE DEF a, b
  <2>3. /\ q \in Seq({"draft", "starter"}) /\ Len(q) = 2
        /\ \A i \in 1..2 : q[i] = IF i <= 1 THEN a[i] ELSE b[i - 1]
    <3>1. q \in Seq({"draft", "starter"}) /\ Len(q) = Len(a) + Len(b)
      BY <2>2, ConcatProperties
    <3>2. \A i \in 1..Len(a) + Len(b) : q[i] = IF i <= Len(a) THEN a[i] ELSE b[i - Len(a)]
      BY <2>2, ConcatProperties
    <3>. HIDE DEF q
    <3>. QED
      BY <2>2, <3>1, <3>2
  <2>4. DOMAIN q = 1..2 /\ q[1] = "draft" /\ q[2] = "starter"
    BY <2>2, <2>3, LenProperties
  <2>. QED
    BY <1>1, <2>1, <2>4 DEF a, b
<1>2. CASE "draft" \in S /\ "starter" \notin S
  <2>1. InOrder(S) = <<"draft">> \o <<>>
    BY <1>2 DEF InOrder
  <2>2. <<"draft">> \o <<>> = <<"draft">>
    OBVIOUS
  <2>. QED
    BY <1>2, <2>1, <2>2
<1>3. CASE "draft" \notin S /\ "starter" \in S
  <2>1. InOrder(S) = <<>> \o <<"starter">>
    BY <1>3 DEF InOrder
  <2>2. <<>> \o <<"starter">> = <<"starter">>
    OBVIOUS
  <2>. QED
    BY <1>3, <2>1, <2>2
<1>4. CASE "draft" \notin S /\ "starter" \notin S
  <2>1. InOrder(S) = <<>> \o <<>> /\ S = {}
    BY <1>4 DEF InOrder
  <2>2. <<>> \o <<>> = <<>>
    OBVIOUS
  <2>. QED
    BY <2>1, <2>2
<1>. QED
  BY <1>1, <1>2, <1>3, <1>4

LEMMA BuiltPasses ==
  ASSUME QueueInv, InPass, Passing
  PROVE  InPass'
<1>0. source' = source /\ profile' = profile
  BY DEF Passing, LintFast, Dedupe, Compress, Reorder, Budget, Lint, Render
<1>1. CASE LintFast
  <2>1. pc' \in {"failed", "dedupe"} /\ ir' = ir
    BY <1>1, FollowingPasses DEF LintFast, Pass
  <2>. QED
    BY <1>0, <1>1, <2>1 DEF LintFast, InPass
<1>2. CASE Dedupe
  <2>1. ir' \in Seq(Compiled) /\ Reaches(source, ir', "dev")
    BY <1>2, DedupeKeeps DEF InPass, Dedupe
  <2>2. pc' = IF profile = "dev" THEN "reorder" ELSE "compress"
    BY <1>2, FollowingPasses DEF Dedupe, Pass
  <2>. QED
    BY <1>0, <2>1, <2>2 DEF InPass
<1>3. CASE Compress
  <2>1. pc = "compress" /\ profile = "release"
    BY <1>3 DEF Compress, QueueInv, InPass
  <2>2. CASE pc' = "failed"
    <3>1. ir' = ir
      BY <1>3, <2>2, FollowingPasses, <2>1 DEF Compress, Pass
    <3>. QED
      BY <1>0, <2>2, <3>1 DEF InPass
  <2>3. CASE pc' # "failed"
    <3>1. ir' \in Seq(Compiled) /\ Reaches(source, ir', "release")
      BY <1>3, <2>1, <2>3, CompressKeeps DEF InPass
    <3>2. pc' = "reorder"
      BY <1>3, <2>1, <2>3, FollowingPasses DEF Compress, Pass
    <3>. QED
      BY <1>0, <2>1, <3>1, <3>2 DEF InPass
  <2>. QED
    BY <2>2, <2>3
<1>4. CASE Reorder
  <2>1. ir' \in Seq(Compiled) /\ Reaches(source, ir', profile)
    BY <1>4, ReorderKeeps DEF InPass, Reorder
  <2>2. pc' = "budget"
    BY <1>4, FollowingPasses DEF Reorder, Pass
  <2>. QED
    BY <1>0, <2>1, <2>2 DEF InPass
<1>5. CASE Budget
  <2>1. pc = "budget" /\ ir' = ir /\ pc' = "lint"
    BY <1>5, FollowingPasses DEF Budget, Pass
  <2>2. PlansFit(ir, plans')
    BY <1>5, BudgetPlans DEF InPass
  <2>. QED
    BY <1>0, <2>1, <2>2 DEF InPass
<1>6. CASE Lint
  <2>1. pc = "lint" /\ ir' = ir /\ plans' = plans /\ pc' \in {"failed", "render"}
    BY <1>6, FollowingPasses DEF Lint, Pass
  <2>2. pc' # "failed" => UniqueIds(ir)
    BY <1>6, LintedIds DEF InPass
  <2>. QED
    BY <1>0, <2>1, <2>2 DEF InPass
<1>7. CASE Render
  <2>1. pc = "render" /\ ir' = ir /\ plans' = plans /\ pc' = "assemble"
    BY <1>7 DEF Render
  <2>2. Conveys(source, ir, profile, system' \o user')
    BY <1>7, <2>1, RenderConveys DEF InPass
  <2>. QED
    BY <1>0, <2>1, <2>2 DEF InPass, Finished
<1>. QED
  BY <1>1, <1>2, <1>3, <1>4, <1>5, <1>6, <1>7 DEF Passing

LEMMA BuiltCommands == QueueInv /\ ArePrompts(prompts) /\ BuiltInv /\ Command => BuiltInv'
<1>. SUFFICES ASSUME QueueInv, ArePrompts(prompts), BuiltInv, Command PROVE BuiltInv'
  OBVIOUS
<1>0. pc = "idle" /\ queue = <<>>
  BY DEF QueueInv, Command, ScaffoldProject, Setup, SetVariables, EditConfig, Convert, WriteSource, Run, Diagnose,
         Inspecting, Inspect, Sampling, Control, End, Compiling, Build
<1>1. CASE ~Compiling /\ ~Run
  <2>1. UNCHANGED <<pc, profile, source, ir, plans, system, user, queue, dist>>
    BY <1>1 DEF Command, ScaffoldProject, Setup, SetVariables, EditConfig, Convert, WriteSource, Diagnose,
                Inspecting, Inspect, Sampling, Control, End, compiler, vars, Untouched
  <2>. QED
    BY <1>0, <2>1 DEF BuiltInv, InPass, ArtifactsFinished, QueueCompiles
<1>2. CASE Run
  <2>1. UNCHANGED <<queue, dist, prompts>>
    BY <1>2 DEF Run, files
  <2>2. CASE outcome' = None
    <3>1. PICK n \in DOMAIN dist.prompts : LET made == dist.prompts[n] IN
            /\ pc' = "assemble" /\ source' = made.source /\ profile' = made.profile
            /\ ir' = made.ir /\ plans' = made.plans /\ system' = made.system /\ user' = made.user
      BY <1>2, <2>2 DEF Run
    <3>2. InPass'
      BY <3>1 DEF BuiltInv, ArtifactsFinished, Finished, InPass
    <3>. QED
      BY <1>0, <2>1, <3>2 DEF BuiltInv, ArtifactsFinished, QueueCompiles
  <2>3. CASE outcome' # None
    <3>1. UNCHANGED <<pc, profile, source, ir, plans, system, user>>
      BY <1>2, <2>3 DEF Run, compiler, vars
    <3>. QED
      BY <1>0, <2>1, <3>1 DEF BuiltInv, InPass, ArtifactsFinished, QueueCompiles
  <2>. QED
    BY <2>2, <2>3
<1>3. CASE Compiling
  <2>0. PICK tree1 : \E id \in Builds, chosen \in SUBSET DOMAIN prompts : Build(id, chosen, tree1)
    BY <1>3 DEF Compiling, Builds
  <2>1. PICK id \in Builds, chosen \in SUBSET DOMAIN prompts : Build(id, chosen, tree1)
    BY <2>0
  <2>2. CASE outcome' # None
    <3>1. UNCHANGED <<pc, profile, source, ir, plans, system, user, queue, dist>>
      BY <2>1, <2>2 DEF Build, compiler, vars
    <3>. QED
      BY <1>0, <3>1 DEF BuiltInv, InPass, ArtifactsFinished, QueueCompiles
  <2>3. CASE outcome' = None
    <3>1. /\ dist'.prompts = <<>> /\ queue' = InOrder(chosen) /\ prompts' = prompts
          /\ Load(prompts[InOrder(chosen)[1]])
      BY <2>1, <2>3 DEF Build, NoDist
    <3>2. chosen # {} /\ \A n \in chosen : Compiles(prompts[n])
      BY <2>1, <2>3 DEF Build, BuildRefused, None
    <3>3. chosen \in SUBSET {"draft", "starter"} /\ \A n \in chosen : IsFile(prompts[n])
      BY DEF ArePrompts
    <3>4. InOrder(chosen)[1] \in chosen /\ \A m \in DOMAIN InOrder(chosen) : InOrder(chosen)[m] \in chosen
      BY <3>2, <3>3, InOrderMembers
    <3>5. InPass'
      <4>1. /\ source' \in Seq(Section) /\ FromSource(source', ir') /\ ir' \in Seq(Compiled)
            /\ profile' = "dev" /\ pc' = "lint-fast"
        BY <3>1, <3>2, <3>3, <3>4, LoadFits
      <4>. QED
        BY <4>1 DEF InPass
    <3>6. QueueCompiles'
      <4>1. \A m \in DOMAIN queue' : queue'[m] \in DOMAIN prompts /\ Compiles(prompts[queue'[m]])
        BY <3>1, <3>2, <3>4
      <4>2. QueueCompiles' <=> \A m \in DOMAIN queue' : queue'[m] \in DOMAIN prompts' /\ Compiles(prompts'[queue'[m]])
        BY DEF QueueCompiles, Compiles, CompileErrors, Resolves, Resolved, Issues, Typed
      <4>. QED
        BY <3>1, <4>1, <4>2
    <3>7. ArtifactsFinished'
      BY <3>1 DEF ArtifactsFinished
    <3>. QED
      BY <3>5, <3>6, <3>7 DEF BuiltInv
  <2>. QED
    BY <2>2, <2>3
<1>. QED
  BY <1>1, <1>2, <1>3

LEMMA BuiltOthers == ProjectInv /\ BuiltInv /\ (Other \/ UNCHANGED project) => BuiltInv'
<1>. SUFFICES ASSUME ProjectInv, BuiltInv, Other \/ UNCHANGED project PROVE BuiltInv'
  OBVIOUS
<1>1. CASE Building
  <2>1. UNCHANGED <<dist, queue, prompts>>
    BY <1>1 DEF Building, files
  <2>2. InPass'
    BY <1>1, BuiltPasses DEF Building, ProjectInv, BuiltInv
  <2>. QED
    BY <2>1, <2>2 DEF BuiltInv, ArtifactsFinished, QueueCompiles
<1>2. CASE PromptWritten \/ PromptRejected
  <2>0. /\ pc = "assemble" /\ queue # <<>> /\ prompts' = prompts
        /\ dist'.prompts = With(dist.prompts, Head(queue), Artifact)
        /\ \/ Len(queue) > 1 /\ queue' = Tail(queue) /\ Load(prompts[queue[2]])
           \/ queue' = <<>> /\ pc' = "idle" /\ UNCHANGED <<source, ir, profile>>
    BY <1>2, WrittenStep DEF ProjectInv, GreenInv
  <2>1. ArtifactsFinished'
    <3>1. /\ Artifact.profile \in {"dev", "release"}
          /\ Finished(Artifact.source, Artifact.ir, Artifact.profile, Artifact.plans, Artifact.system, Artifact.user)
      BY <2>0 DEF BuiltInv, InPass, Artifact
    <3>. QED
      BY <2>0, <3>1 DEF BuiltInv, ArtifactsFinished, With
  <2>2. CASE queue' = <<>> /\ pc' = "idle" /\ UNCHANGED <<source, ir, profile>>
    BY <2>0, <2>1, <2>2 DEF BuiltInv, InPass, QueueCompiles
  <2>3. CASE Len(queue) > 1 /\ queue' = Tail(queue) /\ Load(prompts[queue[2]])
    <3>1. /\ Len(queue) \in Nat /\ DOMAIN queue = 1..Len(queue)
          /\ DOMAIN queue' = 1..Len(queue) - 1 /\ \A m \in DOMAIN queue' : queue'[m] = queue[m + 1]
      <4>1. queue \in Seq({"draft", "starter"})
        BY DEF ProjectInv, QueueInv
      <4>2. queue' \in Seq({"draft", "starter"}) /\ Len(queue') = Len(queue) - 1
            /\ \A m \in 1..Len(queue') : queue'[m] = queue[m + 1]
        BY <2>0, <2>3, <4>1, HeadTailProperties
      <4>. QED
        BY <4>1, <4>2, LenProperties
    <3>2. QueueCompiles'
      <4>1. \A m \in DOMAIN queue' : queue'[m] \in DOMAIN prompts /\ Compiles(prompts[queue'[m]])
        BY <3>1 DEF BuiltInv, QueueCompiles
      <4>. QED
        BY <2>0, <4>1 DEF QueueCompiles
    <3>3. InPass'
      <4>1. 2 \in DOMAIN queue
        BY <2>3, <3>1
      <4>2. Compiles(prompts[queue[2]]) /\ IsFile(prompts[queue[2]])
        BY <4>1 DEF BuiltInv, QueueCompiles, ProjectInv, ArePrompts
      <4>3. /\ source' \in Seq(Section) /\ FromSource(source', ir') /\ ir' \in Seq(Compiled)
            /\ profile' = "dev" /\ pc' = "lint-fast"
        BY <2>3, <4>2, LoadFits
      <4>. QED
        BY <4>3 DEF InPass
    <3>. QED
      BY <2>1, <3>2, <3>3 DEF BuiltInv
  <2>. QED
    BY <2>0, <2>2, <2>3
<1>3. CASE BuildFails
  <2>1. pc' = "idle" /\ queue' = <<>> /\ UNCHANGED <<source, ir, profile, dist>>
    BY <1>3 DEF BuildFails, BuildStops
  <2>. QED
    BY <2>1 DEF BuiltInv, InPass, ArtifactsFinished, QueueCompiles
<1>4. CASE Answered \/ \E live \in LiveContext \cup {<<>>}, target \in Requested : Ask(live, target)
  <2>1. pc' \in {"idle", "done"} /\ UNCHANGED <<source, ir, profile, dist, queue, prompts>>
    BY <1>4 DEF Answered, Ask, Assemble, files
  <2>. QED
    BY <2>1 DEF BuiltInv, InPass, ArtifactsFinished, QueueCompiles
<1>5. CASE React \/ UNCHANGED project
  <2>1. UNCHANGED <<pc, profile, source, ir, plans, system, user, queue, dist, prompts>>
    BY <1>5 DEF React, project, compiler, vars, files
  <2>. QED
    BY <2>1 DEF BuiltInv, InPass, ArtifactsFinished, QueueCompiles
<1>. QED
  BY <1>1, <1>2, <1>3, <1>4, <1>5 DEF Other

LEMMA BuiltStart == ProjectInit => BuiltInv
<1>. SUFFICES ASSUME ProjectInit PROVE BuiltInv
  OBVIOUS
<1>1. ASSUME Init, prompts = [n \in {"starter"} |-> FileOf(source)], Compiles(prompts["starter"]),
             dist = [NoDist EXCEPT !.present = TRUE], queue = <<"starter">>
      PROVE  BuiltInv
  <2>1. source \in Seq(Section) /\ FromSource(source, ir) /\ profile \in {"dev", "release"} /\ pc = "lint-fast"
    BY SMTT(20), <1>1 DEF Init, BoundedSeq, SeqOf, FromSource
  <2>2. InPass
    BY <2>1, SourceReaches DEF InPass
  <2>. QED
    BY <1>1, <2>2 DEF BuiltInv, ArtifactsFinished, QueueCompiles, NoDist
<1>2. ASSUME pc = "idle", profile = "dev", source = <<>>, ir = <<>>, dist = NoDist, queue = <<>>
      PROVE  BuiltInv
  <2>1. source \in Seq(Section) /\ ir \in Seq(Compiled)
    BY <1>2, EmptySeq
  <2>. QED
    BY <1>2, <2>1 DEF BuiltInv, InPass, ArtifactsFinished, QueueCompiles, NoDist
<1>. QED
  BY <1>1, <1>2 DEF ProjectInit

LEMMA BuiltStep == ProjectInv /\ BuiltInv /\ [ProjectNext]_project => BuiltInv'
BY StepsOfProject, BuiltCommands, BuiltOthers DEF ProjectInv

LEMMA BuiltConveys == BuiltInv => EveryTextIsRendered
<1>. SUFFICES ASSUME BuiltInv, pc = "assemble"
              PROVE  \A i \in DOMAIN source : \E j, k \in DOMAIN ir :
                       /\ ir[j].id = source[i].id
                       /\ ir[k].id = IF ir[j].ref = None THEN ir[j].id ELSE ir[j].ref
                       /\ ir[k].text = Final(source[i].text)
                       /\ Cardinality({n \in DOMAIN (system \o user) : (system \o user)[n] = ir[k].id}) = 1
  BY DEF EveryTextIsRendered
<1>1. Conveys(source, ir, profile, system \o user)
  BY DEF BuiltInv, InPass, Finished
<1>2. \A t : FinalAs(profile, t) = Final(t)
  BY DEF FinalAs, Final
<1>. QED
  BY <1>1, <1>2 DEF Conveys, Holder

(* Whatever the passes did to a prompt, each of its texts reaches the         *)
(* messages, once.                                                          *)
THEOREM TextsAreRendered == ProjectSpec => []EveryTextIsRendered
<1>1. ProjectInit => ProjectInv /\ BuiltInv
  BY ProjectStart, BuiltStart
<1>2. ProjectInv /\ BuiltInv /\ [ProjectNext]_project => (ProjectInv /\ BuiltInv)'
  BY ProjectStep, BuiltStep
<1>. QED
  BY <1>1, <1>2, BuiltConveys, PTL DEF ProjectSpec

-----------------------------------------------------------------------------
(* The context of a request *)

LEMMA GreatestOf ==
  ASSUME NEW n \in Nat, NEW S \in SUBSET (0..n), S # {}
  PROVE  Max(S) \in S /\ \A m \in S : m <= Max(S)
<1>. DEFINE T == {n - m : m \in S}
<1>1. T \subseteq Nat /\ T # {}
  <2>1. \A m \in S : n - m \in Nat
    OBVIOUS
  <2>2. \E m \in S : n - m \in T
    OBVIOUS
  <2>. QED
    BY <2>1, <2>2
<1>2. PICK d \in T : \A e \in T : d <= e
  <2>. HIDE DEF T
  <2>. QED
    BY <1>1, LeastOf
<1>3. PICK k \in S : d = n - k
  BY <1>2
<1>4. \A m \in S : k >= m
  <2>. TAKE m \in S
  <2>1. n - k <= n - m
    BY <1>2, <1>3
  <2>2. n \in Int /\ k \in Int /\ m \in Int
    OBVIOUS
  <2>. QED
    BY <2>1, <2>2
<1>5. Max(S) \in S /\ \A m \in S : Max(S) >= m
  BY <1>3, <1>4 DEF Max
<1>6. \A m \in S : m \in Int
  OBVIOUS
<1>. QED
  BY <1>5, <1>6

LEMMA LiveList ==
  ASSUME NEW live \in LiveContext \cup {<<>>}
  PROVE  /\ live \in Seq(ToSet(live)) /\ Len(live) \in Nat /\ DOMAIN live = 1..Len(live)
         /\ \A i \in DOMAIN live : live[i].priority \in Int /\ live[i].text \in Text
<1>1. CASE live = <<>>
  <2>1. live \in Seq(ToSet(live)) /\ Len(live) = 0
    BY <1>1, EmptySeq
  <2>2. DOMAIN live = 1..0
    BY <2>1, LenProperties
  <2>. QED
    BY <2>1, <2>2
<1>2. CASE live \in LiveContext
  <2>1. live \in Seq(ToSet(live)) /\ \A s \in ToSet(live) : s.priority \in Int /\ s.text \in Text
    BY <1>2, LiveAssumption
  <2>2. Len(live) \in Nat /\ DOMAIN live = 1..Len(live) /\ \A i \in DOMAIN live : live[i] \in ToSet(live)
    BY <2>1, SectionsOf
  <2>. QED
    BY <2>1, <2>2
<1>. QED
  BY <1>1, <1>2

LEMMA FoldedList ==
  ASSUME ir \in Seq(Compiled), NEW live \in LiveContext \cup {<<>>}
  PROVE  /\ Len(ir) \in Nat /\ Len(live) \in Nat
         /\ DOMAIN ir = 1..Len(ir) /\ DOMAIN live = 1..Len(live)
         /\ DOMAIN Folded(live) = 1..Len(ir) + Len(live)
         /\ \A i \in DOMAIN Folded(live) : Folded(live)[i].priority \in Int /\ Folded(live)[i].text \in Text
         /\ \A i \in 1..Len(ir) :
              Folded(live)[i].id = ir[i].id /\ Folded(live)[i].priority = ir[i].priority
         /\ \A i \in 1..Len(live) : Folded(live)[Len(ir) + i] = live[i]
<1>. DEFINE made == [i \in DOMAIN ir |-> [id |-> ir[i].id, priority |-> ir[i].priority, text |-> ir[i].text]]
            Rows == ToSet(live) \cup Section
<1>1. Len(ir) \in Nat /\ DOMAIN ir = 1..Len(ir) /\ \A i \in DOMAIN ir : ir[i] \in Compiled
  BY SectionsOf
<1>2. live \in Seq(ToSet(live)) /\ Len(live) \in Nat /\ DOMAIN live = 1..Len(live)
  BY LiveList
<1>3. live \in Seq(Rows)
  <2>1. ToSet(live) \subseteq Rows
    OBVIOUS
  <2>. HIDE DEF Rows
  <2>. QED
    BY <1>2, <2>1, SeqMonotonic
<1>4. made \in [1..Len(ir) -> Rows]
  BY <1>1 DEF Compiled, Section
<1>5. made \in Seq(Rows) /\ Len(made) = Len(ir)
  <2>. HIDE DEF made, Rows
  <2>. QED
    BY <1>1, <1>4, ListOf
<1>6. \A i \in 1..Len(ir) : /\ made[i].id = ir[i].id /\ made[i].priority = ir[i].priority
                            /\ made[i].priority \in Int /\ made[i].text \in Text
  BY <1>1, SectionAssumption DEF Compiled
<1>7. Folded(live) = made \o live
  BY DEF Folded
<1>8. \A i \in DOMAIN live : live[i].priority \in Int /\ live[i].text \in Text
  BY LiveList
<1>. HIDE DEF made, Rows
<1>. DEFINE F == Folded(live)
<1>9. /\ DOMAIN F = 1..Len(ir) + Len(live)
      /\ \A i \in 1..Len(ir) + Len(live) : F[i] = IF i <= Len(ir) THEN made[i] ELSE live[i - Len(ir)]
  <2>. HIDE DEF F
  <2>0. F = made \o live
    BY <1>7 DEF F
  <2>1. made \o live \in Seq(Rows) /\ Len(made \o live) = Len(made) + Len(live)
    BY <1>3, <1>5, ConcatProperties
  <2>2. \A i \in 1..Len(made) + Len(live) :
          (made \o live)[i] = IF i <= Len(made) THEN made[i] ELSE live[i - Len(made)]
    BY <1>3, <1>5, ConcatProperties
  <2>3. DOMAIN (made \o live) = 1..Len(made) + Len(live)
    BY <2>1, LenProperties
  <2>. QED
    BY <1>5, <2>0, <2>2, <2>3
<1>. HIDE DEF F
<1>10. \A i \in 1..Len(ir) : i \in 1..Len(ir) + Len(live) /\ i <= Len(ir)
  BY <1>1, <1>2
<1>11. \A i \in 1..Len(live) : /\ Len(ir) + i \in 1..Len(ir) + Len(live) /\ ~(Len(ir) + i <= Len(ir))
                               /\ Len(ir) + i - Len(ir) = i
  BY <1>1, <1>2
<1>12. \A i \in 1..Len(ir) + Len(live) : i \in 1..Len(ir) \/ (~(i <= Len(ir)) /\ i - Len(ir) \in 1..Len(live))
  BY <1>1, <1>2
<1>13. \A i \in 1..Len(ir) : F[i] = made[i]
  BY <1>9, <1>10
<1>14. \A i \in 1..Len(live) : F[Len(ir) + i] = live[i]
  BY <1>9, <1>11
<1>15. \A i \in DOMAIN F : F[i].priority \in Int /\ F[i].text \in Text
  BY <1>2, <1>6, <1>8, <1>9, <1>12, <1>13
<1>. QED
  BY <1>1, <1>2, <1>6, <1>9, <1>13, <1>14, <1>15 DEF F

LEMMA FoldedIds ==
  ASSUME ir \in Seq(Compiled), NEW live \in LiveContext \cup {<<>>}
  PROVE  /\ Ids(Folded(live)) = Ids(ir) \cup Ids(live)
         /\ IsFiniteSet(Ids(Folded(live))) /\ IsFiniteSet(Ids(live))
<1>. DEFINE F == Folded(live)
            n == Len(ir) + Len(live)
<1>1. /\ Len(ir) \in Nat /\ Len(live) \in Nat /\ DOMAIN ir = 1..Len(ir) /\ DOMAIN live = 1..Len(live)
      /\ DOMAIN F = 1..n
      /\ \A i \in 1..Len(ir) : F[i].id = ir[i].id
      /\ \A i \in 1..Len(live) : F[Len(ir) + i] = live[i]
  BY FoldedList
<1>. HIDE DEF F
<1>2. \A i \in 1..n : i \in 1..Len(ir) \/ \E j \in 1..Len(live) : i = Len(ir) + j
  <2>. SUFFICES ASSUME NEW i \in 1..n, i \notin 1..Len(ir) PROVE \E j \in 1..Len(live) : i = Len(ir) + j
    OBVIOUS
  <2>. WITNESS i - Len(ir) \in 1..Len(live)
  <2>. QED
    BY <1>1
<1>3. /\ \A i \in 1..Len(ir) : i \in 1..n
      /\ \A i \in 1..Len(live) : Len(ir) + i \in 1..n
  BY <1>1
<1>4. Ids(F) = Ids(ir) \cup Ids(live)
  <2>1. Ids(F) \subseteq Ids(ir) \cup Ids(live)
    <3>. SUFFICES ASSUME NEW i \in 1..n PROVE F[i].id \in Ids(ir) \cup Ids(live)
      BY <1>1 DEF Ids
    <3>1. CASE i \in 1..Len(ir)
      BY <1>1, <3>1 DEF Ids
    <3>2. ASSUME NEW j \in 1..Len(live), i = Len(ir) + j PROVE F[i].id \in Ids(live)
      BY <1>1, <3>2 DEF Ids
    <3>. QED
      BY <1>2, <3>1, <3>2
  <2>2. Ids(ir) \cup Ids(live) \subseteq Ids(F)
    <3>1. \A i \in 1..Len(ir) : ir[i].id \in Ids(F)
      BY <1>1, <1>3 DEF Ids
    <3>2. \A i \in 1..Len(live) : live[i].id \in Ids(F)
      <4>. TAKE i \in 1..Len(live)
      <4>1. Len(ir) + i \in DOMAIN F /\ F[Len(ir) + i].id = live[i].id
        BY <1>1, <1>3
      <4>. QED
        BY <4>1 DEF Ids
    <3>. QED
      BY <1>1, <3>1, <3>2 DEF Ids
  <2>. QED
    BY <2>1, <2>2
<1>5. IsFiniteSet(Ids(F))
  <2>. DEFINE f == [i \in 1..n |-> F[i].id]
  <2>1. f \in Surjection(1..n, Ids(F))
    BY <1>1 DEF Surjection, Ids
  <2>0. n \in Int
    BY <1>1
  <2>. HIDE DEF f, n
  <2>2. IsFiniteSet(1..n)
    BY <2>0, FS_Interval
  <2>. QED
    BY <2>1, <2>2, FS_Surjection
<1>6. IsFiniteSet(Ids(live))
  BY <1>4, <1>5, FS_Subset
<1>. QED
  BY <1>4, <1>5, <1>6 DEF F

(* Every id of a request has a place and an entry, the last one with that id.  *)
LEMMA EntryOf ==
  ASSUME ir \in Seq(Compiled), NEW live \in LiveContext \cup {<<>>}, NEW x \in Ids(Folded(live))
  PROVE  /\ Place(live, x) \in DOMAIN Folded(live) /\ Folded(live)[Place(live, x)].id = x
         /\ Rank(live, x) \in Int /\ Entry(live, x).text \in Text
         /\ IsLive(live, x) <=> x \in Ids(live)
         /\ ~IsLive(live, x) => \E i \in DOMAIN ir : ir[i].id = x /\ Rank(live, x) = ir[i].priority
<1>. DEFINE F == Folded(live)
            n == Len(ir) + Len(live)
            S == {i \in DOMAIN F : F[i].id = x}
            p == Place(live, x)
            w == Winner(live, x)
<1>1. /\ Len(ir) \in Nat /\ Len(live) \in Nat /\ DOMAIN ir = 1..Len(ir) /\ DOMAIN live = 1..Len(live)
      /\ DOMAIN F = 1..n
      /\ \A i \in DOMAIN F : F[i].priority \in Int /\ F[i].text \in Text
      /\ \A i \in 1..Len(ir) : F[i].id = ir[i].id /\ F[i].priority = ir[i].priority
      /\ \A i \in 1..Len(live) : F[Len(ir) + i] = live[i]
  BY FoldedList
<1>2. S # {}
  BY DEF Ids
<1>3. S \in SUBSET Nat /\ n \in Nat /\ S \in SUBSET (0..n)
  BY <1>1
<1>4. p = Min(S) /\ w = Max(S)
  BY DEF Place, Winner
<1>5. p \in S /\ w \in S /\ \A m \in S : m <= w
  <2>. HIDE DEF S, n, p, w
  <2>. QED
    BY <1>2, <1>3, <1>4, LeastOf, GreatestOf
<1>6. p \in DOMAIN F /\ F[p].id = x /\ w \in DOMAIN F /\ F[w].id = x
  BY <1>5
<1>7. Entry(live, x) = F[w] /\ Rank(live, x) = F[w].priority /\ (IsLive(live, x) <=> w > Len(ir))
  BY DEF Entry, Rank, IsLive
<1>. HIDE DEF F, p, w
<1>8. w > Len(ir) => x \in Ids(live)
  <2>. SUFFICES ASSUME w > Len(ir) PROVE x \in Ids(live)
    OBVIOUS
  <2>1. w - Len(ir) \in 1..Len(live) /\ Len(ir) + (w - Len(ir)) = w
    BY <1>1, <1>6
  <2>2. live[w - Len(ir)] = F[w]
    BY <1>1, <2>1
  <2>. QED
    BY <1>1, <1>6, <2>1, <2>2 DEF Ids
<1>9. x \in Ids(live) => w > Len(ir)
  <2>. SUFFICES ASSUME x \in Ids(live) PROVE w > Len(ir)
    OBVIOUS
  <2>1. PICK j \in 1..Len(live) : live[j].id = x
    BY <1>1 DEF Ids
  <2>2. Len(ir) + j \in 1..n /\ j \in Int /\ j > 0 /\ w \in Int
    BY <1>1, <1>6
  <2>3. Len(ir) + j \in S
    BY <1>1, <2>1, <2>2
  <2>4. Len(ir) + j <= w
    BY <1>5, <2>3
  <2>. QED
    BY <1>1, <2>2, <2>4
<1>10. ~(w > Len(ir)) => \E i \in DOMAIN ir : ir[i].id = x /\ F[w].priority = ir[i].priority
  <2>. SUFFICES ASSUME ~(w > Len(ir)) PROVE w \in DOMAIN ir /\ ir[w].id = x /\ F[w].priority = ir[w].priority
    OBVIOUS
  <2>1. w \in 1..Len(ir)
    BY <1>1, <1>6
  <2>. QED
    BY <1>1, <1>6, <2>1
<1>. QED
  BY <1>1, <1>6, <1>7, <1>8, <1>9, <1>10 DEF F, p

(* A list by importance, ties by place, has all that it sorts.               *)
LEMMA FillOrderList ==
  ASSUME ir \in Seq(Compiled), NEW live \in LiveContext \cup {<<>>}, NEW kept \in SUBSET Ids(Folded(live))
  PROVE  ToSet(FillOrder(live, kept)) = kept
<1>. DEFINE R == {p \in kept \X kept : \/ Rank(live, p[1]) > Rank(live, p[2])
                                       \/ Rank(live, p[1]) = Rank(live, p[2]) /\ Place(live, p[1]) < Place(live, p[2])}
<1>1. FillOrder(live, kept) = Ranked(kept, R)
  BY DEF FillOrder
<1>2. \A x, y : <<x, y>> \in R <=>
        /\ x \in kept /\ y \in kept
        /\ \/ Rank(live, x) > Rank(live, y)
           \/ Rank(live, x) = Rank(live, y) /\ Place(live, x) < Place(live, y)
  OBVIOUS
<1>3. \A x \in kept : Rank(live, x) \in Int /\ Place(live, x) \in Int
  <2>. TAKE x \in kept
  <2>1. Place(live, x) \in DOMAIN Folded(live) /\ Rank(live, x) \in Int
    BY EntryOf
  <2>2. DOMAIN Folded(live) = 1..Len(ir) + Len(live)
    BY FoldedList
  <2>. QED
    BY <2>1, <2>2
<1>4. \A x, y \in kept : Place(live, x) = Place(live, y) => x = y
  BY EntryOf
<1>5. IsFiniteSet(kept)
  BY FoldedIds, FS_Subset
<1>. HIDE DEF R
<1>6. /\ \A x \in kept : <<x, x>> \notin R
      /\ \A x, y, z \in kept : <<x, y>> \in R /\ <<y, z>> \in R => <<x, z>> \in R
      /\ \A x, y \in kept : x # y => <<x, y>> \in R \/ <<y, x>> \in R
  BY <1>2, <1>3, <1>4
<1>7. /\ Ranked(kept, R) \in [1..Cardinality(kept) -> kept]
      /\ \A x \in kept : \E i \in 1..Cardinality(kept) : Ranked(kept, R)[i] = x
  BY <1>5, <1>6, RankedList
<1>. QED
  BY <1>1, <1>7 DEF ToSet

LEMMA LiveOrderList ==
  ASSUME ir \in Seq(Compiled), NEW live \in LiveContext \cup {<<>>}
  PROVE  /\ LiveOrder(live) \in Seq(Ids(live))
         /\ \A x \in Ids(live) : \E k \in DOMAIN LiveOrder(live) : LiveOrder(live)[k] = x
         /\ \A k, l \in DOMAIN LiveOrder(live) : k < l =>
              Rank(live, LiveOrder(live)[k]) <= Rank(live, LiveOrder(live)[l])
<1>. DEFINE S == {x \in Ids(live) : IsLive(live, x)}
            R == {p \in S \X S : \/ Rank(live, p[1]) < Rank(live, p[2])
                                 \/ Rank(live, p[1]) = Rank(live, p[2]) /\ Place(live, p[1]) < Place(live, p[2])}
            q == LiveOrder(live)
<1>1. q = Ranked(S, R)
  BY DEF LiveOrder
<1>2. Ids(Folded(live)) = Ids(ir) \cup Ids(live) /\ IsFiniteSet(Ids(live))
  BY FoldedIds
<1>3. S = Ids(live)
  BY <1>2, EntryOf
<1>4. \A x, y : <<x, y>> \in R <=>
        /\ x \in S /\ y \in S
        /\ \/ Rank(live, x) < Rank(live, y)
           \/ Rank(live, x) = Rank(live, y) /\ Place(live, x) < Place(live, y)
  OBVIOUS
<1>5. \A x \in S : Rank(live, x) \in Int /\ Place(live, x) \in Int
  <2>. TAKE x \in S
  <2>1. Place(live, x) \in DOMAIN Folded(live) /\ Rank(live, x) \in Int
    BY <1>2, <1>3, EntryOf
  <2>2. DOMAIN Folded(live) = 1..Len(ir) + Len(live)
    BY FoldedList
  <2>. QED
    BY <2>1, <2>2
<1>6. \A x, y \in S : Place(live, x) = Place(live, y) => x = y
  BY <1>2, <1>3, EntryOf
<1>. HIDE DEF R, S, q
<1>7. /\ \A x \in S : <<x, x>> \notin R
      /\ \A x, y, z \in S : <<x, y>> \in R /\ <<y, z>> \in R => <<x, z>> \in R
      /\ \A x, y \in S : x # y => <<x, y>> \in R \/ <<y, x>> \in R
  BY <1>4, <1>5, <1>6
<1>8. /\ Cardinality(S) \in Nat /\ Ranked(S, R) \in [1..Cardinality(S) -> S]
      /\ \A x \in S : \E i \in 1..Cardinality(S) : Ranked(S, R)[i] = x
      /\ \A i, j \in 1..Cardinality(S) : i < j => <<Ranked(S, R)[i], Ranked(S, R)[j]>> \in R
  BY <1>2, <1>3, <1>7, RankedList
<1>9. q \in Seq(S) /\ DOMAIN q = 1..Cardinality(S)
  BY <1>1, <1>8, ListOf
<1>10. \A k, l \in DOMAIN q : k < l => Rank(live, q[k]) <= Rank(live, q[l])
  <2>. SUFFICES ASSUME NEW k \in DOMAIN q, NEW l \in DOMAIN q, k < l PROVE Rank(live, q[k]) <= Rank(live, q[l])
    OBVIOUS
  <2>1. <<q[k], q[l]>> \in R
    BY <1>1, <1>8, <1>9
  <2>. QED
    BY <1>4, <1>5, <2>1
<1>. QED
  BY <1>1, <1>3, <1>8, <1>9, <1>10 DEF q

(* The tokens of a section are counted once more when it is taken.           *)
LEMMA TokenSumList ==
  ASSUME ir \in Seq(Compiled), NEW live \in LiveContext \cup {<<>>}
  PROVE  /\ \A x \in Ids(Folded(live)) : Tokens(Entry(live, x).text) \in Nat \ {0}
         /\ \A S \in SUBSET Ids(Folded(live)) :
              /\ TokenSum(live, S) \in Nat /\ (S = {} => TokenSum(live, S) = 0)
              /\ \A x \in S : TokenSum(live, S) = TokenSum(live, S \ {x}) + Tokens(Entry(live, x).text)
<1>. DEFINE All == Ids(Folded(live))
            t(x) == Tokens(Entry(live, x).text)
<1>1. \A x \in All : t(x) \in Nat \ {0}
  <2>. TAKE x \in All
  <2>1. Entry(live, x).text \in Text
    BY EntryOf
  <2>2. Words[Entry(live, x).text] \in Int
    BY <2>1, TextAssumption
  <2>3. t(x) = IF 1 >= Words[Entry(live, x).text] THEN 1 ELSE Words[Entry(live, x).text]
    <3>. DEFINE w == Words[Entry(live, x).text]
    <3>1. t(x) = Max({1, w}) /\ w \in Int
      BY <2>2 DEF Tokens
    <3>. HIDE DEF w, t
    <3>2. Max({1, w}) = IF 1 >= w THEN 1 ELSE w
      BY <3>1, MaxOfTwo
    <3>. QED
      BY <3>1, <3>2 DEF w
  <2>. QED
    BY <2>2, <2>3
<1>. HIDE DEF t
<1>2. IsFiniteSet(All)
  BY FoldedIds
<1>3. \A S : TokensOf(live, S) = UNION {{x} \X (1..t(x)) : x \in S}
  BY DEF TokensOf, t
<1>. HIDE DEF All
<1>4. ASSUME NEW x \in All
      PROVE  IsFiniteSet({x} \X (1..t(x))) /\ Cardinality({x} \X (1..t(x))) = t(x)
  <2>1. IsFiniteSet(1..t(x)) /\ Cardinality(1..t(x)) = t(x)
    BY <1>1, FS_Interval
  <2>2. IsFiniteSet({x}) /\ Cardinality({x}) = 1
    BY FS_Singleton
  <2>3. IsFiniteSet({x} \X (1..t(x))) /\ Cardinality({x} \X (1..t(x))) = 1 * t(x)
    BY ZenonT(30), <2>1, <2>2, FS_Product
  <2>. QED
    BY <1>1, <2>3
<1>5. ASSUME NEW S \in SUBSET All PROVE IsFiniteSet(TokensOf(live, S))
  <2>. DEFINE Q == {{x} \X (1..t(x)) : x \in S}
              f == [x \in S |-> {x} \X (1..t(x))]
  <2>1. IsFiniteSet(S)
    BY <1>2, FS_Subset
  <2>2. f \in Surjection(S, Q)
    BY DEF Surjection
  <2>3. IsFiniteSet(Q)
    <3>. HIDE DEF f, Q
    <3>. QED
      BY <2>1, <2>2, FS_Surjection
  <2>4. \A q \in Q : IsFiniteSet(q)
    BY <1>4
  <2>5. TokensOf(live, S) = UNION Q
    BY <1>3
  <2>. HIDE DEF f, Q
  <2>. QED
    BY <2>3, <2>4, <2>5, FS_UNION
<1>6. ASSUME NEW S \in SUBSET All, NEW x \in S
      PROVE  TokenSum(live, S) = TokenSum(live, S \ {x}) + t(x)
  <2>. DEFINE A == TokensOf(live, S \ {x})
              B == {x} \X (1..t(x))
  <2>1. TokensOf(live, S) = A \cup B /\ A \cap B = {}
    <3>1. TokensOf(live, S) = A \cup B
      BY <1>3
    <3>2. \A p \in A : p[1] # x
      BY <1>3
    <3>3. \A p \in B : p[1] = x
      OBVIOUS
    <3>. QED
      BY <3>1, <3>2, <3>3
  <2>2. IsFiniteSet(A) /\ IsFiniteSet(B) /\ Cardinality(B) = t(x)
    BY <1>4, <1>5
  <2>. HIDE DEF A, B
  <2>3. Cardinality(A \cup B) = Cardinality(A) + Cardinality(B)
    <3>1. Cardinality(A \cup B) = Cardinality(A) + Cardinality(B) - Cardinality(A \cap B)
      BY <2>2, FS_Union
    <3>2. Cardinality(A) \in Nat /\ Cardinality(B) \in Nat /\ Cardinality(A \cap B) = 0
      BY <2>1, <2>2, FS_CardinalityType, FS_EmptySet
    <3>. QED
      BY <3>1, <3>2
  <2>. QED
    BY <2>1, <2>2, <2>3 DEF TokenSum, A
<1>7. ASSUME NEW S \in SUBSET All PROVE TokenSum(live, S) \in Nat
  BY <1>5, FS_CardinalityType DEF TokenSum
<1>8. TokenSum(live, {}) = 0
  <2>1. TokensOf(live, {}) = {}
    BY <1>3
  <2>. QED
    BY <2>1, FS_EmptySet DEF TokenSum
<1>. QED
  BY <1>1, <1>6, <1>7, <1>8 DEF All, t

(* A section at a time is shed.                                              *)
Stepped(live, available, acc, x) ==
  IF acc.left <= available \/ x \in ToSet(acc.out) THEN acc ELSE Shed(live, acc, x)
IsFold(live, available, c, n, f) ==
  f = [k \in 0..n |-> IF k = 0 THEN Whole(live) ELSE Stepped(live, available, f[k - 1], c[k])]

LEMMA FoldExists ==
  ASSUME NEW live, NEW available, NEW c, NEW N \in Nat
  PROVE  \E f : IsFold(live, available, c, N, f)
<1>. DEFINE S == {n \in Nat : ~\E f : IsFold(live, available, c, n, f)}
<1>. SUFFICES ASSUME S # {} PROVE FALSE
  OBVIOUS
<1>. DEFINE n == Min(S)
<1>1. n \in S /\ \A m \in S : n <= m
  <2>. HIDE DEF S
  <2>0. S \in SUBSET Nat
    BY DEF S
  <2>. QED
    BY <2>0, LeastOf
<1>. HIDE DEF n
<1>2. n # 0
  <2>. DEFINE f == [k \in 0..0 |-> Whole(live)]
  <2>1. f = [k \in 0..0 |-> IF k = 0 THEN Whole(live) ELSE Stepped(live, available, f[k - 1], c[k])]
    <3>. \A k \in 0..0 : k = 0
      OBVIOUS
    <3>. QED
      OBVIOUS
  <2>2. \E g : IsFold(live, available, c, 0, g)
    BY <2>1 DEF IsFold
  <2>. QED
    BY <1>1, <2>2
<1>3. n - 1 \in Nat /\ n \in Nat
  BY <1>1, <1>2
<1>4. PICK f : IsFold(live, available, c, n - 1, f)
  <2>1. ~(n <= n - 1)
    BY <1>3
  <2>. QED
    BY <1>1, <1>3, <2>1
<1>5. \A k \in 0..n - 1 : f[k] = IF k = 0 THEN Whole(live) ELSE Stepped(live, available, f[k - 1], c[k])
  BY <1>4 DEF IsFold
<1>. DEFINE g == [k \in 0..n |-> IF k = n THEN Stepped(live, available, f[n - 1], c[n]) ELSE f[k]]
            h == [k \in 0..n |-> IF k = 0 THEN Whole(live) ELSE Stepped(live, available, g[k - 1], c[k])]
<1>6. ASSUME NEW k \in 0..n PROVE g[k] = h[k]
  <2>1. CASE k = n
    <3>1. n - 1 \in 0..n /\ n - 1 # n /\ n \in 0..n
      BY <1>3
    <3>2. g[n - 1] = f[n - 1]
      BY <3>1
    <3>3. g[n] = Stepped(live, available, f[n - 1], c[n])
      BY <3>1
    <3>4. h[n] = Stepped(live, available, g[n - 1], c[n])
      BY <1>2, <3>1
    <3>. QED
      BY <2>1, <3>2, <3>3, <3>4
  <2>2. CASE k # n /\ k # 0
    <3>1. k \in 0..n - 1 /\ k - 1 \in 0..n /\ k - 1 # n
      BY <1>3, <2>2
    <3>2. g[k] = f[k] /\ g[k - 1] = f[k - 1]
      BY <2>2, <3>1
    <3>3. h[k] = Stepped(live, available, g[k - 1], c[k])
      BY <2>2
    <3>. QED
      BY <1>5, <2>2, <3>1, <3>2, <3>3
  <2>3. CASE k = 0
    <3>1. 0 \in 0..n - 1
      BY <1>3
    <3>2. g[0] = f[0] /\ h[0] = Whole(live)
      BY <1>2, <2>3
    <3>. QED
      BY <1>5, <2>3, <3>1, <3>2
  <2>. QED
    BY <2>1, <2>2, <2>3
<1>7. g = h
  <2>1. g = [k \in 0..n |-> g[k]] /\ h = [k \in 0..n |-> h[k]]
    OBVIOUS
  <2>. HIDE DEF g, h
  <2>. QED
    BY <1>6, <2>1
<1>8. IsFold(live, available, c, n, g)
  BY <1>7 DEF IsFold
<1>. QED
  BY <1>1, <1>8

LEMMA EvictFolds ==
  ASSUME NEW live, NEW available, NEW c, Len(c) \in Nat
  PROVE  \E f : IsFold(live, available, c, Len(c), f) /\ Evict(live, available, c) = f[Len(c)]
<1>. DEFINE N == Len(c)
            after == CHOOSE f : IsFold(live, available, c, N, f)
<1>1. IsFold(live, available, c, N, after)
  <2>1. \E f : IsFold(live, available, c, N, f)
    BY FoldExists
  <2>. QED
    BY <2>1
<1>2. Evict(live, available, c) = after[N]
  BY DEF Evict, IsFold, Stepped
<1>. QED
  BY <1>1, <1>2

(* What is shed is the head of the candidates, and no more of it than must be. *)
Shedding(live, available, c, n, acc) ==
  LET All == Ids(Folded(live)) IN
  /\ acc.out \in Seq(All)
  /\ acc.left = TokenSum(live, All \ ToSet(acc.out))
  /\ acc.left > available => \A l \in 1..n : c[l] \in ToSet(acc.out)
  /\ \A x \in ToSet(acc.out) :
       \E m \in 1..n : c[m] = x /\ \A l \in 1..m : c[l] \in ToSet(acc.out)
  /\ acc.out # <<>> => acc.left + Tokens(Entry(live, acc.out[Len(acc.out)]).text) > available

LEMMA SheddingStep ==
  ASSUME ir \in Seq(Compiled), NEW live \in LiveContext \cup {<<>>}, NEW available \in Nat,
         NEW c, NEW n \in Nat, c[n + 1] \in Ids(Folded(live)), NEW acc, Shedding(live, available, c, n, acc)
  PROVE  Shedding(live, available, c, n + 1, Stepped(live, available, acc, c[n + 1]))
<1>. DEFINE All == Ids(Folded(live))
            x == c[n + 1]
            next == Stepped(live, available, acc, x)
            out == acc.out
            t == Tokens(Entry(live, x).text)
            gone == ToSet(out)
<1>1. /\ out \in Seq(All)
      /\ acc.left = TokenSum(live, All \ gone)
      /\ acc.left > available => \A l \in 1..n : c[l] \in gone
      /\ \A y \in gone : \E m \in 1..n : c[m] = y /\ \A l \in 1..m : c[l] \in gone
      /\ out # <<>> => acc.left + Tokens(Entry(live, out[Len(out)]).text) > available
  BY DEF Shedding
<1>2. /\ t \in Nat \ {0}
      /\ \A S \in SUBSET All :
           /\ TokenSum(live, S) \in Nat
           /\ \A y \in S : TokenSum(live, S) = TokenSum(live, S \ {y}) + Tokens(Entry(live, y).text)
  <2>1. /\ \A y \in All : Tokens(Entry(live, y).text) \in Nat \ {0}
        /\ \A S \in SUBSET All :
             /\ TokenSum(live, S) \in Nat /\ (S = {} => TokenSum(live, S) = 0)
             /\ \A y \in S : TokenSum(live, S) = TokenSum(live, S \ {y}) + Tokens(Entry(live, y).text)
    BY TokenSumList
  <2>. HIDE DEF All
  <2>2. x \in All
    BY DEF All
  <2>3. t \in Nat \ {0}
    BY <2>1, <2>2
  <2>. HIDE DEF t
  <2>4. \A S \in SUBSET All : TokenSum(live, S) \in Nat
    BY <2>1
  <2>5. \A S \in SUBSET All : \A y \in S :
          TokenSum(live, S) = TokenSum(live, S \ {y}) + Tokens(Entry(live, y).text)
    BY <2>1
  <2>. QED
    BY <2>3, <2>4, <2>5
<1>3. acc.left \in Nat /\ x \in All
  BY <1>1, <1>2
<1>4. \A l \in 1..n + 1 : l \in 1..n \/ l = n + 1
  OBVIOUS
<1>5. CASE acc.left <= available \/ x \in gone
  <2>1. next = acc
    BY <1>5 DEF Stepped
  <2>. HIDE DEF All, t, next
  <2>2. acc.left > available => \A l \in 1..n + 1 : c[l] \in gone
    <3>1. acc.left > available => x \in gone
      BY <1>3, <1>5
    <3>. QED
      BY <1>1, <1>4, <3>1
  <2>3. \A y \in gone : \E m \in 1..n + 1 : c[m] = y /\ \A l \in 1..m : c[l] \in gone
    <3>1. \A m \in 1..n : m \in 1..n + 1
      OBVIOUS
    <3>. QED
      BY <1>1, <3>1
  <2>4. Shedding(live, available, c, n + 1, acc)
    BY <1>1, <2>2, <2>3 DEF Shedding, All
  <2>. QED
    BY <2>1, <2>4 DEF next
<1>6. CASE ~(acc.left <= available) /\ x \notin gone
  <2>1. next = [left |-> acc.left - t, out |-> Append(out, x)]
    BY <1>6 DEF Stepped, Shed
  <2>. DEFINE longer == Append(out, x)
              more == ToSet(longer)
  <2>. HIDE DEF All, t, next
  <2>2. Len(out) \in Nat /\ DOMAIN out = 1..Len(out)
    BY <1>1, LenProperties
  <2>3. /\ longer \in Seq(All) /\ Len(longer) = Len(out) + 1
        /\ \A i \in 1..Len(out) : longer[i] = out[i]
        /\ longer[Len(out) + 1] = x
    BY <1>1, <1>3, AppendProperties DEF All
  <2>4. DOMAIN longer = 1..Len(out) + 1
    BY <2>3, LenProperties
  <2>. HIDE DEF longer, out
  <2>5. more = gone \cup {x}
    <3>1. \A i \in 1..Len(out) + 1 : i \in 1..Len(out) \/ i = Len(out) + 1
      BY <2>2
    <3>2. \A i \in 1..Len(out) : i \in 1..Len(out) + 1
      BY <2>2
    <3>3. Len(out) + 1 \in 1..Len(out) + 1
      BY <2>2
    <3>4. more = {longer[i] : i \in 1..Len(out) + 1} /\ gone = {out[i] : i \in 1..Len(out)}
      BY <2>2, <2>4 DEF ToSet
    <3>. HIDE DEF more, gone
    <3>5. more \subseteq gone \cup {x}
      BY <2>3, <3>1, <3>4
    <3>6. gone \cup {x} \subseteq more
      BY <2>3, <3>2, <3>3, <3>4
    <3>. QED
      BY <3>5, <3>6
  <2>. HIDE DEF more, gone
  <2>6. acc.left - t = TokenSum(live, All \ more)
    <3>1. x \in All \ gone /\ (All \ gone) \ {x} = All \ more
      BY <1>3, <1>6, <2>5
    <3>2. TokenSum(live, All \ gone) = TokenSum(live, All \ more) + t
      BY <1>2, <3>1 DEF t
    <3>3. TokenSum(live, All \ more) \in Nat /\ t \in Nat
      BY <1>2
    <3>. QED
      BY <1>1, <3>2, <3>3
  <2>7. \A l \in 1..n + 1 : c[l] \in more
    <3>1. \A l \in 1..n : c[l] \in gone
      BY <1>1, <1>3, <1>6
    <3>. QED
      BY <1>4, <2>5, <3>1
  <2>8. \A y \in more : \E m \in 1..n + 1 : c[m] = y /\ \A l \in 1..m : c[l] \in more
    <3>1. \A m \in 1..n : m \in 1..n + 1
      OBVIOUS
    <3>2. n + 1 \in 1..n + 1
      OBVIOUS
    <3>. QED
      BY <1>1, <2>5, <2>7, <3>1, <3>2
  <2>9. acc.left - t + Tokens(Entry(live, longer[Len(longer)]).text) > available
    <3>1. longer[Len(longer)] = x
      BY <2>2, <2>3
    <3>2. acc.left - t + t > available
      BY <1>2, <1>3, <1>6
    <3>. QED
      BY <3>1, <3>2 DEF t
  <2>10. next.left = acc.left - t /\ next.out = longer
    BY <2>1 DEF longer, out
  <2>11. Shedding(live, available, c, n + 1, next)
    BY <2>3, <2>6, <2>7, <2>8, <2>9, <2>10 DEF Shedding, All, more
  <2>. QED
    BY <2>11 DEF next
<1>. QED
  BY <1>5, <1>6

LEMMA EvictSheds ==
  ASSUME ir \in Seq(Compiled), NEW live \in LiveContext \cup {<<>>}, NEW available \in Nat,
         NEW c, Len(c) \in Nat, \A i \in 1..Len(c) : c[i] \in Ids(Folded(live))
  PROVE  Shedding(live, available, c, Len(c), Evict(live, available, c))
<1>. DEFINE N == Len(c)
<1>1. PICK f : IsFold(live, available, c, N, f) /\ Evict(live, available, c) = f[N]
  BY EvictFolds
<1>2. \A k \in 0..N : f[k] = IF k = 0 THEN Whole(live) ELSE Stepped(live, available, f[k - 1], c[k])
  BY <1>1 DEF IsFold
<1>. DEFINE S == {k \in 0..N : ~Shedding(live, available, c, k, f[k])}
<1>3. ASSUME S # {} PROVE FALSE
  <2>. DEFINE k == Min(S)
  <2>1. k \in S /\ \A m \in S : k <= m
    <3>1. S \in SUBSET Nat
      OBVIOUS
    <3>. HIDE DEF S
    <3>. QED
      BY <1>3, <3>1, LeastOf
  <2>. HIDE DEF k
  <2>2. k # 0
    <3>1. 0 \in 0..N /\ f[0] = Whole(live)
      BY <1>2
    <3>2. Shedding(live, available, c, 0, Whole(live))
      <4>. DEFINE All == Ids(Folded(live))
                  acc == Whole(live)
      <4>1. acc.out = <<>> /\ acc.left = TokenSum(live, All)
        BY DEF Whole
      <4>2. ToSet(acc.out) = {} /\ acc.out \in Seq(All)
        BY <4>1, EmptySeq DEF ToSet
      <4>. HIDE DEF All, acc
      <4>3. All \ ToSet(acc.out) = All
        BY <4>2
      <4>4. \A l \in 1..0 : FALSE
        OBVIOUS
      <4>5. \A x : x \notin ToSet(acc.out)
        BY <4>2
      <4>6. /\ acc.out \in Seq(All) /\ acc.left = TokenSum(live, All \ ToSet(acc.out))
            /\ acc.left > available => \A l \in 1..0 : c[l] \in ToSet(acc.out)
            /\ \A x \in ToSet(acc.out) :
                 \E m \in 1..0 : c[m] = x /\ \A l \in 1..m : c[l] \in ToSet(acc.out)
            /\ acc.out # <<>> => acc.left + Tokens(Entry(live, acc.out[Len(acc.out)]).text) > available
        BY <4>1, <4>2, <4>3, <4>4, <4>5
      <4>. QED
        BY <4>6 DEF Shedding, All, acc
    <3>. QED
      BY <2>1, <3>1, <3>2
  <2>3. k \in 0..N /\ k - 1 \in 0..N /\ k - 1 \in Nat /\ k \in 1..N /\ k - 1 + 1 = k /\ ~(k <= k - 1)
    BY <2>1, <2>2
  <2>4. Shedding(live, available, c, k - 1, f[k - 1])
    BY <2>1, <2>3
  <2>5. f[k] = Stepped(live, available, f[k - 1], c[k])
    BY <1>2, <2>2, <2>3
  <2>6. c[k - 1 + 1] \in Ids(Folded(live))
    BY <2>3
  <2>7. Shedding(live, available, c, k - 1 + 1, Stepped(live, available, f[k - 1], c[k - 1 + 1]))
    BY <2>3, <2>4, <2>6, SheddingStep
  <2>8. Shedding(live, available, c, k, f[k])
    BY <2>3, <2>5, <2>7
  <2>. QED
    BY <2>1, <2>8
<1>. QED
  BY <1>1, <1>3

(* resolve_plan picks one of the plans.                                      *)
LEMMA ResolvedPlan ==
  ASSUME NEW s, PlansFit(s, plans), NEW target
  PROVE  ResolvePlan(target).available \in Nat /\ Planned(s, ResolvePlan(target).order)
<1>. DEFINE named(n) == {k \in DOMAIN plans : plans[k].target = n}
<1>1. 1 \in DOMAIN plans /\ DOMAIN plans \subseteq Nat
  BY DEF PlansFit
<1>2. ASSUME NEW n, named(n) # {} PROVE Min(named(n)) \in DOMAIN plans
  <2>1. named(n) \in SUBSET Nat
    BY <1>1
  <2>2. Min(named(n)) \in named(n)
    <3>. HIDE DEF named
    <3>. QED
      BY <1>2, <2>1, LeastOf
  <2>. QED
    BY <2>2
<1>3. \E k \in DOMAIN plans : ResolvePlan(target) = plans[k]
  <2>1. ResolvePlan(target) = IF named(target) # {} THEN plans[Min(named(target))]
                              ELSE IF named("generic") # {} THEN plans[Min(named("generic"))]
                              ELSE plans[1]
    BY DEF ResolvePlan
  <2>. HIDE DEF named
  <2>. QED
    BY <1>1, <1>2, <2>1
<1>. QED
  BY <1>3 DEF PlansFit

(* The candidates are the live sections, then the plan's.                    *)
LEMMA CandidatesList ==
  ASSUME ir \in Seq(Compiled), NEW live \in LiveContext \cup {<<>>}, NEW order, Planned(ir, order)
  PROVE  LET first == LiveOrder(live)
             c == first \o order
         IN /\ Len(first) \in Nat /\ Len(order) \in Nat /\ Len(c) = Len(first) + Len(order)
            /\ \A k \in 1..Len(first) : c[k] = first[k] /\ c[k] \in Ids(live)
            /\ \A k \in 1..Len(c) : k \notin 1..Len(first) =>
                 k - Len(first) \in 1..Len(order) /\ c[k] = order[k - Len(first)] /\ c[k] \in Ids(ir)
            /\ \A x \in Ids(live) : \E k \in 1..Len(first) : c[k] = x
            /\ \A x \in Ids(ir) : \E k \in 1..Len(order) : order[k] = x /\ c[Len(first) + k] = x
<1>. DEFINE first == LiveOrder(live)
            c == first \o order
            Both == Ids(live) \cup Ids(ir)
<1>1. /\ first \in Seq(Ids(live)) /\ Len(first) \in Nat /\ DOMAIN first = 1..Len(first)
      /\ \A k \in 1..Len(first) : first[k] \in Ids(live)
      /\ \A x \in Ids(live) : \E k \in 1..Len(first) : first[k] = x
  <2>1. first \in Seq(Ids(live)) /\ \A x \in Ids(live) : \E k \in DOMAIN first : first[k] = x
    BY LiveOrderList
  <2>. HIDE DEF first
  <2>. QED
    BY <2>1, SectionsOf
<1>2. /\ order \in Seq(Ids(ir)) /\ Len(order) \in Nat /\ DOMAIN order = 1..Len(order)
      /\ \A k \in 1..Len(order) : order[k] \in Ids(ir)
      /\ \A x \in Ids(ir) : \E k \in 1..Len(order) : order[k] = x
  <2>1. order \in Seq(Ids(ir)) /\ \A x \in Ids(ir) : \E k \in DOMAIN order : order[k] = x
    BY DEF Planned
  <2>. QED
    BY <2>1, SectionsOf
<1>3. /\ Len(c) = Len(first) + Len(order)
      /\ \A k \in 1..Len(first) + Len(order) :
           c[k] = IF k <= Len(first) THEN first[k] ELSE order[k - Len(first)]
  <2>1. first \in Seq(Both) /\ order \in Seq(Both)
    <3>1. Ids(live) \subseteq Both /\ Ids(ir) \subseteq Both
      OBVIOUS
    <3>. HIDE DEF first, Both
    <3>. QED
      BY <1>1, <1>2, <3>1, SeqMonotonic
  <2>. HIDE DEF first, Both
  <2>. QED
    BY <2>1, ConcatProperties
<1>. HIDE DEF first, c
<1>4. \A k \in 1..Len(first) : c[k] = first[k]
  BY <1>1, <1>2, <1>3
<1>5. \A k \in 1..Len(c) : k \notin 1..Len(first) =>
        k - Len(first) \in 1..Len(order) /\ c[k] = order[k - Len(first)]
  BY <1>1, <1>2, <1>3
<1>6. \A k \in 1..Len(order) : c[Len(first) + k] = order[k]
  <2>. TAKE k \in 1..Len(order)
  <2>1. Len(first) + k \in 1..Len(first) + Len(order) /\ ~(Len(first) + k <= Len(first))
        /\ Len(first) + k - Len(first) = k
    BY <1>1, <1>2
  <2>. QED
    BY <1>3, <2>1
<1>. QED
  BY <1>1, <1>2, <1>3, <1>4, <1>5, <1>6 DEF first, c

LEMMA ShedFairly ==
  ASSUME ir \in Seq(Compiled), UniqueIds(ir), NEW live \in LiveContext \cup {<<>>},
         NEW available \in Nat, NEW order, Planned(ir, order)
  PROVE  LET All == Ids(Folded(live))
             result == Evict(live, available, LiveOrder(live) \o order)
             gone == ToSet(result.out)
             kept == All \ gone
         IN /\ gone \subseteq All
            /\ result.left = TokenSum(live, kept)
            /\ result.left <= available \/ kept = {}
            /\ gone # {} => TokenSum(live, kept \cup {result.out[Len(result.out)]}) > available
            /\ \A x \in gone, y \in kept :
                 /\ IsLive(live, y) => IsLive(live, x)
                 /\ IsLive(live, x) = IsLive(live, y) => Rank(live, x) <= Rank(live, y)
<1>. DEFINE All == Ids(Folded(live))
            first == LiveOrder(live)
            c == first \o order
            result == Evict(live, available, c)
            out == result.out
            gone == ToSet(out)
            kept == All \ gone
<1>1. All = Ids(ir) \cup Ids(live)
  BY FoldedIds
<1>2. /\ Len(first) \in Nat /\ Len(order) \in Nat /\ Len(c) = Len(first) + Len(order)
      /\ \A k \in 1..Len(first) : c[k] = first[k] /\ c[k] \in Ids(live)
      /\ \A k \in 1..Len(c) : k \notin 1..Len(first) =>
           k - Len(first) \in 1..Len(order) /\ c[k] = order[k - Len(first)] /\ c[k] \in Ids(ir)
      /\ \A x \in Ids(live) : \E k \in 1..Len(first) : c[k] = x
      /\ \A x \in Ids(ir) : \E k \in 1..Len(order) : order[k] = x /\ c[Len(first) + k] = x
  BY CandidatesList
<1>3. /\ DOMAIN first = 1..Len(first) /\ DOMAIN order = 1..Len(order)
      /\ \A k, l \in 1..Len(first) : k < l => Rank(live, first[k]) <= Rank(live, first[l])
      /\ \A k, l \in 1..Len(order) : k < l =>
           \E i, j \in DOMAIN ir : order[k] = ir[i].id /\ order[l] = ir[j].id /\ ir[i].priority <= ir[j].priority
  <2>1. /\ first \in Seq(Ids(live))
        /\ \A k, l \in DOMAIN first : k < l => Rank(live, first[k]) <= Rank(live, first[l])
    BY LiveOrderList
  <2>2. /\ order \in Seq(Ids(ir))
        /\ \A k, l \in DOMAIN order : k < l =>
             \E i, j \in DOMAIN ir : order[k] = ir[i].id /\ order[l] = ir[j].id /\ ir[i].priority <= ir[j].priority
    BY DEF Planned
  <2>. HIDE DEF first
  <2>3. DOMAIN first = 1..Len(first) /\ DOMAIN order = 1..Len(order)
    BY <2>1, <2>2, LenProperties
  <2>4. \A k, l \in 1..Len(first) : k < l => Rank(live, first[k]) <= Rank(live, first[l])
    BY <2>1, <2>3
  <2>5. \A k, l \in 1..Len(order) : k < l =>
          \E i, j \in DOMAIN ir : order[k] = ir[i].id /\ order[l] = ir[j].id /\ ir[i].priority <= ir[j].priority
    <3>. TAKE k, l \in 1..Len(order)
    <3>1. k \in DOMAIN order /\ l \in DOMAIN order
      BY <2>3
    <3>. HAVE k < l
    <3>. QED
      BY <2>2, <3>1
  <2>. QED
    BY <2>3, <2>4, <2>5
<1>4. \A x \in All : /\ Rank(live, x) \in Int /\ (IsLive(live, x) <=> x \in Ids(live))
                     /\ ~IsLive(live, x) => \E i \in DOMAIN ir : ir[i].id = x /\ Rank(live, x) = ir[i].priority
  BY EntryOf
<1>5. Shedding(live, available, c, Len(c), result)
  <2>. HIDE DEF c, first, All
  <2>1. \A i \in 1..Len(c) : c[i] \in All
    BY <1>1, <1>2
  <2>2. Len(c) \in Nat
    BY <1>2
  <2>3. \A i \in 1..Len(c) : c[i] \in Ids(Folded(live))
    BY <2>1 DEF All
  <2>. QED
    BY <2>2, <2>3, EvictSheds
<1>6. /\ out \in Seq(All)
      /\ result.left = TokenSum(live, kept)
      /\ result.left > available => \A l \in 1..Len(c) : c[l] \in gone
      /\ \A x \in gone : \E m \in 1..Len(c) : c[m] = x /\ \A l \in 1..m : c[l] \in gone
      /\ out # <<>> => result.left + Tokens(Entry(live, out[Len(out)]).text) > available
  <2>. HIDE DEF c, result
  <2>. QED
    BY <1>5 DEF Shedding
<1>7. /\ \A S \in SUBSET All : TokenSum(live, S) \in Nat
      /\ \A S \in SUBSET All : \A y \in S :
           TokenSum(live, S) = TokenSum(live, S \ {y}) + Tokens(Entry(live, y).text)
  <2>1. \A S \in SUBSET All :
          /\ TokenSum(live, S) \in Nat /\ (S = {} => TokenSum(live, S) = 0)
          /\ \A y \in S : TokenSum(live, S) = TokenSum(live, S \ {y}) + Tokens(Entry(live, y).text)
    BY TokenSumList
  <2>. HIDE DEF All
  <2>2. \A S \in SUBSET All : TokenSum(live, S) \in Nat
    BY <2>1
  <2>3. \A S \in SUBSET All : \A y \in S :
          TokenSum(live, S) = TokenSum(live, S \ {y}) + Tokens(Entry(live, y).text)
    BY <2>1
  <2>. QED
    BY <2>2, <2>3
<1>. HIDE DEF All, first, c, result
<1>8. Len(out) \in Nat /\ DOMAIN out = 1..Len(out) /\ \A i \in 1..Len(out) : out[i] \in All
  <2>. HIDE DEF out
  <2>. QED
    BY <1>6, SectionsOf
<1>. HIDE DEF out
<1>9. gone \subseteq All
  BY <1>8 DEF ToSet
<1>10. result.left <= available \/ kept = {}
  <2>. SUFFICES ASSUME ~(result.left <= available), NEW y \in kept PROVE FALSE
    OBVIOUS
  <2>1. result.left \in Nat
    BY <1>6, <1>7
  <2>2. \A l \in 1..Len(c) : c[l] \in gone
    BY <1>6, <2>1
  <2>3. \E l \in 1..Len(c) : c[l] = y
    <3>1. CASE y \in Ids(live)
      <4>1. \A k \in 1..Len(first) : k \in 1..Len(c)
        BY <1>2
      <4>. QED
        BY <1>2, <3>1, <4>1
    <3>2. CASE y \in Ids(ir)
      <4>1. \A k \in 1..Len(order) : Len(first) + k \in 1..Len(c)
        BY <1>2
      <4>. QED
        BY <1>2, <3>2, <4>1
    <3>. QED
      BY <1>1, <3>1, <3>2
  <2>. QED
    BY <2>2, <2>3
<1>11. gone # {} => TokenSum(live, kept \cup {out[Len(out)]}) > available
  <2>. SUFFICES ASSUME gone # {} PROVE TokenSum(live, kept \cup {out[Len(out)]}) > available
    OBVIOUS
  <2>1. out # <<>> /\ Len(out) \in 1..Len(out)
    <3>1. PICK i \in 1..Len(out) : TRUE
      BY <1>8 DEF ToSet
    <3>2. Len(out) \in 1..Len(out)
      BY <1>8, <3>1
    <3>3. out # <<>>
      BY <1>8, <3>2, EmptySeq
    <3>. QED
      BY <3>2, <3>3
  <2>. DEFINE last == out[Len(out)]
              S == kept \cup {last}
  <2>2. last \in gone /\ last \in All
    BY <1>8, <2>1 DEF ToSet
  <2>3. S \in SUBSET All /\ last \in S /\ S \ {last} = kept
    BY <2>2
  <2>. HIDE DEF S, last, kept, gone
  <2>4. TokenSum(live, S) = TokenSum(live, kept) + Tokens(Entry(live, last).text)
    BY <1>7, <2>3
  <2>5. result.left + Tokens(Entry(live, last).text) > available
    BY <1>6, <2>1 DEF last
  <2>. QED
    BY <1>6, <2>4, <2>5 DEF S, last
<1>12. ASSUME NEW x \in gone, NEW y \in kept
       PROVE  /\ IsLive(live, y) => IsLive(live, x)
              /\ IsLive(live, x) = IsLive(live, y) => Rank(live, x) <= Rank(live, y)
  <2>1. x \in All /\ y \in All /\ y \notin gone
    BY <1>9
  <2>2. PICK m \in 1..Len(c) : c[m] = x /\ \A l \in 1..m : c[l] \in gone
    BY <1>6
  <2>. HIDE DEF gone, kept
  <2>3. \A l \in 1..Len(c) : c[l] = y => m < l
    <3>1. Len(c) \in Nat
      BY <1>2
    <3>2. \A l \in 1..Len(c) : m < l \/ l \in 1..m
      BY <3>1
    <3>. QED
      BY <2>1, <2>2, <3>2
  <2>4. CASE y \in Ids(live)
    <3>1. PICK k \in 1..Len(first) : c[k] = y
      BY <1>2, <2>4
    <3>2. k \in 1..Len(c)
      BY <1>2
    <3>3. m < k
      BY <2>3, <3>1, <3>2
    <3>4. m \in 1..Len(first)
      BY <1>2, <3>3
    <3>5. first[m] = x /\ first[k] = y /\ x \in Ids(live)
      BY <1>2, <2>2, <3>1, <3>4
    <3>6. Rank(live, x) <= Rank(live, y)
      BY <1>3, <3>3, <3>4, <3>5
    <3>. QED
      BY <1>4, <2>1, <3>5, <3>6
  <2>5. CASE y \notin Ids(live)
    <3>1. ~IsLive(live, y)
      BY <1>4, <2>1, <2>5
    <3>2. ASSUME ~IsLive(live, x) PROVE Rank(live, x) <= Rank(live, y)
      <4>1. x \notin Ids(live) /\ y \in Ids(ir)
        BY <1>1, <1>4, <2>1, <2>5, <3>2
      <4>2. m \notin 1..Len(first)
        BY <1>2, <2>2, <4>1
      <4>3. m - Len(first) \in 1..Len(order) /\ order[m - Len(first)] = x
        BY <1>2, <2>2, <4>2
      <4>4. PICK k \in 1..Len(order) : order[k] = y /\ c[Len(first) + k] = y
        BY <1>2, <4>1
      <4>5. Len(first) + k \in 1..Len(c)
        BY <1>2
      <4>6. m < Len(first) + k
        BY <2>3, <4>4, <4>5
      <4>7. m - Len(first) < k
        BY <1>2, <4>6
      <4>8. PICK i, j \in DOMAIN ir : x = ir[i].id /\ y = ir[j].id /\ ir[i].priority <= ir[j].priority
        <5>. DEFINE l == m - Len(first)
        <5>1. l \in 1..Len(order) /\ order[l] = x /\ l < k
          BY <4>3, <4>7
        <5>. HIDE DEF l
        <5>2. \E i, j \in DOMAIN ir :
                order[l] = ir[i].id /\ order[k] = ir[j].id /\ ir[i].priority <= ir[j].priority
          BY <1>3, <5>1
        <5>. QED
          BY <4>4, <5>1, <5>2
      <4>9. PICK i2 \in DOMAIN ir : ir[i2].id = x /\ Rank(live, x) = ir[i2].priority
        BY <1>4, <2>1, <3>2
      <4>10. PICK j2 \in DOMAIN ir : ir[j2].id = y /\ Rank(live, y) = ir[j2].priority
        BY <1>4, <2>1, <3>1
      <4>11. i2 = i /\ j2 = j
        BY <4>8, <4>9, <4>10 DEF UniqueIds
      <4>. QED
        BY <4>8, <4>9, <4>10, <4>11
    <3>3. IsLive(live, x) \in BOOLEAN /\ IsLive(live, y) \in BOOLEAN
      BY DEF IsLive
    <3>. QED
      BY <3>1, <3>2, <3>3
  <2>. QED
    BY <2>4, <2>5
<1>. QED
  BY <1>6, <1>9, <1>10, <1>11, <1>12 DEF All, first, c, result, out

(* Fairness in terms of a context, and that only a request changes it.        *)
FairContext(ctx) ==
  LET live == ctx.extra
      kept == ToSet(ctx.included)
      gone == ToSet(ctx.evicted)
      room == ResolvePlan(ctx.target).available IN
  /\ kept \cup gone = Ids(Folded(live)) /\ kept \cap gone = {}
  /\ ctx.tokens = TokenSum(live, kept)
  /\ ctx.tokens <= room \/ kept = {}
  /\ gone # {} => TokenSum(live, kept \cup {ctx.evicted[Len(ctx.evicted)]}) > room
  /\ \A x \in gone, y \in kept :
       /\ IsLive(live, y) => IsLive(live, x)
       /\ IsLive(live, x) = IsLive(live, y) => Rank(live, x) <= Rank(live, y)

LEMMA FairContextStays ==
  ASSUME ir' = ir, plans' = plans
  PROVE  \A ctx : FairContext(ctx)' <=> FairContext(ctx)
<1>. TAKE ctx
<1>1. \A l : Folded(l)' = Folded(l)
  BY DEF Folded
<1>2. \A l, x : Winner(l, x)' = Winner(l, x)
  BY <1>1 DEF Winner
<1>3. \A l, x : Entry(l, x)' = Entry(l, x)
  BY <1>1, <1>2 DEF Entry
<1>4. \A l, x : IsLive(l, x)' = IsLive(l, x)
  BY <1>2 DEF IsLive
<1>5. \A l, x : Rank(l, x)' = Rank(l, x)
  BY <1>3 DEF Rank
<1>6. \A l, S : TokenSum(l, S)' = TokenSum(l, S)
  BY <1>3 DEF TokenSum, TokensOf
<1>7. \A n : ResolvePlan(n)' = ResolvePlan(n)
  BY DEF ResolvePlan
<1>. QED
  BY <1>1, <1>4, <1>5, <1>6, <1>7 DEF FairContext

LEMMA AskIsFair ==
  ASSUME ir \in Seq(Compiled), UniqueIds(ir), PlansFit(ir, plans),
         NEW live \in LiveContext \cup {<<>>}, NEW target, Assemble(live, target)
  PROVE  EvictionIsFair'
<1>. DEFINE plan == ResolvePlan(target)
            All == Ids(Folded(live))
            result == Evict(live, plan.available, LiveOrder(live) \o plan.order)
            out == result.out
            gone == ToSet(out)
            kept == All \ gone
<1>1. plan.available \in Nat /\ Planned(ir, plan.order)
  BY ResolvedPlan
<1>2. /\ gone \subseteq All
      /\ result.left = TokenSum(live, kept)
      /\ result.left <= plan.available \/ kept = {}
      /\ gone # {} => TokenSum(live, kept \cup {out[Len(out)]}) > plan.available
      /\ \A x \in gone, y \in kept :
           /\ IsLive(live, y) => IsLive(live, x)
           /\ IsLive(live, x) = IsLive(live, y) => Rank(live, x) <= Rank(live, y)
  <2>. HIDE DEF plan
  <2>. QED
    BY <1>1, ShedFairly
<1>3. /\ context'.tokens = result.left /\ context'.evicted = out /\ context'.extra = live
      /\ context'.included = FillOrder(live, kept) /\ context'.target = target
  BY DEF Assemble
<1>. HIDE DEF out, result
<1>4. ToSet(context'.included) = kept
  <2>1. kept \in SUBSET Ids(Folded(live))
    OBVIOUS
  <2>. HIDE DEF kept
  <2>. QED
    BY <1>3, <2>1, FillOrderList
<1>5. FairContext(context')
  <2>1. kept \cup gone = All /\ kept \cap gone = {}
    BY <1>2
  <2>. HIDE DEF All, kept, gone
  <2>2. ToSet(context'.evicted) = gone
    BY <1>3 DEF gone
  <2>. QED
    BY <1>2, <1>3, <1>4, <2>1, <2>2 DEF FairContext, All, plan
<1>6. ir' = ir /\ plans' = plans /\ pc' = "done"
  BY DEF Assemble
<1>7. FairContext(context)'
  <2>1. \A ctx : FairContext(ctx)' <=> FairContext(ctx)
    BY <1>6, FairContextStays
  <2>. QED
    BY <1>5, <2>1
<1>. QED
  BY <1>7 DEF EvictionIsFair, FairContext

LEMMA FairStep == ProjectInv /\ BuiltInv /\ EvictionIsFair /\ [ProjectNext]_project => EvictionIsFair'
<1>. SUFFICES ASSUME ProjectInv, BuiltInv, EvictionIsFair, Command \/ Other \/ UNCHANGED project
              PROVE  EvictionIsFair'
  BY StepsOfProject DEF ProjectInv
<1>1. ASSUME pc' # "done" PROVE EvictionIsFair'
  BY <1>1 DEF EvictionIsFair
<1>2. ASSUME UNCHANGED <<pc, ir, plans, context>> PROVE EvictionIsFair'
  <2>1. EvictionIsFair <=> (pc = "done" => FairContext(context))
    BY DEF EvictionIsFair, FairContext
  <2>2. EvictionIsFair' <=> (pc' = "done" => FairContext(context)')
    BY DEF EvictionIsFair, FairContext
  <2>3. FairContext(context)' <=> FairContext(context')
    <3>1. \A ctx : FairContext(ctx)' <=> FairContext(ctx)
      BY <1>2, FairContextStays
    <3>. QED
      BY <3>1
  <2>. QED
    BY <1>2, <2>1, <2>2, <2>3
<1>3. CASE Command
  <2>0. pc = "idle"
    BY <1>3 DEF ProjectInv, QueueInv, Command, ScaffoldProject, Setup, SetVariables, EditConfig, Convert, WriteSource,
         Run, Diagnose, Inspecting, Inspect, Sampling, Control, End, Compiling, Build
  <2>1. CASE ~Compiling /\ ~Run
    <3>1. pc' = pc
      BY <1>3, <2>1 DEF Command, ScaffoldProject, Setup, SetVariables, EditConfig, Convert, WriteSource, Diagnose,
                  Inspecting, Inspect, Sampling, Control, End, compiler, vars, Untouched
    <3>. QED
      BY <1>1, <2>0, <3>1
  <2>2. CASE Run
    <3>1. pc' \in {"assemble", "idle"}
      BY <2>0, <2>2 DEF Run, compiler, vars
    <3>. QED
      BY <1>1, <3>1
  <2>3. CASE Compiling
    <3>0. PICK tree1 : \E id \in Builds, chosen \in SUBSET DOMAIN prompts : Build(id, chosen, tree1)
      BY <2>3 DEF Compiling, Builds
    <3>1. pc' \in {"lint-fast", "idle"}
      BY <2>0, <3>0 DEF Build, Load, compiler, vars
    <3>. QED
      BY <1>1, <3>1
  <2>. QED
    BY <2>1, <2>2, <2>3
<1>4. CASE Building
  <2>0. pc = "compress" => profile # "dev"
    BY DEF ProjectInv, QueueInv
  <2>1. pc' # "done"
    BY <1>4, <2>0, FollowingPasses
       DEF Building, Passing, LintFast, Dedupe, Compress, Reorder, Budget, Lint, Render, Pass
  <2>. QED
    BY <1>1, <2>1
<1>5. CASE PromptWritten \/ PromptRejected \/ BuildFails \/ Answered
  <2>1. pc' # "done"
    BY <1>5 DEF PromptWritten, PromptRejected, BuildFails, BuildStops, Answered, Load
  <2>. QED
    BY <1>1, <2>1
<1>6. ASSUME NEW live \in LiveContext \cup {<<>>}, NEW target \in Requested, Ask(live, target)
      PROVE  EvictionIsFair'
  <2>1. Assemble(live, target) /\ pc = "assemble"
    BY <1>6 DEF Ask, Assemble
  <2>2. ir \in Seq(Compiled) /\ UniqueIds(ir) /\ PlansFit(ir, plans)
    BY <2>1 DEF BuiltInv, InPass, Finished
  <2>. QED
    BY <2>1, <2>2, AskIsFair
<1>7. CASE React \/ UNCHANGED project
  <2>1. UNCHANGED <<pc, ir, plans, context>>
    BY <1>7 DEF React, project, compiler, vars, files
  <2>. QED
    BY <1>2, <2>1
<1>. QED
  BY <1>3, <1>4, <1>5, <1>6, <1>7 DEF Other

(* The daemon sheds no more of a request's context than it must, and the      *)
(* right sections, whatever the priorities, the texts and the window.        *)
THEOREM EvictionsAreFair == ProjectSpec => []EvictionIsFair
<1>1. ProjectInit => ProjectInv /\ BuiltInv /\ EvictionIsFair
  <2>1. ProjectInit => pc # "done"
    BY DEF ProjectInit, Init
  <2>. QED
    BY <2>1, ProjectStart, BuiltStart DEF EvictionIsFair
<1>2. ProjectInv /\ BuiltInv /\ EvictionIsFair /\ [ProjectNext]_project
        => (ProjectInv /\ BuiltInv /\ EvictionIsFair)'
  BY ProjectStep, BuiltStep, FairStep
<1>. QED
  BY <1>1, <1>2, PTL DEF ProjectSpec
=============================================================================
