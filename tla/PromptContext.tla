---------------------------- MODULE PromptContext ----------------------------
(***************************************************************************)
(* What becomes of the sections of a prompt: the compiler's passes          *)
(* (crates/cybersin-passes/src), the split into messages that a backend     *)
(* renders (crates/cybersin-backends/src/lib.rs), and the context that the  *)
(* daemon assembles for a request (crates/cybersin-runtime/src/session.rs). *)
(*                                                                         *)
(* A text stands for a section's body; its words, whether it has template   *)
(* syntax, and the inputs it names are all that the passes look at.         *)
(***************************************************************************)
EXTENDS Sorting, SequencesExt, FiniteSetsExt

CONSTANTS
  Id, Priority,
  Text, Blank,        \* bodies, and the empty one
  Words,              \* the number of words of each text
  Templated,          \* texts with {{ }} or {% %}
  Names,              \* the inputs that each text refers to
  Inputs,             \* names of inputs
  Pinned,             \* cybersin.lock: texts with their compressed output
  Provider,           \* what a compression provider makes of a text, if it answers
  Targets,            \* sequence of [target, window, reserved]
  Requested,          \* targets that the routes of a request ask for
  LiveContext,        \* values of __live_context
  MaxSections         \* bound

None == "none"
ASSUME SectionAssumption == None \notin Id /\ Priority \subseteq Int
ASSUME TextAssumption ==
  /\ Blank \in Text /\ Words \in [Text -> Nat] /\ Words[Blank] = 0
  /\ Templated \subseteq Text \ {Blank} /\ Names \in [Text -> SUBSET Inputs]
ASSUME LockAssumption ==
  \A f \in {Pinned, Provider} : DOMAIN f \subseteq Text \ {Blank} /\ \A t \in DOMAIN f : f[t] \in Text
ASSUME TargetAssumption ==
  /\ Targets # <<>> /\ Targets \in Seq(ToSet(Targets))
  /\ \A i \in DOMAIN Targets : Targets[i].window \in Nat /\ Targets[i].reserved \in Nat

VARIABLES
  pc,        \* the pass that runs next, then "render", "assemble", "done"
  profile,   \* Dev or Release; never changes
  declared,  \* PromptIr::inputs; never changes
  source,    \* the sections as the frontend gives them; never changes
  ir,        \* PromptIr::sections
  plans,     \* the budget artifact, <<>> before the budget pass
  pins,      \* the lockfile's compressions
  failed,    \* did a pass report an error?
  dead,      \* ids lint warned of
  system, user,   \* the sections in the rendered messages
  context    \* AssembledContext of a request

vars == <<pc, profile, declared, source, ir, plans, pins, failed, dead, system, user, context>>
-----------------------------------------------------------------------------
Section == [id : Id, priority : Priority, text : Text]
Compiled == [id : Id, priority : Priority, text : Text, ref : Id \cup {None}]

(* profile_plan.                                                            *)
Plan == IF profile = "dev" THEN <<"lint-fast", "dedupe", "reorder", "budget", "lint">>
        ELSE <<"lint-fast", "dedupe", "compress", "reorder", "budget", "lint">>

(* run_pipeline: the next pass, unless one reported an error.               *)
Following == LET next == Append(Tail(Plan), "render") IN next[CHOOSE i \in DOMAIN Plan : Plan[i] = pc]
Pass(error) == failed' = error /\ pc' = IF error THEN "failed" ELSE Following

NoContext == [tokens |-> 0, evicted |-> <<>>, live |-> <<>>, included |-> <<>>,
              extra |-> <<>>, target |-> None]

Init ==
  /\ profile \in {"dev", "release"}
  /\ source \in BoundedSeq(Section, MaxSections) /\ source # <<>> /\ declared \in SUBSET Inputs
  /\ ir = [i \in DOMAIN source |->
       [id |-> source[i].id, priority |-> source[i].priority, text |-> source[i].text, ref |-> None]]
  /\ pc = "lint-fast" /\ plans = <<>> /\ pins = Pinned /\ failed = FALSE /\ dead = {}
  /\ system = <<>> /\ user = <<>> /\ context = NoContext
-----------------------------------------------------------------------------
(* The passes.                                                              *)

(* Every declared input is named by some section.                           *)
LintFast ==
  /\ pc = "lint-fast"
  /\ Pass(\E x \in declared : \A i \in DOMAIN ir : x \notin Names[ir[i].text])
  /\ UNCHANGED <<profile, declared, source, ir, plans, pins, dead, system, user, context>>

(* The first section with a body keeps it, later ones refer to it.          *)
Twins(i) == {j \in 1..i - 1 : ir[j].text = ir[i].text /\ ir[i].text # Blank}
Dedupe_Previous ==
  /\ pc = "dedupe"
  /\ ir' = [i \in DOMAIN ir |->
       IF Twins(i) = {} THEN ir[i]
       ELSE [ir[i] EXCEPT !.text = Blank, !.ref = ir[Max(Twins(i))].id]]
  /\ Pass(FALSE)
  /\ UNCHANGED <<profile, declared, source, plans, pins, dead, system, user, context>>
Dedupe ==
  /\ pc = "dedupe"
  /\ ir' = [i \in DOMAIN ir |->
       IF Twins(i) = {} THEN ir[i]
       ELSE [ir[i] EXCEPT !.text = Blank, !.ref = ir[Min(Twins(i))].id]]
  /\ Pass(FALSE)
  /\ UNCHANGED <<profile, declared, source, plans, pins, dead, system, user, context>>

(* A pinned output is used as it is; a provider's must be shorter, and is    *)
(* pinned even when a later section fails the pass.                         *)
Held(i) == ir[i].text # Blank /\ ir[i].ref = None
Compressible(i) ==
  \/ ir[i].text \in DOMAIN Pinned
  \/ ir[i].text \in DOMAIN Provider /\ Words[Provider[ir[i].text]] < Words[ir[i].text]
Output(t) == IF t \in DOMAIN Pinned THEN Pinned[t] ELSE Provider[t]
Compress ==
  /\ pc = "compress"
  /\ LET stuck == {i \in DOMAIN ir : Held(i) /\ ~Compressible(i)}
         done == {i \in DOMAIN ir : Held(i) /\ \A j \in stuck : i < j}
         texts == {ir[i].text : i \in done} IN
     /\ pins' = [t \in DOMAIN pins \cup texts |-> Output(t)]
     /\ ir' = IF stuck # {} THEN ir
              ELSE [i \in DOMAIN ir |-> IF Held(i) THEN [ir[i] EXCEPT !.text = Output(@)] ELSE ir[i]]
     /\ Pass(stuck # {})
  /\ UNCHANGED <<profile, declared, source, plans, dead, system, user, context>>

(* A stable sort: the sections without template syntax come first.          *)
Stable(s) == s.text \notin Templated
Picked(S) == LET at == Sorted(S) IN [k \in DOMAIN at |-> ir[at[k]]]
Reorder ==
  /\ pc = "reorder"
  /\ ir' = Picked({i \in DOMAIN ir : Stable(ir[i])}) \o Picked({i \in DOMAIN ir : ~Stable(ir[i])})
  /\ Pass(FALSE)
  /\ UNCHANGED <<profile, declared, source, plans, pins, dead, system, user, context>>

(* Every section is in the plan, the least important first.                 *)
Available(plan) == Max({0, plan.window - plan.reserved})
EvictionOrder ==
  LET before(i, j) == \/ ir[i].priority < ir[j].priority
                      \/ ir[i].priority = ir[j].priority /\ i < j
      order == Ranked(DOMAIN ir, {p \in (DOMAIN ir) \X (DOMAIN ir) : before(p[1], p[2])})
  IN [k \in DOMAIN order |-> ir[order[k]].id]
Budget ==
  /\ pc = "budget"
  /\ plans' = [i \in DOMAIN Targets |->
       [target |-> Targets[i].target, available |-> Available(Targets[i]), order |-> EvictionOrder]]
  /\ Pass(FALSE)
  /\ UNCHANGED <<profile, declared, source, ir, pins, dead, system, user, context>>

(* Ids are unique, and a section that every plan names is called dead.      *)
Ids(seq) == {seq[i].id : i \in DOMAIN seq}
Lint ==
  /\ pc = "lint"
  /\ dead' = {x \in Ids(ir) : \A k \in DOMAIN plans : x \in ToSet(plans[k].order)}
  /\ Pass(Cardinality(Ids(ir)) < Len(ir))
  /\ UNCHANGED <<profile, declared, source, ir, plans, pins, system, user, context>>

(* split_messages: a section that refers to another is skipped.             *)
Render ==
  /\ pc = "render"
  /\ LET own == {i \in DOMAIN ir : ir[i].ref = None}
         head == {i \in own : i = 1 \/ ir[i].id \in {"role", "system"}}
         ids(S) == LET sections == Picked(S) IN [k \in DOMAIN sections |-> sections[k].id] IN
     system' = ids(head) /\ user' = ids(own \ head)
  /\ pc' = "assemble"
  /\ UNCHANGED <<profile, declared, source, ir, plans, pins, failed, dead, context>>
-----------------------------------------------------------------------------
(* assemble_context, for a target and live sections.  A live section hides   *)
(* the compiled one with its id, and keeps its place.                       *)

Tokens(t) == Max({1, Words[t]})
Folded(live) == [i \in DOMAIN ir |-> [id |-> ir[i].id, priority |-> ir[i].priority, text |-> ir[i].text]]
                \o live
Place(live, x) == LET folded == Folded(live) IN Min({i \in DOMAIN folded : folded[i].id = x})
Winner(live, x) == LET folded == Folded(live) IN Max({i \in DOMAIN folded : folded[i].id = x})
Entry(live, x) == Folded(live)[Winner(live, x)]
IsLive(live, x) == Winner(live, x) > Len(ir)

Rank(live, x) == Entry(live, x).priority
FillOrder(live, kept) ==
  LET before(x, y) == \/ Rank(live, x) > Rank(live, y)
                      \/ Rank(live, x) = Rank(live, y) /\ Place(live, x) < Place(live, y)
  IN Ranked(kept, {p \in kept \X kept : before(p[1], p[2])})
LiveOrder(live) ==
  LET before(x, y) == \/ Rank(live, x) < Rank(live, y)
                      \/ Rank(live, x) = Rank(live, y) /\ Place(live, x) < Place(live, y)
      S == {x \in Ids(live) : IsLive(live, x)}
  IN Ranked(S, {p \in S \X S : before(p[1], p[2])})

(* resolve_plan: the target's, else "generic", else the first.              *)
ResolvePlan(target) ==
  LET named(n) == {k \in DOMAIN plans : plans[k].target = n} IN
  IF named(target) # {} THEN plans[Min(named(target))]
  ELSE IF named("generic") # {} THEN plans[Min(named("generic"))]
  ELSE plans[1]

(* The tokens of sections, one by one, and how many they are.               *)
TokensOf(live, S) == UNION {{x} \X (1..Tokens(Entry(live, x).text)) : x \in S}
TokenSum(live, S) == Cardinality(TokensOf(live, S))

(* Both loops stop as soon as the rest fits.                                *)
Whole(live) == [left |-> TokenSum(live, Ids(Folded(live))), out |-> <<>>]
Shed(live, acc, x) ==
  [left |-> acc.left - Tokens(Entry(live, x).text), out |-> Append(acc.out, x)]
Evict_Below(live, available, candidates) ==
  LET after[n \in 0..Len(candidates)] ==
        IF n = 0 THEN Whole(live)
        ELSE LET acc == after[n - 1]
                 x == candidates[n]
             IN IF acc.left < available \/ x \in ToSet(acc.out) THEN acc ELSE Shed(live, acc, x)
  IN after[Len(candidates)]
Evict(live, available, candidates) ==
  LET after[n \in 0..Len(candidates)] ==
        IF n = 0 THEN Whole(live)
        ELSE LET acc == after[n - 1]
                 x == candidates[n]
             IN IF acc.left <= available \/ x \in ToSet(acc.out) THEN acc ELSE Shed(live, acc, x)
  IN after[Len(candidates)]

Assemble(live, target) ==
  /\ pc = "assemble"
  /\ LET plan == ResolvePlan(target)
         first == LiveOrder(live)
         result == Evict(live, plan.available, first \o plan.order) IN
     context' = [tokens |-> result.left, evicted |-> result.out,
                 live |-> SubSeq(result.out, 1, Min({Len(first), Len(result.out)})),
                 included |-> FillOrder(live, Ids(Folded(live)) \ ToSet(result.out)),
                 extra |-> live, target |-> target]
  /\ pc' = "done"
  /\ UNCHANGED <<profile, declared, source, ir, plans, pins, failed, dead, system, user>>

(* The passes of a build, one prompt at a time.                             *)
Passing ==
  \/ LintFast
  \/ Dedupe
  \/ Compress
  \/ Reorder
  \/ Budget
  \/ Lint
  \/ Render
-----------------------------------------------------------------------------
TypeOK ==
  /\ pc \in ToSet(Plan) \cup {"render", "assemble", "done", "failed"}
  /\ ir \in Seq(Compiled) /\ Len(ir) = Len(source)
  /\ DOMAIN pins \subseteq Text /\ failed \in BOOLEAN /\ dead \subseteq Id
  /\ ToSet(system) \cup ToSet(user) \subseteq Ids(ir)
  /\ context.tokens \in Nat /\ ToSet(context.live) \subseteq ToSet(context.evicted)

(* Whatever the passes did to it, every text of the source reaches the       *)
(* messages: its section, or the one its section refers to, is rendered once *)
(* and holds the text or what it was compressed to.                         *)
Final(t) == IF profile = "release" /\ t # Blank THEN Output(t) ELSE t
EveryTextIsRendered ==
  pc = "assemble" =>
    \A i \in DOMAIN source : \E j, k \in DOMAIN ir :
      /\ ir[j].id = source[i].id
      /\ ir[k].id = IF ir[j].ref = None THEN ir[j].id ELSE ir[j].ref
      /\ ir[k].text = Final(source[i].text)
      /\ Cardinality({n \in DOMAIN (system \o user) : (system \o user)[n] = ir[k].id}) = 1

(* The daemon sheds no more than it must, and the right sections: the tokens  *)
(* are those of what stays; they fit, or nothing is left; with the section  *)
(* shed last they would not fit; no compiled section goes while a live one   *)
(* stays; and none goes while a less important one of its kind stays.       *)
EvictionIsFair ==
  pc = "done" =>
    LET live == context.extra
        kept == ToSet(context.included)
        gone == ToSet(context.evicted)
        room == ResolvePlan(context.target).available IN
    /\ kept \cup gone = Ids(Folded(live)) /\ kept \cap gone = {}
    /\ context.tokens = TokenSum(live, kept)
    /\ context.tokens <= room \/ kept = {}
    /\ gone # {} => TokenSum(live, kept \cup {context.evicted[Len(context.evicted)]}) > room
    /\ \A x \in gone, y \in kept :
         /\ IsLive(live, y) => IsLive(live, x)
         /\ IsLive(live, x) = IsLive(live, y) => Rank(live, x) <= Rank(live, y)

(* lint.rs:39 "evicted at every render target's budget and never reaches a   *)
(* model": a section that lint calls dead is in no context.                 *)
DeadIsDead == pc = "done" => dead \cap ToSet(context.included) = {}

(* lib.rs:169 of cybersin-backends "a system message (the first section ...)": *)
(* a prompt that says anything has something in its system message.         *)
SystemSpeaks ==
  pc = "assemble" /\ (\E i \in DOMAIN source : source[i].text # Blank) => system # <<>>

(* While a section stays in the context, so does the section that holds its  *)
(* text.                                                                    *)
TwinsKeepTheirText ==
  pc = "done" =>
    \A i \in DOMAIN ir :
      ir[i].ref # None /\ ir[i].id \in ToSet(context.included) => ir[i].ref \in ToSet(context.included)
=============================================================================
