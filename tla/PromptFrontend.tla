---------------------------- MODULE PromptFrontend ----------------------------
(***************************************************************************)
(* From prompt files to the sections that the passes work on: includes,     *)
(* types and templates (crates/cybersin-frontend/src), and `cybersin        *)
(* convert`, which drafts such a file with a model and repairs the draft    *)
(* (crates/cybersin-cli/src/commands/convert.rs).                           *)
(*                                                                         *)
(* A body is a text or the name of a fragment; a fragment's lines are texts *)
(* and further fragments.  What a text refers to is given with it.          *)
(***************************************************************************)
EXTENDS PromptContext

CONSTANTS
  Fragment,       \* paths that may follow !include
  Lines,          \* the fragments that exist, each with its lines
  Joined(_),      \* the text that a sequence of texts adds up to
  Refs,           \* what each text refers to: [name, how]
  Malformed,      \* texts that minijinja refuses
  Structured      \* texts that ask for structured output

ASSUME FragmentAssumption ==
  DOMAIN Lines \subseteq Fragment /\ Fragment \cap Text = {} /\ None \notin Text
ASSUME RefAssumption ==
  Refs \in [Text -> SUBSET [name : Inputs, how : {"plain", "loop", "hidden", "reserved"}]]
-----------------------------------------------------------------------------
(* include_file: a fragment that is missing, or that is being read already,  *)
(* is an error; the same fragment twice is not.                             *)
Broken == <<None>>
Include[read \in Fragment \X SUBSET Fragment] ==
  LET f == read[1]
      stack == read[2] IN
  IF f \notin DOMAIN Lines \/ f \in stack THEN Broken
  ELSE LET lines == Lines[f]
           parts == [i \in DOMAIN lines |->
             IF lines[i] \in Fragment THEN Include[<<lines[i], stack \cup {f}>>] ELSE <<lines[i]>>] IN
       IF Broken \in ToSet(parts) THEN Broken ELSE FlattenSeq(parts)
Resolve(body) == IF body \in Fragment THEN Include[<<body, {}>>] ELSE <<body>>
ASSUME JoinedAssumption ==
  /\ \A t \in Text : Joined(<<t>>) = t
  /\ \A f \in Fragment : Resolve(f) # Broken => Joined(Resolve(f)) \in Text
Resolves(file) == \A i \in DOMAIN file.sections : Resolve(file.sections[i].body) # Broken
Resolved(file) ==
  [i \in DOMAIN file.sections |->
     [id |-> file.sections[i].id, priority |-> file.sections[i].priority,
      text |-> Joined(Resolve(file.sections[i].body))]]

(* types.rs: "odd" and "integer" stand for what the grammar does not have.  *)
Types == {"string", "number", "list"}
Tier == [low |-> 1, medium |-> 2, high |-> 3]

(* extract_refs: only a bare {{ name }} and a loop's collection are seen;     *)
(* whether a bare name is a word of the template language does not matter.  *)
Seen(text) == {r \in Refs[text] : r.how # "hidden"}

(* typecheck collects every issue.                                          *)
Typed(file) == {n \in DOMAIN file.inputs : file.inputs[n] \in Types}
Issues(file) ==
  LET sections == Resolved(file)
      used == UNION {Seen(sections[i].text) : i \in DOMAIN sections}
      isList(n) == file.inputs[n] = "list" IN
  {[issue |-> "InvalidInputType", name |-> n] : n \in DOMAIN file.inputs \ Typed(file)}
  \cup {[issue |-> "UndeclaredInput", name |-> r.name] : r \in {r \in used : r.name \notin Typed(file)}}
  \cup {[issue |-> "TypeMismatch", name |-> r.name] :
          r \in {r \in used : r.name \in Typed(file) /\ isList(r.name) # (r.how = "loop")}}
  \cup {[issue |-> "UnusedInput", name |-> n] : n \in {n \in Typed(file) : \A r \in used : r.name # n}}
  \cup {[issue |-> "GroundedTier", name |-> g] :
          g \in {g \in file.grounded : g \notin DOMAIN Tier \/ Tier[g] > Tier[file.quality]}}

(* compile_prompt_source and build_ir, in their order.                      *)
CompileErrors(file) ==
  IF ~Resolves(file) THEN {"include"}
  ELSE IF file.quality \notin DOMAIN Tier THEN {"quality"}
  ELSE IF Issues(file) # {} THEN Issues(file)
  ELSE {"template" : i \in {i \in DOMAIN file.sections : Resolved(file)[i].text \in Malformed}}
Compiles(file) == CompileErrors(file) = {}
-----------------------------------------------------------------------------
(* convert: what the drafting model answered is a name that may be unsafe,   *)
(* a quality, inputs with raw types, sections, tools and a contract.        *)

NormalizedType(raw) == CASE raw = "integer" -> "number" [] raw \in Types -> raw [] OTHER -> "string"

(* A lone section without inputs or tools says what the person said.         *)
LoneSection(draft) ==
  /\ DOMAIN draft.inputs = {} /\ draft.tools = "none"
  /\ Len(draft.sections) = 1 /\ ~draft.sections[1].unmapped
DraftTexts(draft, raw) ==
  IF LoneSection(draft) THEN <<raw>>
  ELSE [i \in DOMAIN draft.sections |-> draft.sections[i].text]

(* template_input_refs sees every mention, those in a filter or a condition  *)
(* and a loop's own variable included, but for a bare {{ name }} whose name *)
(* is a word of the language: "reserved".  A name that is looped over       *)
(* anywhere is a collection.                                                *)
TemplateRefs(texts) == {r \in UNION {Refs[texts[i]] : i \in DOMAIN texts} : r.how # "reserved"}
Collections(refs) == {r.name : r \in {r \in refs : r.how = "loop"}}

(* repair_inferred_inputs: drops what no text refers to, declares what one   *)
(* does, and makes lists of what is looped over and of nothing else.  A     *)
(* second round finds nothing to change.                                    *)
Repair_KeepUnused(inputs, refs) ==
  [n \in DOMAIN inputs \cup {r.name : r \in refs} |->
     IF n \in Collections(refs) THEN "list"
     ELSE IF n \in DOMAIN inputs /\ inputs[n] # "list" THEN inputs[n] ELSE "string"]
Repair(inputs, refs) ==
  [n \in {r.name : r \in refs} |->
     IF n \in Collections(refs) THEN "list"
     ELSE IF n \in DOMAIN inputs /\ inputs[n] # "list" THEN inputs[n] ELSE "string"]

Contract(draft, raw) == IF raw \in Structured THEN draft.contract ELSE None
DraftRefused(draft, raw) == draft.sections = <<>> \/ Contract(draft, raw) = "bad" \/ ~draft.safeName

DraftFile(draft, raw) ==
  LET texts == DraftTexts(draft, raw)
      inputs == [n \in DOMAIN draft.inputs |-> NormalizedType(draft.inputs[n])] IN
  [quality |-> draft.quality, grounded |-> {}, tools |-> draft.tools,
   inputs |-> Repair(inputs, TemplateRefs(texts)),
   sections |-> [i \in DOMAIN texts |->
     [id |-> draft.sections[i].id, priority |-> draft.sections[i].priority, body |-> texts[i]]]]
=============================================================================
