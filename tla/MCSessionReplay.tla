-------------------------- MODULE MCSessionReplay --------------------------
(* Scripts for the TLC instances of SessionReplay. *)
EXTENDS SessionReplay

Ask(kind, name, args, key, class) ==
  [kind |-> kind, name |-> name, args |-> args, key |-> key, class |-> class]

(* A model call, a keyed write, and two calls of the same tool without a key. *)
MixedScript == <<Ask("llm", "plan", "a", 0, "read"), Ask("tool", "mail", "a", 1, "write"),
                 Ask("tool", "mail", "b", 0, "read"), Ask("tool", "mail", "c", 0, "critical")>>
(* A model call and a gated call: nothing here can stay pending for ever. *)
GatedScript == <<Ask("llm", "plan", "a", 0, "read"), Ask("gated", "pay", "a", 0, "critical")>>
AllScripts == {MixedScript, GatedScript}
(* Two different gated calls, and the same one twice. *)
TwoGated == {<<Ask("gated", "pay", "a", 0, "critical"), Ask("gated", "pay", "b", 0, "critical")>>}
SameGated == {<<Ask("gated", "pay", "a", 0, "critical"), Ask("gated", "pay", "a", 0, "critical")>>}
(* Calls without a key, of two tools. *)
Unkeyed == {<<Ask("tool", "mail", "a", 0, "write"), Ask("tool", "post", "b", 0, "write"),
                   Ask("tool", "mail", "c", 0, "write")>>}
(* One call. *)
OneGated == {GatedScript}
OneWrite == {<<Ask("tool", "mail", "a", 1, "write")>>}
OneModel == {<<Ask("llm", "plan", "a", 0, "read")>>}
=============================================================================
