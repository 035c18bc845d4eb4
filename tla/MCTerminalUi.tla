--------------------------- MODULE MCTerminalUi ---------------------------
(* What happens in the behaviours of the TLC instances of TerminalUi. *)
EXTENDS TerminalUi

AllUses == {{"type"}, {"browse"}, {"build", "files"}}
Typing == {{"type"}}
Building == {{"build", "files"}}
Browsing == {{"browse"}}
=============================================================================
