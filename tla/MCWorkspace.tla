---------------------------- MODULE MCWorkspace ----------------------------
(* Environments for the TLC instances of Workspace. *)
EXTENDS Workspace

Alone == {{}}
Crashes == {{"crash"}}
Operators == {{"operator"}}
AllEnvironments == {{"crash"}, {"crash", "tear"}, {"operator"}, {"operator", "crash"},
                    {"crash", "orphan"}, Circumstance}
=============================================================================
