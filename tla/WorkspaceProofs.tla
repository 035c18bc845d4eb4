--------------------------- MODULE WorkspaceProofs ---------------------------
(* Workspace for any number of operators, assets, calls and crashes, in any   *)
(* environment.                                                              *)
EXTENDS Workspace, FiniteSetTheorems, TLAPS

USE DEF workspace, store, local, At, Goto, Proc

(* A process that is about a call has one.                                   *)
Busy ==
  /\ \A p \in Proc : pc[p] \in {"begin", "park", "parked", "lock", "prepare", "exec",
                              "succeeded", "failed"} => call[p] # 0
  /\ pc[Daemon] \in {"row", "open", "copy"} /\ goal # "recv" => call[Daemon] # 0
Typed == TypeOK /\ Busy

(* The types hold initially,                                                 *)
LEMMA InitTypes == Init => Typed
<1>. SUFFICES ASSUME Init PROVE Typed
  OBVIOUS
<1>1. pc \in [Proc -> Label] /\ call \in [Proc -> Call \cup {0}] /\ fresh \in [Proc -> BOOLEAN]
  BY DEF Init, Label
<1>2. snapshot \in [made : BOOLEAN, files : SUBSET File, whole : BOOLEAN]
  BY DEF Init, NoSnapshot
<1>3. Busy
  BY DEF Init, Busy
<1>. QED
  <2>1. ledger \in [Call -> {"absent", "pending", "parked", "succeeded", "failed"}]
    BY DEF Init
  <2>2. calls \in 0..MaxCalls /\ crashes \in 0..MaxCrashes
    BY BoundAssumption DEF Init
  <2>. QED
    BY <1>1, <1>2, <1>3, <2>1, <2>2 DEF Init, Typed, TypeOK

(* and every step keeps them.                                                *)
LEMMA TypeStep == ASSUME Typed, [Next]_vars PROVE Typed'
<1>. USE BoundAssumption DEF Typed, Busy, TypeOK, Label, File, Call, NoSnapshot
<1>1. ASSUME ToolRequest PROVE Typed'
  <2>1. calls + 1 \in 1..MaxCalls
    BY <1>1 DEF ToolRequest
  <2>2. call' \in [Proc -> Call \cup {0}] /\ calls' \in 0..MaxCalls
    BY <1>1, <2>1 DEF ToolRequest
  <2>3. goal' \in {"recv", "begin", "park"}
    BY <1>1 DEF ToolRequest
  <2>4. pc' \in [Proc -> Label]
    BY <1>1 DEF ToolRequest
  <2>. QED
    <3>1. call'[Daemon] # 0 /\ \A p \in Proc \ {Daemon} : call'[p] = call[p] /\ pc'[p] = pc[p]
      BY <1>1, <2>1 DEF ToolRequest
    <3>2. Busy'
      BY <1>1, <3>1 DEF ToolRequest
    <3>. QED
      BY <1>1, <2>2, <2>3, <2>4, <3>2 DEF ToolRequest
<1>2. ASSUME OtherRequest PROVE Typed'
  BY <1>2 DEF OtherRequest
<1>3. ASSUME InsertRow PROVE Typed'
  BY <1>3 DEF InsertRow
<1>4. ASSUME OpenForSnapshot PROVE Typed'
  BY <1>4 DEF OpenForSnapshot
<1>5. ASSUME CopyOut PROVE Typed'
  <2>1. PICK f \in files : snapshot' = [snapshot EXCEPT !.files = snapshot.files \cup {f}]
    BY <1>5 DEF CopyOut
  <2>2. snapshot' \in [made : BOOLEAN, files : SUBSET File, whole : BOOLEAN]
    BY <2>1
  <2>. QED
    BY <1>5, <2>2 DEF CopyOut
<1>6. ASSUME CopiedOut PROVE Typed'
  BY <1>6 DEF CopiedOut
<1>7. ASSUME Begin PROVE Typed'
  BY <1>7 DEF Begin
<1>8. ASSUME Park PROVE Typed'
  BY <1>8 DEF Park
<1>9. ASSUME Unpark PROVE Typed'
  BY <1>9 DEF Unpark
<1>10. ASSUME NEW o \in Operator, Take(o) PROVE Typed'
  BY <1>10 DEF Take
<1>11. ASSUME Deny PROVE Typed'
  BY <1>11 DEF Deny
<1>12. ASSUME NEW p \in Proc, Lock(p) PROVE Typed'
  BY <1>12 DEF Lock
<1>13. ASSUME NEW p \in Proc, Prepare(p) PROVE Typed'
  <2>1. call[p] \in Call
    BY <1>13 DEF Prepare
  <2>2. files' \subseteq File /\ args' \in Call \cup {0} /\ running' \subseteq Call
    BY <1>13, <2>1 DEF Prepare
  <2>. QED
    BY <1>13, <2>2 DEF Prepare
<1>14. ASSUME ToolWrites PROVE Typed'
  BY <1>14 DEF ToolWrites
<1>15. ASSUME NEW p \in Proc, Exit(p) PROVE Typed'
  <2>1. lock' \in Proc \cup {None} /\ running' \subseteq Call /\ pc' \in [Proc -> Label]
    BY <1>15 DEF Exit
  <2>2. \A q \in Proc : call[q] # 0 \/ pc'[q] = pc[q]
    BY <1>15 DEF Exit
  <2>3. Busy'
    BY <1>15, <2>2 DEF Exit
  <2>. QED
    BY <1>15, <2>1, <2>3 DEF Exit
<1>16. ASSUME NEW p \in Proc, Resolve(p) PROVE Typed'
  BY <1>16 DEF Resolve
<1>17. ASSUME OrphanExits PROVE Typed'
  BY <1>17 DEF OrphanExits
<1>18. ASSUME NEW p \in Proc, Crash(p) PROVE Typed'
  BY <1>18 DEF Crash
<1>19. ASSUME Resume PROVE Typed'
  BY <1>19 DEF Resume
<1>20. ASSUME ClearOne PROVE Typed'
  BY <1>20 DEF ClearOne
<1>21. ASSUME Cleared PROVE Typed'
  BY <1>21 DEF Cleared
<1>22. ASSUME CopyIn PROVE Typed'
  BY <1>22 DEF CopyIn
<1>23. ASSUME CopiedIn PROVE Typed'
  BY <1>23 DEF CopiedIn
<1>24. CASE UNCHANGED vars
  BY <1>24 DEF vars
<1>. QED
  BY <1>1, <1>2, <1>3, <1>4, <1>5, <1>6, <1>7, <1>8, <1>9, <1>10, <1>11, <1>12, <1>13, <1>14, <1>15, <1>16, <1>17, <1>18, <1>19, <1>20, <1>21, <1>22, <1>23, <1>24
     DEF Next, Checkpointing, Restoring, Executing

(* The workspace's state keeps its type, whatever happens to it.              *)
THEOREM WorkspaceTypes == Spec => []TypeOK
<1>1. Typed => TypeOK
  BY DEF Typed
<1>. QED
  BY <1>1, InitTypes, TypeStep, PTL DEF Spec

-----------------------------------------------------------------------------
(* Who may be in the workspace.                                              *)

(* The process between the lock and the end of its container holds the lock.  *)
LockIsHeld == \A p \in Proc : pc[p] \in {"prepare", "exec"} => lock = p

(* A container runs for the process that waits for it.                       *)
RunsAreAwaited ==
  "orphan" \notin env => \A c \in running : \E p \in Proc : At(p, "exec") /\ call[p] = c

(* Operators are at work, and the daemon restores, only where that can happen. *)
OperatorsAreAsked == "operator" \notin env => \A o \in Operator : At(o, "idle")
Undisturbed == env \cap {"crash", "tear", "orphan"} = {}
DaemonIsUp == Undisturbed => pc[Daemon] \notin {"down", "clear", "fill"}

(* The arguments in the workspace are those of the tool that runs.           *)
Sheltered ==
  "orphan" \notin env /\ ("operator" \notin env \/ env \cap {"crash", "tear"} = {})
ArgumentsAreOwn == Sheltered => \A p \in Proc : At(p, "exec") => args = call[p]

Alone ==
  Typed /\ LockIsHeld /\ RunsAreAwaited /\ OperatorsAreAsked /\ DaemonIsUp /\ ArgumentsAreOwn

(* They hold initially,                                                      *)
LEMMA InitAlone == Init => Alone
<1>. SUFFICES ASSUME Init PROVE Alone
  OBVIOUS
<1>1. \A p \in Proc : pc[p] \in {"recv", "idle"}
  BY DEF Init
<1>2. \A o \in Operator : At(o, "idle")
  BY NameAssumption DEF Init
<1>3. pc[Daemon] = "recv"
  BY DEF Init
<1>. QED
  BY <1>1, <1>2, <1>3, InitTypes
     DEF Init, Alone, LockIsHeld, RunsAreAwaited, OperatorsAreAsked, DaemonIsUp, ArgumentsAreOwn

(* and every step keeps them.                                                *)
LEMMA AloneStep == ASSUME Alone, [Next]_vars PROVE Alone'
<1>0. Typed'
  BY TypeStep DEF Alone
<1>. USE NameAssumption, <1>0 DEF Alone, Typed, TypeOK
<1>1. ASSUME ToolRequest PROVE Alone'
  <2>1. LockIsHeld'
    BY <1>1 DEF ToolRequest, LockIsHeld
  <2>2. RunsAreAwaited'
    BY <1>1 DEF ToolRequest, RunsAreAwaited, LockIsHeld
  <2>3. OperatorsAreAsked'
    BY <1>1 DEF ToolRequest, OperatorsAreAsked
  <2>4. DaemonIsUp'
    BY <1>1 DEF ToolRequest, DaemonIsUp, Undisturbed, MayDie
  <2>5. ArgumentsAreOwn'
    BY <1>1 DEF ToolRequest, ArgumentsAreOwn, Sheltered, LockIsHeld, OperatorsAreAsked, DaemonIsUp,
       Undisturbed
  <2>. QED
    BY <2>1, <2>2, <2>3, <2>4, <2>5
<1>2. ASSUME OtherRequest PROVE Alone'
  BY <1>2
     DEF OtherRequest, LockIsHeld, RunsAreAwaited, OperatorsAreAsked, DaemonIsUp, Undisturbed,
         ArgumentsAreOwn, Sheltered
<1>3. ASSUME InsertRow PROVE Alone'
  BY <1>3
     DEF InsertRow, LockIsHeld, RunsAreAwaited, OperatorsAreAsked, DaemonIsUp, Undisturbed,
         ArgumentsAreOwn, Sheltered
<1>4. ASSUME OpenForSnapshot PROVE Alone'
  BY <1>4
     DEF OpenForSnapshot, LockIsHeld, RunsAreAwaited, OperatorsAreAsked, DaemonIsUp, Undisturbed,
         ArgumentsAreOwn, Sheltered
<1>5. ASSUME CopyOut PROVE Alone'
  BY <1>5
     DEF CopyOut, LockIsHeld, RunsAreAwaited, OperatorsAreAsked, DaemonIsUp, Undisturbed,
         ArgumentsAreOwn, Sheltered
<1>6. ASSUME CopiedOut PROVE Alone'
  BY <1>6
     DEF CopiedOut, LockIsHeld, RunsAreAwaited, OperatorsAreAsked, DaemonIsUp, Undisturbed,
         ArgumentsAreOwn, Sheltered
<1>7. ASSUME Begin PROVE Alone'
  BY <1>7
     DEF Begin, LockIsHeld, RunsAreAwaited, OperatorsAreAsked, DaemonIsUp, Undisturbed,
         ArgumentsAreOwn, Sheltered
<1>8. ASSUME Park PROVE Alone'
  BY <1>8
     DEF Park, LockIsHeld, RunsAreAwaited, OperatorsAreAsked, DaemonIsUp, Undisturbed,
         ArgumentsAreOwn, Sheltered
<1>9. ASSUME Unpark PROVE Alone'
  BY <1>9
     DEF Unpark, LockIsHeld, RunsAreAwaited, OperatorsAreAsked, DaemonIsUp, Undisturbed,
         ArgumentsAreOwn, Sheltered
<1>10. ASSUME NEW o \in Operator, Take(o) PROVE Alone'
  <2>1. LockIsHeld'
    BY <1>10 DEF Take, LockIsHeld
  <2>2. RunsAreAwaited'
    BY <1>10 DEF Take, RunsAreAwaited, LockIsHeld
  <2>3. OperatorsAreAsked'
    BY <1>10 DEF Take, OperatorsAreAsked
  <2>4. DaemonIsUp'
    BY <1>10 DEF Take, DaemonIsUp, Undisturbed, MayDie
  <2>5. ArgumentsAreOwn'
    BY <1>10 DEF Take, ArgumentsAreOwn, Sheltered, LockIsHeld, OperatorsAreAsked, DaemonIsUp,
       Undisturbed
  <2>. QED
    BY <2>1, <2>2, <2>3, <2>4, <2>5
<1>11. ASSUME Deny PROVE Alone'
  BY <1>11
     DEF Deny, LockIsHeld, RunsAreAwaited, OperatorsAreAsked, DaemonIsUp, Undisturbed,
         ArgumentsAreOwn, Sheltered
<1>12. ASSUME NEW p \in Proc, Lock(p) PROVE Alone'
  <2>1. LockIsHeld'
    BY <1>12 DEF Lock, LockIsHeld
  <2>2. RunsAreAwaited'
    BY <1>12 DEF Lock, RunsAreAwaited, LockIsHeld
  <2>3. OperatorsAreAsked'
    BY <1>12 DEF Lock, OperatorsAreAsked
  <2>4. DaemonIsUp'
    BY <1>12 DEF Lock, DaemonIsUp, Undisturbed, MayDie
  <2>5. ArgumentsAreOwn'
    BY <1>12 DEF Lock, ArgumentsAreOwn, Sheltered, LockIsHeld, OperatorsAreAsked, DaemonIsUp,
       Undisturbed
  <2>. QED
    BY <2>1, <2>2, <2>3, <2>4, <2>5
<1>13. ASSUME NEW p \in Proc, Prepare(p) PROVE Alone'
  <2>1. LockIsHeld'
    BY <1>13 DEF Prepare, LockIsHeld
  <2>2. RunsAreAwaited'
    BY <1>13 DEF Prepare, RunsAreAwaited, LockIsHeld
  <2>3. OperatorsAreAsked'
    BY <1>13 DEF Prepare, OperatorsAreAsked
  <2>4. DaemonIsUp'
    BY <1>13 DEF Prepare, DaemonIsUp, Undisturbed, MayDie
  <2>5. ArgumentsAreOwn'
    BY <1>13 DEF Prepare, ArgumentsAreOwn, Sheltered, LockIsHeld, OperatorsAreAsked, DaemonIsUp,
       Undisturbed
  <2>. QED
    BY <2>1, <2>2, <2>3, <2>4, <2>5
<1>14. ASSUME ToolWrites PROVE Alone'
  BY <1>14
     DEF ToolWrites, LockIsHeld, RunsAreAwaited, OperatorsAreAsked, DaemonIsUp, Undisturbed,
         ArgumentsAreOwn, Sheltered
<1>15. ASSUME NEW p \in Proc, Exit(p) PROVE Alone'
  <2>1. LockIsHeld'
    BY <1>15 DEF Exit, LockIsHeld
  <2>2. RunsAreAwaited'
    BY <1>15 DEF Exit, RunsAreAwaited, LockIsHeld
  <2>3. OperatorsAreAsked'
    BY <1>15 DEF Exit, OperatorsAreAsked
  <2>4. DaemonIsUp'
    BY <1>15 DEF Exit, DaemonIsUp, Undisturbed, MayDie
  <2>5. ArgumentsAreOwn'
    BY <1>15 DEF Exit, ArgumentsAreOwn, Sheltered, LockIsHeld, OperatorsAreAsked, DaemonIsUp,
       Undisturbed
  <2>. QED
    BY <2>1, <2>2, <2>3, <2>4, <2>5
<1>16. ASSUME NEW p \in Proc, Resolve(p) PROVE Alone'
  <2>1. LockIsHeld'
    BY <1>16 DEF Resolve, LockIsHeld
  <2>2. RunsAreAwaited'
    BY <1>16 DEF Resolve, RunsAreAwaited, LockIsHeld
  <2>3. OperatorsAreAsked'
    BY <1>16 DEF Resolve, OperatorsAreAsked
  <2>4. DaemonIsUp'
    BY <1>16 DEF Resolve, DaemonIsUp, Undisturbed, MayDie
  <2>5. ArgumentsAreOwn'
    BY <1>16 DEF Resolve, ArgumentsAreOwn, Sheltered, LockIsHeld, OperatorsAreAsked, DaemonIsUp,
       Undisturbed
  <2>. QED
    BY <2>1, <2>2, <2>3, <2>4, <2>5
<1>17. ASSUME OrphanExits PROVE Alone'
  <2>1. LockIsHeld'
    BY <1>17 DEF OrphanExits, LockIsHeld
  <2>2. RunsAreAwaited'
    BY <1>17 DEF OrphanExits, RunsAreAwaited, LockIsHeld
  <2>3. OperatorsAreAsked'
    BY <1>17 DEF OrphanExits, OperatorsAreAsked
  <2>4. DaemonIsUp'
    BY <1>17 DEF OrphanExits, DaemonIsUp, Undisturbed, MayDie
  <2>5. ArgumentsAreOwn'
    BY <1>17 DEF OrphanExits, ArgumentsAreOwn, Sheltered, LockIsHeld, OperatorsAreAsked, DaemonIsUp,
       Undisturbed
  <2>. QED
    BY <2>1, <2>2, <2>3, <2>4, <2>5
<1>18. ASSUME NEW p \in Proc, Crash(p) PROVE Alone'
  <2>1. LockIsHeld'
    BY <1>18 DEF Crash, LockIsHeld
  <2>2. RunsAreAwaited'
    <3>1. "orphan" \notin env => ~At(p, "exec")
      BY <1>18 DEF Crash, MayDie
    <3>2. \A q \in Proc : At(q, "exec") /\ q # p => At(q, "exec")' /\ call'[q] = call[q]
      BY <1>18 DEF Crash
    <3>. QED
      BY <1>18, <3>1, <3>2 DEF Crash, RunsAreAwaited
  <2>3. OperatorsAreAsked'
    BY <1>18 DEF Crash, OperatorsAreAsked
  <2>4. DaemonIsUp'
    BY <1>18 DEF Crash, DaemonIsUp, Undisturbed, MayDie
  <2>5. ArgumentsAreOwn'
    BY <1>18 DEF Crash, ArgumentsAreOwn, Sheltered, LockIsHeld, OperatorsAreAsked, DaemonIsUp,
       Undisturbed
  <2>. QED
    BY <2>1, <2>2, <2>3, <2>4, <2>5
<1>19. ASSUME Resume PROVE Alone'
  BY <1>19
     DEF Resume, LockIsHeld, RunsAreAwaited, OperatorsAreAsked, DaemonIsUp, Undisturbed,
         ArgumentsAreOwn, Sheltered
<1>20. ASSUME ClearOne PROVE Alone'
  <2>1. LockIsHeld'
    BY <1>20 DEF ClearOne, LockIsHeld
  <2>2. RunsAreAwaited'
    BY <1>20 DEF ClearOne, RunsAreAwaited, LockIsHeld
  <2>3. OperatorsAreAsked'
    BY <1>20 DEF ClearOne, OperatorsAreAsked
  <2>4. DaemonIsUp'
    BY <1>20 DEF ClearOne, DaemonIsUp, Undisturbed, MayDie
  <2>5. ArgumentsAreOwn'
    BY <1>20 DEF ClearOne, ArgumentsAreOwn, Sheltered, LockIsHeld, OperatorsAreAsked, DaemonIsUp,
       Undisturbed
  <2>. QED
    BY <2>1, <2>2, <2>3, <2>4, <2>5
<1>21. ASSUME Cleared PROVE Alone'
  BY <1>21
     DEF Cleared, LockIsHeld, RunsAreAwaited, OperatorsAreAsked, DaemonIsUp, Undisturbed,
         ArgumentsAreOwn, Sheltered
<1>22. ASSUME CopyIn PROVE Alone'
  BY <1>22
     DEF CopyIn, LockIsHeld, RunsAreAwaited, OperatorsAreAsked, DaemonIsUp, Undisturbed,
         ArgumentsAreOwn, Sheltered
<1>23. ASSUME CopiedIn PROVE Alone'
  BY <1>23
     DEF CopiedIn, LockIsHeld, RunsAreAwaited, OperatorsAreAsked, DaemonIsUp, Undisturbed,
         ArgumentsAreOwn, Sheltered
<1>24. CASE UNCHANGED vars
  BY <1>24
     DEF vars, LockIsHeld, RunsAreAwaited, OperatorsAreAsked, DaemonIsUp, Undisturbed,
         ArgumentsAreOwn, Sheltered
<1>. QED
  BY <1>1, <1>2, <1>3, <1>4, <1>5, <1>6, <1>7, <1>8, <1>9, <1>10, <1>11, <1>12, <1>13, <1>14, <1>15, <1>16, <1>17, <1>18, <1>19, <1>20, <1>21, <1>22, <1>23, <1>24
     DEF Next, Checkpointing, Restoring, Executing

(* At most one tool runs in the session's workspace, and while nobody who     *)
(* restores it dies beside an operator's tool, with its own arguments.       *)
THEOREM ToolsRunAlone == Spec => []ToolsAreAlone
<1>1. ASSUME Alone PROVE ToolsAreAlone
  <2>. SUFFICES ASSUME "orphan" \notin env
       PROVE  /\ Cardinality(running) <= 1
              /\ "operator" \notin env \/ env \cap {"crash", "tear"} = {} => running \subseteq {args}
    BY DEF ToolsAreAlone
  <2>1. \A c \in running : lock \in Proc /\ At(lock, "exec") /\ c = call[lock]
    BY <1>1 DEF Alone, LockIsHeld, RunsAreAwaited
  <2>2. running \subseteq {call[lock]}
    BY <2>1
  <2>3. Cardinality(running) <= 1
    <3>1. IsFiniteSet({call[lock]}) /\ Cardinality({call[lock]}) = 1
      BY FS_Singleton
    <3>. QED
      BY <2>2, <3>1, FS_Subset
  <2>4. ASSUME "operator" \notin env \/ env \cap {"crash", "tear"} = {} PROVE running \subseteq {args}
    BY <1>1, <2>1, <2>4 DEF Alone, ArgumentsAreOwn, Sheltered
  <2>. QED
    BY <2>3, <2>4
<1>. QED
  BY <1>1, InitAlone, AloneStep, PTL DEF Spec

-----------------------------------------------------------------------------
(* What a restore puts back.                                                 *)

(* Nobody but the daemon is in the workspace, and no container outlives it.  *)
Quiet == env \cap {"operator", "orphan"} = {}

(* The workspace does not change between a checkpoint's row and the end of   *)
(* its copy; a restore holds nothing but what the snapshot has.              *)
Paired ==
  /\ pc[Daemon] \in {"open", "copy"} =>
       files = taken /\ ~snapshot.whole /\ snapshot.files \subseteq files
  /\ snapshot.whole => snapshot.files = taken
  /\ pc[Daemon] = "fill" => files \subseteq snapshot.files
Restorable == Alone /\ (Quiet => Paired)

LEMMA InitRestorable == Init => Restorable
<1>1. Init => Paired
  BY DEF Init, Paired, NoSnapshot
<1>. QED
  BY <1>1, InitAlone DEF Restorable

(* In a quiet workspace a tool runs for the daemon only.                     *)
LEMMA QuietRuns ==
  ASSUME Alone, Quiet
  PROVE  /\ \A o \in Operator : pc[o] = "idle"
         /\ pc[Daemon] # "exec" => running = {}
<1>1. \A o \in Operator : pc[o] = "idle"
  BY DEF Alone, Quiet, OperatorsAreAsked
<1>2. \A c \in running : \E p \in Proc : pc[p] = "exec"
  BY DEF Alone, Quiet, RunsAreAwaited
<1>. QED
  BY <1>1, <1>2

LEMMA RestorableStep == ASSUME Restorable, [Next]_vars PROVE Restorable'
<1>. SUFFICES ASSUME Quiet PROVE Paired'
  <2>1. Alone'
    BY AloneStep DEF Restorable
  <2>2. Quiet' <=> Quiet
    BY DEF Quiet, Next, ToolRequest, OtherRequest, Begin, Park, Unpark, Deny, Checkpointing,
           InsertRow, OpenForSnapshot, CopyOut, CopiedOut, Restoring, Resume, ClearOne, Cleared,
           CopyIn, CopiedIn, ToolWrites, OrphanExits, Take, Executing, Lock, Prepare, Exit,
           Resolve, Crash, vars
  <2>. QED
    BY <2>1, <2>2 DEF Restorable
<1>0. /\ \A o \in Operator : pc[o] = "idle"
      /\ pc[Daemon] # "exec" => running = {}
      /\ pc \in [Proc -> Label] /\ Paired
      /\ snapshot \in [made : BOOLEAN, files : SUBSET File, whole : BOOLEAN]
  BY QuietRuns DEF Restorable, Alone, Typed, TypeOK
<1>. USE <1>0 DEF Paired
<1>1. CASE ToolRequest
  BY <1>1 DEF ToolRequest, Label
<1>2. CASE OtherRequest \/ Begin \/ Park \/ Unpark
  BY <1>2 DEF OtherRequest, Begin, Park, Unpark
<1>3. CASE InsertRow
  BY <1>3 DEF InsertRow, NoSnapshot
<1>4. CASE OpenForSnapshot
  BY <1>4 DEF OpenForSnapshot
<1>11. CASE CopiedOut
  <2>1. snapshot' = [snapshot EXCEPT !.whole = TRUE] /\ pc'[Daemon] = goal
    BY <1>11 DEF CopiedOut
  <2>2. snapshot'.files = snapshot.files
    BY <2>1
  <2>3. files = taken /\ files = snapshot.files /\ files' = files /\ taken' = taken
    BY <1>11 DEF CopiedOut
  <2>4. goal \in {"recv", "begin", "park"}
    BY DEF Restorable, Alone, Typed, TypeOK
  <2>. QED
    BY <2>1, <2>2, <2>3, <2>4
<1>5. CASE CopyOut
  BY <1>5 DEF CopyOut
<1>6. CASE Restoring
  <2>1. CASE Resume \/ Cleared \/ CopiedIn
    BY <2>1 DEF Resume, Cleared, CopiedIn
  <2>2. CASE ClearOne
    BY <2>2 DEF ClearOne
  <2>3. CASE CopyIn
    BY <2>3 DEF CopyIn
  <2>. QED
    BY <1>6, <2>1, <2>2, <2>3 DEF Restoring
<1>7. CASE ToolWrites \/ OrphanExits \/ Deny
  BY <1>7 DEF ToolWrites, OrphanExits, Deny
<1>8. ASSUME NEW o \in Operator, Take(o) PROVE Paired'
  BY <1>8 DEF Take, Quiet
<1>9. ASSUME NEW p \in Proc, Executing(p) \/ Crash(p) PROVE Paired'
  <2>1. p = Daemon
    BY <1>9 DEF Executing, Lock, Prepare, Exit, Resolve, Crash
  <2>2. CASE Lock(p) \/ Prepare(p) \/ Exit(p) \/ Resolve(p)
    BY <2>1, <2>2 DEF Lock, Prepare, Exit, Resolve
  <2>3. CASE Crash(p)
    BY <2>1, <2>3 DEF Crash
  <2>. QED
    BY <1>9, <2>2, <2>3 DEF Executing
<1>10. CASE UNCHANGED vars
  BY <1>10 DEF vars
<1>. QED
  BY <1>1, <1>2, <1>3, <1>4, <1>5, <1>6, <1>7, <1>8, <1>9, <1>10, <1>11 DEF Next, Checkpointing

(* session.rs resume_with_payload and workspace.rs restore: a daemon that is  *)
(* resumed serves from the workspace its latest checkpoint was taken of, or   *)
(* from what of it was copied before the daemon died, and from nothing else.  *)
THEOREM ResumeRestoresSnapshot == Spec => ResumeRestores
<1>. DEFINE Restores ==
       At(Daemon, "fill") /\ At(Daemon, "recv")' /\ env \cap {"operator", "orphan"} = {}
         => files' = IF snapshot.whole THEN taken ELSE snapshot.files
<1>1. ASSUME Restorable, [Next]_vars PROVE [Restores]_vars
  <2>. SUFFICES ASSUME At(Daemon, "fill"), At(Daemon, "recv")', Quiet
                PROVE  files' = IF snapshot.whole THEN taken ELSE snapshot.files
    BY DEF Quiet
  <2>0. /\ Paired /\ pc \in [Proc -> Label] /\ \A o \in Operator : pc[o] = "idle"
    BY <1>1, QuietRuns DEF Restorable, Alone, Typed, TypeOK
  <2>1. CopiedIn
    BY <1>1, <2>0
       DEF Next, ToolRequest, OtherRequest, Begin, Park, Unpark, Deny, Checkpointing,
           InsertRow, OpenForSnapshot, CopyOut, CopiedOut, Restoring, Resume, ClearOne, Cleared,
           CopyIn, ToolWrites, OrphanExits, Take, Executing, Lock, Prepare, Exit,
           Resolve, Crash, vars
  <2>. QED
    BY <2>0, <2>1 DEF Paired, CopiedIn
<1>. QED
  BY <1>1, InitRestorable, RestorableStep, PTL DEF Spec, ResumeRestores

-----------------------------------------------------------------------------
(* What crashes take away.                                                   *)

(* The environment is crashes, or nothing.                                   *)
CrashesOnly == env \subseteq {"crash"}
Unsaved == {c \in Call : ledger[c] = "succeeded" /\ c \notin snapshot.files}

(* What the workspace lost is what some snapshot had not: one call for each   *)
(* crash, and the call that was answered since the last checkpoint before    *)
(* the next is taken.                                                        *)
Bounded ==
  /\ pc[Daemon] \notin {"down", "clear", "fill"} => Cardinality(Lost) <= crashes
  /\ pc[Daemon] \notin {"row", "open", "copy"} => Cardinality(Unsaved) <= crashes
  /\ pc[Daemon] = "row" => Cardinality(Unsaved) <= crashes + 1
  /\ pc[Daemon] = "succeeded" => call[Daemon] \in files
Kept == Restorable /\ (CrashesOnly => Bounded)

LEMMA CallSets ==
  /\ \A S \in SUBSET Call : IsFiniteSet(S) /\ Cardinality(S) \in Nat
  /\ \A S, T \in SUBSET Call : S \subseteq T => Cardinality(S) <= Cardinality(T)
  /\ \A S, T \in SUBSET Call : \A c \in Call :
       S \subseteq T \cup {c} => Cardinality(S) <= Cardinality(T) + 1
<1>1. IsFiniteSet(Call)
  BY BoundAssumption, FS_Interval DEF Call
<1>2. \A S \in SUBSET Call : IsFiniteSet(S) /\ Cardinality(S) \in Nat
  BY <1>1, FS_Subset, FS_CardinalityType
<1>3. \A S, T \in SUBSET Call : S \subseteq T => Cardinality(S) <= Cardinality(T)
  BY <1>2, FS_Subset
<1>4. ASSUME NEW S \in SUBSET Call, NEW T \in SUBSET Call, NEW c \in Call, S \subseteq T \cup {c}
      PROVE  Cardinality(S) <= Cardinality(T) + 1
  <2>1. T \cup {c} \in SUBSET Call
    OBVIOUS
  <2>2. Cardinality(S) <= Cardinality(T \cup {c})
    BY <1>3, <1>4, <2>1
  <2>3. Cardinality(T \cup {c}) = Cardinality(T) \/ Cardinality(T \cup {c}) = Cardinality(T) + 1
    BY <1>2, FS_AddElement
  <2>. DEFINE a == Cardinality(S)
              b == Cardinality(T)
              d == Cardinality(T \cup {c})
  <2>4. a \in Nat /\ b \in Nat /\ a <= d /\ (d = b \/ d = b + 1)
    BY <1>2, <2>2, <2>3
  <2>. HIDE DEF a, b, d
  <2>5. a <= b + 1
    BY <2>4
  <2>. QED
    BY <2>5 DEF a, b
<1>. QED
  BY <1>2, <1>3, <1>4

LEMMA InitKept == Init => Kept
<1>1. ASSUME Init PROVE Bounded
  <2>1. Lost = {} /\ Unsaved = {} /\ crashes = 0 /\ pc[Daemon] = "recv"
    BY <1>1 DEF Init, Lost, Unsaved
  <2>. QED
    BY <2>1, FS_EmptySet DEF Bounded
<1>. QED
  BY <1>1, InitRestorable DEF Kept

LEMMA KeptStep == ASSUME Kept, [Next]_vars PROVE Kept'
<1>. SUFFICES ASSUME CrashesOnly PROVE Bounded'
  <2>1. Restorable'
    BY RestorableStep DEF Kept
  <2>2. CrashesOnly' <=> CrashesOnly
    BY DEF CrashesOnly, Next, ToolRequest, OtherRequest, Begin, Park, Unpark, Deny, Checkpointing,
           InsertRow, OpenForSnapshot, CopyOut, CopiedOut, Restoring, Resume, ClearOne, Cleared,
           CopyIn, CopiedIn, ToolWrites, OrphanExits, Take, Executing, Lock, Prepare, Exit,
           Resolve, Crash, vars
  <2>. QED
    BY <2>1, <2>2 DEF Kept
<1>0. /\ \A o \in Operator : pc[o] = "idle"
      /\ pc[Daemon] # "exec" => running = {}
      /\ pc \in [Proc -> Label] /\ call \in [Proc -> Call \cup {0}]
      /\ ledger \in [Call -> {"absent", "pending", "parked", "succeeded", "failed"}]
      /\ snapshot \in [made : BOOLEAN, files : SUBSET File, whole : BOOLEAN]
      /\ Busy /\ Bounded /\ Daemon \in Proc
      /\ "operator" \notin env /\ "orphan" \notin env /\ "tear" \notin env
  <2>1. "operator" \notin env /\ "orphan" \notin env /\ "tear" \notin env
    BY DEF CrashesOnly
  <2>2. Alone /\ Quiet
    BY <2>1 DEF Kept, Restorable, Quiet
  <2>. QED
    BY <2>1, <2>2, QuietRuns DEF Kept, Alone, Typed, TypeOK
<1>a. Lost \in SUBSET Call /\ Lost' \in SUBSET Call /\ Unsaved \in SUBSET Call /\ Unsaved' \in SUBSET Call
      /\ crashes \in Nat /\ crashes' \in Nat
  <2>1. crashes \in 0..MaxCrashes /\ crashes' \in 0..MaxCrashes
    BY AloneStep DEF Kept, Restorable, Alone, Typed, TypeOK
  <2>. QED
    BY <2>1, BoundAssumption DEF Lost, Unsaved, Call
<1>b. /\ Cardinality(Lost) \in Nat /\ Cardinality(Lost') \in Nat
      /\ Cardinality(Unsaved) \in Nat /\ Cardinality(Unsaved') \in Nat
      /\ Lost' \subseteq Lost => Cardinality(Lost') <= Cardinality(Lost)
      /\ Unsaved' \subseteq Unsaved => Cardinality(Unsaved') <= Cardinality(Unsaved)
      /\ Unsaved' \subseteq Lost => Cardinality(Unsaved') <= Cardinality(Lost)
      /\ Lost' \subseteq Unsaved => Cardinality(Lost') <= Cardinality(Unsaved)
      /\ \A c \in Call : Unsaved' \subseteq Unsaved \cup {c} =>
           Cardinality(Unsaved') <= Cardinality(Unsaved) + 1
  BY <1>a, CallSets
(* Steps that undo nothing and answer nothing.                                *)
<1>c. ASSUME Lost' \subseteq Lost, Unsaved' \subseteq Unsaved, crashes' = crashes,
             pc[Daemon] \in {"down", "clear", "fill"} => pc'[Daemon] \in {"down", "clear", "fill"},
             pc[Daemon] \in {"row", "open", "copy"} => pc'[Daemon] \in {"row", "open", "copy"},
             pc[Daemon] \in {"open", "copy"} => pc'[Daemon] # "row",
             pc'[Daemon] = "succeeded" => call'[Daemon] \in files'
      PROVE  Bounded'
  BY <1>0, <1>a, <1>b, <1>c DEF Bounded
<1>1. CASE ToolRequest \/ OtherRequest
  <2>1. Lost' = Lost /\ Unsaved' = Unsaved /\ crashes' = crashes /\ pc'[Daemon] \in {"row", "begin", "park"}
        /\ pc[Daemon] = "recv"
    BY <1>0, <1>1 DEF ToolRequest, OtherRequest, Lost, Unsaved
  <2>. QED
    BY <1>c, <2>1
<1>2. CASE Begin
  <2>1. call[Daemon] \in Call /\ ledger' = [ledger EXCEPT ![call[Daemon]] = "pending"]
        /\ files' = files /\ snapshot' = snapshot /\ crashes' = crashes
        /\ pc[Daemon] = "begin" /\ pc'[Daemon] = "lock"
    BY <1>0, <1>2 DEF Begin, Busy
  <2>2. Lost' \subseteq Lost /\ Unsaved' \subseteq Unsaved
    BY <1>0, <2>1 DEF Lost, Unsaved
  <2>. QED
    BY <1>c, <2>1, <2>2
<1>3. CASE Park
  <2>1. call[Daemon] \in Call /\ ledger' = [ledger EXCEPT ![call[Daemon]] = "parked"]
        /\ files' = files /\ snapshot' = snapshot /\ crashes' = crashes
        /\ pc[Daemon] = "park" /\ pc'[Daemon] = "parked"
    BY <1>0, <1>3 DEF Park, Busy
  <2>2. Lost' \subseteq Lost /\ Unsaved' \subseteq Unsaved
    BY <1>0, <2>1 DEF Lost, Unsaved
  <2>. QED
    BY <1>c, <2>1, <2>2
<1>4. CASE Unpark
  <2>1. Lost' = Lost /\ Unsaved' = Unsaved /\ crashes' = crashes /\ pc'[Daemon] = "recv"
        /\ pc[Daemon] = "parked"
    BY <1>0, <1>4 DEF Unpark, Lost, Unsaved
  <2>. QED
    BY <1>c, <2>1
<1>5. CASE Deny
  <2>1. PICK c \in Call : ledger[c] = "parked" /\ ledger' = [ledger EXCEPT ![c] = "failed"]
    BY <1>5 DEF Deny
  <2>2. files' = files /\ snapshot' = snapshot /\ crashes' = crashes /\ pc' = pc /\ call' = call
    BY <1>5 DEF Deny
  <2>3. Lost' \subseteq Lost /\ Unsaved' \subseteq Unsaved
    BY <1>0, <2>1, <2>2 DEF Lost, Unsaved
  <2>. QED
    BY <1>0, <1>c, <2>2, <2>3 DEF Bounded
<1>6. CASE InsertRow
  <2>1. Lost' = Lost /\ crashes' = crashes /\ pc[Daemon] = "row" /\ pc'[Daemon] = "open"
    BY <1>0, <1>6 DEF InsertRow, Lost
  <2>. QED
    BY <1>0, <2>1 DEF Bounded
<1>7. CASE OpenForSnapshot \/ CopyOut
  <2>1. Lost' = Lost /\ crashes' = crashes /\ pc[Daemon] \in {"open", "copy"} /\ pc'[Daemon] = "copy"
    BY <1>0, <1>7 DEF OpenForSnapshot, CopyOut, Lost
  <2>. QED
    BY <1>0, <2>1 DEF Bounded
<1>8. CASE CopiedOut
  <2>1. snapshot' = [snapshot EXCEPT !.whole = TRUE] /\ ledger' = ledger /\ files' = files
        /\ crashes' = crashes /\ pc[Daemon] = "copy" /\ pc'[Daemon] = goal
        /\ files \subseteq snapshot.files
    BY <1>0, <1>8 DEF CopiedOut
  <2>2. snapshot'.files = snapshot.files
    BY <1>0, <2>1
  <2>3. goal \in {"recv", "begin", "park"}
    BY DEF Kept, Restorable, Alone, Typed, TypeOK
  <2>4. Lost' = Lost /\ Unsaved' \subseteq Lost
    BY <2>1, <2>2 DEF Lost, Unsaved
  <2>. QED
    BY <1>0, <1>a, <1>b, <2>1, <2>3, <2>4 DEF Bounded
<1>9. CASE Resume \/ ClearOne \/ Cleared \/ CopyIn
  <2>1. Unsaved' = Unsaved /\ crashes' = crashes /\ pc[Daemon] \in {"down", "clear", "fill"}
        /\ pc'[Daemon] \in {"clear", "fill"}
    BY <1>0, <1>9 DEF Resume, ClearOne, Cleared, CopyIn, Unsaved
  <2>. QED
    BY <1>0, <2>1 DEF Bounded
<1>10. CASE CopiedIn
  <2>1. Unsaved' = Unsaved /\ crashes' = crashes /\ pc[Daemon] = "fill" /\ pc'[Daemon] = "recv"
        /\ Lost' \subseteq Unsaved
    BY <1>0, <1>10 DEF CopiedIn, Lost, Unsaved
  <2>. QED
    BY <1>0, <1>a, <1>b, <2>1 DEF Bounded
<1>11. CASE ToolWrites
  <2>1. pc[Daemon] = "exec" /\ pc' = pc /\ crashes' = crashes
        /\ Lost' \subseteq Lost /\ Unsaved' = Unsaved
    BY <1>0, <1>11 DEF ToolWrites, Lost, Unsaved
  <2>. QED
    BY <1>c, <2>1
<1>12. CASE OrphanExits
  <2>1. pc[Daemon] = "exec" /\ pc' = pc /\ crashes' = crashes /\ Lost' = Lost /\ Unsaved' = Unsaved
    BY <1>0, <1>12 DEF OrphanExits, Lost, Unsaved
  <2>. QED
    BY <1>c, <2>1
<1>13. ASSUME NEW o \in Operator, Take(o) PROVE Bounded'
  BY <1>0, <1>13 DEF Take
<1>14. ASSUME NEW p \in Proc, Executing(p) \/ Crash(p) PROVE Bounded'
  <2>1. p = Daemon
    BY <1>0, <1>14 DEF Executing, Lock, Prepare, Exit, Resolve, Crash
  <2>2. CASE Lock(p) \/ Prepare(p)
    <3>1. Lost' \subseteq Lost /\ Unsaved' = Unsaved /\ crashes' = crashes
          /\ pc[Daemon] \in {"lock", "prepare"} /\ pc'[Daemon] \in {"prepare", "exec"}
      BY <1>0, <2>1, <2>2 DEF Lock, Prepare, Lost, Unsaved
    <3>. QED
      BY <1>c, <3>1
  <2>3. CASE Exit(p)
    <3>1. Lost' = Lost /\ Unsaved' = Unsaved /\ crashes' = crashes /\ files' = files /\ call' = call
          /\ pc[Daemon] = "exec" /\ pc'[Daemon] \in {"succeeded", "failed", "lock"}
          /\ (pc'[Daemon] = "succeeded" => call[Daemon] \in files)
      BY <1>0, <2>1, <2>3 DEF Exit, Lost, Unsaved
    <3>. QED
      BY <1>c, <3>1
  <2>4. CASE Resolve(p)
    <3>. DEFINE c == call[Daemon]
    <3>1. /\ c \in Call /\ ledger' = [ledger EXCEPT ![c] = pc[Daemon]]
          /\ files' = files /\ snapshot' = snapshot /\ crashes' = crashes
          /\ pc[Daemon] \in {"succeeded", "failed"} /\ pc'[Daemon] = "row"
      BY <1>0, <2>1, <2>4 DEF Resolve, Busy
    <3>2. pc[Daemon] = "succeeded" => c \in files
      BY <1>0 DEF Bounded
    <3>. HIDE DEF c
    <3>3. Lost' \subseteq Lost /\ Unsaved' \subseteq Unsaved \cup {c}
      BY <1>0, <3>1, <3>2 DEF Lost, Unsaved
    <3>. QED
      BY <1>0, <1>a, <1>b, <3>1, <3>3 DEF Bounded
  <2>5. CASE Crash(p)
    <3>1. /\ Unsaved' = Unsaved /\ crashes' = crashes + 1
          /\ pc[Daemon] \notin {"open", "copy", "exec", "down"} /\ pc'[Daemon] = "down"
      <4>1. pc[Daemon] \notin {"down", "idle"} /\ MayDie(Daemon)
        BY <2>1, <2>5 DEF Crash
      <4>2. pc[Daemon] \notin {"open", "copy", "exec"}
        BY <1>0, <4>1 DEF MayDie
      <4>3. pc'[Daemon] = "down" /\ crashes' = crashes + 1 /\ Unsaved' = Unsaved
        BY <1>0, <2>1, <2>5 DEF Crash, Unsaved
      <4>. QED
        BY <4>1, <4>2, <4>3
    <3>. QED
      BY <1>0, <1>a, <1>b, <3>1 DEF Bounded
  <2>. QED
    BY <1>14, <2>2, <2>3, <2>4, <2>5 DEF Executing
<1>15. CASE UNCHANGED vars
  <2>1. Lost' = Lost /\ Unsaved' = Unsaved
    BY <1>15 DEF vars, Lost, Unsaved
  <2>. QED
    BY <1>0, <1>15, <2>1 DEF vars, Bounded
<1>. QED
  BY <1>1, <1>2, <1>3, <1>4, <1>5, <1>6, <1>7, <1>8, <1>9, <1>10, <1>11, <1>12, <1>13, <1>14, <1>15
     DEF Next, Checkpointing, Restoring

(* daemon.rs's checkpoints before and after each call: of the calls that the  *)
(* ledger answers, a crash undoes the files of one at most.                  *)
THEOREM CrashesLoseLittle == Spec => []LossIsBounded
<1>1. Kept => LossIsBounded
  BY DEF Kept, CrashesOnly, Bounded, LossIsBounded
<1>. QED
  BY <1>1, InitKept, KeptStep, PTL DEF Spec
=============================================================================
