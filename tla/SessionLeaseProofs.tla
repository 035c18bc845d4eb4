------------------------- MODULE SessionLeaseProofs -------------------------
(* The lease, for any number of processes that run and resume one session,   *)
(* with any number of crashes and migrations.                                *)
EXTENDS SessionLease, TLAPS

Label == {"idle", "create", "gated", "restore", "launch", "first", "loop", "recv", "busy",
          "copying", "waiting", "flagged", "parked", "completed", "halted", "disconnected"}
Calm == env \cap {"force", "slow", "silent", "wait", "race"} = {}

(* Nothing waits, and nobody decides anything.                                *)
Unparked ==
  /\ \A p \in Proc : call[p] = "none" /\ pc[p] \notin {"waiting", "flagged", "parked"}
  /\ orphan = FALSE /\ denying = FALSE

Serving == {"loop", "recv", "busy", "copying", "completed", "halted", "disconnected"}

(* One process at most is on the way to driving, or drives.                   *)
Alone == \A p, q \in Proc : pc[p] # "idle" /\ pc[q] # "idle" => p = q

(* Whoever drives holds the lease: its session is running, halted, or killed  *)
(* behind its back, and its heartbeat is fresh, since it serves one message at most  *)
(* before the next.                                                          *)
Held ==
  \A p \in Proc :
    /\ pc[p] = "create" => status = "absent"
    /\ pc[p] \in {"launch", "first"} => status \in {"running", "killed"}
    /\ pc[p] \in Serving =>
         /\ status \in {"running", "killed", "halted"}
         /\ beat = "fresh"
         /\ unheard[p] = 0 \/ (pc[p] = "loop" /\ unheard[p] = 1)

LeaseInv ==
  /\ pc \in [Proc -> Label]
  /\ unheard \in [Proc -> 0..2]
  /\ call \in [Proc -> {"none", "open", "approved", "resolved"}]
  /\ Unparked /\ Alone /\ Held

(* The absent session satisfies the invariant: nobody is under way.           *)
LEMMA InitLease == Init => LeaseInv
BY DEF Init, LeaseInv, Label, Unparked, Alone, Held, Serving

(* No step changes the environment.                                           *)
LEMMA EnvironmentStays == [Next]_vars => env' = env
BY DEF Next, vars, session, pinned, outside, history, Step, RunCheck, Resume, ResumeGate, ResumeChecks,
       ResumeRefused, ResumeStatus, Launch, Drive, Create, Heartbeat, Checkpoint, Snapshot, Served,
       Halt, Gone, Fail, SignalTaken, Suspend, Unpark, Finish, Receive, Serve, SignalWait, FlagRow,
       Complete, Disconnect, Decide, ApproveStarts, ApproveResolves, DenyResolves, Crash,
       DenyResumes, DecideOrphan, Kill, SessionsResume, Migrate, Expire

(* A process that begins to start does so when all are idle: in a calm        *)
(* environment nobody else is starting, and the gate turns it away while      *)
(* somebody drives.                                                          *)
LEMMA NobodyDrives ==
  ASSUME Calm, LeaseInv, NEW p \in Proc, RunCheck(p) \/ ResumeGate(p)
  PROVE  \A q \in Proc : pc[q] = "idle"
<1>1. \A q \in Proc : ~Starting(q)
  BY DEF Calm, RunCheck, ResumeGate, MayStart
<1>2. CASE RunCheck(p)
  BY <1>1, <1>2 DEF RunCheck, LeaseInv, Label, Held, Serving, Starting, Unparked
<1>3. CASE ResumeGate(p)
  <2>1. "force" \notin env
    BY DEF Calm
  <2>2. PICK force \in {FALSE} \cup {"force" \in env} : Gate(force)
    BY <1>3 DEF ResumeGate
  <2>3. ~force
    BY <2>1, <2>2
  <2>4. status \notin {"running", "killed", "halted"} \/ beat # "fresh"
    BY <2>2, <2>3 DEF Gate, TerminalStatus
  <2>. QED
    BY <1>1, <2>4 DEF LeaseInv, Label, Held, Serving, Starting, Unparked
<1>. QED
  BY <1>2, <1>3

(* In a calm environment every step keeps the lease with its holder.          *)
LEMMA LeaseStep == ASSUME Calm, LeaseInv, [Next]_vars PROVE LeaseInv'
<1>. USE DEF session, pinned, outside, history, Step
<1>1. ASSUME NEW p \in Proc, RunCheck(p) PROVE LeaseInv'
  <2>1. \A q \in Proc : pc[q] = "idle"
    BY <1>1, NobodyDrives
  <2>. QED
    BY <1>1, <2>1 DEF RunCheck, LeaseInv, Label, Unparked, Alone, Held, Serving
<1>2. ASSUME NEW p \in Proc, ResumeGate(p) PROVE LeaseInv'
  <2>1. \A q \in Proc : pc[q] = "idle"
    BY <1>2, NobodyDrives
  <2>. QED
    BY <1>2, <2>1 DEF ResumeGate, LeaseInv, Label, Unparked, Alone, Held, Serving
<1>3. ASSUME NEW p \in Proc, ResumeChecks(p) PROVE LeaseInv'
  BY <1>3 DEF ResumeChecks, LeaseInv, Label, Unparked, Alone, Held, Serving
<1>21. ASSUME NEW p \in Proc, ResumeRefused(p) PROVE LeaseInv'
  BY <1>21 DEF ResumeRefused, LeaseInv, Label, Unparked, Alone, Held, Serving
<1>4. ASSUME NEW p \in Proc, ResumeStatus(p) PROVE LeaseInv'
  BY <1>4 DEF ResumeStatus, LeaseInv, Label, Unparked, Alone, Held, Serving
<1>5. ASSUME NEW p \in Proc, Launch(p) PROVE LeaseInv'
  BY <1>5 DEF Launch, LeaseInv, Label, Unparked, Alone, Held, Serving
<1>6. ASSUME NEW p \in Proc, Create(p) PROVE LeaseInv'
  BY <1>6 DEF Create, LeaseInv, Label, Unparked, Alone, Held, Serving
<1>7. ASSUME NEW p \in Proc, Heartbeat(p) PROVE LeaseInv'
  BY <1>7 DEF Heartbeat, LeaseInv, Label, Unparked, Alone, Held, Serving
<1>8. ASSUME NEW p \in Proc, Serve(p) PROVE LeaseInv'
  BY <1>8 DEF Serve, LeaseInv, Label, Unparked, Alone, Held, Serving
<1>22. ASSUME NEW p \in Proc, Checkpoint(p) \/ Snapshot(p) PROVE LeaseInv'
  BY <1>22 DEF Checkpoint, Snapshot, LeaseInv, Label, Unparked, Alone, Held, Serving
<1>9. ASSUME NEW p \in Proc, Served(p) PROVE LeaseInv'
  BY <1>9 DEF Served, LeaseInv, Label, Unparked, Alone, Held, Serving
<1>10. ASSUME NEW p \in Proc, SignalWait(p) \/ FlagRow(p) PROVE FALSE
  BY <1>10 DEF SignalWait, FlagRow, Calm
<1>11. ASSUME NEW p \in Proc,
              \/ SignalTaken(p) \/ Suspend(p) \/ Unpark(p)
              \/ ApproveStarts(p) \/ ApproveResolves(p) \/ DenyResolves(p)
       PROVE FALSE
  BY <1>11 DEF SignalTaken, Suspend, Unpark, ApproveStarts, ApproveResolves, DenyResolves,
               LeaseInv, Unparked
<1>12. ASSUME NEW p \in Proc, Complete(p) PROVE LeaseInv'
  BY <1>12 DEF Complete, LeaseInv, Label, Unparked, Alone, Held, Serving
<1>13. ASSUME NEW p \in Proc, Disconnect(p) PROVE LeaseInv'
  BY <1>13 DEF Disconnect, LeaseInv, Label, Unparked, Alone, Held, Serving
<1>23. ASSUME NEW p \in Proc, Halt(p) PROVE LeaseInv'
  BY <1>23 DEF Halt, LeaseInv, Label, Unparked, Alone, Held, Serving
<1>14. ASSUME NEW p \in Proc, Finish(p) PROVE LeaseInv'
  BY <1>14 DEF Finish, StatusAtEnd, LeaseInv, Label, Unparked, Alone, Held, Serving
<1>15. ASSUME NEW p \in Proc, Crash(p) PROVE LeaseInv'
  BY <1>15 DEF Crash, Gone, LeaseInv, Label, Unparked, Alone, Held, Serving
<1>24. ASSUME NEW p \in Proc, Fail(p) PROVE LeaseInv'
  BY <1>24 DEF Fail, Gone, LeaseInv, Label, Unparked, Alone, Held, Serving
<1>16. CASE DenyResumes \/ DecideOrphan
  BY <1>16 DEF DenyResumes, DecideOrphan, LeaseInv, Unparked
<1>17. CASE Kill \/ SessionsResume
  BY <1>17 DEF Kill, SessionsResume, LeaseInv, Unparked, Alone, Held, Serving
<1>18. CASE Migrate
  BY <1>18 DEF Migrate, LeaseInv, Unparked, Alone, Held, Serving
<1>19. CASE Expire
  <2>1. \A p \in Proc : pc[p] \notin Serving
    BY <1>19 DEF Expire, Calm, LeaseInv, Unparked, Held, Serving, Driving
  <2>. QED
    BY <1>19, <2>1 DEF Expire, LeaseInv, Unparked, Alone, Held, Serving
<1>20. CASE UNCHANGED vars
  BY <1>20 DEF vars, LeaseInv, Unparked, Alone, Held, Serving
<1>. QED
  BY <1>1, <1>2, <1>3, <1>4, <1>5, <1>6, <1>7, <1>8, <1>9, <1>10, <1>11, <1>12, <1>13, <1>14,
     <1>15, <1>16, <1>17, <1>18, <1>19, <1>20, <1>21, <1>22, <1>23, <1>24
     DEF Next, Resume, Drive, Receive, Decide

(* What the heartbeat is good for, and no more: two daemons never drive one   *)
(* session as long as nobody forces a resume, begins one beside another, or   *)
(* keeps a daemon waiting or busy beyond the lease, the harness included, by  *)
(* a silence: for any number of processes, crashes, failures, kills and      *)
(* migrations                                                                *)
(* (run.rs, resume_gate; session.rs, write_heartbeat).                       *)
THEOREM LeaseExcludes == Spec => []OneDaemon
<1> DEFINE Inv == Calm => LeaseInv
<1>1. Init => Inv
  BY InitLease
<1>2. Inv /\ [Next]_vars => Inv'
  BY LeaseStep, EnvironmentStays DEF Calm
<1>3. Inv => OneDaemon
  BY DEF LeaseInv, Alone, OneDaemon, Calm, Driving
<1>. QED
  BY <1>1, <1>2, <1>3, PTL DEF Spec

-----------------------------------------------------------------------------
(* Types, and how a session ends.                                            *)

Shape == TypeOK /\ pc \in [Proc -> Label]

(* Every step of the program keeps the types.                                 *)
LEMMA ShapeStep == ASSUME Shape, [Next]_vars PROVE Shape'
<1>. DEFINE Rest ==
       /\ env \in Environments
       /\ status \in TerminalStatus \cup {"absent", "running", "waiting", "awaiting_approval"}
       /\ beat \in {"none", "fresh", "stale"}
       /\ hash \in Nat /\ bundle \in BOOLEAN /\ harness \in BOOLEAN
       /\ checkpoint \in {"none", "whole"} \cup Proc
       /\ seen \in [Proc -> Nat] /\ unheard \in [Proc -> 0..2]
       /\ call \in [Proc -> {"none", "open", "approved", "resolved"}]
       /\ orphan \in BOOLEAN /\ denying \in BOOLEAN /\ ended \in BOOLEAN /\ crashes \in Nat
       /\ pc \in [Proc -> Label]
<1>0. Rest' => Shape'
  BY DEF Shape, TypeOK, Label, Starting, Driving
<1>. SUFFICES Rest'
  BY <1>0
<1>. Rest
  BY DEF Shape, TypeOK
<1>. USE DEF session, pinned, outside, history, Step, Label, TerminalStatus
<1>1. ASSUME NEW p \in Proc, RunCheck(p) PROVE Rest'
  BY <1>1 DEF RunCheck
<1>2. ASSUME NEW p \in Proc, ResumeGate(p) PROVE Rest'
  BY <1>2 DEF ResumeGate
<1>3. ASSUME NEW p \in Proc, ResumeChecks(p) PROVE Rest'
  BY <1>3 DEF ResumeChecks
<1>29. ASSUME NEW p \in Proc, ResumeRefused(p) PROVE Rest'
  BY <1>29 DEF ResumeRefused
<1>4. ASSUME NEW p \in Proc, ResumeStatus(p) PROVE Rest'
  BY <1>4 DEF ResumeStatus
<1>5. ASSUME NEW p \in Proc, Launch(p) PROVE Rest'
  BY <1>5 DEF Launch
<1>6. ASSUME NEW p \in Proc, Create(p) PROVE Rest'
  BY <1>6 DEF Create
<1>7. ASSUME NEW p \in Proc, Heartbeat(p) PROVE Rest'
  BY <1>7 DEF Heartbeat
<1>8. ASSUME NEW p \in Proc, Serve(p) PROVE Rest'
  BY <1>8 DEF Serve
<1>30. ASSUME NEW p \in Proc, Checkpoint(p) PROVE Rest'
  BY <1>30 DEF Checkpoint
<1>31. ASSUME NEW p \in Proc, Snapshot(p) PROVE Rest'
  BY <1>31 DEF Snapshot
<1>9. ASSUME NEW p \in Proc, Served(p) PROVE Rest'
  BY <1>9 DEF Served
<1>10. ASSUME NEW p \in Proc, SignalWait(p) PROVE Rest'
  BY <1>10 DEF SignalWait
<1>11. ASSUME NEW p \in Proc, SignalTaken(p) PROVE Rest'
  BY <1>11 DEF SignalTaken
<1>12. ASSUME NEW p \in Proc, FlagRow(p) PROVE Rest'
  BY <1>12 DEF FlagRow
<1>13. ASSUME NEW p \in Proc, Suspend(p) PROVE Rest'
  BY <1>13 DEF Suspend
<1>14. ASSUME NEW p \in Proc, Unpark(p) PROVE Rest'
  BY <1>14 DEF Unpark
<1>15. ASSUME NEW p \in Proc, Complete(p) PROVE Rest'
  BY <1>15 DEF Complete
<1>16. ASSUME NEW p \in Proc, Disconnect(p) PROVE Rest'
  BY <1>16 DEF Disconnect
<1>32. ASSUME NEW p \in Proc, Halt(p) PROVE Rest'
  BY <1>32 DEF Halt
<1>17. ASSUME NEW p \in Proc, Finish(p) PROVE Rest'
  BY <1>17 DEF Finish, StatusAtEnd
<1>18. ASSUME NEW p \in Proc, ApproveStarts(p) PROVE Rest'
  BY <1>18 DEF ApproveStarts
<1>19. ASSUME NEW p \in Proc, ApproveResolves(p) PROVE Rest'
  BY <1>19 DEF ApproveResolves
<1>20. ASSUME NEW p \in Proc, DenyResolves(p) PROVE Rest'
  BY <1>20 DEF DenyResolves
<1>21. ASSUME NEW p \in Proc, Crash(p) PROVE Rest'
  BY <1>21 DEF Crash, Gone
<1>33. ASSUME NEW p \in Proc, Fail(p) PROVE Rest'
  BY <1>33 DEF Fail, Gone
<1>22. CASE DenyResumes
  BY <1>22 DEF DenyResumes
<1>23. CASE DecideOrphan
  BY <1>23 DEF DecideOrphan
<1>24. CASE Kill
  BY <1>24 DEF Kill
<1>25. CASE SessionsResume
  BY <1>25 DEF SessionsResume
<1>26. CASE Migrate
  BY <1>26 DEF Migrate
<1>27. CASE Expire
  BY <1>27 DEF Expire
<1>28. CASE UNCHANGED vars
  BY <1>28 DEF vars
<1>. QED
  BY <1>1, <1>2, <1>3, <1>4, <1>5, <1>6, <1>7, <1>8, <1>9, <1>10, <1>11, <1>12, <1>13,
     <1>14, <1>15, <1>16, <1>17, <1>18, <1>19, <1>20, <1>21, <1>22, <1>23, <1>24, <1>25,
     <1>26, <1>27, <1>28, <1>29, <1>30, <1>31, <1>32, <1>33
     DEF Next, Resume, Drive, Receive, Decide

(* The types of the session's row and of the processes' positions hold for    *)
(* any number of processes and crashes (storage.rs, the sessions table).     *)
THEOREM LeaseTypes == Spec => []TypeOK
<1>1. ASSUME Init PROVE Shape
  <2>1. pc \in [Proc -> Label] /\ seen \in [Proc -> Nat] /\ unheard \in [Proc -> 0..2]
    BY <1>1 DEF Init, Label
  <2>2. call \in [Proc -> {"none", "open", "approved", "resolved"}]
    BY <1>1 DEF Init
  <2>3. \A p \in Proc : pc[p] = "idle"
    BY <1>1 DEF Init
  <2>4. env \in Environments /\ hash \in Nat /\ crashes \in Nat
    BY <1>1 DEF Init
  <2>5. checkpoint = "none" /\ bundle = FALSE /\ harness = FALSE /\ orphan \in BOOLEAN /\ denying \in BOOLEAN /\ ended \in BOOLEAN
    BY <1>1 DEF Init
  <2>. QED
    BY <1>1, <2>1, <2>2, <2>3, <2>4, <2>5 DEF Init, Shape, TypeOK
<1>2. Shape /\ [Next]_vars => Shape'
  BY ShapeStep
<1>3. Shape => TypeOK
  BY DEF Shape
<1>. QED
  BY <1>1, <1>2, <1>3, PTL DEF Spec

Attended == env \cap {"crash", "fail", "deny", "relabel"} = {}

(* A decision finds its caller parked, and a status that is not terminal has  *)
(* a process behind it that will write another, which a halt already has.    *)
EndInv ==
  /\ pc \in [Proc -> Label]
  /\ call \in [Proc -> {"none", "open", "approved", "resolved"}]
  /\ orphan = FALSE /\ denying = FALSE
  /\ \A p \in Proc : call[p] # "none" => pc[p] \in {"flagged", "parked"}
  /\ \/ status \in TerminalStatus \cup {"absent"}
     \/ \E p \in Proc : pc[p] = "launch" \/ (Driving(p) /\ pc[p] # "halted")

(* Where nobody dies, fails, denies late or relabels, every step keeps that.  *)
LEMMA EndStep == ASSUME Attended, EndInv, [Next]_vars PROVE EndInv'
<1>. USE DEF session, pinned, outside, history, Step, Label, TerminalStatus, EndInv, Driving
<1>1. ASSUME NEW p \in Proc, RunCheck(p) PROVE EndInv'
  BY <1>1 DEF RunCheck
<1>2. ASSUME NEW p \in Proc, ResumeGate(p) PROVE EndInv'
  BY <1>2 DEF ResumeGate
<1>3. ASSUME NEW p \in Proc, ResumeChecks(p) PROVE EndInv'
  BY <1>3 DEF ResumeChecks
<1>29. ASSUME NEW p \in Proc, ResumeRefused(p) PROVE EndInv'
  BY <1>29 DEF ResumeRefused
<1>4. ASSUME NEW p \in Proc, ResumeStatus(p) PROVE EndInv'
  BY <1>4 DEF ResumeStatus
<1>5. ASSUME NEW p \in Proc, Launch(p) PROVE EndInv'
  BY <1>5 DEF Launch
<1>6. ASSUME NEW p \in Proc, Create(p) PROVE EndInv'
  BY <1>6 DEF Create
<1>7. ASSUME NEW p \in Proc, Heartbeat(p) PROVE EndInv'
  BY <1>7 DEF Heartbeat
<1>8. ASSUME NEW p \in Proc, Serve(p) PROVE EndInv'
  BY <1>8 DEF Serve
<1>30. ASSUME NEW p \in Proc, Checkpoint(p) PROVE EndInv'
  BY <1>30 DEF Checkpoint
<1>31. ASSUME NEW p \in Proc, Snapshot(p) PROVE EndInv'
  BY <1>31 DEF Snapshot
<1>9. ASSUME NEW p \in Proc, Served(p) PROVE EndInv'
  BY <1>9 DEF Served
<1>10. ASSUME NEW p \in Proc, SignalWait(p) PROVE EndInv'
  BY <1>10 DEF SignalWait
<1>11. ASSUME NEW p \in Proc, SignalTaken(p) PROVE EndInv'
  BY <1>11 DEF SignalTaken
<1>12. ASSUME NEW p \in Proc, FlagRow(p) PROVE EndInv'
  BY <1>12 DEF FlagRow
<1>13. ASSUME NEW p \in Proc, Suspend(p) PROVE EndInv'
  BY <1>13 DEF Suspend
<1>14. ASSUME NEW p \in Proc, Unpark(p) PROVE EndInv'
  BY <1>14 DEF Unpark
<1>15. ASSUME NEW p \in Proc, Complete(p) PROVE EndInv'
  BY <1>15 DEF Complete
<1>16. ASSUME NEW p \in Proc, Disconnect(p) PROVE EndInv'
  BY <1>16 DEF Disconnect
<1>32. ASSUME NEW p \in Proc, Halt(p) PROVE EndInv'
  BY <1>32 DEF Halt
<1>17. ASSUME NEW p \in Proc, Finish(p) PROVE EndInv'
  BY <1>17 DEF Finish, StatusAtEnd
<1>18. ASSUME NEW p \in Proc, ApproveStarts(p) PROVE EndInv'
  BY <1>18 DEF ApproveStarts
<1>19. ASSUME NEW p \in Proc, ApproveResolves(p) PROVE EndInv'
  BY <1>19 DEF ApproveResolves
<1>20. ASSUME NEW p \in Proc, DenyResolves(p) PROVE EndInv'
  BY <1>20 DEF DenyResolves, Attended
<1>21. ASSUME NEW p \in Proc, Crash(p) PROVE EndInv'
  BY <1>21 DEF Crash, Gone, Attended
<1>33. ASSUME NEW p \in Proc, Fail(p) PROVE EndInv'
  BY <1>33 DEF Fail, Attended
<1>22. CASE DenyResumes
  BY <1>22 DEF DenyResumes
<1>23. CASE DecideOrphan
  BY <1>23 DEF DecideOrphan
<1>24. CASE Kill
  BY <1>24 DEF Kill
<1>25. CASE SessionsResume
  BY <1>25 DEF SessionsResume, Attended
<1>26. CASE Migrate
  BY <1>26 DEF Migrate
<1>27. CASE Expire
  BY <1>27 DEF Expire
<1>28. CASE UNCHANGED vars
  BY <1>28 DEF vars
<1>. QED
  BY <1>1, <1>2, <1>3, <1>4, <1>5, <1>6, <1>7, <1>8, <1>9, <1>10, <1>11, <1>12, <1>13,
     <1>14, <1>15, <1>16, <1>17, <1>18, <1>19, <1>20, <1>21, <1>22, <1>23, <1>24, <1>25,
     <1>26, <1>27, <1>28, <1>29, <1>30, <1>31, <1>32, <1>33
     DEF Next, Resume, Drive, Receive, Decide

(* However many daemons drive a session, and whoever signals, approves or     *)
(* kills it: unless one dies or fails at a message, its row says how it ended *)
(* once the last one has ended (session.rs, the end of RuntimeDaemon::run).   *)
THEOREM LastOneOutWrites == Spec => []EndedIsTerminal
<1> DEFINE Inv == Attended => EndInv
<1>1. Init => Inv
  BY DEF Init, EndInv, Label
<1>2. Inv /\ [Next]_vars => Inv'
  BY EndStep, EnvironmentStays DEF Attended
<1>3. Inv => EndedIsTerminal
  BY DEF EndInv, EndedIsTerminal, Attended, Starting
<1>. QED
  BY <1>1, <1>2, <1>3, PTL DEF Spec
=============================================================================
