------------------------------ MODULE HarnessWire ------------------------------
(***************************************************************************)
(* One session on the wire of the adapter protocol: a harness that runs a  *)
(* script of requests through StubHarness, the daemon that serves them one *)
(* at a time (RuntimeDaemon::run, or the conformance suite's DaemonDouble),*)
(* the messages in flight both ways, and the command that started them and *)
(* reports how the session ended.                                          *)
(*                                                                         *)
(* A world says who plays: the host is `cybersin run` with a child process *)
(* ("run"), its built-in starter in the same process ("starter") or a      *)
(* conformance test ("double"); the link is a pipe, a gRPC stream or an    *)
(* in-memory duplex; the harness, done, waits for the daemon to close, or  *)
(* leaves at once, or lingers first; a harness that keeps parked calls     *)
(* sends the rest of its script before it polls for them.                  *)
(***************************************************************************)
EXTENDS Naturals, Sequences, SequencesExt, FiniteSets

CONSTANTS Worlds,   \* the worlds of an instance
          Faults    \* what may go wrong, among the kinds of FaultKind

FaultKind == {"crash", "deserts", "noise", "storage", "start", "late", "halt"}
Script == SeqOf({"request", "signal"}, 3)

ASSUME WorldsAssumption ==
  /\ \A w \in Worlds : /\ w.host \in {"run", "starter", "double"}
                       /\ w.link \in {"pipe", "grpc", "memory"}
                       /\ w.manner \in {"waits", "leaves", "lingers"}
                       /\ w.keeps \in BOOLEAN
                       /\ w.script \in Script
                       /\ w.host = "run" => w.link # "memory"
  /\ Faults \subseteq FaultKind

VARIABLES world, up, down, harness, daemon, answered, status, run
wireVars == <<world, up, down, harness, daemon, answered, status, run>>

Grpc == world.link = "grpc"
Steps == 1 .. Len(world.script)
Outcome == {"ok", "failed"}
Unanswered == "unanswered"

\* Mutant: run hands back the daemon, channel and all, instead of a summary.
Open_Kept == daemon.pc \notin {"failed", "dropped"}

\* The daemon's half of the channel is dropped with the future that owns it.
Open == daemon.pc \notin {"ended", "failed", "dropped"}
Present == harness.pc # "exited"

WireTypeOK ==
  /\ world \in Worlds
  /\ \A i \in DOMAIN up : up[i].kind \in {"request", "signal", "complete", "noise"}
  /\ \A i \in DOMAIN down :
       down[i].kind \in {"start", "result", "parked", "signal", "abort"}
  /\ harness.pc \in {"launching", "starting", "idle", "awaiting", "listening",
                     "closing", "exited"}
  /\ harness.at \in 1 .. Len(world.script) + 1
  /\ daemon.pc \in {"new", "held", "serving", "parked", "waiting", "ended",
                    "failed", "dropped"}
  /\ daemon.pending \subseteq Steps
  /\ answered \in [Steps -> Outcome \cup {Unanswered}]
  /\ status \in {"none", "running", "waiting", "awaiting_approval", "halted",
                 "completed", "aborted"}
  /\ run.pc \in {"connect", "start", "drive", "reap", "crash", "drain", "join", "done"}
  /\ run.result \in {"none", "error", "completed", "halted", "aborted"}

WireInit ==
  /\ world \in Worlds
  /\ up = <<>> /\ down = <<>>
  /\ harness = [pc |-> IF world.host = "run" THEN "launching" ELSE "starting",
                at |-> 1, wants |-> 0, later |-> <<>>, stash |-> <<>>,
                got |-> [n \in Steps |-> <<>>], code |-> 0,
                finished |-> FALSE, noisy |-> FALSE]
  /\ daemon = [pc |-> "new", pending |-> {}, summary |-> "none", broke |-> FALSE]
  /\ answered = [n \in Steps |-> Unanswered]
  /\ status = "none"
  /\ run = [pc |-> IF world.host = "run" /\ Grpc THEN "connect" ELSE "start",
            result |-> "none"]

--------------------------------------------------------------------------------
(* The two directions of the channel.                                      *)

\* A send by the harness: the frame goes up, or the daemon's end is closed and
\* the send panics; a gRPC frame may also be buffered for nobody.
HarnessSends(msg, next) ==
  \/ Open /\ up' = Append(up, msg) /\ harness' = next
  \/ ~Open /\ UNCHANGED up
     /\ harness' = [harness EXCEPT !.pc = "exited", !.code = 1]
  \/ ~Open /\ Grpc /\ UNCHANGED up /\ harness' = next

\* A send by the daemon: an exited harness breaks a pipe; over gRPC the frame
\* may be accepted all the same and lost.
DaemonSends(msg, sent, broke) ==
  \/ Present /\ down' = Append(down, msg) /\ daemon' = sent
  \/ ~Present /\ UNCHANGED down /\ daemon' = broke
  \/ ~Present /\ Grpc /\ UNCHANGED down /\ daemon' = sent

\* A process that ends takes along the frames its gRPC client has not flushed.
Exit(code) ==
  /\ harness' = [harness EXCEPT !.pc = "exited", !.code = code]
  /\ IF Grpc /\ world.manner # "lingers"
       THEN \E n \in 0 .. Len(up) : up' = SubSeq(up, 1, n)
       ELSE UNCHANGED up

\* The harness reads what the daemon wrote and closed behind.
HarnessHearsNone == down = <<>> /\ ~Open

\* Over a pipe read_line answers None to a line it cannot parse, as it does to a
\* close; a gRPC channel skips an envelope it cannot parse (SkipUnparsed).
DaemonHears(kind) == up # <<>> /\ Head(up).kind = kind
DaemonHearsNone ==
  \/ up = <<>> /\ ~Present
  \/ DaemonHears("noise") /\ ~Grpc

--------------------------------------------------------------------------------
(* The harness: StubHarness under run_script or run_starter_harness.       *)

\* The child process is up; over gRPC it connects and the run accepts it.
Connect ==
  /\ harness.pc = "launching"
  /\ harness' = [harness EXCEPT !.pc = "starting"]
  /\ run' = IF run.pc = "connect" THEN [run EXCEPT !.pc = "start"] ELSE run
  /\ UNCHANGED <<world, up, down, daemon, answered, status>>

RecvSessionStart ==
  /\ harness.pc = "starting"
  /\ \/ /\ down # <<>>
        /\ IF Head(down).kind = "start"
             THEN harness' = [harness EXCEPT !.pc = "idle"] /\ UNCHANGED up
             ELSE Exit(1)
        /\ down' = Tail(down)
     \/ HarnessHearsNone /\ Exit(1) /\ UNCHANGED down
  /\ UNCHANGED <<world, daemon, answered, status, run>>

\* The next request of the script, with a fresh call id.
Request ==
  /\ harness.pc = "idle" /\ harness.at \in Steps
  /\ LET n == harness.at  kind == world.script[n]
     IN HarnessSends([kind |-> kind, id |-> n],
                     [harness EXCEPT !.at = n + 1, !.wants = n,
                        !.pc = IF kind = "signal" THEN "listening" ELSE "awaiting"])
  /\ UNCHANGED <<world, down, daemon, answered, status, run>>

\* Mutant: the first reply is taken for the one that is awaited.
Correlated_Any(m, n) == m.kind \in {"result", "parked"} /\ n \in Steps

\* A reply to the call: its result or the news that it is parked.
Correlated(m, n) == m.kind \in {"result", "parked"} /\ m.id = n

\* What the script does with a reply: a parked call is polled for at once or
\* later, a failed one ends the script.
Unkept(calls, n) == SelectSeq(calls, LAMBDA k : k # n)
Classified(h, m) ==
  LET got == [h.got EXCEPT ![h.wants] = <<m.id, m.value>>] IN
  CASE m.kind = "parked" /\ world.keeps /\ m.id \notin Range(h.later) ->
         [h EXCEPT !.pc = "idle", !.later = Append(h.later, m.id)]
    [] m.kind = "parked" -> h
    [] m.kind = "result" /\ m.value = "ok" ->
         [h EXCEPT !.pc = "idle", !.got = got, !.later = Unkept(h.later, h.wants)]
    [] OTHER -> [h EXCEPT !.pc = "exited", !.got = got, !.code = 1]

Earliest(own) == CHOOSE i \in own : \A j \in own : i <= j
AwaitResult ==
  /\ harness.pc = "awaiting"
  /\ LET n == harness.wants
         own == {i \in DOMAIN harness.stash : Correlated(harness.stash[i], n)}
     IN IF own # {}
          THEN /\ LET i == Earliest(own)
                  IN harness' = Classified([harness EXCEPT !.stash = RemoveAt(harness.stash, i)],
                                           harness.stash[i])
               /\ UNCHANGED <<up, down>>
          ELSE \/ /\ down # <<>> /\ down' = Tail(down)
                  /\ LET m == Head(down)
                     IN CASE Correlated(m, n) ->
                               harness' = Classified(harness, m) /\ UNCHANGED up
                          [] m.kind = "abort" -> Exit(1)
                          [] OTHER -> /\ harness' = [harness EXCEPT !.stash = Append(harness.stash, m)]
                                      /\ UNCHANGED up
               \/ HarnessHearsNone /\ Exit(1) /\ UNCHANGED down
  /\ UNCHANGED <<world, daemon, answered, status, run>>

\* A call kept for later is polled for once the script is through.
PollParked ==
  /\ harness.pc = "idle" /\ harness.at \notin Steps /\ harness.later # <<>>
  /\ harness' = [harness EXCEPT !.pc = "awaiting", !.wants = Head(harness.later)]
  /\ UNCHANGED <<world, up, down, daemon, answered, status, run>>

\* signal_wait puts every other message aside, an abort included.
AwaitSignal ==
  /\ harness.pc = "listening"
  /\ \/ /\ down # <<>> /\ down' = Tail(down)
        /\ harness' = IF Head(down).kind = "signal"
                        THEN [harness EXCEPT !.pc = "idle"]
                        ELSE [harness EXCEPT !.stash = Append(harness.stash, Head(down))]
        /\ UNCHANGED up
     \/ HarnessHearsNone /\ Exit(1) /\ UNCHANGED down
  /\ UNCHANGED <<world, daemon, answered, status, run>>

SessionComplete ==
  /\ harness.pc = "idle" /\ harness.at \notin Steps /\ harness.later = <<>>
  /\ HarnessSends([kind |-> "complete", id |-> 0],
                  [harness EXCEPT !.pc = "closing", !.finished = TRUE])
  /\ UNCHANGED <<world, down, daemon, answered, status, run>>

\* wait_for_close reads on until the daemon closes; a harness without it ends.
Close ==
  /\ harness.pc = "closing"
  /\ \/ world.manner = "waits" /\ down # <<>> /\ down' = Tail(down)
        /\ UNCHANGED <<up, harness>>
     \/ (world.manner = "waits" => HarnessHearsNone) /\ Exit(0) /\ UNCHANGED down
  /\ UNCHANGED <<world, daemon, answered, status, run>>

\* A child process may die, stop without a word, or print to its stdout.
Misbehave ==
  /\ world.host = "run" /\ Present
  /\ \/ "crash" \in Faults /\ Exit(1)
     \/ "deserts" \in Faults /\ ~harness.finished /\ Exit(0)
     \/ /\ "noise" \in Faults /\ Open /\ ~harness.noisy
        /\ harness.pc \in {"idle", "awaiting", "listening"}
        /\ up' = Append(up, [kind |-> "noise", id |-> 0])
        /\ harness' = [harness EXCEPT !.noisy = TRUE]
  /\ UNCHANGED <<world, down, daemon, answered, status, run>>

Harness == \/ Connect \/ RecvSessionStart \/ Request \/ AwaitResult
           \/ PollParked \/ AwaitSignal \/ SessionComplete \/ Close

--------------------------------------------------------------------------------
(* The daemon: RuntimeDaemon::run, or DaemonDouble::run, which ignores the *)
(* errors of its sends and goes on serving while calls are parked.         *)

Double == world.host = "double"
Serving == daemon.pc = "serving"
Stored(s) == status' = IF Double THEN status ELSE s
Failing(d) == IF Double THEN d ELSE [d EXCEPT !.pc = "failed", !.broke = TRUE]
Consumed == up' = Tail(up)

\* session.start, once the session's row and its event are written. When that fails
\* the command still holds the daemon and its channel.
StartServing ==
  /\ run.pc = "start" /\ daemon.pc = "new"
  /\ LET begun == [daemon EXCEPT !.pc = "serving"]
         held == [daemon EXCEPT !.pc = "held"]
     IN \/ /\ DaemonSends([kind |-> "start", id |-> 0], begun,
                          IF Double THEN begun ELSE held)
           /\ run' = [run EXCEPT !.pc = IF daemon'.pc = "held" THEN "crash"
                                       ELSE IF world.host = "run" THEN "drive" ELSE "join"]
           /\ Stored("running") /\ UNCHANGED harness
        \/ /\ "start" \in Faults /\ world.host = "run"
           /\ daemon' = held /\ run' = [run EXCEPT !.pc = "crash"]
           /\ UNCHANGED <<down, harness, status>>
        \/ /\ "start" \in Faults /\ world.host = "starter"
           /\ daemon' = [daemon EXCEPT !.pc = "dropped", !.broke = TRUE]
           /\ run' = [pc |-> "done", result |-> "error"]
           /\ harness' = [harness EXCEPT !.pc = "exited", !.code = 1]
           /\ UNCHANGED <<down, status>>
  /\ UNCHANGED <<world, up, answered>>

\* recv of the gRPC channel reads on past what it cannot parse.
SkipUnparsed ==
  /\ Serving /\ DaemonHears("noise") /\ Grpc /\ Consumed
  /\ UNCHANGED <<world, down, harness, daemon, answered, status, run>>

\* A request is answered,
Answer(value) ==
  /\ Serving /\ DaemonHears("request") /\ Consumed
  /\ LET n == Head(up).id
     IN /\ answered' = [answered EXCEPT ![n] = value]
        /\ DaemonSends([kind |-> "result", id |-> n, value |-> value], daemon,
                       Failing(daemon))
  /\ UNCHANGED <<world, harness, status, run>>

\* or parked for a human,
ParkCall ==
  /\ Serving /\ DaemonHears("request") /\ Consumed
  /\ LET n == Head(up).id
         parked == [daemon EXCEPT !.pending = daemon.pending \cup {n},
                                  !.pc = IF Double THEN "serving" ELSE "parked"]
     IN DaemonSends([kind |-> "parked", id |-> n], parked, Failing(parked))
  /\ Stored("awaiting_approval")
  /\ UNCHANGED <<world, harness, answered, run>>

\* or breaches the budget: RuntimeDaemon only aborts, the double also answers.
Halt ==
  /\ "halt" \in Faults
  /\ Serving /\ DaemonHears("request") /\ Consumed
  /\ LET n == Head(up).id
         over == [daemon EXCEPT !.pc = "ended", !.summary = "halted"]
         abort == [kind |-> "abort", id |-> 0]
         refusal == [kind |-> "result", id |-> n, value |-> "failed"]
     IN IF Double
          THEN /\ down' = IF Present THEN Append(Append(down, refusal), abort) ELSE down
               /\ daemon' = over
               /\ answered' = [answered EXCEPT ![n] = "failed"]
          ELSE /\ DaemonSends(abort, over, Failing(over))
               /\ UNCHANGED answered
  /\ Stored("halted")
  /\ UNCHANGED <<world, harness, run>>

\* A human decides a parked call, whoever still listens.
Resolve(n, value) ==
  /\ daemon.pc \in {"serving", "parked"} /\ n \in daemon.pending
  /\ LET resumed == [daemon EXCEPT !.pc = "serving", !.pending = daemon.pending \ {n}]
     IN DaemonSends([kind |-> "result", id |-> n, value |-> value], resumed,
                    Failing(resumed))
  /\ answered' = [answered EXCEPT ![n] = value]
  /\ Stored("running")
  /\ UNCHANGED <<world, up, harness, run>>

\* signal.wait blocks the daemon until someone notifies; the double does not wait.
WaitSignal ==
  /\ Serving /\ DaemonHears("signal") /\ Consumed
  /\ IF Double
       THEN DaemonSends([kind |-> "signal", id |-> 0], daemon, daemon)
       ELSE daemon' = [daemon EXCEPT !.pc = "waiting"] /\ UNCHANGED down
  /\ Stored("waiting")
  /\ UNCHANGED <<world, harness, answered, run>>

Notify ==
  /\ daemon.pc = "waiting"
  /\ LET resumed == [daemon EXCEPT !.pc = "serving"]
     IN DaemonSends([kind |-> "signal", id |-> 0], resumed, Failing(resumed))
  /\ Stored("running")
  /\ UNCHANGED <<world, up, harness, answered, run>>

\* session.complete ends the loop, and so does a None from the channel.
EndCompleted ==
  /\ Serving /\ DaemonHears("complete") /\ Consumed
  /\ daemon' = [daemon EXCEPT !.pc = "ended", !.summary = "completed"]
  /\ Stored("completed")
  /\ UNCHANGED <<world, down, harness, answered, run>>

EndAborted ==
  /\ Serving /\ DaemonHearsNone
  /\ daemon' = [daemon EXCEPT !.pc = "ended", !.summary = "aborted"]
  /\ Stored("aborted")
  /\ UNCHANGED <<world, up, down, harness, answered, run>>

\* A heartbeat, an event or a poll of the storage fails: run returns the error.
Break ==
  /\ "storage" \in Faults /\ ~Double
  /\ daemon.pc \in {"serving", "parked", "waiting"}
  /\ daemon' = [daemon EXCEPT !.pc = "failed", !.broke = TRUE]
  /\ UNCHANGED <<world, up, down, harness, answered, status, run>>

Serve == \/ StartServing \/ SkipUnparsed \/ ParkCall \/ Halt \/ WaitSignal \/ EndCompleted \/ EndAborted
         \/ \E value \in Outcome : Answer(value)
Human == Notify \/ \E n \in Steps, value \in Outcome : Resolve(n, value)

--------------------------------------------------------------------------------
(* The command: run_live, run_builtin_starter, or a conformance test.      *)

\* The run ends: a child is killed on drop, an in-process side is dropped.
Finish(result) ==
  /\ run' = [pc |-> "done", result |-> result]
  /\ harness' = IF Present THEN [harness EXCEPT !.pc = "exited", !.code = 1] ELSE harness
  /\ daemon' = IF Open THEN [daemon EXCEPT !.pc = "dropped"] ELSE daemon
  /\ UNCHANGED <<world, up, down, answered, status>>

MoveTo(pc) == run' = [run EXCEPT !.pc = pc]
            /\ UNCHANGED <<world, up, down, harness, daemon, answered, status>>

\* Over gRPC the accept races the child's exit and GRPC_ACCEPT_TIMEOUT.
AcceptFails ==
  /\ run.pc = "connect"
  /\ ~Present \/ "late" \in Faults
  /\ Finish("error")

\* drive_live_daemon: the daemon's end races the child's.
DriveDaemonEnds ==
  /\ run.pc = "drive"
  /\ \/ daemon.pc = "ended" /\ MoveTo("reap")
     \/ daemon.pc = "failed" /\ MoveTo("crash")

\* Mutant: a clean exit that wins the race is a crash, as it once was.
DriveChildExits_Crash == run.pc = "drive" /\ ~Present /\ Finish("error")

DriveChildExits ==
  /\ run.pc = "drive" /\ ~Present
  /\ IF harness.code # 0 THEN Finish("error") ELSE MoveTo("drain")

\* After the daemon's end the child is waited for; harness_crash_or does as much.
Reap == run.pc = "reap" /\ ~Present /\ Finish(daemon.summary)
CrashOr == run.pc = "crash" /\ ~Present /\ Finish("error")

\* After a clean exit the daemon reads what is left on the wire.
Drain ==
  /\ run.pc = "drain"
  /\ \/ daemon.pc = "ended" /\ Finish(daemon.summary)
     \/ daemon.pc = "failed" /\ Finish("error")

\* try_join of the two sides in one process: the first error drops the other.
Join ==
  /\ run.pc = "join"
  /\ \/ daemon.pc = "ended" /\ ~Present /\ harness.code = 0 /\ Finish(daemon.summary)
     \/ daemon.pc = "failed" /\ Finish("error")
     \/ world.host = "starter" /\ ~Present /\ harness.code # 0 /\ Finish("error")
     \/ Double /\ daemon.pc = "ended" /\ ~Present /\ harness.code # 0
        /\ Finish(daemon.summary)

Command == \/ AcceptFails \/ DriveDaemonEnds \/ DriveChildExits \/ Reap \/ CrashOr
       \/ Drain \/ Join

WireNext == Harness \/ Misbehave \/ Serve \/ Break \/ Human \/ Command
WireSpec == WireInit /\ [][WireNext]_wireVars

\* Every side takes the steps it can: the tasks are polled, the child is scheduled,
\* and the humans of a parked call or a signal answer in the end.
FairWireSpec == WireSpec /\ WF_wireVars(Harness) /\ WF_wireVars(Serve) /\ WF_wireVars(Human) /\ WF_wireVars(Command)

--------------------------------------------------------------------------------
(* Properties.                                                             *)

\* A harness that sent session.complete and exited cleanly is reported completed,
\* whichever of its exit and its last message the command sees first; and what is
\* reported is the status the session's row ends with. The first does not hold for a
\* harness that leaves a gRPC stream at once, nor for one whose print spoiled the
\* pipe, nor when the daemon's storage fails.
ReportIsTrue ==
  /\ (/\ run.pc = "done" /\ harness.finished /\ harness.code = 0 /\ ~daemon.broke
      /\ ~(Grpc /\ world.manner = "leaves")
      /\ ~(world.link = "pipe" /\ harness.noisy))
       => run.result = "completed"
  /\ (run.result \in {"completed", "halted", "aborted"} /\ ~Double)
       => status = run.result

\* What the script takes for the result of its n-th step is what the daemon answered
\* to that step, however the replies of parked calls are stashed and overtaken.
AnswerIsOwn ==
  \A n \in Steps : harness.got[n] # <<>> => harness.got[n] = <<n, answered[n]>>

\* A run whose session started comes to its end: neither side waits for the other
\* for ever, as the doc of DaemonDouble::run argues for the close it relies on.
RunEnds == [](daemon.pc # "held") => <>(run.pc = "done")

\* run_live waits for the child when start_session fails, and the child waits for
\* session.start on a channel the command still holds.
StartFailureIsReported == <>(run.pc = "done")

\* drive_live_daemon takes the last message of a child that exited cleanly to be in
\* the channel's read buffer already, over gRPC too.
LastMessageIsRead ==
  (run.pc = "done" /\ harness.finished /\ harness.code = 0 /\ ~daemon.broke)
    => run.result = "completed"

================================================================================
