----------------------------- MODULE MCHarnessWire -----------------------------
(* Instances of HarnessWire for TLC. *)
EXTENDS HarnessWire

W(host, link, manner, keeps, script) ==
  [host |-> host, link |-> link, manner |-> manner, keeps |-> keeps, script |-> script]

Two == <<"request", "request">>
Three == <<"request", "request", "signal">>
Mixed == <<"request", "signal", "request">>

\* scripted_harness over both links, grpc_stub_harness, harnesses written on
\* StubHarness that keep parked calls, the built-in starter, the conformance tests.
AllWorlds ==
  {W("run", "pipe", "leaves", FALSE, Two), W("run", "grpc", "leaves", FALSE, Two),
   W("run", "grpc", "lingers", FALSE, <<>>), W("run", "pipe", "waits", TRUE, Three),
   W("run", "grpc", "waits", TRUE, Mixed), W("starter", "memory", "waits", FALSE, <<"request">>),
   W("double", "memory", "waits", TRUE, Three), W("double", "grpc", "waits", TRUE, Mixed)}
AllFaults == FaultKind

\* For the comment of drive_live_daemon: scripted_harness over gRPC, nothing failing.
GrpcScripted == {W("run", "grpc", "leaves", FALSE, <<"request">>)}
NoFaults == {}

\* For run_live's handling of a failed start.
PipeScripted == {W("run", "pipe", "leaves", FALSE, <<"request">>)}
StartFaults == {"start"}
================================================================================
