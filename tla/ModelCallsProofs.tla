-------------------------- MODULE ModelCallsProofs --------------------------
(***************************************************************************)
(* Proofs about ModelCalls: type correctness, that no request goes on      *)
(* above the budget without an operator's consent, what becomes of the     *)
(* bars of a cascade, what a model's calls cost and the spans tell of it,  *)
(* and which thresholds optimize writes.                                   *)
(***************************************************************************)
EXTENDS ModelCalls, SequenceTheorems, FiniteSetTheorems, WellFoundedInduction, TLAPS

USE DEF build, durable, memory, history

-----------------------------------------------------------------------------
(* Candidates *)

LEMMA ListElements ==
  ASSUME NEW list \in Seq(Candidate)
  PROVE  /\ Len(list) \in Nat /\ DOMAIN list = 1..Len(list)
         /\ \A i \in DOMAIN list : list[i].cost \in Nat
<1>1. Len(list) \in Nat /\ DOMAIN list = 1..Len(list)
  BY LenProperties
<1>2. ASSUME NEW i \in DOMAIN list PROVE list[i].cost \in Nat
  <2>1. list[i] \in Candidate
    BY <1>1, <1>2, ElementOfSeq
  <2>. QED
    BY <2>1 DEF Candidate
<1>. QED
  BY <1>1, <1>2

LEMMA CandidateList ==
  ASSUME route \in Routes
  PROVE  /\ Candidates \in Seq(Candidate) /\ Len(Candidates) \in Nat
         /\ DOMAIN Candidates = 1..Len(Candidates)
         /\ \A i \in DOMAIN Candidates : Candidates[i].cost \in Nat
         /\ \A i \in DOMAIN Candidates : ~InCascade(i) => route.fallbacks # <<>>
<1>1. route.steps \in Seq(Candidate) /\ route.fallbacks \in Seq(Candidate)
  BY ListAssumption
<1>2. /\ Candidates \in Seq(Candidate)
      /\ Len(Candidates) = Len(route.steps) + Len(route.fallbacks)
  BY <1>1, ConcatProperties DEF Candidates
<1>3. /\ Len(route.steps) \in Nat /\ DOMAIN route.steps = 1..Len(route.steps)
      /\ route.fallbacks = <<>> => Len(route.fallbacks) = 0
      /\ Len(route.fallbacks) \in Nat
  BY <1>1
<1>4. /\ Len(Candidates) \in Nat /\ DOMAIN Candidates = 1..Len(Candidates)
      /\ \A i \in DOMAIN Candidates : Candidates[i].cost \in Nat
  BY <1>2, ListElements
<1>5. ASSUME NEW i \in 1..Len(Candidates), ~InCascade(i) PROVE route.fallbacks # <<>>
  <2>1. i \notin 1..Len(route.steps)
    BY <1>3, <1>5 DEF InCascade
  <2>2. i \in Int /\ i >= 1 /\ i <= Len(Candidates)
    BY <1>4, <1>5
  <2>. DEFINE m == Len(route.steps)
              n == Len(route.fallbacks)
              k == Len(Candidates)
  <2>3. m \in Nat /\ n \in Nat /\ k = m + n /\ i \notin 1..m /\ i <= k
    BY <1>2, <1>3, <2>1, <2>2
  <2>4. n # 0
    <3>. HIDE DEF m, n, k
    <3>. QED
      BY <2>2, <2>3
  <2>. QED
    BY <1>3, <2>4
<1>. QED
  BY <1>2, <1>4, <1>5

(* A set of numbers has a least one. *)
LEMMA LeastNumber ==
  ASSUME NEW S \in SUBSET Nat, S # {}
  PROVE  \E n \in S : \A m \in S : n <= m
<1>1. PICK n \in S : \A m \in S : <<m, n>> \notin OpToRel(<, Nat)
  BY WFMin, NatLessThanWellFounded, Zenon
<1>2. \A m \in S : ~(m < n)
  BY <1>1, Zenon DEF OpToRel
<1>3. n \in S
  OBVIOUS
<1>. QED
  BY <1>2, <1>3

LEMMA NextIsCandidate ==
  ASSUME route \in Routes, NEW from \in 0..Len(Candidates), NEW force
  PROVE  LET next == NextCandidate(from, force) IN
         /\ next \in 1..Exhausted /\ next > from
         /\ next # Exhausted => next \in DOMAIN Candidates /\ Open(next, force)
         /\ \A k \in from + 1 .. next - 1 : ~Open(k, force)
<1>. DEFINE next == NextCandidate(from, force)
<1>1. Len(Candidates) \in Nat /\ DOMAIN Candidates = 1..Len(Candidates)
  BY CandidateList
<1>. DEFINE S == {j \in from + 1 .. Exhausted : j = Exhausted \/ Open(j, force)}
<1>2. S \subseteq Nat /\ Exhausted \in S
  BY <1>1 DEF Exhausted
<1>3. PICK n \in S : \A m \in S : n <= m
  BY <1>2, LeastNumber
<1>4. n \in from + 1 .. Exhausted /\ (n = Exhausted \/ Open(n, force))
  BY <1>3
<1>5. \A k \in from + 1 .. n - 1 : ~Open(k, force)
  <2>. SUFFICES ASSUME NEW k \in from + 1 .. n - 1, Open(k, force) PROVE FALSE
    OBVIOUS
  <2>1. k \in S /\ k < n
    BY <1>1, <1>4 DEF Exhausted
  <2>. QED
    BY <1>1, <1>3, <1>4, <2>1 DEF Exhausted
<1>6. /\ next \in from + 1 .. Exhausted /\ (next = Exhausted \/ Open(next, force))
      /\ \A k \in from + 1 .. next - 1 : ~Open(k, force)
  BY <1>4, <1>5 DEF NextCandidate
<1>. HIDE DEF next
<1>7. next \in 1..Exhausted /\ next > from /\ (next # Exhausted => next \in DOMAIN Candidates)
  BY <1>1, <1>6 DEF Exhausted
<1>. QED
  BY <1>6, <1>7 DEF next

-----------------------------------------------------------------------------
(* Types *)

AtType == [candidate : 0..Exhausted, attempt : 0..MaxAttempts]
AnswerType == [from : {"none", "cache", "model", "failed", "denied"}, score : Score]
CallsType == [count : Nat, error : {"none", "transient", "permanent"}, span : Nat]
RowType == [status : {"absent", "pending", "succeeded", "failed"}, awaiting : BOOLEAN,
            owner : {<<>>} \cup Session \X (1..MaxRequests)]

LEMMA InitTypes == Init => TypeOK
<1>. SUFFICES ASSUME Init PROVE TypeOK
  OBVIOUS
<1>0. /\ MaxRequests \in Nat /\ MaxAttempts \in Nat \ {0} /\ Callers \subseteq {"live", "keyless", "stub"}
      /\ Len(Candidates) \in Nat /\ Exhausted \in Nat
  BY BoundAssumption, RouteAssumption, CandidateList DEF Init, Exhausted
<1>1. rows \in [CallIds -> RowType]
  BY DEF Init, NoRow, RowType
<1>2. request \in [Session -> [n : 0..MaxRequests, prompt : Prompt]]
  BY <1>0 DEF Init
<1>3. at \in [Session -> AtType]
  BY <1>0 DEF Init, AtType
<1>4. cache \in [Session -> [Prompt -> Score]]
  BY DEF Init, Prebuilt, Score
<1>5. answer \in [Session -> AnswerType] /\ calls \in [Session -> CallsType]
  BY DEF Init, NoAnswer, NoCalls, AnswerType, CallsType, Score
<1>6. breach \in [Session -> Breaches \cup {"none"}]
  BY DEF Init
<1>. QED
  BY <1>1, <1>2, <1>3, <1>4, <1>5, <1>6
     DEF Init, TypeOK, Label, RowType, AtType, AnswerType, CallsType

(* What a step of the cascade, or the end of it, leaves behind.               *)
LEMMA AdvanceEffect ==
  ASSUME TypeOK, NEW s \in Session, NEW from \in 0..Len(Candidates), Advance(s, from)
  PROVE  /\ at' \in [Session -> AtType] /\ answer' \in [Session -> AnswerType]
         /\ pc' \in [Session -> Label]
         /\ calls' = [calls EXCEPT ![s] = NoCalls]
         /\ \A t \in Session \ {s} : at'[t] = at[t] /\ answer'[t] = answer[t] /\ pc'[t] = pc[t]
         /\ at'[s].attempt = 1
         /\ at'[s].candidate = NextCandidate(from, ForceCheapest(s))
         /\ \/ pc'[s] = "reply"
            \/ /\ pc'[s] = "call" /\ at'[s].candidate # Exhausted
               /\ at'[s].candidate \in DOMAIN Candidates
<1>. DEFINE i == NextCandidate(from, ForceCheapest(s))
<1>0. route \in Routes /\ MaxAttempts \in Nat \ {0} /\ Len(Candidates) \in Nat
  BY BoundAssumption, CandidateList DEF TypeOK
<1>1. i \in 1..Exhausted /\ (i # Exhausted => i \in DOMAIN Candidates)
  BY <1>0, NextIsCandidate
<1>2. /\ at' = [at EXCEPT ![s] = [candidate |-> i, attempt |-> 1]]
      /\ calls' = [calls EXCEPT ![s] = NoCalls]
      /\ \/ /\ i = Exhausted /\ pc' = [pc EXCEPT ![s] = "reply"]
            /\ answer' = [answer EXCEPT ![s] = [from |-> "failed", score |-> "none"]]
         \/ i # Exhausted /\ pc' = [pc EXCEPT ![s] = "call"] /\ answer' = answer
  BY DEF Advance, Start, Goto, Answer
<1>. HIDE DEF i
<1>3. [candidate |-> i, attempt |-> 1] \in AtType
  BY <1>0, <1>1 DEF AtType
<1>4. at' \in [Session -> AtType] /\ at'[s] = [candidate |-> i, attempt |-> 1]
  BY <1>2, <1>3 DEF TypeOK, AtType
<1>5. answer' \in [Session -> AnswerType] /\ pc' \in [Session -> Label]
  <2>1. [from |-> "failed", score |-> "none"] \in AnswerType
    BY DEF AnswerType, Score
  <2>2. answer \in [Session -> AnswerType] /\ pc \in [Session -> Label]
    BY DEF TypeOK, AnswerType
  <2>3. {"reply", "call"} \subseteq Label
    BY DEF Label
  <2>. QED
    BY <1>2, <2>1, <2>2, <2>3
<1>. QED
  BY SMTT(20), <1>1, <1>2, <1>4, <1>5 DEF TypeOK, AtType, AnswerType, i

(* Who writes what.                                                           *)
Written ==
  /\ UNCHANGED build
  /\ \/ status' = status
     \/ \E s \in Session, x \in {"running", "awaiting_approval", "halted"} :
          status' = [status EXCEPT ![s] = x]
  /\ logged' = logged \/ \E s \in Session, b \in BOOLEAN : logged' = [logged EXCEPT ![s] = b]
  /\ spent' = spent \/ \E s \in Session : Record(s)
  /\ \/ rows' = rows
     \/ \E s \in Session : Ask(s) \/ Flag(s)
     \/ \E c \in CallIds : Operate(c)
  /\ approving' = approving \/ \E c \in CallIds : Approve(c) \/ Resolve(c)
  /\ degraded' = degraded \/ \E s \in Session : Degrade(s) \/ Crash(s)
  /\ forced' = forced \/ \E s \in Session : Degrade(s)
  /\ granted' = granted \/ \E s \in Session : Degrade(s) \/ Decided(s)
  /\ approved' = approved \/ \E c \in CallIds : Approve(c)
  /\ cache' = cache \/ \E s \in Session : Log(s) \/ Crash(s)
  /\ request' = request \/ \E s \in Session, p \in Prompt : Send(s, p)
  /\ \/ UNCHANGED <<at, calls>>
     \/ \E s \in Session : CacheDecision(s) \/ CallModel(s) \/ Record(s) \/ Crash(s)
  /\ \/ answer' = answer
     \/ \E s \in Session, p \in Prompt : Send(s, p)
     \/ \E s \in Session : CacheDecision(s) \/ CallModel(s) \/ Record(s) \/ Crash(s) \/ Decided(s)
  /\ bill' = bill \/ \E s \in Session : CallModel(s) \/ Record(s) \/ Crash(s)
  /\ crashes' = crashes \/ \E s \in Session : Crash(s)
LEMMA Writers == [Next]_vars => Written
<1>1. ASSUME NEW s \in Session, NEW p \in Prompt, Send(s, p) PROVE Written
  BY <1>1 DEF Written, Send
<1>2. ASSUME NEW s \in Session, WithinBudget(s) \/ Degrade(s) \/ Halt(s) \/ Decided(s) PROVE Written
  BY <1>2 DEF Written, WithinBudget, Degrade, Halt, Decided
<1>3. ASSUME NEW s \in Session, Ask(s) \/ Flag(s) \/ Poll(s) PROVE Written
  BY <1>3 DEF Written, Ask, Flag, Poll
<1>4. ASSUME NEW s \in Session, CacheDecision(s) \/ CallModel(s) PROVE Written
  BY <1>4 DEF Written, CacheDecision, CallModel, Advance
<1>5. ASSUME NEW s \in Session, Record(s) PROVE Written
  BY <1>5 DEF Written, Record
<1>6. ASSUME NEW s \in Session, Log(s) \/ Reply(s) PROVE Written
  BY <1>6 DEF Written, Log, Reply
<1>7. ASSUME NEW s \in Session, Crash(s) \/ Resume(s) PROVE Written
  BY <1>7 DEF Written, Crash, Resume
<1>8. ASSUME NEW c \in CallIds, Operate(c) PROVE Written
  BY <1>8 DEF Written, Operate, Approve, Resolve, Deny
<1>9. CASE UNCHANGED vars
  BY <1>9 DEF Written, vars
<1>. QED
  BY <1>1, <1>2, <1>3, <1>4, <1>5, <1>6, <1>7, <1>8, <1>9 DEF Next, Serve, Enforce, Execute

(* A session's actions leave the other sessions as they are.                  *)
LEMMA StepOfOne ==
  ASSUME TypeOK, NEW s \in Session, NEW t \in Session \ {s},
         (\E p \in Prompt : Send(s, p)) \/ Serve(s) \/ Crash(s) \/ Resume(s)
  PROVE  /\ pc'[t] = pc[t] /\ spent'[t] = spent[t] /\ degraded'[t] = degraded[t]
         /\ cache'[t] = cache[t] /\ request'[t] = request[t] /\ at'[t] = at[t]
         /\ answer'[t] = answer[t] /\ forced'[t] = forced[t] /\ granted'[t] = granted[t]
         /\ calls'[t] = calls[t] /\ bill'[t] = bill[t] /\ crashes'[t] = crashes[t]
<1>. USE DEF TypeOK, Goto, Answer
<1>1. CASE \E p \in Prompt : Send(s, p)
  BY <1>1 DEF Send
<1>2. CASE WithinBudget(s) \/ Degrade(s) \/ Halt(s) \/ Decided(s)
  BY SMTT(20), <1>2 DEF WithinBudget, Degrade, Halt, Decided
<1>3. CASE Ask(s) \/ Flag(s) \/ Poll(s)
  BY SMTT(20), <1>3 DEF Ask, Flag, Poll
<1>4. CASE CacheDecision(s) \/ CallModel(s)
  BY SMTT(20), <1>4 DEF CacheDecision, CallModel, Advance, Start
<1>5. CASE Record(s)
  BY SMTT(20), <1>5 DEF Record, Advance, Start
<1>6. CASE Log(s) \/ Reply(s)
  BY <1>6 DEF Log, Reply
<1>7. CASE Crash(s) \/ Resume(s)
  BY SMTT(20), <1>7 DEF Crash, Resume
<1>. QED
  BY <1>1, <1>2, <1>3, <1>4, <1>5, <1>6, <1>7 DEF Serve, Enforce, Execute

-----------------------------------------------------------------------------
(* What the daemon does to its request                                        *)

LEMMA CacheEffect ==
  ASSUME TypeOK, NEW s \in Session, CacheDecision(s)
  PROVE  /\ pc[s] = "cache" /\ pc' \in [Session -> Label]
         /\ at' \in [Session -> AtType] /\ answer' \in [Session -> AnswerType]
         /\ \/ /\ pc'[s] = "log" /\ UNCHANGED <<at, calls>>
               /\ answer'[s] = [from |-> "cache", score |-> cache[s][request[s].prompt]]
            \/ /\ calls' = [calls EXCEPT ![s] = NoCalls] /\ at'[s].attempt = 1
               /\ \/ pc'[s] = "reply"
                  \/ pc'[s] = "call" /\ at'[s].candidate \in DOMAIN Candidates
<1>. DEFINE hit == cache[s][request[s].prompt]
<1>1. CASE hit = "none"
  <2>1. Advance(s, 0) /\ pc[s] = "cache"
    BY <1>1 DEF CacheDecision, At
  <2>2. 0 \in 0..Len(Candidates)
    BY CandidateList DEF TypeOK
  <2>. QED
    BY <2>1, <2>2, AdvanceEffect
<1>2. CASE hit # "none"
  <2>1. /\ pc[s] = "cache" /\ pc' = [pc EXCEPT ![s] = "log"] /\ UNCHANGED <<at, calls>>
        /\ answer' = [answer EXCEPT ![s] = [from |-> "cache", score |-> hit]]
    BY <1>2 DEF CacheDecision, At, Goto, Answer
  <2>2. hit \in Score
    BY DEF TypeOK
  <2>3. [from |-> "cache", score |-> hit] \in AnswerType
    BY <2>2 DEF AnswerType
  <2>. HIDE DEF hit
  <2>4. answer \in [Session -> AnswerType] /\ pc \in [Session -> Label] /\ at \in [Session -> AtType]
    BY DEF TypeOK, AnswerType, AtType
  <2>5. "log" \in Label
    BY DEF Label
  <2>6. pc' \in [Session -> Label] /\ answer' \in [Session -> AnswerType] /\ at' \in [Session -> AtType]
    BY <2>1, <2>3, <2>4, <2>5
  <2>. QED
    BY <2>1, <2>4, <2>6 DEF hit
<1>. QED
  BY <1>1, <1>2

(* What a call costs, as it is paid for and as its span says, is bounded.    *)
LEMMA ChargeType ==
  ASSUME route \in Routes, NEW i \in DOMAIN Candidates
  PROVE  /\ Estimate(i) \in Nat /\ Charge(i) \in Nat /\ Estimate(i) <= Charge(i)
         /\ caller = "live" => MaxReport <= Charge(i)
<1>1. Estimate(i) \in Nat
  BY CandidateList DEF Estimate
<1>. QED
  BY <1>1, ReportAssumption DEF Charge

LEMMA OutcomeType ==
  ASSUME TypeOK, NEW i \in DOMAIN Candidates, NEW outcome \in Called(i)
  PROVE  /\ outcome.error \in {"none", "transient", "permanent"}
         /\ ScoreOf(outcome, i) \in Score
         /\ outcome.span \in Nat /\ outcome.span <= Charge(i)
         /\ outcome.bill \in Nat /\ outcome.bill <= Charge(i)
<1>0. caller \in {"live", "keyless", "stub"}
  BY RouteAssumption DEF TypeOK
<1>1. /\ Estimate(i) \in Nat /\ Charge(i) \in Nat /\ Estimate(i) <= Charge(i)
      /\ caller = "live" => MaxReport <= Charge(i)
  BY ChargeType DEF TypeOK
<1>. DEFINE Small == {price \in Nat : price <= Charge(i)}
<1>2. 0 \in Small /\ Estimate(i) \in Small /\ (caller = "live" => Prices(i) \subseteq Small)
  <2>1. 0 \in Small /\ Estimate(i) \in Small
    BY <1>1
  <2>2. ASSUME caller = "live", NEW price \in Reported PROVE price \in Small
    BY <1>1, <2>2, ReportAssumption
  <2>. QED
    BY <2>1, <2>2 DEF Prices
<1>. HIDE DEF Small
<1>3. ASSUME NEW confidence, NEW prices \in SUBSET Small, outcome \in Answers(i, confidence, prices)
      PROVE  outcome.error = "none" /\ outcome.span \in Small /\ outcome.bill \in Small
  BY <1>2, <1>3 DEF Answers
<1>4. ASSUME NEW error, NEW prices \in SUBSET Small, outcome \in Fails(i, error, prices)
      PROVE  outcome.error = error /\ outcome.span \in Small /\ outcome.bill \in Small
  BY <1>2, <1>4 DEF Fails
<1>5. /\ outcome.error \in {"none", "transient", "permanent"}
      /\ outcome.span \in Small /\ outcome.bill \in Small
  <2>1. CASE caller = "live"
    <3>0. {0} \subseteq Small /\ Prices(i) \subseteq Small /\ {0} \cup Prices(i) \subseteq Small
      BY <1>2, <2>1
    <3>1. outcome \in Live(i)
      BY <2>1 DEF Called
    <3>2. CASE outcome \in Unsent(i) \cup Unread(i) \cup Useless(i)
      BY <1>4, <3>0, <3>2 DEF Unsent, Unread, Useless
    <3>3. ASSUME NEW code \in Status, outcome \in Refused(i, code)
          PROVE  /\ outcome.error \in {"none", "transient", "permanent"}
                 /\ outcome.span \in Small /\ outcome.bill \in Small
      <4>. DEFINE error == IF code = 429 \/ code >= 500 THEN "transient" ELSE "permanent"
      <4>1. outcome \in Fails(i, error, {0}) /\ error \in {"none", "transient", "permanent"}
        BY <3>3 DEF Refused
      <4>. HIDE DEF error
      <4>. QED
        BY <1>4, <3>0, <4>1
    <3>4. CASE outcome \in Answers(i, 0, Prices(i)) \cup Answers(i, 100, Prices(i))
      BY <1>3, <3>0, <3>4
    <3>5. \/ outcome \in Unsent(i) \cup Unread(i) \cup Useless(i)
          \/ \E code \in Status : outcome \in Refused(i, code)
          \/ outcome \in Answers(i, 0, Prices(i)) \cup Answers(i, 100, Prices(i))
      BY <3>1 DEF Live
    <3>. QED
      BY <3>2, <3>3, <3>4, <3>5
  <2>2. CASE caller = "keyless"
    <3>1. outcome \in Fails(i, "permanent", {0}) /\ {0} \subseteq Small
      BY <1>2, <2>2 DEF Called, Keyless
    <3>. QED
      BY <1>4, <3>1
  <2>3. CASE caller = "stub"
    <3>1. /\ outcome \in Answers(i, IF InCascade(i) THEN StubConfidence[route.tiers[i]] ELSE 100, {0})
          /\ {0} \subseteq Small
      BY <1>2, <2>3 DEF Called, Stub
    <3>. QED
      BY <1>3, <3>1
  <2>. QED
    BY <1>0, <2>1, <2>2, <2>3
<1>6. ScoreOf(outcome, i) \in Score
  BY DEF ScoreOf, Score
<1>. QED
  BY <1>5, <1>6 DEF Small

LEMMA CallEffect ==
  ASSUME TypeOK, ServingInv, NEW s \in Session, CallModel(s)
  PROVE  /\ pc[s] = "call" /\ pc' \in [Session -> Label]
         /\ at' \in [Session -> AtType] /\ answer' \in [Session -> AnswerType]
         /\ calls' \in [Session -> CallsType] /\ bill' \in [Session -> Nat]
         /\ at'[s].candidate = at[s].candidate /\ at[s].candidate \in DOMAIN Candidates
         /\ calls'[s].count = calls[s].count + 1
         /\ calls'[s].span <= Charge(at[s].candidate)
         /\ bill'[s] <= bill[s] + Charge(at[s].candidate)
         /\ \/ /\ pc'[s] = "call" /\ at'[s].attempt = at[s].attempt + 1
               /\ calls'[s].error = "transient"
            \/ pc'[s] = "record" /\ at' = at /\ answer'[s].from = "model"
<1>. DEFINE i == at[s].candidate
<1>1. PICK outcome \in Called(i) :
        /\ pc[s] = "call"
        /\ calls' = [calls EXCEPT ![s] =
                       [count |-> calls[s].count + 1, span |-> outcome.span,
                        error |-> IF outcome.error = "none" THEN calls[s].error ELSE outcome.error]]
        /\ bill' = [bill EXCEPT ![s] = bill[s] + outcome.bill]
        /\ IF outcome.error = "transient" /\ at[s].attempt < MaxAttempts
             THEN at' = [at EXCEPT ![s].attempt = at[s].attempt + 1] /\ UNCHANGED <<pc, answer>>
             ELSE Goto(s, "record") /\ Answer(s, "model", ScoreOf(outcome, i)) /\ UNCHANGED at
  BY DEF CallModel, At
<1>0. i \in DOMAIN Candidates
  BY <1>1 DEF ServingInv
<1>2. /\ outcome.error \in {"none", "transient", "permanent"} /\ ScoreOf(outcome, i) \in Score
      /\ outcome.span \in Nat /\ outcome.span <= Charge(i)
      /\ outcome.bill \in Nat /\ outcome.bill <= Charge(i) /\ Charge(i) \in Nat
  BY <1>0, OutcomeType, ChargeType DEF TypeOK
<1>. DEFINE done == [count |-> calls[s].count + 1, span |-> outcome.span,
                     error |-> IF outcome.error = "none" THEN calls[s].error ELSE outcome.error]
<1>3. calls[s] \in CallsType
  BY DEF TypeOK, CallsType
<1>4. done \in CallsType /\ done.count = calls[s].count + 1 /\ done.span <= Charge(i)
  BY <1>2, <1>3 DEF CallsType
<1>5. outcome.error = "transient" => done.error = "transient"
  OBVIOUS
<1>6. calls' = [calls EXCEPT ![s] = done]
  BY <1>1
<1>. HIDE DEF done
<1>7. calls' \in [Session -> CallsType] /\ calls'[s] = done
  BY <1>4, <1>6 DEF TypeOK, CallsType
<1>8. /\ answer \in [Session -> AnswerType] /\ pc \in [Session -> Label]
      /\ at \in [Session -> AtType] /\ "record" \in Label /\ MaxAttempts \in Nat
  BY BoundAssumption DEF TypeOK, AnswerType, AtType, Label
<1>11. bill' \in [Session -> Nat] /\ bill'[s] <= bill[s] + Charge(i)
  BY <1>1, <1>2 DEF TypeOK
<1>9. CASE outcome.error = "transient" /\ at[s].attempt < MaxAttempts
  <2>1. at' = [at EXCEPT ![s].attempt = at[s].attempt + 1] /\ UNCHANGED <<pc, answer>>
    BY <1>1, <1>9
  <2>2. at[s].attempt + 1 \in 0..MaxAttempts
    BY <1>8, <1>9 DEF AtType
  <2>3. at' \in [Session -> AtType] /\ at'[s].attempt = at[s].attempt + 1
        /\ at'[s].candidate = at[s].candidate
    BY <1>8, <2>1, <2>2 DEF AtType
  <2>. QED
    BY <1>0, <1>1, <1>4, <1>5, <1>7, <1>8, <1>9, <1>11, <2>1, <2>3
<1>10. CASE ~(outcome.error = "transient" /\ at[s].attempt < MaxAttempts)
  <2>1. /\ pc' = [pc EXCEPT ![s] = "record"] /\ at' = at
        /\ answer' = [answer EXCEPT ![s] = [from |-> "model", score |-> ScoreOf(outcome, i)]]
    BY <1>1, <1>10 DEF Goto, Answer
  <2>2. [from |-> "model", score |-> ScoreOf(outcome, i)] \in AnswerType
    BY <1>2 DEF AnswerType
  <2>. QED
    BY <1>0, <1>1, <1>4, <1>7, <1>8, <1>11, <2>1, <2>2
<1>. QED
  BY <1>9, <1>10

LEMMA RecordEffect ==
  ASSUME TypeOK, ServingInv, NEW s \in Session, Record(s)
  PROVE  /\ pc[s] = "record" /\ pc' \in [Session -> Label]
         /\ at' \in [Session -> AtType] /\ answer' \in [Session -> AnswerType]
         /\ spent' \in [Session -> Nat] /\ bill' \in [Session -> Nat]
         /\ spent'[s] = spent[s] + calls[s].span /\ spent'[s] >= spent[s]
         /\ bill'[s] = IF pc'[s] = "call" THEN bill[s] ELSE 0
         /\ calls' = [calls EXCEPT ![s] = NoCalls]
         /\ \/ Accepts(s) /\ pc'[s] = "log" /\ UNCHANGED <<at, answer>>
            \/ pc'[s] = "reply"
            \/ /\ pc'[s] = "call" /\ at'[s].attempt = 1
               /\ at'[s].candidate \in DOMAIN Candidates
<1>. DEFINE i == at[s].candidate
<1>1. /\ pc[s] = "record" /\ spent' = [spent EXCEPT ![s] = spent[s] + calls[s].span]
      /\ bill' = [bill EXCEPT ![s] = IF pc'[s] = "call" THEN bill[s] ELSE 0]
      /\ IF Accepts(s)
           THEN /\ pc' = [pc EXCEPT ![s] = "log"] /\ UNCHANGED <<at, answer>>
                /\ calls' = [calls EXCEPT ![s] = NoCalls]
           ELSE Advance(s, i)
  BY DEF Record, At, Goto
<1>2. i \in DOMAIN Candidates /\ i \in 0..Len(Candidates)
  <2>1. i \in DOMAIN Candidates
    BY <1>1 DEF ServingInv
  <2>2. route \in Routes
    BY DEF TypeOK
  <2>. QED
    BY <2>1, <2>2, CandidateList
<1>3. /\ bill' \in [Session -> Nat]
      /\ bill'[s] = IF pc'[s] = "call" THEN bill[s] ELSE 0
  BY <1>1 DEF TypeOK
<1>. HIDE DEF i
<1>4. /\ spent' \in [Session -> Nat] /\ spent'[s] = spent[s] + calls[s].span
      /\ spent'[s] >= spent[s]
  <2>1. calls[s].span \in Nat
    BY DEF TypeOK
  <2>. QED
    BY <1>1, <2>1 DEF TypeOK
<1>5. /\ answer \in [Session -> AnswerType] /\ pc \in [Session -> Label]
      /\ at \in [Session -> AtType] /\ "log" \in Label
  BY DEF TypeOK, AnswerType, AtType, Label
<1>6. CASE Accepts(s)
  BY <1>1, <1>3, <1>4, <1>5, <1>6
<1>7. CASE ~Accepts(s)
  <2>1. Advance(s, i)
    BY <1>1, <1>7
  <2>. QED
    BY <1>1, <1>2, <1>3, <1>4, <2>1, AdvanceEffect
<1>. QED
  BY <1>6, <1>7

-----------------------------------------------------------------------------
(* Type correctness *)

LEMMA RequestStep ==
  ASSUME TypeOK, [Next]_vars PROVE request' \in [Session -> [n : 0..MaxRequests, prompt : Prompt]]
<1>1. ASSUME NEW s \in Session, NEW p \in Prompt, Send(s, p)
      PROVE  request' \in [Session -> [n : 0..MaxRequests, prompt : Prompt]]
  <2>1. request[s].n + 1 \in 0..MaxRequests
    BY <1>1, BoundAssumption DEF Send, TypeOK
  <2>2. request' = [request EXCEPT ![s] = [n |-> request[s].n + 1, prompt |-> p]]
    BY <1>1 DEF Send
  <2>. QED
    BY <2>1, <2>2 DEF TypeOK
<1>. QED
  BY <1>1, Writers DEF Written, TypeOK

LEMMA CallIdTypes ==
  ASSUME TypeOK, NEW s \in Session, request[s].n # 0
  PROVE  CallId(s) \in CallIds /\ <<s, request[s].n>> \in Session \X (1..MaxRequests)
<1>1. request[s].n \in 1..MaxRequests
  BY BoundAssumption DEF TypeOK
<1>. QED
  BY <1>1 DEF CallId, CallIds

LEMMA RowsStep ==
  ASSUME TypeOK, ServingInv, [Next]_vars
  PROVE  /\ rows' \in [CallIds -> RowType] /\ approving' \subseteq CallIds
         /\ approved' \subseteq {<<>>} \cup Session \X (1..MaxRequests)
<1>0. /\ rows \in [CallIds -> RowType] /\ approving \subseteq CallIds
      /\ approved \subseteq {<<>>} \cup Session \X (1..MaxRequests)
  BY DEF TypeOK, RowType
<1>1. ASSUME NEW s \in Session, Ask(s) PROVE rows' \in [CallIds -> RowType]
  <2>. DEFINE c == CallId(s)
  <2>1. c \in CallIds /\ <<s, request[s].n>> \in Session \X (1..MaxRequests)
    BY <1>1, CallIdTypes DEF Ask, At, ServingInv, Serves
  <2>2. \/ rows' = rows
        \/ rows' = [rows EXCEPT ![c].status = "pending",
                                ![c].owner = IF @ = <<>> THEN <<s, request[s].n>> ELSE @]
    BY <1>1 DEF Ask
  <2>. HIDE DEF c
  <2>. QED
    BY <1>0, <2>1, <2>2 DEF RowType
<1>2. ASSUME NEW s \in Session, Flag(s) PROVE rows' \in [CallIds -> RowType]
  <2>. DEFINE c == CallId(s)
  <2>1. c \in CallIds
    BY <1>2, CallIdTypes DEF Flag, At, ServingInv, Serves
  <2>2. rows' = [rows EXCEPT ![c].awaiting = TRUE]
    BY <1>2 DEF Flag
  <2>. HIDE DEF c
  <2>. QED
    BY ZenonT(20), <1>0, <2>1, <2>2 DEF RowType
<1>3. ASSUME NEW c \in CallIds, Approve(c)
      PROVE  /\ rows' \in [CallIds -> RowType] /\ approving' \subseteq CallIds
             /\ approved' \subseteq {<<>>} \cup Session \X (1..MaxRequests)
  <2>1. rows' = [rows EXCEPT ![c].awaiting = FALSE] /\ rows[c] \in RowType
    BY <1>0, <1>3 DEF Approve
  <2>2. rows' \in [CallIds -> RowType]
    BY <1>0, <2>1 DEF RowType
  <2>3. rows[c].owner \in {<<>>} \cup Session \X (1..MaxRequests)
    BY <2>1 DEF RowType
  <2>. QED
    BY <1>0, <1>3, <2>2, <2>3 DEF Approve
<1>4. ASSUME NEW c \in CallIds, Resolve(c)
      PROVE  rows' \in [CallIds -> RowType] /\ approving' \subseteq CallIds
  <2>1. PICK outcome \in {"succeeded", "failed"} : rows' = [rows EXCEPT ![c].status = outcome]
    BY <1>4, PolicyAssumption DEF Resolve
  <2>. QED
    BY <1>0, <1>4, <2>1 DEF Resolve, RowType
<1>5. ASSUME NEW c \in CallIds, Deny(c) PROVE rows' \in [CallIds -> RowType]
  BY <1>0, <1>5 DEF Deny, RowType
<1>6. rows' \in [CallIds -> RowType]
  BY <1>0, <1>1, <1>2, <1>3, <1>4, <1>5, Writers DEF Written, Operate
<1>. QED
  BY <1>0, <1>3, <1>4, <1>6, Writers DEF Written

LEMMA CrashEffect ==
  ASSUME TypeOK, NEW s \in Session, Crash(s)
  PROVE  /\ at' \in [Session -> AtType] /\ calls' = [calls EXCEPT ![s] = NoCalls]
         /\ answer' \in [Session -> AnswerType]
         /\ bill' \in [Session -> Nat] /\ bill'[s] = 0
<1>1. [candidate |-> 0, attempt |-> 0] \in AtType /\ NoAnswer \in AnswerType
  BY BoundAssumption, CandidateList DEF TypeOK, AtType, Exhausted, NoAnswer, AnswerType, Score
<1>2. at \in [Session -> AtType] /\ answer \in [Session -> AnswerType]
  BY DEF TypeOK, AtType, AnswerType
<1>3. bill' \in [Session -> Nat] /\ bill'[s] = 0
  BY DEF Crash, TypeOK
<1>. QED
  BY <1>1, <1>2, <1>3 DEF Crash

LEMMA AnswerStep ==
  ASSUME TypeOK, ServingInv, [Next]_vars
  PROVE  /\ answer' \in [Session -> AnswerType] /\ at' \in [Session -> AtType]
         /\ calls' \in [Session -> CallsType] /\ bill' \in [Session -> Nat]
<1>0. /\ answer \in [Session -> AnswerType] /\ at \in [Session -> AtType]
      /\ calls \in [Session -> CallsType] /\ NoCalls \in CallsType
      /\ bill \in [Session -> Nat]
  BY DEF TypeOK, AnswerType, AtType, CallsType, NoCalls
<1>1. ASSUME NEW s \in Session, CacheDecision(s) \/ CallModel(s) \/ Record(s) \/ Crash(s)
      PROVE  /\ answer' \in [Session -> AnswerType] /\ at' \in [Session -> AtType]
             /\ calls' \in [Session -> CallsType]
  <2>1. CASE CacheDecision(s)
    <3>1. calls' = calls \/ calls' = [calls EXCEPT ![s] = NoCalls]
      BY <2>1, CacheEffect
    <3>2. calls' \in [Session -> CallsType]
      BY <1>0, <3>1
    <3>. QED
      BY <2>1, <3>2, CacheEffect
  <2>2. CASE CallModel(s)
    BY <2>2, CallEffect
  <2>3. CASE Record(s)
    BY <1>0, <2>3, RecordEffect
  <2>4. CASE Crash(s)
    BY <1>0, <2>4, CrashEffect
  <2>. QED
    BY <1>1, <2>1, <2>2, <2>3, <2>4
<1>2. ASSUME NEW s \in Session, (\E p \in Prompt : Send(s, p)) \/ Decided(s)
      PROVE  answer' \in [Session -> AnswerType]
  <2>1. /\ [from |-> "denied", score |-> "none"] \in AnswerType
        /\ NoAnswer \in AnswerType
    BY DEF AnswerType, NoAnswer, Score
  <2>. QED
    BY <1>0, <1>2, <2>1 DEF Send, Decided, Answer
<1>3. ASSUME NEW s \in Session, CallModel(s) \/ Record(s) \/ Crash(s)
      PROVE  bill' \in [Session -> Nat]
  BY <1>3, CallEffect, RecordEffect, CrashEffect
<1>. QED
  BY <1>0, <1>1, <1>2, <1>3, Writers DEF Written

LEMMA StepLabel == ASSUME TypeOK, ServingInv, AttemptsInv, [Next]_vars PROVE pc' \in [Session -> Label]
<1>0. pc \in [Session -> Label]
  BY DEF TypeOK
<1>1. ASSUME NEW s \in Session, NEW p \in Prompt, Send(s, p) PROVE pc' \in [Session -> Label]
  BY <1>0, <1>1 DEF Send, Goto, Label
<1>2. ASSUME NEW s \in Session, Enforce(s) PROVE pc' \in [Session -> Label]
  BY <1>0, <1>2 DEF Enforce, WithinBudget, Degrade, Halt, Ask, Flag, Poll, Decided, Goto, Label
<1>3. ASSUME NEW s \in Session, Execute(s) PROVE pc' \in [Session -> Label]
  <2>1. CASE Log(s) \/ Reply(s)
    BY <1>0, <2>1 DEF Log, Reply, Goto, Label
  <2>. QED
    BY <1>3, <2>1, CacheEffect, CallEffect, RecordEffect DEF Execute
<1>4. ASSUME NEW s \in Session, Crash(s) \/ Resume(s) PROVE pc' \in [Session -> Label]
  BY <1>0, <1>4 DEF Crash, Resume, Goto, Label
<1>5. CASE (\E c \in CallIds : Operate(c)) \/ UNCHANGED vars
  BY <1>0, <1>5 DEF Operate, Approve, Resolve, Deny, vars
<1>. QED
  BY <1>1, <1>2, <1>3, <1>4, <1>5 DEF Next, Serve

LEMMA TypesStep == ASSUME TypeOK, ServingInv, AttemptsInv, [Next]_vars PROVE TypeOK'
<1>0. UNCHANGED <<route, caller, breach>> /\ Exhausted' = Exhausted /\ CallIds' = CallIds
  BY Writers DEF Written, Exhausted, Candidates
<1>1. status' \in [Session -> {"running", "awaiting_approval", "halted"}]
  BY Writers DEF Written, TypeOK
<1>2. logged' \in [Session -> BOOLEAN]
  BY Writers DEF Written, TypeOK
<1>3. spent' \in [Session -> Nat]
  BY Writers, RecordEffect DEF Written, TypeOK
<1>4. degraded' \in [Session -> SUBSET Prompt] /\ forced' \in [Session -> SUBSET Prompt]
  <2>1. degraded \in [Session -> SUBSET Prompt] /\ forced \in [Session -> SUBSET Prompt]
    BY DEF TypeOK
  <2>2. ASSUME NEW s \in Session, Degrade(s)
        PROVE  degraded' \in [Session -> SUBSET Prompt] /\ forced' \in [Session -> SUBSET Prompt]
    <3>1. request[s].prompt \in Prompt
      BY DEF TypeOK
    <3>. QED
      BY <2>1, <2>2, <3>1 DEF Degrade
  <2>3. ASSUME NEW s \in Session, Crash(s) PROVE degraded' \in [Session -> SUBSET Prompt]
    BY <2>1, <2>3 DEF Crash
  <2>4. /\ degraded' = degraded \/ \E s \in Session : Degrade(s) \/ Crash(s)
        /\ forced' = forced \/ \E s \in Session : Degrade(s)
    BY Writers DEF Written
  <2>. QED
    BY <2>1, <2>2, <2>3, <2>4
<1>5. granted' \in [Session -> SUBSET (1..MaxRequests)]
  <2>1. ASSUME NEW s \in Session, Degrade(s) \/ Decided(s)
        PROVE  granted' \in [Session -> SUBSET (1..MaxRequests)]
    <3>1. pc[s] \in {"check", "decided"}
      BY <2>1 DEF Degrade, Decided, At
    <3>2. request[s].n # 0 /\ request[s].n \in 0..MaxRequests
      BY <3>1 DEF ServingInv, Serves, TypeOK
    <3>3. request[s].n \in 1..MaxRequests
      BY <3>2, BoundAssumption
    <3>4. granted' = granted \/ granted' = [granted EXCEPT ![s] = granted[s] \cup {request[s].n}]
      BY <2>1 DEF Degrade, Decided
    <3>5. granted \in [Session -> SUBSET (1..MaxRequests)]
      BY DEF TypeOK
    <3>. QED
      BY <3>3, <3>4, <3>5
  <2>. QED
    BY <2>1, Writers DEF Written, TypeOK
<1>6. cache' \in [Session -> [Prompt -> Score]]
  <2>1. ASSUME NEW s \in Session, Log(s) PROVE cache' \in [Session -> [Prompt -> Score]]
    <3>1. answer[s].score \in Score /\ request[s].prompt \in Prompt
      BY DEF TypeOK
    <3>2. cache' = [cache EXCEPT ![s][request[s].prompt] = answer[s].score]
      BY <2>1 DEF Log
    <3>3. cache[s] \in [Prompt -> Score] /\ cache \in [Session -> [Prompt -> Score]]
      BY DEF TypeOK
    <3>4. [cache[s] EXCEPT ![request[s].prompt] = answer[s].score] \in [Prompt -> Score]
      BY <3>1, <3>3
    <3>. QED
      BY <3>2, <3>3, <3>4
  <2>2. Prebuilt \in [Prompt -> Score]
    BY DEF Prebuilt, Score
  <2>3. ASSUME NEW s \in Session, Crash(s) PROVE cache' \in [Session -> [Prompt -> Score]]
    BY <2>2, <2>3 DEF Crash, TypeOK
  <2>4. cache' = cache \/ \E s \in Session : Log(s) \/ Crash(s)
    BY Writers DEF Written
  <2>. QED
    BY <2>1, <2>3, <2>4 DEF TypeOK
<1>7. crashes' \in [Session -> Nat]
  <2>1. ASSUME NEW s \in Session, Crash(s) PROVE crashes' \in [Session -> Nat]
    BY <2>1 DEF Crash, TypeOK
  <2>2. crashes' = crashes \/ \E s \in Session : Crash(s)
    BY Writers DEF Written
  <2>. QED
    BY <2>1, <2>2 DEF TypeOK
<1>8. breach' \in [Session -> Breaches \cup {"none"}] /\ route' \in Routes /\ caller' \in Callers
  BY <1>0 DEF TypeOK
<1>. QED
  BY <1>0, <1>1, <1>2, <1>3, <1>4, <1>5, <1>6, <1>7, <1>8, RequestStep, RowsStep, AnswerStep, StepLabel
     DEF TypeOK, RowType, AtType, AnswerType, CallsType

(* The daemon serves a request, and calls a candidate of its route.           *)
LEMMA ServingStep ==
  ASSUME TypeOK, ServingInv, AttemptsInv, [Next]_vars PROVE ServingInv'
<1>0. Candidates' = Candidates
  BY Writers DEF Written, Candidates
<1>. DEFINE Fine(t) == /\ pc[t] \notin {"idle", "down", "halted"} => request[t].n # 0
                       /\ pc[t] \in {"call", "record"} => at[t].candidate \in DOMAIN Candidates
<1>1. ASSUME NEW s \in Session, (\E p \in Prompt : Send(s, p)) \/ Serve(s) \/ Crash(s) \/ Resume(s)
      PROVE  ServingInv'
  <2>1. Fine(s)'
    <3>1. ASSUME NEW p \in Prompt, Send(s, p) PROVE Fine(s)'
      BY <1>0, <3>1, BoundAssumption DEF Send, Goto, TypeOK
    <3>2. CASE Enforce(s)
      BY ZenonT(20), <1>0, <3>2 DEF Enforce, WithinBudget, Degrade, Halt, Ask, Flag, Poll, Decided, At, Goto,
                        ServingInv, Serves, TypeOK
    <3>3. CASE Log(s) \/ Reply(s) \/ Crash(s) \/ Resume(s)
      BY <1>0, <3>3 DEF Log, Reply, Crash, Resume, At, Goto, ServingInv, Serves, TypeOK
    <3>4. CASE CacheDecision(s) \/ CallModel(s) \/ Record(s)
      <4>1. UNCHANGED request /\ request[s].n # 0
        BY <3>4 DEF CacheDecision, CallModel, Record, At, ServingInv, Serves
      <4>2. pc'[s] \in {"call", "record"} => at'[s].candidate \in DOMAIN Candidates
        BY <3>4, CacheEffect, CallEffect, RecordEffect DEF ServingInv
      <4>. QED
        BY <1>0, <4>1, <4>2
    <3>. QED
      BY <1>1, <3>1, <3>2, <3>3, <3>4 DEF Serve, Execute
  <2>2. ASSUME NEW t \in Session \ {s} PROVE Fine(t)'
    BY <1>0, <1>1, <2>2, StepOfOne DEF ServingInv, Serves
  <2>. QED
    BY <2>1, <2>2 DEF ServingInv, Serves
<1>2. CASE (\E c \in CallIds : Operate(c)) \/ UNCHANGED vars
  BY <1>0, <1>2 DEF Operate, Approve, Resolve, Deny, vars, ServingInv, Serves
<1>. QED
  BY <1>1, <1>2 DEF Next

LEMMA AttemptsStep ==
  ASSUME TypeOK, ServingInv, AttemptsInv, [Next]_vars PROVE AttemptsInv'
<1>. DEFINE Fine(t) ==
       /\ pc[t] = "call" => /\ at[t].attempt = calls[t].count + 1
                            /\ calls[t].error \in {"none", "transient"}
       /\ pc[t] = "record" => /\ at[t].attempt = calls[t].count
                              /\ calls[t].span <= Charge(at[t].candidate)
       /\ pc[t] # "call" /\ pc[t] # "record" => calls[t] = NoCalls
<1>0. \A i : Charge(i)' = Charge(i)
  BY Writers DEF Written, Charge, Estimate, Candidates
<1>1. ASSUME NEW s \in Session, (\E p \in Prompt : Send(s, p)) \/ Serve(s) \/ Crash(s) \/ Resume(s)
      PROVE  AttemptsInv'
  <2>0. calls[s] \in CallsType /\ Fine(s)
    BY DEF AttemptsInv, At, TypeOK, CallsType
  <2>1. Fine(s)'
    <3>1. ASSUME NEW p \in Prompt, Send(s, p) PROVE Fine(s)'
      BY <2>0, <3>1 DEF Send, Goto, At, TypeOK
    <3>2. CASE Enforce(s)
      BY <2>0, <3>2 DEF Enforce, WithinBudget, Degrade, Halt, Ask, Flag, Poll, Decided, At, Goto, TypeOK
    <3>3. CASE Log(s) \/ Reply(s) \/ Resume(s)
      BY <2>0, <3>3 DEF Log, Reply, Resume, At, Goto, TypeOK
    <3>4. CASE Crash(s)
      <4>1. pc'[s] = "down" /\ calls'[s] = NoCalls
        BY <3>4, CrashEffect DEF Crash, Goto, TypeOK
      <4>. QED
        BY <4>1 DEF NoCalls
    <3>5. CASE CacheDecision(s) \/ Record(s)
      <4>1. \/ pc'[s] = "log" /\ calls'[s] = NoCalls
            \/ pc'[s] = "reply" /\ calls'[s] = NoCalls
            \/ pc'[s] = "call" /\ calls'[s] = NoCalls /\ at'[s].attempt = 1
        <5>1. calls \in [Session -> CallsType]
          BY DEF TypeOK, CallsType
        <5>2. CASE Record(s)
          <6>1. calls' = [calls EXCEPT ![s] = NoCalls] /\ pc[s] = "record"
            BY <5>2, RecordEffect
          <6>. QED
            BY <5>1, <5>2, <6>1, RecordEffect
        <5>3. CASE CacheDecision(s)
          BY <2>0, <5>1, <5>3, CacheEffect
        <5>. QED
          BY <3>5, <5>2, <5>3
      <4>. QED
        BY <4>1 DEF NoCalls
    <3>6. CASE CallModel(s)
      <4>1. calls[s].count \in Nat /\ at[s].attempt = calls[s].count + 1
        BY <2>0, <3>6, CallEffect DEF CallsType
      <4>. QED
        BY <1>0, <3>6, <4>1, CallEffect
    <3>. QED
      BY <1>1, <3>1, <3>2, <3>3, <3>4, <3>5, <3>6 DEF Serve, Execute
  <2>2. ASSUME NEW t \in Session \ {s} PROVE Fine(t)'
    BY <1>0, <1>1, <2>2, StepOfOne DEF AttemptsInv, At
  <2>. QED
    BY <2>1, <2>2 DEF AttemptsInv, At
<1>2. CASE (\E c \in CallIds : Operate(c)) \/ UNCHANGED vars
  BY <1>0, <1>2 DEF Operate, Approve, Resolve, Deny, vars, AttemptsInv, At
<1>. QED
  BY <1>1, <1>2 DEF Next

Typed == TypeOK /\ ServingInv /\ AttemptsInv
LEMMA TypesInductive == Spec => []Typed
<1>1. Init => Typed
  BY InitTypes, BoundAssumption DEF Typed, Init, ServingInv, AttemptsInv, Serves, At, NoCalls
<1>2. Typed /\ [Next]_vars => Typed'
  BY TypesStep, ServingStep, AttemptsStep DEF Typed
<1>. QED
  BY <1>1, <1>2, PTL DEF Spec

(* Every part of the daemons' and the store's state keeps its type.           *)
THEOREM TypeCorrect == Spec => []TypeOK
<1>1. Typed => TypeOK
  BY DEF Typed
<1>. QED
  BY <1>1, TypesInductive, PTL

-----------------------------------------------------------------------------
(* Approvals *)

LEMMA RowsInvStep ==
  ASSUME ~SharedIds, Typed, RowsInv, [Next]_vars PROVE RowsInv'
<1>. DEFINE Own(c) == /\ rows[c].owner \in {<<>>, c}
                      /\ c \in approving \/ rows[c].status # "absent" => rows[c].owner = c
                      /\ c \in approving \/ rows[c].status = "succeeded" => c \in approved
            Asked == \A s \in Session : breach[s] = "ask" => \A n \in granted[s] : <<s, n>> \in approved
<1>0. /\ rows \in [CallIds -> RowType] /\ approving \subseteq CallIds
      /\ TypeOK /\ ServingInv /\ (\A c \in CallIds : Own(c)) /\ Asked
  BY DEF Typed, TypeOK, RowType, RowsInv
<1>1. UNCHANGED breach /\ CallIds' = CallIds
  BY Writers DEF Written
<1>2. \A s \in Session : request[s].n # 0 => CallId(s) \in CallIds /\ CallId(s) = <<s, request[s].n>>
  BY <1>0, CallIdTypes DEF CallId
<1>3. approved \subseteq approved'
  <2>1. approved' = approved \/ \E c \in CallIds : Approve(c)
    BY Writers DEF Written
  <2>. QED
    BY <2>1 DEF Approve
<1>4. \A c \in CallIds : Own(c)'
  <2>1. ASSUME NEW s \in Session, Ask(s) PROVE \A c \in CallIds : Own(c)'
    <3>1. PICK d \in CallIds : d = CallId(s) /\ d = <<s, request[s].n>>
      BY <1>0, <1>2, <2>1 DEF Ask, At, ServingInv, Serves
    <3>. DEFINE row == [rows[d] EXCEPT !.status = "pending",
                                       !.owner = IF rows[d].owner = <<>> THEN d ELSE rows[d].owner]
    <3>2. UNCHANGED <<approving, approved>> /\ (rows' = rows \/ rows' = [rows EXCEPT ![d] = row])
      <4>1. UNCHANGED <<approving, approved>>
        BY <2>1 DEF Ask
      <4>. QED
        BY <2>1, <3>1, <4>1 DEF Ask
    <3>3. row.status = "pending" /\ row.owner = d
      BY <1>0 DEF RowType
    <3>. HIDE DEF row
    <3>4. \A c \in CallIds : \/ rows'[c] = rows[c]
                             \/ c = d /\ rows'[c].status = "pending" /\ rows'[c].owner = d
      BY <1>0, <3>2, <3>3
    <3>. QED
      BY <1>0, <3>2, <3>4
  <2>2. ASSUME NEW s \in Session, Flag(s) PROVE \A c \in CallIds : Own(c)'
    <3>1. CallId(s) \in CallIds
      BY <1>0, <1>2, <2>2 DEF Flag, At, ServingInv, Serves
    <3>2. UNCHANGED <<approving, approved>> /\ rows' = [rows EXCEPT ![CallId(s)].awaiting = TRUE]
      BY <2>2 DEF Flag
    <3>3. \A c \in CallIds : rows'[c].owner = rows[c].owner /\ rows'[c].status = rows[c].status
      BY <1>0, <3>1, <3>2 DEF RowType
    <3>. QED
      BY <1>0, <3>2, <3>3
  <2>3. ASSUME NEW d \in CallIds, Approve(d) \/ Deny(d) PROVE \A c \in CallIds : Own(c)'
    <3>1. rows[d].owner = d
      BY <1>0, <2>3 DEF Approve, Deny
    <3>2. \A c \in CallIds : /\ rows'[c].owner = rows[c].owner
                             /\ rows'[c].status = rows[c].status \/ (rows'[c].status = "failed" /\ c = d)
      <4>. DEFINE cleared == [rows[d] EXCEPT !.awaiting = FALSE]
                  failed == [rows[d] EXCEPT !.status = "failed", !.awaiting = FALSE]
      <4>1. rows' = [rows EXCEPT ![d] = cleared] \/ rows' = [rows EXCEPT ![d] = failed]
        BY <2>3 DEF Approve, Deny
      <4>2. /\ cleared.status = rows[d].status /\ cleared.owner = rows[d].owner
            /\ failed.status = "failed" /\ failed.owner = rows[d].owner
        BY <1>0 DEF RowType
      <4>3. rows \in [CallIds -> RowType]
        BY <1>0
      <4>. HIDE DEF cleared, failed
      <4>4. CASE rows' = [rows EXCEPT ![d] = cleared]
        BY <4>2, <4>3, <4>4
      <4>5. CASE rows' = [rows EXCEPT ![d] = failed]
        <5>1. \A c \in CallIds : rows'[c] = IF c = d THEN failed ELSE rows[c]
          BY <4>3, <4>5
        <5>. QED
          BY <4>2, <5>1
      <4>. QED
        BY <4>1, <4>4, <4>5
    <3>3. \/ UNCHANGED <<approving, approved>>
          \/ approving' = approving \cup {d} /\ approved' = approved \cup {d}
      BY <2>3, <3>1 DEF Approve, Deny
    <3>. QED
      BY <1>0, <3>1, <3>2, <3>3
  <2>4. ASSUME NEW d \in CallIds, Resolve(d) PROVE \A c \in CallIds : Own(c)'
    <3>1. d \in approving /\ approving' = approving \ {d} /\ UNCHANGED approved
      BY <2>4 DEF Resolve
    <3>2. \A c \in CallIds : /\ rows'[c].owner = rows[c].owner
                             /\ c # d => rows'[c].status = rows[c].status
      <4>1. PICK outcome \in Outcomes : rows' = [rows EXCEPT ![d].status = outcome]
        BY <2>4 DEF Resolve
      <4>. QED
        BY <1>0, <4>1 DEF RowType
    <3>. QED
      BY <1>0, <3>1, <3>2
  <2>5. /\ \/ rows' = rows
           \/ \E s \in Session : Ask(s) \/ Flag(s)
           \/ \E c \in CallIds : Operate(c)
        /\ approving' = approving \/ \E c \in CallIds : Approve(c) \/ Resolve(c)
    BY Writers DEF Written
  <2>6. CASE rows' = rows /\ approving' = approving
    BY <1>0, <1>3, <2>6
  <2>. QED
    BY <2>1, <2>2, <2>3, <2>4, <2>5, <2>6 DEF Operate
<1>5. Asked'
  <2>1. granted' = granted \/ \E s \in Session : Degrade(s) \/ Decided(s)
    BY Writers DEF Written
  <2>2. ASSUME NEW s \in Session, Degrade(s) PROVE Asked'
    <3>1. breach[s] # "ask" /\ \A t \in Session \ {s} : granted'[t] = granted[t]
      BY <1>0, <2>2 DEF Degrade, TypeOK
    <3>. QED
      BY <1>0, <1>1, <1>3, <3>1
  <2>3. ASSUME NEW s \in Session, Decided(s) PROVE Asked'
    <3>1. CallId(s) \in CallIds /\ CallId(s) = <<s, request[s].n>>
      BY <1>0, <1>2, <2>3 DEF Decided, At, ServingInv, Serves
    <3>2. \/ granted' = granted
          \/ /\ granted' = [granted EXCEPT ![s] = granted[s] \cup {request[s].n}]
             /\ rows[CallId(s)].status = "succeeded"
      BY <2>3 DEF Decided
    <3>3. granted \in [Session -> SUBSET (1..MaxRequests)]
      BY <1>0 DEF TypeOK
    <3>4. rows[CallId(s)].status = "succeeded" => <<s, request[s].n>> \in approved
      BY <1>0, <3>1
    <3>5. \A t \in Session : \A n \in granted'[t] :
            n \in granted[t] \/ (t = s /\ n = request[s].n /\ rows[CallId(s)].status = "succeeded")
      BY <3>2, <3>3
    <3>. QED
      BY <1>0, <1>1, <1>3, <3>4, <3>5
  <2>. QED
    BY <1>0, <1>1, <1>3, <2>1, <2>2, <2>3
<1>. QED
  BY <1>1, <1>4, <1>5 DEF RowsInv

(* session.rs enforce_session_budget with park_for_approval, and approve and  *)
(* deny of the gateway: where on_breach asks, no request goes on above the    *)
(* budget but one that an operator approved, for any number of sessions,      *)
(* requests, crashes and resumes: the row of a call id is of the request that *)
(* asked first, which is the only one unless two harnesses share their ids.   *)
THEOREM BreachIsApproved == Spec => []GrantedIsApproved
<1>1. ASSUME SharedIds PROVE Spec => []GrantedIsApproved
  <2>1. GrantedIsApproved
    BY <1>1 DEF GrantedIsApproved
  <2>. QED
    BY <2>1, PTL
<1>2. ASSUME ~SharedIds PROVE Spec => []GrantedIsApproved
  <2>1. Init => RowsInv
    BY DEF Init, RowsInv, NoRow
  <2>2. Typed /\ RowsInv /\ [Next]_vars => RowsInv'
    BY <1>2, RowsInvStep
  <2>3. RowsInv => GrantedIsApproved
    BY DEF RowsInv, GrantedIsApproved
  <2>. QED
    BY <2>1, <2>2, <2>3, TypesInductive, PTL DEF Spec
<1>. QED
  BY <1>1, <1>2

-----------------------------------------------------------------------------
(* The bars of the cascade *)

(* A degraded prompt was degraded when the budget was spent, for good.        *)
LEMMA ForcedStep == ASSUME Typed, ForcedInv, [Next]_vars PROVE ForcedInv'
<1>0. TypeOK /\ ServingInv
  BY DEF Typed
<1>1. UNCHANGED breach
  BY Writers DEF Written
<1>2. \A s \in Session : spent[s] \in Nat /\ spent'[s] \in Nat /\ spent'[s] >= spent[s]
  <2>1. spent' = spent \/ \E s \in Session : Record(s)
    BY Writers DEF Written
  <2>2. ASSUME NEW s \in Session, Record(s) PROVE \A t \in Session : spent'[t] \in Nat /\ spent'[t] >= spent[t]
    <3>1. Serve(s)
      BY <2>2 DEF Serve, Execute
    <3>2. ASSUME NEW t \in Session \ {s} PROVE spent'[t] = spent[t]
      BY <1>0, <3>1, <3>2, StepOfOne
    <3>3. spent \in [Session -> Nat] /\ spent' \in [Session -> Nat] /\ spent'[s] >= spent[s]
      BY <1>0, <2>2, RecordEffect DEF TypeOK
    <3>4. \A t \in Session : spent[t] \in Nat /\ spent'[t] \in Nat
      BY <3>3
    <3>. QED
      BY <3>2, <3>3, <3>4
  <2>. QED
    BY <1>0, <2>1, <2>2 DEF TypeOK
<1>3. \A s \in Session : /\ degraded[s] \subseteq forced[s]
                         /\ \A p \in forced[s] : breach[s] = "degrade" /\ spent[s] >= Budget
  BY DEF ForcedInv, Overspent
<1>4. \A s \in Session : /\ degraded'[s] \subseteq forced'[s]
                         /\ \A p \in forced'[s] : breach[s] = "degrade" /\ spent'[s] >= Budget
  <2>1. /\ degraded' = degraded \/ \E s \in Session : Degrade(s) \/ Crash(s)
        /\ forced' = forced \/ \E s \in Session : Degrade(s)
    BY Writers DEF Written
  <2>2. CASE UNCHANGED <<degraded, forced>>
    BY <1>2, <1>3, <2>2, BoundAssumption
  <2>3. ASSUME NEW s \in Session, Degrade(s)
        PROVE  \A t \in Session : /\ degraded'[t] \subseteq forced'[t]
                                  /\ \A p \in forced'[t] : breach[t] = "degrade" /\ spent'[t] >= Budget
    <3>. DEFINE p == request[s].prompt
    <3>1. /\ spent[s] >= Budget /\ breach[s] = "degrade"
          /\ degraded' = [degraded EXCEPT ![s] = degraded[s] \cup {p}]
          /\ forced' = [forced EXCEPT ![s] = forced[s] \cup {p}]
      BY <2>3 DEF Degrade
    <3>2. degraded \in [Session -> SUBSET Prompt] /\ forced \in [Session -> SUBSET Prompt]
      BY <1>0 DEF TypeOK
    <3>. HIDE DEF p
    <3>3. \A t \in Session : degraded'[t] \subseteq forced'[t]
      BY <1>3, <3>1, <3>2
    <3>4. \A t \in Session \ {s} : forced'[t] = forced[t]
      BY <3>1, <3>2
    <3>. QED
      BY <1>2, <1>3, <3>1, <3>3, <3>4, BoundAssumption
  <2>4. ASSUME NEW s \in Session, Crash(s)
        PROVE  \A t \in Session : /\ degraded'[t] \subseteq forced'[t]
                                  /\ \A p \in forced'[t] : breach[t] = "degrade" /\ spent'[t] >= Budget
    <3>1. degraded' = [degraded EXCEPT ![s] = {}] /\ forced' = forced
      BY <2>4 DEF Crash
    <3>2. degraded \in [Session -> SUBSET Prompt]
      BY <1>0 DEF TypeOK
    <3>3. \A t \in Session : degraded'[t] \subseteq forced'[t]
      BY <1>3, <3>1, <3>2
    <3>. QED
      BY <1>2, <1>3, <3>1, <3>3, BoundAssumption
  <2>. QED
    BY <2>1, <2>2, <2>3, <2>4
<1>. QED
  BY <1>1, <1>4 DEF ForcedInv, Overspent

(* An excuse lasts.                                                           *)
LEMMA ExcusesLast ==
  ASSUME Typed, ForcedInv, [Next]_vars, NEW s \in Session, NEW p
  PROVE  /\ Overspent(s, p) => Overspent(s, p)'
         /\ Excused(s, p) => Excused(s, p)'
<1>1. ForcedInv' /\ UNCHANGED <<breach, route>>
  BY ForcedStep, Writers DEF Written
<1>2. p \in forced[s] => p \in forced'[s]
  <2>1. forced' = forced \/ \E t \in Session : Degrade(t)
    BY Writers DEF Written
  <2>2. forced \in [Session -> SUBSET Prompt]
    BY DEF Typed, TypeOK
  <2>. QED
    BY <2>1, <2>2 DEF Degrade
<1>3. Overspent(s, p) => Overspent(s, p)'
  BY <1>1, <1>2 DEF Overspent, ForcedInv
<1>. QED
  BY <1>1, <1>3 DEF Excused

LEMMA AnswerInvStep ==
  ASSUME Typed, ForcedInv, AnswerInv, [Next]_vars PROVE AnswerInv'
<1>. DEFINE Warm(t) == \A p \in Prompt : cache[t][p] = "poor" => Excused(t, p)
            From(t) == /\ pc[t] = "record" => answer[t].from = "model"
                       /\ pc[t] = "log" => answer[t].from \in {"model", "cache"}
                       /\ pc[t] = "log" /\ answer[t].from = "model" => at[t].candidate \in DOMAIN Candidates
            Poor(t) == pc[t] = "log" /\ answer[t].score = "poor" =>
                         \/ answer[t].from = "model" /\ ~InCascade(at[t].candidate)
                         \/ answer[t].from = "cache" /\ Excused(t, request[t].prompt)
                         \/ Overspent(t, request[t].prompt)
<1>0. TypeOK /\ ServingInv /\ AttemptsInv
  BY DEF Typed
<1>1. UNCHANGED <<breach, route>> /\ Candidates' = Candidates
  BY Writers DEF Written, Candidates
<1>2. \A t \in Session : Warm(t) /\ From(t) /\ Poor(t)
  BY DEF AnswerInv, At
<1>3. ASSUME NEW t \in Session, cache'[t] = cache[t] PROVE Warm(t)'
  BY <1>2, <1>3, ExcusesLast
<1>4. ASSUME NEW t \in Session, request'[t] = request[t], at'[t] = at[t], answer'[t] = answer[t],
             pc'[t] = pc[t]
      PROVE  From(t)' /\ Poor(t)'
  <2>1. From(t)'
    BY <1>1, <1>2, <1>4
  <2>2. CASE pc[t] = "log" /\ answer[t].score = "poor"
    <3>1. PICK p : p = request[t].prompt
      OBVIOUS
    <3>2. (Overspent(t, p) => Overspent(t, p)') /\ (Excused(t, p) => Excused(t, p)')
      BY ExcusesLast
    <3>3. \/ answer[t].from = "model" /\ ~InCascade(at[t].candidate)
          \/ answer[t].from = "cache" /\ Excused(t, p)
          \/ Overspent(t, p)
      BY <1>2, <2>2, <3>1
    <3>. QED
      BY <1>1, <1>4, <2>1, <3>1, <3>2, <3>3 DEF InCascade, Overspent, Excused
  <2>. QED
    BY <1>4, <2>1, <2>2
<1>5. ASSUME NEW s \in Session, (\E p \in Prompt : Send(s, p)) \/ Serve(s) \/ Crash(s) \/ Resume(s),
             NEW t \in Session \ {s}
      PROVE  Warm(t)' /\ From(t)' /\ Poor(t)'
  BY <1>0, <1>3, <1>4, <1>5, StepOfOne
<1>6. ASSUME NEW s \in Session, Log(s) PROVE Warm(s)'
  <2>. DEFINE q == request[s].prompt
  <2>1. cache' = [cache EXCEPT ![s][q] = answer[s].score] /\ pc[s] = "log"
    BY <1>6 DEF Log, At
  <2>2. cache \in [Session -> [Prompt -> Score]] /\ q \in Prompt
    BY <1>0 DEF TypeOK
  <2>3. answer[s].score = "poor" => Excused(s, q)
    <3>1. answer[s].from = "model" => at[s].candidate \in DOMAIN Candidates
      BY <1>2, <2>1
    <3>2. answer[s].from = "model" /\ ~InCascade(at[s].candidate) => route.fallbacks # <<>>
      BY <1>0, <3>1, CandidateList DEF TypeOK
    <3>. QED
      BY <1>2, <2>1, <3>2 DEF Excused
  <2>. HIDE DEF q
  <2>4. \A p \in Prompt : cache'[s][p] = IF p = q THEN answer[s].score ELSE cache[s][p]
    BY <2>1, <2>2
  <2>5. ASSUME NEW p \in Prompt, cache'[s][p] = "poor" PROVE Excused(s, p)
    BY <1>2, <2>3, <2>4, <2>5
  <2>. QED
    BY <2>5, ExcusesLast
<1>7. ASSUME NEW s \in Session, Crash(s) PROVE Warm(s)'
  <2>1. cache'[s] = Prebuilt
    BY <1>0, <1>7 DEF Crash, TypeOK
  <2>. QED
    BY <2>1 DEF Prebuilt
<1>8. ASSUME NEW s \in Session, CacheDecision(s) PROVE From(s)' /\ Poor(s)'
  <2>1. PICK p \in Prompt : p = request[s].prompt
    BY <1>0 DEF TypeOK
  <2>2. \/ pc'[s] = "log" /\ answer'[s] = [from |-> "cache", score |-> cache[s][p]]
        \/ pc'[s] \in {"reply", "call"}
    BY <1>0, <1>8, <2>1, CacheEffect
  <2>3. cache[s][p] = "poor" => Excused(s, p)'
    BY <1>2, ExcusesLast
  <2>4. request'[s].prompt = p
    BY <1>8, <2>1 DEF CacheDecision
  <2>5. From(s)'
    BY <2>2
  <2>. QED
    BY <1>1, <2>2, <2>3, <2>4, <2>5 DEF Excused, Overspent
<1>9. ASSUME NEW s \in Session, CallModel(s) PROVE From(s)' /\ Poor(s)'
  <2>1. pc'[s] = "call" \/ (pc'[s] = "record" /\ answer'[s].from = "model")
    BY <1>0, <1>9, CallEffect
  <2>. QED
    BY <2>1
<1>10. ASSUME NEW s \in Session, Record(s) PROVE From(s)' /\ Poor(s)'
  <2>1. PICK p \in Prompt : p = request[s].prompt
    BY <1>0 DEF TypeOK
  <2>2. \/ Accepts(s) /\ pc'[s] = "log" /\ UNCHANGED <<at, answer>>
        \/ pc'[s] \in {"reply", "call"}
    BY <1>0, <1>10, RecordEffect
  <2>3. pc[s] = "record" /\ answer[s].from = "model" /\ at[s].candidate \in DOMAIN Candidates
    BY <1>0, <1>2, <1>10, RecordEffect DEF ServingInv
  <2>4. Accepts(s) /\ answer[s].score = "poor" /\ InCascade(at[s].candidate) => Overspent(s, p)'
    <3>1. Accepts(s) /\ answer[s].score = "poor" /\ InCascade(at[s].candidate) => p \in degraded[s]
      BY <2>1 DEF Accepts, ForceCheapest
    <3>2. p \in degraded[s] => Overspent(s, p)
      BY DEF ForcedInv
    <3>. QED
      BY <3>1, <3>2, ExcusesLast
  <2>5. request'[s].prompt = p
    BY <1>10, <2>1 DEF Record
  <2>6. From(s)'
    BY <1>1, <2>2, <2>3
  <2>. QED
    BY <1>1, <2>2, <2>3, <2>4, <2>5, <2>6 DEF InCascade, Overspent
<1>11. ASSUME NEW s \in Session, (\E p \in Prompt : Send(s, p)) \/ Enforce(s) \/ Log(s) \/ Reply(s)
              \/ Crash(s) \/ Resume(s)
       PROVE  From(s)' /\ Poor(s)'
  <2>1. pc'[s] \notin {"record", "log"}
    <3>1. pc \in [Session -> Label]
      BY <1>0 DEF TypeOK
    <3>2. CASE (\E p \in Prompt : Send(s, p)) \/ Log(s) \/ Reply(s) \/ Crash(s) \/ Resume(s)
      BY <3>1, <3>2 DEF Send, Log, Reply, Crash, Resume, Goto
    <3>3. CASE Enforce(s)
      BY <3>1, <3>3 DEF Enforce, WithinBudget, Degrade, Halt, Ask, Flag, Poll, Decided, Goto
    <3>. QED
      BY <1>11, <3>2, <3>3
  <2>. QED
    BY <2>1
<1>12. ASSUME NEW s \in Session, (\E p \in Prompt : Send(s, p)) \/ Serve(s) \/ Crash(s) \/ Resume(s)
       PROVE  Warm(s)' /\ From(s)' /\ Poor(s)'
  <2>1. cache' = cache \/ Log(s) \/ Crash(s)
    BY <1>12 DEF Send, Serve, Enforce, Execute, Resume, WithinBudget, Degrade, Halt, Ask, Flag, Poll,
                 Decided, CacheDecision, CallModel, Record, Reply
  <2>2. Warm(s)'
    BY <1>3, <1>6, <1>7, <2>1
  <2>3. From(s)' /\ Poor(s)'
    BY <1>8, <1>9, <1>10, <1>11, <1>12 DEF Serve, Execute
  <2>. QED
    BY <2>2, <2>3
<1>13. CASE (\E c \in CallIds : Operate(c)) \/ UNCHANGED vars
  <2>1. UNCHANGED memory
    BY <1>13 DEF Operate, Approve, Resolve, Deny, vars
  <2>. QED
    <3>1. \A t \in Session : Warm(t)' /\ From(t)' /\ Poor(t)'
      BY <1>3, <1>4, <2>1
    <3>. QED
      BY <3>1 DEF AnswerInv, At
<1>14. \A t \in Session : Warm(t)' /\ From(t)' /\ Poor(t)'
  BY <1>3, <1>4, <1>5, <1>12, <1>13 DEF Next, AnswerInv, At
<1>. QED
  BY <1>14 DEF AnswerInv, At

(* route_executor.rs execute: a cascade serves an answer below the bar of its *)
(* step only for a prompt that a spent budget degraded, for any route, prices *)
(* and bars, whoever is called and whatever fails; the cache passes on what   *)
(* a fallback gave, and nothing else that is poor.                            *)
THEOREM CascadeMeetsBars == Spec => []AnswerMeetsBar
<1>1. Init => ForcedInv /\ AnswerInv
  BY DEF Init, ForcedInv, AnswerInv, At, Prebuilt
<1>2. Typed /\ ForcedInv /\ AnswerInv /\ [Next]_vars => ForcedInv' /\ AnswerInv'
  BY ForcedStep, AnswerInvStep
<1>3. Typed /\ ForcedInv /\ AnswerInv => AnswerMeetsBar
  BY DEF AnswerInv, AnswerMeetsBar, At, Excused, Overspent
<1>. QED
  BY <1>1, <1>2, <1>3, TypesInductive, PTL DEF Spec

-----------------------------------------------------------------------------
(* The spans *)

LEMMA Products ==
  \A a, b, c \in Nat : /\ a * b \in Nat /\ (a <= b => a * c <= b * c /\ c * a <= c * b)
                       /\ a * (b + c) = a * b + a * c /\ a * (b + 1) = a * b + a
                       /\ (a + 1) * b = a * b + b
  OBVIOUS

(* What a set of candidates costs is counted, so it grows with the set, and   *)
(* by the cost of each candidate that is added.                               *)
LEMMA UnitsOfOne ==
  ASSUME NEW i, NEW n \in Nat
  PROVE  IsFiniteSet({i} \X (1..n)) /\ Cardinality({i} \X (1..n)) = n
<1>1. IsFiniteSet({i}) /\ Cardinality({i}) = 1
  BY FS_Singleton
<1>2. IsFiniteSet(1..n) /\ Cardinality(1..n) = n
  <2>1. Cardinality(1..n) = IF 1 > n THEN 0 ELSE n - 1 + 1
    BY FS_Interval
  <2>. QED
    BY <2>1, FS_Interval
<1>3. Cardinality({i} \X (1..n)) = Cardinality({i}) * Cardinality(1..n)
  BY <1>1, <1>2, FS_Product
<1>. QED
  BY <1>1, <1>2, <1>3, FS_Product

LEMMA UnitsAreFinite ==
  ASSUME route \in Routes, NEW S \in SUBSET DOMAIN Candidates
  PROVE  IsFiniteSet(Units(S)) /\ CostOf(S) \in Nat
<1>. DEFINE UnitsAt(i) == {i} \X (1..Charge(i))
            Parts == {UnitsAt(i) : i \in S}
            f == [i \in S |-> UnitsAt(i)]
<1>1. IsFiniteSet(S)
  <2>1. IsFiniteSet(DOMAIN Candidates)
    BY CandidateList, FS_Interval
  <2>. QED
    BY <2>1, FS_Subset
<1>2. IsFiniteSet(Parts)
  <2>1. f \in Surjection(S, Parts)
    BY DEF Surjection
  <2>. QED
    BY <1>1, <2>1, FS_Surjection
<1>3. \A P \in Parts : IsFiniteSet(P)
  BY ChargeType, UnitsOfOne
<1>. HIDE DEF Parts
<1>4. IsFiniteSet(UNION Parts)
  BY <1>2, <1>3, FS_UNION
<1>. QED
  BY <1>4, FS_CardinalityType DEF CostOf, Units, Parts

LEMMA CostGrows ==
  ASSUME route \in Routes, NEW S \in SUBSET DOMAIN Candidates, NEW T \in SUBSET S
  PROVE  CostOf(T) <= CostOf(S)
<1>1. Units(T) \subseteq Units(S)
  BY DEF Units
<1>. QED
  BY <1>1, UnitsAreFinite, FS_Subset DEF CostOf

LEMMA CostOfOneMore ==
  ASSUME route \in Routes, NEW S \in SUBSET DOMAIN Candidates, NEW i \in DOMAIN Candidates, i \notin S
  PROVE  CostOf(S \cup {i}) = CostOf(S) + Charge(i)
<1>. DEFINE One == {i} \X (1..Charge(i))
<1>1. Charge(i) \in Nat
  BY ChargeType
<1>2. IsFiniteSet(One) /\ Cardinality(One) = Charge(i)
  BY <1>1, UnitsOfOne
<1>3. Units(S \cup {i}) = Units(S) \cup One /\ Units(S) \cap One = {}
  BY DEF Units
<1>. HIDE DEF One
<1>4. IsFiniteSet(Units(S)) /\ Cardinality(Units(S)) \in Nat
  BY UnitsAreFinite DEF CostOf
<1>5. Cardinality({}) = 0
  BY FS_EmptySet
<1>6. Cardinality(Units(S) \cup One) = Cardinality(Units(S)) + Cardinality(One) - Cardinality({})
  BY <1>2, <1>3, <1>4, FS_Union
<1>7. \A a, b \in Nat : a + b - 0 = a + b
  OBVIOUS
<1>8. CostOf(S) = Cardinality(Units(S)) /\ CostOf(S \cup {i}) = Cardinality(Units(S) \cup One)
  BY <1>3 DEF CostOf
<1>. QED
  BY <1>1, <1>2, <1>4, <1>5, <1>6, <1>7, <1>8, Zenon

(* The candidates tried before the next one are those tried before this one,  *)
(* and this one.                                                              *)
LEMMA NextTried ==
  ASSUME route \in Routes, NEW from \in 0..Len(Candidates), NEW force,
         from = 0 \/ Open(from, force), NextCandidate(from, force) # Exhausted
  PROVE  /\ Open(NextCandidate(from, force), force)
         /\ Tried(NextCandidate(from, force), force) =
              Tried(from, force) \cup (IF from = 0 THEN {} ELSE {from})
<1>. DEFINE next == NextCandidate(from, force)
<1>1. /\ next \in 1..Exhausted /\ next > from /\ Open(next, force)
      /\ \A k \in from + 1 .. next - 1 : ~Open(k, force)
  BY NextIsCandidate
<1>2. Len(Candidates) \in Nat /\ Exhausted \in Nat
  BY CandidateList DEF Exhausted
<1>. HIDE DEF next
<1>3. ASSUME NEW k \in Int
      PROVE  k \in 1..next - 1 /\ Open(k, force) <=>
               (k \in 1..from - 1 /\ Open(k, force)) \/ (from # 0 /\ k = from)
  <2>1. CASE k < from
    BY <1>1, <1>2, <2>1
  <2>2. CASE k = from
    BY <1>1, <1>2, <2>2
  <2>3. CASE k > from
    BY <1>1, <1>2, <2>3
  <2>. QED
    BY <2>1, <2>2, <2>3
<1>4. Tried(next, force) = Tried(from, force) \cup (IF from = 0 THEN {} ELSE {from})
  BY <1>1, <1>2, <1>3 DEF Tried
<1>. QED
  BY <1>1, <1>4 DEF next

(* What has been tried, this candidate included, costs no more than a request *)
(* may, or a forced one if it is forced.                                      *)
LEMMA TriedCost ==
  ASSUME route \in Routes, NEW force \in BOOLEAN, NEW i, Open(i, force)
  PROVE  /\ CostOf(Tried(i, force)) \in Nat /\ Charge(i) \in Nat
         /\ CostOf(Tried(i, force) \cup {i}) = CostOf(Tried(i, force)) + Charge(i)
         /\ CostOf(Tried(i, force)) + Charge(i) <= RequestCost
         /\ force => CostOf(Tried(i, force)) + Charge(i) <= ForcedCost
<1>. DEFINE T == Tried(i, force)
            Open1 == {j \in DOMAIN Candidates : Allows(Candidates[j].model)}
            Open2 == {j \in DOMAIN Candidates :
                        Allows(Candidates[j].model) /\ (j = 1 \/ ~InCascade(j))}
<1>1. i \in DOMAIN Candidates /\ DOMAIN Candidates = 1..Len(Candidates) /\ Len(Candidates) \in Nat
  BY CandidateList DEF Open
<1>2. T \in SUBSET DOMAIN Candidates /\ i \notin T
  BY <1>1 DEF Tried, Open
<1>3. T \cup {i} \subseteq Open1 /\ (force => T \cup {i} \subseteq Open2)
  BY DEF Tried, Open
<1>4. Open1 \in SUBSET DOMAIN Candidates /\ Open2 \in SUBSET DOMAIN Candidates
  OBVIOUS
<1>5. RequestCost = CostOf(Open1) /\ ForcedCost = CostOf(Open2)
  BY DEF RequestCost, ForcedCost
<1>. HIDE DEF T, Open1, Open2
<1>6. CostOf(T) \in Nat /\ Charge(i) \in Nat
  BY <1>1, <1>2, UnitsAreFinite, ChargeType
<1>7. CostOf(T \cup {i}) = CostOf(T) + Charge(i)
  BY <1>1, <1>2, CostOfOneMore
<1>8. /\ CostOf(T \cup {i}) <= CostOf(Open1)
      /\ force => CostOf(T \cup {i}) <= CostOf(Open2)
  BY <1>3, <1>4, CostGrows
<1>. QED
  BY <1>5, <1>6, <1>7, <1>8 DEF T

LEMMA RequestCosts ==
  ASSUME route \in Routes PROVE RequestCost \in Nat /\ ForcedCost \in Nat
  BY UnitsAreFinite DEF RequestCost, ForcedCost

(* What a session is left to spend beyond the budget and one request.         *)
LEMMA LeaveType ==
  ASSUME TypeOK, NEW s \in Session, breach[s] # "none"
  PROVE  /\ breach[s] \in {"halt", "ask", "degrade"}
         /\ RequestCost \in Nat /\ ForcedCost \in Nat /\ Budget \in Nat
         /\ spent[s] \in Nat /\ request[s].n \in Nat /\ crashes[s] \in Nat
         /\ IsFiniteSet(granted[s]) /\ Cardinality(granted[s]) \in Nat
         /\ Leave(s) \in Nat
<1>1. breach[s] \in {"halt", "ask", "degrade"}
  BY PolicyAssumption DEF TypeOK
<1>2. /\ RequestCost \in Nat /\ ForcedCost \in Nat /\ Budget \in Nat
      /\ spent[s] \in Nat /\ request[s].n \in Nat /\ crashes[s] \in Nat
  BY RequestCosts, BoundAssumption DEF TypeOK
<1>3. IsFiniteSet(granted[s]) /\ Cardinality(granted[s]) \in Nat
  <2>1. granted[s] \in SUBSET (1..MaxRequests) /\ IsFiniteSet(1..MaxRequests)
    BY BoundAssumption, FS_Interval DEF TypeOK
  <2>. QED
    BY <2>1, FS_Subset, FS_CardinalityType
<1>. DEFINE g == Cardinality(granted[s]) + crashes[s]
            m == request[s].n + crashes[s]
<1>4. g \in Nat /\ m \in Nat
  BY <1>2, <1>3
<1>5. RequestCost * g \in Nat /\ ForcedCost * m \in Nat
  BY <1>2, <1>4, Products
<1>6. Leave(s) \in {0, RequestCost * g, ForcedCost * m}
  BY <1>1 DEF Leave
<1>. HIDE DEF g, m
<1>. QED
  BY <1>1, <1>2, <1>3, <1>5, <1>6

(* The route and its prices stay, and with them what candidates cost.         *)
SamePrices ==
  /\ UNCHANGED <<breach, RequestCost, ForcedCost>> /\ Candidates' = Candidates
  /\ \A i, force : Open(i, force)' = Open(i, force) /\ Tried(i, force)' = Tried(i, force)
  /\ \A S : CostOf(S)' = CostOf(S)
LEMMA PricesStay == [Next]_vars => SamePrices
<1>. SUFFICES ASSUME [Next]_vars PROVE SamePrices
  OBVIOUS
<1>1. UNCHANGED <<route, caller, breach>>
  BY Writers DEF Written
<1>2. \A S : CostOf(S)' = CostOf(S)
  BY <1>1 DEF CostOf, Units, Charge, Estimate, Candidates
<1>3. UNCHANGED RequestCost /\ UNCHANGED ForcedCost
  BY <1>1 DEF RequestCost, ForcedCost, CostOf, Units, Charge, Estimate, Candidates, Allows, InCascade
<1>4. \A i, force : Open(i, force)' = Open(i, force) /\ Tried(i, force)' = Tried(i, force)
  BY <1>1 DEF Tried, Open, Candidates, Allows, InCascade
<1>. QED
  BY <1>1, <1>2, <1>3, <1>4 DEF SamePrices, Candidates

LEMMA LeaveStays ==
  ASSUME SamePrices, NEW s \in Session, request'[s] = request[s], granted'[s] = granted[s],
         degraded'[s] = degraded[s], crashes'[s] = crashes[s]
  PROVE  /\ Leave(s)' = Leave(s) /\ Stake(s)' = Stake(s) /\ ForceCheapest(s)' = ForceCheapest(s)
<1>1. ForceCheapest(s)' = ForceCheapest(s)
  BY DEF ForceCheapest
<1>2. Leave(s)' = Leave(s)
  BY DEF SamePrices, Leave
<1>. QED
  BY <1>1, <1>2 DEF SamePrices, Stake

Paying(s) == breach[s] # "none" /\ Budget + RequestCost > 0
SpansOf(s) ==
  /\ granted[s] \subseteq 1..request[s].n
  /\ pc[s] \in {"flag", "wait", "decided"} => breach[s] = "ask"
  /\ pc[s] \in {"call", "record"} => Open(at[s].candidate, ForceCheapest(s))
  /\ RequestCost = 0 => spent[s] = 0
  /\ Paying(s) => SpansWithin(s)

(* A step that leaves the money alone leaves the bounds, at the same place or *)
(* at one that asks for less.                                                 *)
LEMMA SpansRest ==
  ASSUME SamePrices, NEW s \in Session, SpansOf(s),
         request'[s] = request[s], granted'[s] = granted[s], degraded'[s] = degraded[s],
         crashes'[s] = crashes[s], spent'[s] = spent[s],
         \/ pc'[s] = pc[s] /\ at'[s].candidate = at[s].candidate
         \/ pc[s] = "call" /\ pc'[s] = "record" /\ at'[s].candidate = at[s].candidate
         \/ pc'[s] \in {"idle", "log", "reply", "halted"}
         \/ pc[s] \in {"check", "flag", "wait"} /\ pc'[s] \in {"flag", "wait", "decided"} /\ breach[s] = "ask"
         \/ pc[s] = "down" /\ pc'[s] = "check"
  PROVE  SpansOf(s)'
<1>1. Leave(s)' = Leave(s) /\ Stake(s)' = Stake(s) /\ ForceCheapest(s)' = ForceCheapest(s)
  BY LeaveStays
<1>2. UNCHANGED <<breach, RequestCost, ForcedCost>>
  BY DEF SamePrices
<1>. DEFINE i == at[s].candidate
            f == ForceCheapest(s)
<1>3. ASSUME pc'[s] \in {"call", "record"}
      PROVE  /\ pc[s] \in {"call", "record"}
             /\ Open(i, f)' = Open(i, f) /\ CostOf(Tried(i, f))' = CostOf(Tried(i, f))
  <2>1. pc[s] \in {"call", "record"} /\ at'[s].candidate = i
    BY <1>3
  <2>. QED
    BY <1>1, <2>1 DEF SamePrices
<1>4. ASSUME Paying(s) PROVE SpansWithin(s)'
  <2>1. SpansWithin(s)
    BY <1>4 DEF SpansOf
  <2>2. Allowance(s)' = Allowance(s)
    BY <1>1, <1>2 DEF Allowance
  <2>3. pc'[s] \in {"call", "record"} => spent'[s] < Stake(s)' + CostOf(Tried(i, f))'
    <3>. SUFFICES ASSUME pc'[s] \in {"call", "record"}
                  PROVE  spent'[s] < Stake(s)' + CostOf(Tried(i, f))'
      OBVIOUS
    <3>. QED
      BY <1>1, <1>3, <2>1 DEF SpansWithin
  <2>. QED
    BY <1>1, <1>2, <2>1, <2>2, <2>3 DEF SpansWithin, SpansOf, At
<1>5. Paying(s)' = Paying(s)
  BY <1>2 DEF Paying
<1>6. pc'[s] \in {"call", "record"} => Open(i, f)'
  <2>. SUFFICES ASSUME pc'[s] \in {"call", "record"} PROVE Open(i, f)'
    OBVIOUS
  <2>. QED
    BY <1>3 DEF SpansOf
<1>. QED
  BY <1>2, <1>4, <1>5, <1>6 DEF SpansOf

(* A request is counted when it is sent, and a degraded one may spend then.    *)
LEMMA SpansSend ==
  ASSUME TypeOK, SamePrices, NEW s \in Session, SpansOf(s), NEW p \in Prompt, Send(s, p)
  PROVE  SpansOf(s)'
<1>1. /\ pc'[s] = "check" /\ request'[s].n = request[s].n + 1
      /\ UNCHANGED <<granted, crashes, spent>>
      /\ UNCHANGED <<breach, RequestCost, ForcedCost>>
  BY DEF Send, Goto, TypeOK, SamePrices
<1>2. request[s].n \in Nat /\ granted[s] \subseteq 1..request[s].n
  BY BoundAssumption DEF TypeOK, SpansOf
<1>3. granted'[s] \subseteq 1..request'[s].n /\ request'[s].n \notin granted'[s]
  BY <1>1, <1>2
<1>4. ASSUME Paying(s) PROVE SpansWithin(s)'
  <2>. DEFINE R == RequestCost
              F == ForcedCost
              n == request[s].n
              c == crashes[s]
  <2>1. /\ breach[s] \in {"halt", "ask", "degrade"} /\ R \in Nat /\ F \in Nat /\ Budget \in Nat
        /\ spent[s] \in Nat /\ n \in Nat /\ c \in Nat /\ Leave(s) \in Nat
    BY <1>4, LeaveType DEF Paying
  <2>2. spent[s] < Budget + R + Leave(s)
    BY <1>4 DEF SpansOf, SpansWithin, Allowance
  <2>3. Leave(s)' = Leave(s) + (IF breach[s] = "degrade" THEN F ELSE 0)
    <3>1. CASE breach[s] # "degrade"
      BY <1>1, <2>1, <3>1 DEF Leave
    <3>2. CASE breach[s] = "degrade"
      <4>1. Leave(s) = F * (n + c) /\ Leave(s)' = F * (n + 1 + c)
        BY <1>1, <3>2 DEF Leave
      <4>2. n + 1 + c = n + c + 1 /\ n + c \in Nat
        BY <2>1
      <4>. QED
        BY <2>1, <3>2, <4>1, <4>2, Products
    <3>. QED
      BY <3>1, <3>2
  <2>. HIDE DEF R, F, n, c
  <2>4. /\ spent[s] < Budget + R + Leave(s)'
        /\ breach[s] = "degrade" => spent[s] < Budget + R + Leave(s)' - F
    BY <2>1, <2>2, <2>3
  <2>5. /\ spent'[s] < Allowance(s)'
        /\ breach'[s] = "degrade" => spent'[s] < Allowance(s)' - ForcedCost'
    <3>1. Allowance(s)' = Budget + R + Leave(s)' /\ ForcedCost' = F
      BY <1>1 DEF Allowance, R, F
    <3>2. spent'[s] = spent[s] /\ breach'[s] = breach[s]
      BY <1>1
    <3>3. Leave(s)' \in Nat
      BY <2>1, <2>3
    <3>4. spent'[s] < Allowance(s)'
      BY <2>1, <2>4, <3>1, <3>2, <3>3
    <3>5. Allowance(s)' - ForcedCost' = Budget + R + Leave(s)' - F
      BY <2>1, <3>1, <3>3
    <3>6. ASSUME breach'[s] = "degrade" PROVE spent'[s] < Allowance(s)' - ForcedCost'
      BY <2>1, <2>4, <3>2, <3>3, <3>5, <3>6
    <3>. QED
      BY <3>4, <3>6
  <2>. QED
    BY <1>1, <1>3, <2>5 DEF SpansWithin, At
<1>. QED
  BY <1>1, <1>3, <1>4 DEF SpansOf, Paying

(* The request is let through below the budget, or for what it may cost.      *)
LEMMA SpansLetThrough ==
  ASSUME TypeOK, ServingInv, SamePrices, NEW s \in Session, SpansOf(s),
         WithinBudget(s) \/ Degrade(s) \/ (Decided(s) /\ pc'[s] = "cache")
  PROVE  SpansOf(s)'
<1>. DEFINE R == RequestCost
            F == ForcedCost
            L == Leave(s)
            n == request[s].n
            c == crashes[s]
<1>1. /\ pc[s] \in {"check", "decided"} /\ pc'[s] = "cache"
      /\ UNCHANGED <<request, crashes, spent, breach, RequestCost, ForcedCost>>
  <2>1. pc[s] \in {"check", "decided"} /\ UNCHANGED <<request, crashes, spent>>
    BY DEF WithinBudget, Degrade, Decided, At
  <2>2. pc'[s] = "cache"
    BY DEF WithinBudget, Degrade, Goto, TypeOK
  <2>3. UNCHANGED <<breach, RequestCost, ForcedCost>>
    BY DEF SamePrices
  <2>. QED
    BY <2>1, <2>2, <2>3
<1>2. n \in Nat /\ n # 0 /\ granted[s] \subseteq 1..n
  <2>1. n \in Nat
    BY BoundAssumption DEF TypeOK
  <2>2. n # 0
    BY <1>1 DEF ServingInv, Serves
  <2>3. granted[s] \subseteq 1..n
    BY DEF SpansOf
  <2>. QED
    BY <2>1, <2>2, <2>3
<1>3. granted'[s] \subseteq 1..n
  <2>1. granted'[s] = granted[s] \/ granted'[s] = granted[s] \cup {n}
    BY DEF WithinBudget, Degrade, Decided, TypeOK
  <2>. QED
    BY <1>2, <2>1
<1>4. ASSUME Paying(s) PROVE SpansWithin(s)'
  <2>1. /\ breach[s] \in {"halt", "ask", "degrade"} /\ R \in Nat /\ F \in Nat /\ Budget \in Nat
        /\ spent[s] \in Nat /\ c \in Nat /\ L \in Nat
        /\ IsFiniteSet(granted[s]) /\ Cardinality(granted[s]) \in Nat
    BY <1>4, LeaveType DEF Paying
  <2>2. /\ spent[s] < Budget + R + L
        /\ breach[s] = "ask" /\ n \in granted[s] => spent[s] < Budget + L
        /\ breach[s] = "degrade" /\ pc[s] = "check" => spent[s] < Budget + R + L - F
        /\ pc[s] = "decided" => breach[s] = "ask"
    <3>1. SpansWithin(s) /\ (pc[s] = "decided" => breach[s] = "ask")
      BY <1>4 DEF SpansOf
    <3>2. Allowance(s) = Budget + R + L
      BY DEF Allowance
    <3>3. breach[s] = "ask" => Stake(s) = Budget + L
      BY DEF Stake
    <3>4. breach[s] = "ask" /\ n \in granted[s] => spent[s] < Budget + L
      BY <1>1, <3>1, <3>3 DEF SpansWithin
    <3>5. breach[s] = "degrade" /\ pc[s] = "check" => spent[s] < Allowance(s) - F
      BY <3>1 DEF SpansWithin
    <3>6. spent[s] < Allowance(s)
      BY <3>1 DEF SpansWithin
    <3>. HIDE DEF R, F, n, c, L
    <3>7. breach[s] = "degrade" /\ pc[s] = "check" => spent[s] < Budget + R + L - F
      BY <2>1, <3>2, <3>5
    <3>8. spent[s] < Budget + R + L
      BY <2>1, <3>2, <3>6
    <3>. QED
      BY <3>1, <3>4, <3>7, <3>8
  <2>3. CASE WithinBudget(s)
    <3>1. spent[s] < Budget /\ granted' = granted /\ degraded' = degraded
      BY <1>4, <2>3 DEF WithinBudget, Paying
    <3>2. Leave(s)' = L /\ Stake(s)' = Stake(s)
      BY <1>1, <3>1, LeaveStays
    <3>3. breach[s] = "degrade" => F <= L
      <4>1. n + c \in Nat \ {0} /\ n + c - 1 \in Nat
        BY <1>2, <2>1
      <4>2. F * (n + c - 1 + 1) = F * (n + c - 1) + F /\ F * (n + c - 1) \in Nat
        BY <2>1, <4>1, Products
      <4>3. n + c - 1 + 1 = n + c
        BY <1>2, <2>1
      <4>4. breach[s] = "degrade" => L = F * (n + c)
        BY DEF Leave
      <4>. QED
        BY <2>1, <4>2, <4>3, <4>4
    <3>4. spent[s] < Stake(s)
      <4>. HIDE DEF R, F, n, c, L
      <4>1. \/ Stake(s) \in {Budget, Budget + L}
            \/ Stake(s) = Budget + R + L - F /\ breach[s] = "degrade"
        BY <2>1 DEF Stake, Allowance, R, F, L
      <4>. QED
        BY <2>1, <3>1, <3>3, <4>1
    <3>5. Allowance(s)' = Budget + R + L
      BY <1>1, <3>2 DEF Allowance
    <3>. QED
      BY <1>1, <2>2, <3>2, <3>4, <3>5 DEF SpansWithin, At
  <2>4. CASE Degrade(s)
    <3>1. /\ breach[s] = "degrade" /\ pc[s] = "check"
          /\ degraded'[s] = degraded[s] \cup {request[s].prompt}
      BY <2>4 DEF Degrade, At, TypeOK
    <3>2. ForceCheapest(s)' /\ Leave(s)' = L
      BY <1>1, <3>1 DEF ForceCheapest, Leave
    <3>3. Stake(s)' = Budget + R + L - F
      <4>1. Stake(s)' = Allowance(s)' - ForcedCost'
        BY <1>1, <3>1, <3>2 DEF Stake
      <4>2. Allowance(s)' = Budget + R + L /\ ForcedCost' = F
        BY <1>1, <3>2 DEF Allowance
      <4>. HIDE DEF R, F, n, c, L
      <4>. QED
        BY <2>1, <4>1, <4>2
    <3>. HIDE DEF R, F, n, c, L
    <3>4. spent[s] < Budget + R + L - F
      BY <2>1, <2>2, <3>1
    <3>. QED
      BY <1>1, <2>2, <3>1, <3>2, <3>3, <3>4 DEF SpansWithin, Allowance, At, R, F, L
  <2>5. CASE Decided(s) /\ pc'[s] = "cache"
    <3>1. /\ breach[s] = "ask" /\ pc[s] = "decided"
          /\ granted'[s] = granted[s] \cup {n}
      BY <2>2, <2>5 DEF Decided, At, Goto, Answer, TypeOK
    <3>. DEFINE g == Cardinality(granted[s])
    <3>2. /\ L = R * (g + c) /\ Leave(s)' = R * (Cardinality(granted'[s]) + c)
          /\ Stake(s)' = Budget + Leave(s)'
      BY <1>1, <3>1 DEF Leave, Stake
    <3>3. \/ Leave(s)' = L /\ spent[s] < Budget + L
          \/ Leave(s)' = L + R
      <4>1. CASE n \in granted[s]
        <5>1. granted'[s] = granted[s]
          BY <3>1, <4>1
        <5>2. Leave(s)' = L
          BY <3>2, <5>1
        <5>. QED
          BY <2>2, <3>1, <4>1, <5>2
      <4>2. CASE n \notin granted[s]
        <5>1. Cardinality(granted[s] \cup {n}) = Cardinality(granted[s]) + 1
          <6>. HIDE DEF n
          <6>. QED
            BY <2>1, <4>2, FS_AddElement
        <5>2. g + 1 + c = g + c + 1 /\ g + c \in Nat
          BY <2>1
        <5>3. Leave(s)' = R * (g + c + 1)
          BY <3>1, <3>2, <5>1, <5>2
        <5>4. R * (g + c + 1) = R * (g + c) + R
          BY <2>1, <5>2, Products
        <5>. QED
          BY <3>2, <5>3, <5>4
      <4>. QED
        BY <4>1, <4>2
    <3>. HIDE DEF R, F, n, c, L
    <3>4. spent[s] < Budget + Leave(s)' /\ spent[s] < Budget + R + Leave(s)'
      BY <2>1, <2>2, <3>3
    <3>. QED
      BY <1>1, <3>1, <3>2, <3>3, <3>4 DEF SpansWithin, Allowance, At, R
  <2>. QED
    BY <2>3, <2>4, <2>5
<1>. QED
  BY <1>1, <1>3, <1>4 DEF SpansOf, Paying

(* The executor goes on to a candidate, all before which were paid for.       *)
LEMMA SpansAdvance ==
  ASSUME TypeOK, SamePrices, NEW s \in Session, SpansOf(s), NEW from \in 0..Len(Candidates),
         Advance(s, from), from = 0 \/ Open(from, ForceCheapest(s)),
         request' = request, granted' = granted, degraded' = degraded, crashes' = crashes,
         RequestCost = 0 => spent'[s] = 0,
         Paying(s) =>
           /\ spent'[s] < Allowance(s)
           /\ spent'[s] < Stake(s) + CostOf(Tried(from, ForceCheapest(s))
                                             \cup (IF from = 0 THEN {} ELSE {from}))
  PROVE  SpansOf(s)'
<1>. DEFINE f == ForceCheapest(s)
            i == NextCandidate(from, f)
            T == Tried(from, f) \cup (IF from = 0 THEN {} ELSE {from})
<1>1. /\ at'[s].candidate = i
      /\ \/ pc'[s] = "reply"
         \/ pc'[s] = "call" /\ i # Exhausted
  BY AdvanceEffect
<1>2. Leave(s)' = Leave(s) /\ Stake(s)' = Stake(s) /\ ForceCheapest(s)' = f
  BY LeaveStays
<1>3. breach' = breach /\ RequestCost' = RequestCost /\ Paying(s)' = Paying(s)
      /\ Allowance(s)' = Allowance(s)
  BY <1>2 DEF SamePrices, Paying, Allowance
<1>4. CASE pc'[s] = "reply"
  BY <1>3, <1>4 DEF SpansOf, SpansWithin, At
<1>5. CASE pc'[s] = "call"
  <2>1. Open(i, f) /\ Tried(i, f) = T
    BY <1>1, <1>5, NextTried DEF TypeOK
  <2>2. /\ Open(at[s].candidate, ForceCheapest(s))'
        /\ CostOf(Tried(at[s].candidate, ForceCheapest(s)))' = CostOf(T)
    <3>. HIDE DEF i, T, f
    <3>. QED
      BY <1>1, <1>2, <2>1 DEF SamePrices
  <2>. QED
    BY <1>2, <1>3, <1>5, <2>2 DEF SpansOf, SpansWithin, At
<1>. QED
  BY <1>1, <1>4, <1>5

LEMMA SpansCache ==
  ASSUME TypeOK, SamePrices, NEW s \in Session, SpansOf(s), CacheDecision(s)
  PROVE  SpansOf(s)'
<1>1. pc[s] = "cache" /\ UNCHANGED <<request, granted, degraded, crashes, spent>>
  BY DEF CacheDecision, At
<1>2. CASE pc'[s] = "log"
  BY <1>1, <1>2, SpansRest
<1>3. CASE Advance(s, 0)
  <2>1. Tried(0, ForceCheapest(s)) \cup {} = {} /\ CostOf({}) = 0
    <3>1. Units({}) = {}
      BY DEF Units
    <3>. QED
      BY <3>1, FS_EmptySet DEF Tried, CostOf
  <2>2. ASSUME Paying(s) PROVE spent[s] < Stake(s) + 0 /\ spent[s] < Allowance(s)
    <3>1. spent[s] < Stake(s) /\ spent[s] < Allowance(s)
      BY <1>1, <2>2 DEF SpansOf, SpansWithin, At
    <3>2. Stake(s) \in Int
      BY <2>2, LeaveType DEF Stake, Allowance, Paying
    <3>. QED
      BY <3>1, <3>2
  <2>3. 0 \in 0..Len(Candidates)
    BY CandidateList DEF TypeOK
  <2>4. (IF 0 = 0 THEN {} ELSE {0}) = {}
    OBVIOUS
  <2>5. RequestCost = 0 => spent'[s] = 0
    BY <1>1 DEF SpansOf
  <2>. QED
    BY <1>1, <1>3, <2>1, <2>2, <2>3, <2>4, <2>5, SpansAdvance
<1>. QED
  BY <1>2, <1>3 DEF CacheDecision, Goto, TypeOK

(* A candidate is paid for: the stake and the whole request are within what   *)
(* the session may spend.                                                     *)
LEMMA SpansRecord ==
  ASSUME TypeOK, ServingInv, AttemptsInv, SamePrices, NEW s \in Session, SpansOf(s), Record(s)
  PROVE  SpansOf(s)'
<1>. DEFINE i == at[s].candidate
            f == ForceCheapest(s)
            t == CostOf(Tried(i, f))
            cost == calls[s].span
            most == Charge(i)
            R == RequestCost
            F == ForcedCost
<1>1. /\ pc[s] = "record" /\ UNCHANGED <<request, granted, degraded, crashes>>
      /\ spent'[s] = spent[s] + cost
      /\ \/ pc'[s] = "log"
         \/ Advance(s, i)
  BY DEF Record, At, Goto, TypeOK
<1>2. Open(i, f) /\ f \in BOOLEAN
  BY <1>1 DEF SpansOf, ForceCheapest
<1>3. /\ t \in Nat /\ most \in Nat /\ CostOf(Tried(i, f) \cup {i}) = t + most
      /\ t + most <= R /\ (f => t + most <= F)
  BY <1>2, TriedCost DEF TypeOK
<1>8. cost \in Nat /\ cost <= most
  BY <1>1 DEF AttemptsInv, At, TypeOK
<1>4. R = 0 => spent'[s] = 0
  <2>1. R = 0 => spent[s] = 0
    BY DEF SpansOf
  <2>2. R = 0 => cost = 0
    <3>. HIDE DEF R, t, cost, most, f
    <3>. QED
      BY <1>3, <1>8, RequestCosts DEF TypeOK, R
  <2>. QED
    BY <1>1, <2>1, <2>2
<1>5. ASSUME Paying(s)
      PROVE  /\ spent'[s] < Allowance(s)
             /\ spent'[s] < Stake(s) + CostOf(Tried(i, f) \cup {i})
  <2>. DEFINE L == Leave(s)
  <2>1. /\ breach[s] \in {"halt", "ask", "degrade"} /\ R \in Nat /\ F \in Nat /\ Budget \in Nat
        /\ spent[s] \in Nat /\ L \in Nat
    BY <1>5, LeaveType DEF Paying
  <2>2. spent[s] < Stake(s) + t
    BY <1>1, <1>5 DEF SpansOf, SpansWithin
  <2>3. \/ Stake(s) = Budget
        \/ Stake(s) = Budget + L
        \/ Stake(s) = Budget + R + L - F /\ f
    BY <2>1 DEF Stake, Allowance
  <2>. HIDE DEF R, F, L, t, cost, most, f
  <2>4. spent[s] + cost < Budget + R + L /\ spent[s] + cost < Stake(s) + (t + most)
    BY <1>3, <1>8, <2>1, <2>2, <2>3
  <2>. QED
    BY <1>1, <1>3, <2>4 DEF Allowance, R, L
<1>6. CASE pc'[s] = "log"
  <2>1. Leave(s)' = Leave(s)
    BY <1>1, LeaveStays
  <2>2. Paying(s)' = Paying(s) /\ Allowance(s)' = Allowance(s)
    BY <2>1 DEF SamePrices, Paying, Allowance
  <2>. QED
    BY <1>1, <1>4, <1>5, <1>6, <2>2 DEF SpansOf, SpansWithin, At, SamePrices
<1>7. CASE Advance(s, i)
  <2>1. i \in DOMAIN Candidates /\ DOMAIN Candidates = 1..Len(Candidates) /\ Len(Candidates) \in Nat
    BY <1>1, CandidateList DEF ServingInv, TypeOK
  <2>2. i \in 0..Len(Candidates) /\ (IF i = 0 THEN {} ELSE {i}) = {i}
    BY <2>1
  <2>. QED
    BY <1>1, <1>2, <1>4, <1>5, <1>7, <2>2, SpansAdvance
<1>. QED
  BY <1>1, <1>6, <1>7

(* A crash leaves one more request, forced or not, to be paid for.            *)
LEMMA SpansCrash ==
  ASSUME TypeOK, SamePrices, NEW s \in Session, SpansOf(s), Crash(s)
  PROVE  SpansOf(s)'
<1>. DEFINE R == RequestCost
            F == ForcedCost
            L == Leave(s)
            c == crashes[s]
            n == request[s].n
            g == Cardinality(granted[s])
<1>1. /\ pc'[s] = "down" /\ crashes'[s] = c + 1
      /\ UNCHANGED <<spent, request, granted, breach, RequestCost, ForcedCost>>
  BY DEF Crash, Goto, TypeOK, SamePrices
<1>2. ASSUME Paying(s) PROVE SpansWithin(s)'
  <2>1. /\ breach[s] \in {"halt", "ask", "degrade"} /\ R \in Nat /\ F \in Nat /\ Budget \in Nat
        /\ spent[s] \in Nat /\ c \in Nat /\ n \in Nat /\ g \in Nat /\ L \in Nat
    BY <1>2, LeaveType DEF Paying
  <2>2. spent[s] < Budget + R + L
    BY <1>2 DEF SpansOf, SpansWithin, Allowance
  <2>3. /\ g + (c + 1) = g + c + 1 /\ n + (c + 1) = n + c + 1
        /\ g + c \in Nat /\ n + c \in Nat
    BY <2>1
  <2>4. /\ R * (g + c + 1) = R * (g + c) + R
        /\ F * (n + c + 1) = F * (n + c) + F
    BY <2>1, <2>3, Products
  <2>5. Leave(s)' = L + (CASE breach[s] = "halt" -> 0 [] breach[s] = "ask" -> R
                           [] breach[s] = "degrade" -> F)
    <3>1. CASE breach[s] = "halt"
      BY <1>1, <3>1 DEF Leave
    <3>2. CASE breach[s] = "ask"
      <4>1. L = R * (g + c) /\ Leave(s)' = R * (g + (c + 1))
        BY <1>1, <3>2 DEF Leave
      <4>. QED
        BY <2>3, <2>4, <3>2, <4>1
    <3>3. CASE breach[s] = "degrade"
      <4>1. L = F * (n + c) /\ Leave(s)' = F * (n + (c + 1))
        BY <1>1, <3>3 DEF Leave
      <4>. QED
        BY <2>3, <2>4, <3>3, <4>1
    <3>. QED
      BY <2>1, <3>1, <3>2, <3>3
  <2>6. breach[s] = "ask" => Stake(s)' = Budget + Leave(s)'
    BY <1>1 DEF Stake
  <2>. HIDE DEF R, F, L, c, n, g
  <2>7. /\ spent[s] < Budget + R + Leave(s)'
        /\ breach[s] = "ask" => spent[s] < Stake(s)'
        /\ breach[s] = "degrade" => spent[s] < Budget + R + Leave(s)' - F
    BY <2>1, <2>2, <2>5, <2>6
  <2>8. Allowance(s)' = Budget + R + Leave(s)' /\ UNCHANGED <<breach, ForcedCost, spent>>
    BY <1>1 DEF Allowance, R
  <2>9. Leave(s)' \in Nat
    BY <2>1, <2>5
  <2>10. spent'[s] < Allowance(s)'
    BY <2>1, <2>7, <2>8, <2>9
  <2>11. breach'[s] = "degrade" => spent'[s] < Allowance(s)' - ForcedCost'
    <3>1. ForcedCost' = F /\ breach'[s] = breach[s] /\ spent'[s] = spent[s]
      BY <2>8 DEF F
    <3>. QED
      BY <2>1, <2>7, <2>8, <2>9, <3>1
  <2>. QED
    BY <1>1, <2>7, <2>8, <2>10, <2>11 DEF SpansWithin, At
<1>. QED
  BY <1>1, <1>2 DEF SpansOf, Paying

LEMMA SpansStep == ASSUME Typed, SpansInv, [Next]_vars PROVE SpansInv'
<1>0. TypeOK /\ ServingInv /\ AttemptsInv /\ SamePrices /\ \A s \in Session : SpansOf(s)
  BY PricesStay DEF Typed, SpansInv, SpansOf, Paying
<1>1. ASSUME NEW s \in Session, (\E p \in Prompt : Send(s, p)) \/ Serve(s) \/ Crash(s) \/ Resume(s)
      PROVE  SpansOf(s)'
  <2>1. CASE Halt(s) \/ Ask(s) \/ Flag(s) \/ Poll(s) \/ (Decided(s) /\ pc'[s] # "cache")
    <3>1. /\ UNCHANGED <<request, granted, degraded, crashes, spent>>
          /\ \/ pc'[s] \in {"halted", "reply"}
             \/ /\ pc[s] \in {"check", "flag", "wait"} /\ pc'[s] \in {"flag", "wait", "decided"}
                /\ breach[s] = "ask"
      BY <1>0, <2>1 DEF Halt, Ask, Flag, Poll, Decided, At, Goto, TypeOK, SpansOf
    <3>. QED
      BY <1>0, <3>1, SpansRest
  <2>2. CASE CallModel(s)
    <3>1. /\ UNCHANGED <<request, granted, degraded, crashes, spent>>
          /\ pc[s] = "call" /\ pc'[s] \in {"call", "record"} /\ at'[s].candidate = at[s].candidate
      BY <1>0, <2>2, CallEffect DEF CallModel
    <3>. QED
      BY <1>0, <3>1, SpansRest
  <2>3. CASE Log(s) \/ Reply(s) \/ Resume(s)
    <3>1. /\ UNCHANGED <<request, granted, degraded, crashes, spent>>
          /\ \/ pc'[s] \in {"idle", "reply"}
             \/ pc[s] = "down" /\ pc'[s] = "check"
      BY <1>0, <2>3 DEF Log, Reply, Resume, At, Goto, TypeOK
    <3>. QED
      BY <1>0, <3>1, SpansRest
  <2>. QED
    BY <1>0, <1>1, <2>1, <2>2, <2>3, SpansSend, SpansLetThrough, SpansCache, SpansRecord, SpansCrash
       DEF Serve, Enforce, Execute
<1>2. ASSUME NEW t \in Session,
             \/ \E s \in Session \ {t} : (\E p \in Prompt : Send(s, p)) \/ Serve(s) \/ Crash(s) \/ Resume(s)
             \/ \E c \in CallIds : Operate(c)
             \/ UNCHANGED vars
      PROVE  SpansOf(t)'
  <2>1. /\ request'[t] = request[t] /\ granted'[t] = granted[t] /\ degraded'[t] = degraded[t]
        /\ crashes'[t] = crashes[t] /\ spent'[t] = spent[t] /\ pc'[t] = pc[t] /\ at'[t] = at[t]
    BY <1>0, <1>2, StepOfOne DEF Operate, Approve, Resolve, Deny, vars
  <2>. QED
    BY <1>0, <2>1, SpansRest
<1>3. \A t \in Session : SpansOf(t)'
  BY <1>1, <1>2 DEF Next
<1>. QED
  BY <1>3 DEF SpansInv, SpansOf, Paying

(* What was paid for a request: the candidates before this one, each as often *)
(* as it may be called, and this one as often as it has been.                 *)
BillOf(s) ==
  /\ pc[s] \in {"call", "record"} =>
       bill[s] <= MaxAttempts * CostOf(Tried(at[s].candidate, ForceCheapest(s)))
                    + calls[s].count * Charge(at[s].candidate)
  /\ pc[s] \notin {"call", "record"} => bill[s] = 0
BillInv == \A s \in Session : BillOf(s)

LEMMA CountOfCalls ==
  ASSUME Typed, NEW s \in Session
  PROVE  calls[s].count \in Nat /\ calls[s].count <= MaxAttempts /\ MaxAttempts \in Nat
<1>1. at[s].attempt \in 0..MaxAttempts /\ calls[s].count \in Nat /\ MaxAttempts \in Nat
  BY BoundAssumption DEF Typed, TypeOK
<1>2. calls[s] = NoCalls \/ calls[s].count <= at[s].attempt
  BY <1>1 DEF Typed, AttemptsInv, At
<1>. QED
  BY <1>1, <1>2 DEF NoCalls

(* A call adds one charge at most, *)
LEMMA BillCall ==
  ASSUME Typed, SamePrices, NEW s \in Session, SpansOf(s), BillOf(s), CallModel(s)
  PROVE  BillOf(s)'
<1>. DEFINE i == at[s].candidate
            f == ForceCheapest(s)
            paid == MaxAttempts * CostOf(Tried(i, f))
            n == calls[s].count
            charge == Charge(i)
<1>1. /\ pc[s] = "call" /\ pc'[s] \in {"call", "record"} /\ at'[s].candidate = i
      /\ calls'[s].count = n + 1 /\ bill'[s] <= bill[s] + charge /\ bill'[s] \in Nat
      /\ ForceCheapest(s)' = f /\ i \in DOMAIN Candidates
  BY CallEffect DEF CallModel, ForceCheapest, Typed
<1>2. Open(i, f) /\ f \in BOOLEAN /\ route \in Routes
  BY <1>1 DEF SpansOf, ForceCheapest, Typed, TypeOK
<1>3. /\ CostOf(Tried(i, f)) \in Nat /\ charge \in Nat /\ n \in Nat /\ MaxAttempts \in Nat
      /\ bill[s] \in Nat
  BY <1>2, TriedCost, CountOfCalls DEF Typed, TypeOK
<1>4. paid \in Nat /\ n * charge \in Nat /\ (n + 1) * charge = n * charge + charge
  BY <1>3, Products
<1>5. bill[s] <= paid + n * charge
  BY <1>1 DEF BillOf
<1>6. /\ CostOf(Tried(at[s].candidate, ForceCheapest(s)))' = CostOf(Tried(i, f))
      /\ Charge(at[s].candidate)' = charge
  <2>1. UNCHANGED <<route, caller>>
    BY DEF CallModel
  <2>2. Charge(at[s].candidate)' = charge
    BY <1>1, <2>1 DEF Charge, Estimate, Candidates
  <2>. QED
    BY <1>1, <2>2 DEF SamePrices
<1>7. bill'[s] <= paid + (n + 1) * charge
  <2>. DEFINE m == n * charge
              m1 == (n + 1) * charge
  <2>. HIDE DEF paid, m, m1, charge, n
  <2>1. m1 = m + charge /\ m \in Nat /\ paid \in Nat /\ bill[s] <= paid + m
    BY <1>4, <1>5 DEF m, m1
  <2>2. bill'[s] <= paid + m1
    BY <1>1, <1>3, <2>1 DEF charge, n
  <2>. QED
    BY <2>2 DEF m1
<1>. QED
  BY <1>1, <1>6, <1>7 DEF BillOf

(* and the next candidate comes when this one cannot be called any more.      *)
LEMMA BillRecord ==
  ASSUME Typed, SamePrices, NEW s \in Session, SpansOf(s), BillOf(s), Record(s)
  PROVE  BillOf(s)'
<1>. DEFINE i == at[s].candidate
            f == ForceCheapest(s)
            next == NextCandidate(i, f)
            T == Tried(i, f)
            n == calls[s].count
            charge == Charge(i)
<1>0. TypeOK /\ ServingInv /\ route \in Routes
  BY DEF Typed, TypeOK
<1>1. /\ pc[s] = "record" /\ bill'[s] = IF pc'[s] = "call" THEN bill[s] ELSE 0
      /\ pc'[s] \in {"log", "reply", "call"}
      /\ calls' = [calls EXCEPT ![s] = NoCalls]
  BY <1>0, RecordEffect
<1>2. Open(i, f) /\ f \in BOOLEAN /\ i \in 0..Len(Candidates) /\ i # 0
  BY <1>0, <1>1, CandidateList DEF SpansOf, ForceCheapest, Open
<1>3. CASE pc'[s] # "call"
  BY <1>1, <1>3 DEF BillOf
<1>4. CASE pc'[s] = "call"
  <2>1. Advance(s, i)
    BY <1>0, <1>4 DEF Record, Goto, TypeOK
  <2>2. at'[s].candidate = next /\ next # Exhausted
    BY <1>0, <1>2, <1>4, <2>1, AdvanceEffect
  <2>3. Tried(next, f) = T \cup {i}
    BY <1>0, <1>2, <2>2, NextTried
  <2>4. /\ CostOf(T) \in Nat /\ charge \in Nat /\ CostOf(T \cup {i}) = CostOf(T) + charge
        /\ n \in Nat /\ n <= MaxAttempts /\ MaxAttempts \in Nat /\ bill[s] \in Nat
    BY <1>0, <1>2, TriedCost, CountOfCalls DEF TypeOK
  <2>5. /\ n * charge <= MaxAttempts * charge
        /\ MaxAttempts * (CostOf(T) + charge) = MaxAttempts * CostOf(T) + MaxAttempts * charge
        /\ n * charge \in Nat /\ MaxAttempts * charge \in Nat /\ MaxAttempts * CostOf(T) \in Nat
    BY <2>4, Products
  <2>6. bill[s] <= MaxAttempts * CostOf(T) + n * charge
    BY <1>1 DEF BillOf
  <2>7. bill'[s] <= MaxAttempts * CostOf(T \cup {i})
    <3>. DEFINE a == MaxAttempts * CostOf(T)
                b == n * charge
                c == MaxAttempts * charge
    <3>1. bill[s] <= a + b /\ b <= c /\ MaxAttempts * CostOf(T \cup {i}) = a + c
          /\ a \in Nat /\ b \in Nat /\ c \in Nat /\ bill'[s] = bill[s]
      BY <1>1, <1>4, <2>4, <2>5, <2>6
    <3>2. bill[s] \in Nat
      BY <2>4
    <3>. HIDE DEF a, b, c
    <3>3. bill'[s] <= a + c
      BY <3>1, <3>2
    <3>. QED
      BY <3>1, <3>3
  <2>8. /\ ForceCheapest(s)' = f
        /\ CostOf(Tried(at[s].candidate, ForceCheapest(s)))' = CostOf(T \cup {i})
    <3>1. ForceCheapest(s)' = f
      BY DEF Record, ForceCheapest
    <3>. HIDE DEF i, f, next, T
    <3>. QED
      BY <2>2, <2>3, <3>1 DEF SamePrices
  <2>9. calls'[s].count * Charge(at[s].candidate)' = 0
    <3>1. calls'[s].count = 0
      BY <1>0, <1>1 DEF NoCalls, TypeOK
    <3>2. next \in DOMAIN Candidates
      BY <1>0, <1>2, <2>2, NextIsCandidate
    <3>3. UNCHANGED <<route, caller>>
      BY DEF Record
    <3>4. Charge(at[s].candidate)' = Charge(next)
      BY <2>2, <3>3 DEF Charge, Estimate, Candidates
    <3>5. Charge(next) \in Nat
      BY <1>0, <3>2, ChargeType
    <3>. HIDE DEF next
    <3>. QED
      BY <3>1, <3>4, <3>5
  <2>10. MaxAttempts * CostOf(T \cup {i}) \in Nat
    BY <2>4, Products
  <2>. HIDE DEF T, i
  <2>. QED
    BY <1>4, <2>7, <2>8, <2>9, <2>10 DEF BillOf
<1>. QED
  BY <1>3, <1>4

LEMMA BillRest ==
  ASSUME SamePrices, UNCHANGED <<route, caller>>, NEW s \in Session, BillOf(s),
         request'[s] = request[s], degraded'[s] = degraded[s], bill'[s] = bill[s],
         calls'[s] = calls[s], at'[s] = at[s], pc'[s] = pc[s]
  PROVE  BillOf(s)'
<1>1. ForceCheapest(s)' = ForceCheapest(s)
  BY DEF ForceCheapest
<1>2. Charge(at[s].candidate)' = Charge(at[s].candidate)
  BY DEF Charge, Estimate, Candidates
<1>3. CostOf(Tried(at[s].candidate, ForceCheapest(s)))' = CostOf(Tried(at[s].candidate, ForceCheapest(s)))
  BY <1>1 DEF SamePrices
<1>. QED
  BY <1>2, <1>3 DEF BillOf

LEMMA BillStep == ASSUME Typed, SpansInv, BillInv, [Next]_vars PROVE BillInv'
<1>0. /\ TypeOK /\ ServingInv /\ SamePrices /\ UNCHANGED <<route, caller>>
      /\ \A s \in Session : SpansOf(s) /\ BillOf(s)
  BY PricesStay, Writers DEF Typed, SpansInv, SpansOf, Paying, BillInv, Written
<1>1. ASSUME NEW s \in Session, (\E p \in Prompt : Send(s, p)) \/ Serve(s) \/ Crash(s) \/ Resume(s)
      PROVE  BillOf(s)'
  <2>1. CASE \/ \E p \in Prompt : Send(s, p)
             \/ Enforce(s) \/ Log(s) \/ Reply(s) \/ Resume(s)
    <3>1. /\ pc[s] \notin {"call", "record"} /\ bill'[s] = bill[s]
          /\ pc'[s] \notin {"call", "record"}
      BY <1>0, <2>1 DEF Send, Enforce, WithinBudget, Degrade, Halt, Ask, Flag, Poll, Decided, Log, Reply,
                        Resume, At, Goto, TypeOK
    <3>. QED
      BY <1>0, <3>1 DEF BillOf
  <2>2. CASE CacheDecision(s)
    <3>1. pc[s] = "cache" /\ bill' = bill /\ UNCHANGED <<request, degraded>>
      BY <2>2 DEF CacheDecision, At
    <3>2. bill'[s] = 0
      BY <1>0, <3>1 DEF BillOf
    <3>3. CASE pc'[s] \notin {"call", "record"}
      BY <3>2, <3>3 DEF BillOf
    <3>4. CASE pc'[s] \in {"call", "record"}
      <4>1. Advance(s, 0)
        BY <1>0, <2>2, <3>4 DEF CacheDecision, Goto, TypeOK
      <4>. DEFINE f == ForceCheapest(s)
                  j == NextCandidate(0, f)
      <4>2. /\ 0 \in 0..Len(Candidates) /\ at'[s].candidate = j /\ j # Exhausted
            /\ calls'[s].count = 0
        <5>1. 0 \in 0..Len(Candidates)
          BY <1>0, CandidateList DEF TypeOK
        <5>2. /\ at'[s].candidate = j /\ at'[s].candidate # Exhausted
              /\ calls' = [calls EXCEPT ![s] = NoCalls]
          BY <1>0, <3>4, <4>1, <5>1, AdvanceEffect
        <5>3. calls'[s].count = 0
          BY <1>0, <5>2 DEF TypeOK, NoCalls
        <5>. HIDE DEF f, j
        <5>. QED
          BY <5>1, <5>2, <5>3
      <4>3. Open(j, f) /\ f \in BOOLEAN /\ route \in Routes
        <5>1. route \in Routes /\ f \in BOOLEAN
          BY <1>0 DEF TypeOK, ForceCheapest
        <5>. HIDE DEF f
        <5>. QED
          BY <4>2, <5>1, NextIsCandidate
      <4>4. ForceCheapest(s)' = f
        BY <3>1 DEF ForceCheapest
      <4>5. CostOf(Tried(j, f)) \in Nat /\ Charge(j) \in Nat /\ MaxAttempts \in Nat
        BY <4>3, TriedCost, BoundAssumption
      <4>6. /\ CostOf(Tried(at[s].candidate, ForceCheapest(s)))' = CostOf(Tried(j, f))
            /\ Charge(at[s].candidate)' = Charge(j)
        <5>1. Charge(at[s].candidate)' = Charge(j)
          BY <1>0, <4>2 DEF Charge, Estimate, Candidates
        <5>. QED
          BY <1>0, <4>2, <4>4, <5>1 DEF SamePrices
      <4>7. MaxAttempts * CostOf(Tried(j, f)) \in Nat /\ 0 * Charge(j) = 0
        BY <4>5, Products
      <4>. HIDE DEF j, f
      <4>. QED
        BY <3>2, <3>4, <4>2, <4>6, <4>7 DEF BillOf
    <3>. QED
      BY <3>3, <3>4
  <2>3. CASE Crash(s)
    <3>1. bill'[s] = 0 /\ pc'[s] = "down"
      BY <1>0, <2>3, CrashEffect DEF Crash, Goto, TypeOK
    <3>. QED
      BY <3>1 DEF BillOf
  <2>. QED
    BY <1>0, <1>1, <2>1, <2>2, <2>3, BillCall, BillRecord DEF Serve, Execute
<1>2. ASSUME NEW t \in Session,
             \/ \E s \in Session \ {t} : (\E p \in Prompt : Send(s, p)) \/ Serve(s) \/ Crash(s) \/ Resume(s)
             \/ \E c \in CallIds : Operate(c)
             \/ UNCHANGED vars
      PROVE  BillOf(t)'
  <2>1. /\ request'[t] = request[t] /\ degraded'[t] = degraded[t] /\ bill'[t] = bill[t]
        /\ calls'[t] = calls[t] /\ pc'[t] = pc[t] /\ at'[t] = at[t]
    BY <1>0, <1>2, StepOfOne DEF Operate, Approve, Resolve, Deny, vars
  <2>. QED
    BY <1>0, <2>1, BillRest
<1>. QED
  BY <1>1, <1>2 DEF Next, BillInv

LEMMA SpansInit == Init => SpansInv
<1>. SUFFICES ASSUME Init, NEW s \in Session PROVE SpansOf(s)
  BY DEF SpansInv, SpansOf, Paying
<1>1. TypeOK /\ pc[s] = "idle" /\ spent[s] = 0 /\ granted[s] = {}
  BY InitTypes DEF Init
<1>2. Paying(s) => 0 < Allowance(s)
  BY <1>1, LeaveType DEF Paying, Allowance
<1>. QED
  BY <1>1, <1>2 DEF SpansOf, SpansWithin, At

(* route_executor.rs call_model_with_retries: a candidate is called            *)
(* MaxAttempts times at most and not again after an error that stays, and      *)
(* what the providers take for a request, the attempts that no span tells of   *)
(* included, is at most MaxAttempts times what each candidate that the         *)
(* allowlist allows may cost, whatever the providers report.                   *)
THEOREM BillIsBounded == Spec => [](\A s \in Session : AttemptsBounded(s) /\ BillBounded(s))
<1>1. Init => BillInv
  BY DEF Init, BillInv, BillOf
<1>2. Typed /\ SpansInv /\ BillInv /\ [Next]_vars => SpansInv' /\ BillInv'
  BY SpansStep, BillStep
<1>3. Typed /\ SpansInv /\ BillInv => \A s \in Session : AttemptsBounded(s) /\ BillBounded(s)
  <2>. SUFFICES ASSUME Typed, SpansInv, BillInv, NEW s \in Session
                PROVE  AttemptsBounded(s) /\ BillBounded(s)
    OBVIOUS
  <2>0. calls[s].count \in Nat /\ calls[s].count <= MaxAttempts /\ MaxAttempts \in Nat
    BY CountOfCalls
  <2>1. AttemptsBounded(s)
    BY <2>0 DEF AttemptsBounded, Typed, AttemptsInv, At
  <2>2. CASE pc[s] \in {"call", "record"}
    <3>. DEFINE i == at[s].candidate
                f == ForceCheapest(s)
                t == CostOf(Tried(i, f))
                n == calls[s].count
                charge == Charge(i)
    <3>1. Open(i, f) /\ f \in BOOLEAN /\ route \in Routes
      BY <2>2 DEF SpansInv, ForceCheapest, Typed, TypeOK
    <3>2. t \in Nat /\ charge \in Nat /\ t + charge <= RequestCost /\ RequestCost \in Nat
      BY <3>1, TriedCost, RequestCosts
    <3>3. bill[s] <= MaxAttempts * t + n * charge /\ bill[s] \in Nat
      BY <2>2 DEF BillInv, BillOf, Typed, TypeOK
    <3>4. /\ n * charge <= MaxAttempts * charge /\ t + charge \in Nat
          /\ MaxAttempts * (t + charge) = MaxAttempts * t + MaxAttempts * charge
          /\ MaxAttempts * (t + charge) <= MaxAttempts * RequestCost
          /\ n * charge \in Nat /\ MaxAttempts * charge \in Nat /\ MaxAttempts * t \in Nat
          /\ MaxAttempts * RequestCost \in Nat
      <4>. HIDE DEF t, n, charge
      <4>1. n \in Nat /\ n <= MaxAttempts
        BY <2>0 DEF n
      <4>2. t + charge \in Nat
        BY <3>2
      <4>. QED
        BY <2>0, <3>2, <4>1, <4>2, Products
    <3>5. bill[s] <= MaxAttempts * RequestCost
      <4>. DEFINE a == MaxAttempts * t
                  b == n * charge
                  c == MaxAttempts * charge
                  d == MaxAttempts * RequestCost
      <4>1. bill[s] <= a + b /\ b <= c /\ a + c <= d /\ a \in Nat /\ b \in Nat /\ c \in Nat /\ d \in Nat
        BY <3>3, <3>4
      <4>. HIDE DEF a, b, c, d
      <4>2. bill[s] <= d
        BY <3>3, <4>1
      <4>. QED
        BY <4>2 DEF d
    <3>. QED
      BY <2>1, <3>5 DEF BillBounded
  <2>3. CASE pc[s] \notin {"call", "record"}
    <3>1. bill[s] = 0 /\ RequestCost \in Nat
      BY <2>3, RequestCosts DEF BillInv, BillOf, Typed, TypeOK
    <3>2. MaxAttempts * RequestCost \in Nat
      BY <2>0, <3>1, Products
    <3>. QED
      BY <2>1, <3>1, <3>2 DEF BillBounded
  <2>. QED
    BY <2>2, <2>3
<1>. QED
  BY <1>1, <1>2, <1>3, SpansInit, TypesInductive, PTL DEF Spec

(* session.rs enforce_session_budget: the spans of a session pass its budget  *)
(* by less than one request; where the breach asks, by one more for each that *)
(* was granted, where it degrades, by the forced candidates of each request,  *)
(* and by one for each crash.  A request is what each candidate may charge:    *)
(* its estimate, or where providers report costs, the highest report.  For    *)
(* any route, estimates, reports, retries and answers, with BillIsBounded.     *)
THEOREM CostsAreBounded == Spec => []CostIsBounded
<1>1. Init => SpansInv
  BY SpansInit
<1>2. Typed /\ SpansInv /\ [Next]_vars => SpansInv'
  BY SpansStep
<1>3. Typed /\ SpansInv => \A s \in Session : SpansBounded(s)
  <2>. SUFFICES ASSUME Typed, SpansInv, NEW s \in Session, breach[s] # "none", spent[s] # 0
                PROVE  spent[s] < Allowance(s)
    BY DEF SpansBounded
  <2>1. RequestCost \in Nat /\ Budget \in Nat /\ RequestCost # 0
    BY LeaveType DEF Typed, SpansInv
  <2>. QED
    BY <2>1 DEF SpansInv, SpansWithin
<1>4. /\ Typed /\ SpansInv /\ (\A s \in Session : AttemptsBounded(s) /\ BillBounded(s))
      => CostIsBounded
  BY <1>3 DEF CostIsBounded
<1>. QED
  BY <1>1, <1>2, <1>4, TypesInductive, BillIsBounded, PTL DEF Spec

-----------------------------------------------------------------------------
(* What optimize may do to the cache's thresholds, whatever the traces say *)

(* A bucket of verdicts. *)
Bucket == [accepted : Nat, rejected : Nat]

LEMMA FifthOfBand ==
  ASSUME NEW t \in Threshold(Nat), t.low <= t.high
  PROVE  Fifth(t) \in Nat /\ 5 * Fifth(t) <= t.high - t.low
<1> DEFINE w == t.high - t.low
<1>1. w \in Nat /\ {t.low, t.high, t.threshold} \subseteq Nat  BY DEF Threshold
<1> HIDE DEF w
<1>2. w \div 5 \in Nat /\ 5 * (w \div 5) <= w  BY <1>1
<1> QED  BY <1>2 DEF Fifth, w

(* optimize.rs analyze, against validate_thresholds of the router: a build    *)
(* that accepts the thresholds of cybersin.yaml accepts those optimize makes  *)
(* of them, so optimize never fails on its own numbers.                       *)
THEOREM TunedIsValid ==
  ASSUME NEW N \in Nat, NEW t \in Threshold(0..N), ValidThresholds(t, 0..N),
         NEW bottom \in Bucket, NEW top \in Bucket
  PROVE  ValidThresholds(Tuned(t, bottom, top), 0..N)
<1> DEFINE u == Tuned(t, bottom, top)
           f == Fifth(t)
<1>1. /\ {t.low, t.high, t.threshold} \subseteq 0..N
      /\ t.low <= t.high /\ t.high <= t.threshold
  BY DEF ValidThresholds
<1>2. t \in Threshold(Nat)  BY DEF Threshold
<1>3. f \in Nat /\ 5 * f <= t.high - t.low  BY <1>1, <1>2, FifthOfBand
<1>4. \/ u.high = t.high /\ u.threshold = t.threshold
      \/ u.high = t.low + 4 * f /\ u.threshold = u.high
  BY DEF Tuned
<1>5. \/ u.low = t.low
      \/ u.low = t.low + f
  BY DEF Tuned
<1> HIDE DEF u, f
<1>6. u.low <= u.high /\ u.high <= u.threshold  BY <1>1, <1>3, <1>4, <1>5
<1>7. {u.low, u.high, u.threshold} \subseteq 0..N  BY <1>1, <1>3, <1>4, <1>5
<1> QED  BY <1>6, <1>7 DEF ValidThresholds, u

(* What is a hit or is not looked at after optimize, and was judged or a hit, *)
(* or judged or a miss, before it: the direct hits only grow, by no more than *)
(* a fifth of the band and the gap between the band and the threshold, in     *)
(* which nothing was judged; and the judge is asked about nothing new.        *)
THEOREM TunedStaysInBand ==
  ASSUME NEW N \in Nat, NEW t \in Threshold(0..N), ValidThresholds(t, 0..N),
         NEW bottom \in Bucket, NEW top \in Bucket
  PROVE  LET u == Tuned(t, bottom, top) IN
         /\ t.low <= u.low /\ u.high <= t.high /\ u.threshold <= t.threshold
         /\ u.threshold >= t.low + 4 * Fifth(t)
<1> DEFINE u == Tuned(t, bottom, top)
           f == Fifth(t)
<1>1. /\ {t.low, t.high, t.threshold} \subseteq 0..N
      /\ t.low <= t.high /\ t.high <= t.threshold
  BY DEF ValidThresholds
<1>2. t \in Threshold(Nat)  BY DEF Threshold
<1>3. f \in Nat /\ 5 * f <= t.high - t.low  BY <1>1, <1>2, FifthOfBand
<1>4. \/ u.high = t.high /\ u.threshold = t.threshold
      \/ u.high = t.low + 4 * f /\ u.threshold = u.high
  BY DEF Tuned
<1>5. \/ u.low = t.low
      \/ u.low = t.low + f
  BY DEF Tuned
<1> HIDE DEF u, f
<1>6. /\ t.low <= u.low /\ u.high <= t.high /\ u.threshold <= t.threshold
      /\ u.threshold >= t.low + 4 * f
  BY SMTT(20), <1>1, <1>3, <1>4, <1>5
<1> QED  BY <1>6 DEF u, f
=============================================================================
