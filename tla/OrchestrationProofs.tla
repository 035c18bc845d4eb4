-------------------------- MODULE OrchestrationProofs --------------------------
(***************************************************************************)
(* What coordinates agents.  First the state table and the mailboxes       *)
(* (StateStore), for any number of writers, receivers, values and writes,  *)
(* with processes dying between any two statements: no version of a         *)
(* blackboard entry is replaced by two compare-and-sets; a row that         *)
(* state.set alone writes is always an event of the log; mail is in order,  *)
(* and in Postgres nobody's is another's.  Then the orchestrator           *)
(* (Orchestration), for any number of processes, workers, amounts and      *)
(* limits.                                                                 *)
(***************************************************************************)
EXTENDS StateStore, Orchestration, FiniteSetTheorems, WellFoundedInduction, TLAPS

-----------------------------------------------------------------------------
(* The state table and the mailboxes *)


(* The k-th compare-and-set applied replaced version k - 1, and the row is    *)
(* as many versions old as there were applied ones.                          *)
Referee ==
  /\ applied \in Seq(Nat)
  /\ row.version = Len(applied)
  /\ \A n \in 1..Len(applied) : applied[n] = n - 1
  /\ \A w \in Writer : pc[w] \notin {"set_log", "set_row"}
  /\ DOMAIN pc = Party

(* No step changes what the key and the mailbox are used for.                 *)
LEMMA UseStays == [StoreNext]_storeVars => use' = use
BY DEF StoreNext, storeVars, Get, Write, SetCheck, SetLog, SetRow, CasBegin, CasApply, CasStale, CasLog,
       CasRead, Take, TakeSelect, TakeUpdate, TakeLog, Send, Die

(* The empty store satisfies the invariant: no row, nothing applied.          *)
LEMMA InitReferee == StoreInit => Referee
BY DEF StoreInit, Referee, NoRecord, Party

(* With compare-and-set the only write in use (the blackboard), every step    *)
(* keeps the invariant; only cas_state's conditional statement touches it.    *)
LEMMA RefereeInductive ==
  ASSUME "set" \notin use, Referee, [StoreNext]_storeVars
  PROVE  Referee'
<1>0. Writer \subseteq Party /\ Receiver \subseteq Party
  BY DEF Party
<1>1. ASSUME NEW w \in Writer, Get(w)
      PROVE Referee'
  BY <1>1 DEF Get, Referee, store
<1>2. ASSUME NEW w \in Writer, SetCheck(w) \/ SetLog(w) \/ SetRow(w)
      PROVE Referee'
  BY <1>0, <1>2 DEF SetCheck, SetLog, SetRow, Step, Referee
<1>3. ASSUME NEW w \in Writer, CasBegin(w)
      PROVE Referee'
  BY <1>0, <1>3 DEF CasBegin, Begin, Step, Referee, store
<1>4. ASSUME NEW w \in Writer, CasApply(w)
      PROVE Referee'
  <2>1. op[w].expected = Len(applied)
    BY <1>4 DEF CasApply, Referee
  <2>2. applied' = Append(applied, Len(applied)) /\ row'.version = row.version + 1
    BY <1>4, <2>1 DEF CasApply
  <2>3. pc' = [pc EXCEPT ![w] = "cas_log"]
    BY <1>4 DEF CasApply, Step
  <2>. QED
    BY <1>0, <2>2, <2>3 DEF Referee
<1>5. ASSUME NEW w \in Writer, CasStale(w) \/ CasLog(w) \/ CasRead(w)
      PROVE Referee'
  BY <1>0, <1>5 DEF CasStale, CasLog, CasRead, Step, Referee, store
<1>6. ASSUME NEW r \in Receiver, Take(r)
      PROVE Referee'
  BY <1>0, <1>6 DEF Take, TakeSelect, TakeUpdate, TakeLog, Step, Referee, store
<1>7. CASE Send
  BY <1>7 DEF Send, Referee
<1>8. ASSUME NEW p \in Party, Die(p)
      PROVE Referee'
  BY <1>0, <1>8 DEF Die, Referee, store
<1>9. CASE UNCHANGED storeVars
  BY <1>9 DEF storeVars, store, Referee
<1>. QED
  BY <1>1, <1>2, <1>3, <1>4, <1>5, <1>6, <1>7, <1>8, <1>9 DEF StoreNext, Write

(* Of the writers that read one version of a blackboard entry, one at most    *)
(* has its compare-and-set applied (orchestration.rs, blackboard_cas).        *)
THEOREM OneWriter == StoreSpec => []OneWriterPerVersion
<1> DEFINE Inv == "set" \notin use => Referee
<1>1. StoreInit => Inv
  BY InitReferee
<1>2. Inv /\ [StoreNext]_storeVars => Inv'
  BY RefereeInductive, UseStays
<1>3. Inv => OneWriterPerVersion
  BY DEF Referee, OneWriterPerVersion
<1>. QED
  BY <1>1, <1>2, <1>3, PTL DEF StoreSpec

-----------------------------------------------------------------------------
(* The row is under the seq of its event, and a writer that has logged its    *)
(* event and not yet written the row holds the seq of that event.            *)
Indexed ==
  /\ log \in Seq(Value \cup {Odd})
  /\ DOMAIN pc = Party
  /\ \A w \in Writer : pc[w] \notin {"cas", "cas_log"}
  /\ row.version \in Nat
  /\ RowIsLogged
  /\ op \in [Writer -> [value : Value \cup {Odd, None}, expected : Nat]]
  /\ \A w \in Writer : pc[w] \in {"set_log", "set_row"} => op[w].value \in Value \cup {Odd}
  /\ known \in [Writer -> [value : Value \cup {Odd, None}, type : {"plain", "odd", None}, version : Nat]]
  /\ row \in [value : Value \cup {Odd, None}, type : {"plain", "odd", None}, version : Nat]
  /\ \A w \in Writer : pc[w] = "set_row" =>
        op[w].expected \in 1..Len(log) /\ log[op[w].expected] = op[w].value

(* The empty store satisfies the invariant: no row and no writer under way.   *)
LEMMA InitIndexed == StoreInit => Indexed
BY DEF StoreInit, Indexed, RowIsLogged, NoRecord, NoOp, Party

(* Where state.set is the only write in use, every step keeps the invariant.  *)
LEMMA IndexedInductive ==
  ASSUME "cas" \notin use, Indexed, [StoreNext]_storeVars
  PROVE  Indexed'
<1>0. Writer \subseteq Party /\ Receiver \subseteq Party
  BY DEF Party
<1>1. ASSUME NEW w \in Writer, Get(w)
      PROVE Indexed'
  BY <1>0, <1>1 DEF Get, Indexed, RowIsLogged, store
<1>2. ASSUME NEW w \in Writer, SetCheck(w)
      PROVE Indexed'
  <2>1. PICK v \in Value \cup {Odd} : Begin(w, "set_log", v)
    BY <1>2 DEF SetCheck
  <2>2. /\ UNCHANGED <<row, log, known>>
        /\ pc' = [pc EXCEPT ![w] = "set_log"]
        /\ op' = [op EXCEPT ![w] = [value |-> v, expected |-> known[w].version]]
    BY <1>2, <2>1 DEF SetCheck, Begin, Step, store
  <2>. QED
    BY <1>0, <2>2 DEF Indexed, RowIsLogged
<1>3. ASSUME NEW w \in Writer, SetLog(w)
      PROVE Indexed'
  <2>1. /\ pc[w] = "set_log"
        /\ pc' = [pc EXCEPT ![w] = "set_row"]
        /\ log' = Append(log, op[w].value)
        /\ UNCHANGED <<row, known>>
    BY <1>3 DEF SetLog, Step
  <2>2. op[w].value \in Value \cup {Odd}
    BY <2>1 DEF Indexed
  <2>3. /\ log' \in Seq(Value \cup {Odd})
        /\ Len(log') = Len(log) + 1
        /\ \A n \in 1..Len(log) : log'[n] = log[n]
        /\ log'[Len(log) + 1] = op[w].value
    BY <2>1, <2>2 DEF Indexed
  <2>4. op' = [op EXCEPT ![w] = [value |-> op[w].value, expected |-> Len(log) + 1]]
    BY <1>3 DEF SetLog
  <2>5. Len(log) \in Nat
    BY DEF Indexed
  <2>6. op' \in [Writer -> [value : Value \cup {Odd, None}, expected : Nat]]
    BY <2>2, <2>4, <2>5 DEF Indexed
  <2>7. RowIsLogged'
    BY <2>1, <2>3, <2>5 DEF Indexed, RowIsLogged
  <2>8. ASSUME NEW x \in Writer, pc'[x] = "set_row"
        PROVE  op'[x].expected \in 1..Len(log') /\ log'[op'[x].expected] = op'[x].value
    <3>1. CASE x = w
      BY <2>3, <2>4, <2>5, <3>1 DEF Indexed
    <3>2. CASE x # w
      <4>1. pc[x] = "set_row" /\ op'[x] = op[x]
        BY <1>0, <2>1, <2>4, <2>8, <3>2 DEF Indexed
      <4>. QED
        BY <2>3, <2>5, <4>1 DEF Indexed
    <3>. QED
      BY <3>1, <3>2
  <2>. QED
    BY <1>0, <2>1, <2>2, <2>3, <2>4, <2>6, <2>7, <2>8 DEF Indexed
<1>4. ASSUME NEW w \in Writer, SetRow(w)
      PROVE Indexed'
  <2>1. /\ pc[w] = "set_row"
        /\ pc' = [pc EXCEPT ![w] = "idle"]
        /\ row' = [value |-> op[w].value, version |-> op[w].expected,
                   type |-> IF row.version = 0 THEN JsonType(op[w].value) ELSE row.type]
        /\ UNCHANGED <<log, known, op>>
    BY <1>4 DEF SetRow, Step
  <2>2. op[w].expected \in 1..Len(log) /\ log[op[w].expected] = op[w].value
    BY <2>1 DEF Indexed
  <2>3. row' \in [value : Value \cup {Odd, None}, type : {"plain", "odd", None}, version : Nat]
    BY <2>1, <2>2 DEF Indexed, JsonType
  <2>. QED
    BY <1>0, <2>1, <2>2, <2>3 DEF Indexed, RowIsLogged
<1>5. ASSUME NEW w \in Writer,
             CasBegin(w) \/ CasApply(w) \/ CasStale(w) \/ CasLog(w)
      PROVE FALSE
  BY <1>5 DEF CasBegin, CasApply, CasStale, CasLog, Step, Indexed
<1>6. ASSUME NEW w \in Writer, CasRead(w)
      PROVE Indexed'
  BY <1>0, <1>6 DEF CasRead, Step, Indexed, RowIsLogged, store
<1>7. ASSUME NEW r \in Receiver, Take(r)
      PROVE Indexed'
  <2>1. UNCHANGED <<row, log, op, known>>
    BY <1>7 DEF Take, TakeSelect, TakeUpdate, TakeLog, store
  <2>2. \A w \in Writer : pc'[w] = pc[w]
    BY <1>0, <1>7, PartyAssumption DEF Take, TakeSelect, TakeUpdate, TakeLog, Step, Indexed
  <2>3. DOMAIN pc' = Party
    BY <1>7 DEF Take, TakeSelect, TakeUpdate, TakeLog, Step, Indexed
  <2>. QED
    BY <2>1, <2>2, <2>3 DEF Indexed, RowIsLogged
<1>8. CASE Send
  BY <1>8 DEF Send, Indexed, RowIsLogged
<1>9. ASSUME NEW p \in Party, Die(p)
      PROVE Indexed'
  <2>1. UNCHANGED <<row, log, op>> /\ pc' = [pc EXCEPT ![p] = "idle"]
    BY <1>9 DEF Die, store
  <2>2. NoRecord \in [value : Value \cup {Odd, None}, type : {"plain", "odd", None}, version : Nat]
    BY DEF NoRecord
  <2>3. known' \in [Writer -> [value : Value \cup {Odd, None}, type : {"plain", "odd", None}, version : Nat]]
    BY <1>9, <2>2 DEF Die, Indexed
  <2>. QED
    BY <1>0, <2>1, <2>3 DEF Indexed, RowIsLogged
<1>10. CASE UNCHANGED storeVars
  BY <1>10 DEF storeVars, store, Indexed, RowIsLogged
<1>. QED
  BY <1>1, <1>2, <1>3, <1>4, <1>5, <1>6, <1>7, <1>8, <1>9, <1>10 DEF StoreNext, Write

(* A row that state.set alone writes is an event of the log, whichever        *)
(* writers race and wherever they die (storage.rs, set_state).               *)
THEOREM RowFollowsLog == StoreSpec => []RowIsLogged
<1> DEFINE Inv == "cas" \notin use => Indexed
<1>1. StoreInit => Inv
  BY InitIndexed
<1>2. Inv /\ [StoreNext]_storeVars => Inv'
  BY IndexedInductive, UseStays
<1>3. Inv => RowIsLogged
  BY DEF Indexed, RowIsLogged
<1>. QED
  BY <1>1, <1>2, <1>3, PTL DEF StoreSpec
-----------------------------------------------------------------------------
(* What a receiver has got is what it returned and what it holds.  A message  *)
(* it returned is delivered; what it holds is younger than all it returned;   *)
(* and whatever is older than anything it got is delivered, or locked by one  *)
(* that is about to deliver it.  In Postgres nobody gets what another got.    *)
Holds(r) == pc[r] \in {"take_update", "take_log"}
Got(r) == Mail(r) \cup {picked[q] : q \in {x \in {r} : Holds(x)}}
Orderly ==
  /\ DOMAIN pc = Party
  /\ signals \in Seq(BOOLEAN)
  /\ picked \in [Receiver -> Nat] /\ received \in [Receiver -> Seq(Nat)]
  /\ \A r \in Receiver : Got(r) \subseteq 1..Len(signals)
  /\ \A r \in Receiver : pc[r] = "take_log" => signals[picked[r]]
  /\ \A r \in Receiver : \A n \in Mail(r) : signals[n]
  /\ \A r \in Receiver : Ascending(received[r])
  /\ \A r \in Receiver : Holds(r) => \A n \in Mail(r) : n < picked[r]
  /\ \A r \in Receiver : \A n \in Got(r) : \A m \in 1..n - 1 : signals[m] \/ m \in Locked
  /\ "postgres" \in use =>
       /\ \A r \in Receiver : pc[r] = "take_update" => ~signals[picked[r]]
       /\ \A q, r \in Receiver : q # r => Got(q) \cap Got(r) = {}

(* The mailbox is empty at first, and nobody has anything.                    *)
LEMMA InitOrderly == StoreInit => Orderly
BY DEF StoreInit, Orderly, Got, Mail, Holds, Locked, Ascending, Party

(* A step that leaves the mailbox and its receivers alone keeps the invariant. *)
LEMMA OrderlyElsewhere ==
  ASSUME Orderly, UNCHANGED <<use, signals, picked, received>>, DOMAIN pc' = Party,
         \A r \in Receiver : pc'[r] = pc[r]
  PROVE  Orderly'
<1>1. Locked' = Locked
  BY DEF Locked
<1>2. \A r \in Receiver : Got(r)' = Got(r) /\ Mail(r)' = Mail(r) /\ (Holds(r)' <=> Holds(r))
  BY DEF Got, Mail, Holds
<1>. QED
  BY <1>1, <1>2 DEF Orderly

(* A set of numbers that is not empty has a least one.                       *)
LEMMA LeastOf ==
  ASSUME NEW S, S \subseteq Nat, S # {}
  PROVE  \E n \in S : \A m \in S : n <= m
<1>1. PICK n \in S : \A m \in S : <<m, n>> \notin OpToRel(<, Nat)
  BY NatLessThanWellFounded, WFMin
<1>2. \A m \in S : ~ (m < n)
  BY <1>1 DEF OpToRel
<1>. QED
  BY <1>2

(* What is selected is younger than all the receiver has returned, because    *)
(* everything older is delivered or locked.                                  *)
LEMMA OrderlySelect ==
  ASSUME Orderly, NEW r \in Receiver, TakeSelect(r)
  PROVE  Orderly'
<1> DEFINE o == Oldest
<1>1. o \in Undelivered /\ \A m \in Undelivered : o <= m
  <2>1. Undelivered # {} /\ Undelivered \subseteq Nat
    BY DEF TakeSelect, Undelivered
  <2>2. \E n \in Undelivered : \A m \in Undelivered : n <= m
    BY <2>1, LeastOf
  <2>. QED
    BY <2>2 DEF Oldest
<1>2. /\ o \in 1..Len(signals) /\ ~signals[o] /\ o \notin Locked
      /\ \A m \in 1..o - 1 : signals[m] \/ m \in Locked
  BY <1>1 DEF Undelivered, Orderly
<1>3. /\ pc[r] = "idle" /\ pc' = [pc EXCEPT ![r] = "take_update"]
      /\ picked' = [picked EXCEPT ![r] = o]
      /\ UNCHANGED <<use, signals, received>>
  BY DEF TakeSelect, Step, store
<1> HIDE DEF o
<1>4. r \in Party /\ Receiver \subseteq Party
  BY DEF Party
<1>5. /\ DOMAIN pc' = Party
      /\ picked' \in [Receiver -> Nat]
      /\ picked'[r] = o /\ pc'[r] = "take_update"
      /\ \A q \in Receiver : q # r => picked'[q] = picked[q] /\ pc'[q] = pc[q]
  BY <1>2, <1>3, <1>4 DEF Orderly
<1>6. \A q \in Receiver : Mail(q)' = Mail(q)
  BY <1>3 DEF Mail
<1>7. /\ Got(r)' = Mail(r) \cup {o} /\ Got(r) = Mail(r)
      /\ \A q \in Receiver : q # r => Got(q)' = Got(q)
  BY <1>3, <1>5, <1>6 DEF Got, Holds
<1>8. Locked \subseteq Locked'
  <2>1. ASSUME NEW q \in Receiver, pc[q] = "take_update"
        PROVE q # r /\ pc'[q] = "take_update" /\ picked'[q] = picked[q]
    BY <1>3, <1>5, <2>1
  <2>. QED
    BY <1>3, <2>1 DEF Locked
<1>9. \A n \in Mail(r) : n < o
  <2>1. ASSUME NEW n \in Mail(r)
        PROVE  n < o
    <3>1. n \in 1..Len(signals) /\ signals[n]
      BY <1>7 DEF Orderly
    <3>2. \A m \in 1..n - 1 : signals[m] \/ m \in Locked
      BY <1>7 DEF Orderly
    <3>3. n # o /\ ~ (o \in 1..n - 1)
      BY <1>2, <3>1, <3>2
    <3>. QED
      BY <1>2, <3>1, <3>3
  <2>. QED
    BY <2>1
<1>10. \A q \in Receiver : q # r => o \notin Got(q) \/ "postgres" \notin use
  <2>1. ASSUME NEW q \in Receiver, q # r, o \in Got(q), "postgres" \in use
        PROVE  FALSE
    <3>1. o \notin Mail(q)
      BY <1>2 DEF Orderly
    <3>2. Holds(q) /\ picked[q] = o
      BY <2>1, <3>1 DEF Got
    <3>3. CASE pc[q] = "take_update"
      BY <1>2, <2>1, <3>2, <3>3 DEF Locked
    <3>4. CASE pc[q] = "take_log"
      BY <1>2, <3>2, <3>4 DEF Orderly
    <3>. QED
      BY <3>2, <3>3, <3>4 DEF Holds
  <2>. QED
    BY <2>1
<1>11. \A q \in Receiver : Got(q)' \subseteq 1..Len(signals)
  <2>1. Got(r)' \subseteq 1..Len(signals)
    BY <1>2, <1>7 DEF Orderly
  <2>2. ASSUME NEW q \in Receiver, q # r
        PROVE  Got(q)' \subseteq 1..Len(signals)
    BY <1>7, <2>2 DEF Orderly
  <2>. QED
    BY <2>1, <2>2
<1>12. \A q \in Receiver : pc'[q] = "take_log" => q # r
  BY <1>5
<1>13. \A q \in Receiver : \A n \in Got(q)' : \A m \in 1..n - 1 : signals[m] \/ m \in Locked'
  BY <1>2, <1>7, <1>8 DEF Orderly
<1>14. \A q \in Receiver : Holds(q)' => \A n \in Mail(q) : n < picked'[q]
  BY <1>5, <1>9 DEF Orderly, Holds
<1>15. "postgres" \in use =>
         /\ \A q \in Receiver : pc'[q] = "take_update" => ~signals[picked'[q]]
         /\ \A p, q \in Receiver : p # q => Got(p)' \cap Got(q)' = {}
  <2>1. ASSUME "postgres" \in use, NEW q \in Receiver, pc'[q] = "take_update"
        PROVE  ~signals[picked'[q]]
    BY <1>2, <1>5, <2>1 DEF Orderly
  <2>2. ASSUME "postgres" \in use, NEW q \in Receiver, q # r
        PROVE  Got(q)' \cap Got(r)' = {}
    <3>1. Got(q)' = Got(q) /\ Got(r)' = Got(r) \cup {o} /\ o \notin Got(q)
      BY <1>7, <1>10, <2>2
    <3>2. Got(q) \cap Got(r) = {}
      BY <2>2 DEF Orderly
    <3>. QED
      BY <3>1, <3>2
  <2>3. ASSUME "postgres" \in use, NEW p \in Receiver, NEW q \in Receiver, p # q
        PROVE  Got(p)' \cap Got(q)' = {}
    <3>1. CASE p # r /\ q # r
      <4>1. Got(p)' = Got(p) /\ Got(q)' = Got(q)
        BY <1>7, <3>1
      <4>2. Got(p) \cap Got(q) = {}
        BY <2>3 DEF Orderly
      <4>. QED
        BY <4>1, <4>2
    <3>2. CASE q = r
      BY <2>2, <2>3, <3>2
    <3>3. CASE p = r
      BY <2>2, <2>3, <3>3
    <3>. QED
      BY <3>1, <3>2, <3>3
  <2>. QED
    BY <2>1, <2>3
<1>. QED
  BY <1>3, <1>5, <1>6, <1>11, <1>12, <1>13, <1>14, <1>15 DEF Orderly

(* The update delivers what was locked.                                      *)
LEMMA OrderlyUpdate ==
  ASSUME Orderly, NEW r \in Receiver, TakeUpdate(r)
  PROVE  Orderly'
<1>1. /\ pc[r] = "take_update" /\ pc' = [pc EXCEPT ![r] = "take_log"]
      /\ signals' = [signals EXCEPT ![picked[r]] = TRUE]
      /\ UNCHANGED <<use, picked, received>>
  BY DEF TakeUpdate, Step
<1>2. r \in Party /\ Receiver \subseteq Party
  BY DEF Party
<1>3. picked[r] \in Got(r) /\ picked[r] \in 1..Len(signals)
  BY <1>1 DEF Orderly, Got, Holds
<1>4. /\ signals' \in Seq(BOOLEAN) /\ Len(signals') = Len(signals)
      /\ signals'[picked[r]]
      /\ \A n \in 1..Len(signals) : signals[n] => signals'[n]
      /\ \A n \in 1..Len(signals) : n # picked[r] => signals'[n] = signals[n]
  BY <1>1, <1>3 DEF Orderly
<1>5. /\ DOMAIN pc' = Party /\ pc'[r] = "take_log"
      /\ \A q \in Receiver : q # r => pc'[q] = pc[q]
  BY <1>1, <1>2 DEF Orderly
<1>6. \A q \in Receiver : Mail(q)' = Mail(q) /\ (Holds(q)' <=> Holds(q)) /\ Got(q)' = Got(q)
  BY <1>1, <1>5 DEF Mail, Holds, Got
<1>7. \A m \in Locked : m \in Locked' \/ m = picked[r]
  <2>1. ASSUME NEW q \in Receiver, pc[q] = "take_update", q # r
        PROVE  pc'[q] = "take_update" /\ picked'[q] = picked[q]
    BY <1>1, <1>5, <2>1
  <2>. QED
    BY <1>1, <2>1 DEF Locked
<1>8. \A q \in Receiver : \A n \in Got(q) : \A m \in 1..n - 1 : signals'[m] \/ m \in Locked'
  <2>1. ASSUME NEW q \in Receiver, NEW n \in Got(q), NEW m \in 1..n - 1
        PROVE  signals'[m] \/ m \in Locked'
    <3>1. n \in 1..Len(signals) /\ (signals[m] \/ m \in Locked)
      BY DEF Orderly
    <3>2. m \in 1..Len(signals)
      BY <3>1 DEF Orderly
    <3>. QED
      BY <1>4, <1>7, <3>1, <3>2
  <2>. QED
    BY <2>1
<1>9. "postgres" \in use =>
        \A q \in Receiver : pc'[q] = "take_update" => ~signals'[picked[q]]
  <2>1. ASSUME "postgres" \in use, NEW q \in Receiver, pc'[q] = "take_update"
        PROVE  ~signals'[picked[q]]
    <3>1. q # r /\ pc[q] = "take_update"
      BY <1>5, <2>1
    <3>2. picked[q] \in Got(q) /\ picked[q] \in 1..Len(signals) /\ ~signals[picked[q]]
      BY <2>1, <3>1 DEF Orderly, Got, Holds
    <3>3. picked[q] # picked[r]
      BY <1>3, <2>1, <3>1, <3>2 DEF Orderly
    <3>. QED
      BY <1>4, <3>2, <3>3
  <2>. QED
    BY <2>1
<1>10. \A q \in Receiver : \A n \in Mail(q) : n \in Got(q) /\ n \in 1..Len(signals)
  BY DEF Orderly, Got
<1>11. /\ \A q \in Receiver : \A n \in Mail(q) : signals'[n]
       /\ \A q \in Receiver : Got(q) \subseteq 1..Len(signals')
  BY <1>4, <1>10 DEF Orderly
<1>12. \A q \in Receiver : pc'[q] = "take_log" => signals'[picked[q]]
  <2>1. ASSUME NEW q \in Receiver, q # r, pc[q] = "take_log"
        PROVE  signals'[picked[q]]
    <3>1. picked[q] \in Got(q) /\ signals[picked[q]]
      BY <2>1 DEF Orderly, Got, Holds
    <3>. QED
      BY <1>4, <3>1 DEF Orderly
  <2>. QED
    BY <1>4, <1>5, <2>1
<1>. QED
  BY <1>1, <1>4, <1>5, <1>6, <1>8, <1>9, <1>11, <1>12 DEF Orderly

(* What is returned is younger than all that was returned before.            *)
LEMMA OrderlyReturn ==
  ASSUME Orderly, NEW r \in Receiver, TakeLog(r)
  PROVE  Orderly'
<1>1. /\ pc[r] = "take_log" /\ pc' = [pc EXCEPT ![r] = "idle"]
      /\ received' = [received EXCEPT ![r] = Append(received[r], picked[r])]
      /\ UNCHANGED <<use, signals, picked>>
  BY DEF TakeLog, Step
<1>2. r \in Party /\ Receiver \subseteq Party
  BY DEF Party
<1>3. /\ picked[r] \in Got(r) /\ picked[r] \in 1..Len(signals) /\ signals[picked[r]]
      /\ \A n \in Mail(r) : n < picked[r]
  BY <1>1 DEF Orderly, Got, Holds
<1>4. /\ DOMAIN pc' = Party /\ pc'[r] = "idle"
      /\ \A q \in Receiver : q # r => pc'[q] = pc[q] /\ received'[q] = received[q]
      /\ received'[r] = Append(received[r], picked[r])
      /\ received' \in [Receiver -> Seq(Nat)]
  BY <1>1, <1>2 DEF Orderly
<1>5. received[r] \in Seq(Nat) /\ picked[r] \in Nat
  BY DEF Orderly
<1> DEFINE before == received[r]
           after == received'[r]
<1>6. /\ Len(after) = Len(before) + 1 /\ Len(before) \in Nat
      /\ \A n \in 1..Len(before) : after[n] = before[n]
      /\ after[Len(before) + 1] = picked[r]
  BY <1>4, <1>5
<1>7. Mail(r)' = Mail(r) \cup {picked[r]}
  <2>1. Mail(r)' = {after[n] : n \in 1..Len(after)}
    BY DEF Mail
  <2>. HIDE DEF after
  <2>2. Mail(r) = {before[n] : n \in 1..Len(before)}
    BY DEF Mail
  <2>. HIDE DEF before
  <2>3. 1..Len(after) = (1..Len(before)) \cup {Len(before) + 1}
    BY <1>6
  <2>. QED
    BY <1>6, <2>1, <2>2, <2>3
<1>8. Ascending(after)
  <2>1. ASSUME NEW n \in 1..Len(after) - 1
        PROVE  after[n] < after[n + 1]
    <3>1. CASE n = Len(before)
      <4>1. before[n] \in Mail(r)
        BY <1>6, <2>1, <3>1 DEF Mail
      <4>. QED
        BY <1>3, <1>6, <2>1, <3>1, <4>1
    <3>2. CASE n # Len(before)
      <4>1. n \in 1..Len(before) - 1 /\ n + 1 \in 1..Len(before)
        BY <1>6, <2>1, <3>2
      <4>2. before[n] < before[n + 1]
        BY <4>1 DEF Orderly, Ascending
      <4>. QED
        BY <1>6, <4>1, <4>2
    <3>. QED
      BY <3>1, <3>2
  <2>. QED
    BY <2>1 DEF Ascending
<1>9. Got(r)' = Got(r) /\ \A q \in Receiver : q # r => Mail(q)' = Mail(q) /\ Got(q)' = Got(q)
  BY <1>1, <1>4, <1>7 DEF Got, Holds, Mail
<1>10. Locked \subseteq Locked'
  <2>1. ASSUME NEW q \in Receiver, pc[q] = "take_update"
        PROVE  pc'[q] = "take_update"
    BY <1>1, <1>4, <2>1
  <2>. QED
    BY <1>1, <2>1 DEF Locked
<1> HIDE DEF before, after
<1>11. \A q \in Receiver : Ascending(received'[q])
  BY <1>4, <1>8 DEF Orderly, after
<1>12. \A q \in Receiver : \A n \in Mail(q)' : signals[n]
  BY <1>3, <1>7, <1>9 DEF Orderly
<1>13. \A q \in Receiver : Holds(q)' => q # r /\ Holds(q)
  BY <1>4 DEF Holds
<1>14. \A q \in Receiver : Got(q)' = Got(q)
  BY <1>9
<1>15. \A q \in Receiver : pc'[q] \in {"take_log", "take_update"} => pc'[q] = pc[q] /\ q # r
  BY <1>4
<1>. QED
  BY <1>1, <1>4, <1>9, <1>10, <1>11, <1>12, <1>13, <1>14, <1>15 DEF Orderly

(* A new message is the youngest.                                            *)
LEMMA OrderlySend ==
  ASSUME Orderly, Send
  PROVE  Orderly'
<1>1. signals' = Append(signals, FALSE) /\ UNCHANGED <<use, pc, picked, received>>
  BY DEF Send
<1>2. /\ signals' \in Seq(BOOLEAN) /\ Len(signals') = Len(signals) + 1 /\ Len(signals) \in Nat
      /\ \A n \in 1..Len(signals) : signals'[n] = signals[n]
  BY <1>1 DEF Orderly
<1>3. Locked' = Locked /\ \A r \in Receiver :
        Mail(r)' = Mail(r) /\ Got(r)' = Got(r) /\ (Holds(r)' <=> Holds(r))
  BY <1>1 DEF Locked, Mail, Got, Holds
<1>4. \A r \in Receiver : /\ \A n \in Mail(r) : n \in Got(r)
                          /\ pc[r] \in {"take_update", "take_log"} => picked[r] \in Got(r)
  BY DEF Got, Holds
<1>5. \A r \in Receiver : \A n \in Got(r) :
        /\ n \in 1..Len(signals) /\ n \in 1..Len(signals') /\ signals'[n] = signals[n]
        /\ \A m \in 1..n - 1 : m \in 1..Len(signals) /\ signals'[m] = signals[m]
  BY <1>2 DEF Orderly
<1>. QED
  BY <1>1, <1>2, <1>3, <1>4, <1>5 DEF Orderly

(* Receivers that live take their steps, and everything else is elsewhere.    *)
LEMMA OrderlyInductive ==
  ASSUME Mortal \cap Receiver = {}, Orderly, [StoreNext]_storeVars
  PROVE  Orderly'
<1>0. Writer \subseteq Party /\ Receiver \subseteq Party /\ Writer \cap Receiver = {}
  BY PartyAssumption DEF Party
<1>1. ASSUME NEW w \in Writer, Get(w) \/ Write(w)
      PROVE  Orderly'
  <2>1. UNCHANGED <<use, signals, picked, received>>
    BY <1>1 DEF Get, Write, SetCheck, SetLog, SetRow, CasBegin, CasApply, CasStale, CasLog,
                CasRead, store
  <2>2. DOMAIN pc' = Party /\ \A r \in Receiver : pc'[r] = pc[r]
    BY <1>0, <1>1 DEF Get, Write, SetCheck, SetLog, SetRow, CasBegin, CasApply, CasStale, CasLog,
                      CasRead, Begin, Step, Orderly
  <2>. QED
    BY <2>1, <2>2, OrderlyElsewhere
<1>2. ASSUME NEW r \in Receiver, Take(r)
      PROVE  Orderly'
  BY <1>2, OrderlySelect, OrderlyUpdate, OrderlyReturn DEF Take
<1>3. CASE Send
  BY <1>3, OrderlySend
<1>4. ASSUME NEW p \in Party, Die(p)
      PROVE  Orderly'
  <2>1. UNCHANGED <<use, signals, picked, received>> /\ pc' = [pc EXCEPT ![p] = "idle"] /\ p \notin Receiver
    BY <1>4 DEF Die, store
  <2>2. DOMAIN pc' = Party /\ \A r \in Receiver : pc'[r] = pc[r]
    BY <1>0, <2>1 DEF Orderly
  <2>. QED
    BY <2>1, <2>2, OrderlyElsewhere
<1>5. CASE UNCHANGED storeVars
  BY <1>5, OrderlyElsewhere DEF storeVars, store, Orderly
<1>. QED
  BY <1>1, <1>2, <1>3, <1>4, <1>5 DEF StoreNext

(* Where receivers do not die in the middle of take_signal, each gets its     *)
(* mail in the order it was sent, however many drain the mailbox, and in      *)
(* Postgres no message goes to two of them (pg_storage.rs, take_signal).      *)
THEOREM MailOrder ==
  ASSUME Mortal \cap Receiver = {}
  PROVE  StoreSpec => []MailInOrder
<1>1. StoreInit => Orderly
  BY InitOrderly
<1>2. Orderly /\ [StoreNext]_storeVars => Orderly'
  BY OrderlyInductive
<1>3. Orderly => MailInOrder
  BY DEF Orderly, MailInOrder, Got
<1>. QED
  BY <1>1, <1>2, <1>3, PTL DEF StoreSpec

-----------------------------------------------------------------------------
(* The orchestrator *)


USE DEF durable, history, Works, Enter, Goto, Return

Active(p) == local[p].step # "idle"

(* A process at work has a child and a record of it, and what it reports fits *)
(* its record.                                                               *)
Shape ==
  /\ TypeOK
  /\ \A p \in Proc : Active(p) => local[p].child \in Child
  /\ \A p \in Proc : local[p].step \in {"set_status", "tell", "save_exit"} =>
       /\ local[p].news # "none"
       /\ local[p].record.status = IF local[p].news = "restarted" THEN "running" ELSE local[p].news

(* The registered ceiling is a number, unlimited or not.                      *)
LEMMA CeilingType == RegisteredCeiling \in Nat
BY BudgetAssumption DEF RegisteredCeiling

(* A restart is counted in the record.                                        *)
LEMMA RestartedRecord ==
  ASSUME NEW r \in Records
  PROVE  /\ Restarted(r) \in Records
         /\ Restarted(r).restarts = r.restarts + 1 /\ Restarted(r).status = "running"
<1>1. r.restarts + 1 \in Nat
  BY DEF Records
<1>2. Restarted(r).restarts = r.restarts + 1 /\ Restarted(r).status = "running"
  BY DEF Restarted, Records
<1>3. [r EXCEPT !.restarts = r.restarts + 1] \in Records
  BY <1>1 DEF Records
<1>4. \A q \in Records : [q EXCEPT !.status = "running"] \in Records
  BY DEF Records
<1>5. Restarted(r) = [[r EXCEPT !.restarts = r.restarts + 1] EXCEPT !.status = "running"]
  BY DEF Restarted, Records
<1>. QED
  BY <1>2, <1>3, <1>4, <1>5

(* The types hold initially,                                                  *)
LEMMA InitShape == Init => Shape
<1>. SUFFICES ASSUME Init PROVE Shape
  OBVIOUS
<1>1. worker \in [Child -> Records]
  BY DEF Init, NoWorker, Records
<1>2. local \in [Proc -> [step : Steps, child : Child \cup {"none"}, record : Records,
                          news : News, usd : Nat]]
  BY DEF Init, Idle, NoWorker, Records, Steps, News
<1>3. \A p \in Proc : local[p].step = "idle"
  BY DEF Init, Idle
<1>. QED
  BY <1>1, <1>2, <1>3 DEF Init, Shape, TypeOK, Active

(* and every step keeps them.                                                 *)
LEMMA ShapeStep == ASSUME Shape, [Next]_vars PROVE Shape'
<1>. DEFINE Local == [step : Steps, child : Child \cup {"none"}, record : Records,
                      news : News, usd : Nat]
<1>. USE AmountAssumption, CeilingType, BoundAssumption
     DEF Shape, TypeOK, Active, Steps, News, Records, Idle, NoWorker, Fresh, Restarted, MayStart
<1>1. ASSUME NEW p \in Proc, NEW c \in Child, NEW b \in Request, SpawnCheck(p, c, b) PROVE Shape'
  <2>1. Fresh(b) \in Records
    BY <1>1 DEF Fresh, Records
  <2>2. CASE UNCHANGED local
    BY <1>1, <2>2 DEF SpawnCheck
  <2>3. CASE Enter(p, "create", c, Fresh(b), "none", 0)
    BY <1>1, <2>1, <2>3 DEF SpawnCheck
  <2>. QED
    BY <1>1, <2>2, <2>3 DEF SpawnCheck
<1>2. ASSUME NEW p \in Proc, NEW c \in Child, NEW usd \in Cost, Charge(p, c, usd) PROVE Shape'
  BY <1>2 DEF Charge
<1>3. ASSUME NEW p \in Proc, NEW c \in Child, HarnessCrash(p, c) PROVE Shape'
  <2>1. CASE Enter(p, "set_status", c, Restarted(worker[c]), "restarted", 0)
    <3> DEFINE r == Restarted(worker[c])
    <3>1. r \in Records /\ r.status = "running"
      <4>1. worker[c] \in Records
        OBVIOUS
      <4>. QED
        BY <4>1, RestartedRecord
    <3>2. Enter(p, "set_status", c, r, "restarted", 0)
      BY <2>1
    <3> HIDE DEF r
    <3>. QED
      BY <1>3, <3>1, <3>2 DEF HarnessCrash
  <2>2. CASE Enter(p, "set_status", c, [worker[c] EXCEPT !.status = "permanently_failed"],
                   "permanently_failed", 0)
    BY SMTT(20), <1>3, <2>2 DEF HarnessCrash
  <2>. QED
    BY <1>3, <2>1, <2>2 DEF HarnessCrash
<1>4. ASSUME NEW p \in Proc, NEW c \in Child, Failed(p, c) PROVE Shape'
  BY SMTT(20), <1>4 DEF Failed
<1>5. ASSUME NEW p \in Proc, NEW c \in Child, ApprovalParked(p, c) PROVE Shape'
  BY SMTT(20), <1>5 DEF ApprovalParked
<1>6. ASSUME NEW p \in Proc, CreateChild(p) PROVE Shape'
  BY <1>6 DEF CreateChild
<1>7. ASSUME NEW p \in Proc, SaveSpawned(p) PROVE Shape'
  BY <1>7 DEF SaveSpawned
<1>8. ASSUME NEW p \in Proc, LogSpawned(p) PROVE Shape'
  BY <1>8 DEF LogSpawned
<1>9. ASSUME NEW p \in Proc, SaveCharged(p) PROVE Shape'
  BY <1>9 DEF SaveCharged
<1>10. ASSUME NEW p \in Proc, SetStatus(p) PROVE Shape'
  BY SMTT(20), <1>10 DEF SetStatus
<1>11. ASSUME NEW p \in Proc, Tell(p) PROVE Shape'
  BY <1>11 DEF Tell
<1>12. ASSUME NEW p \in Proc, SaveExit(p) PROVE Shape'
  BY <1>12 DEF SaveExit
<1>13. ASSUME NEW p \in Proc, Crash(p) PROVE Shape'
  BY <1>13 DEF Crash
<1>14. CASE UNCHANGED vars
  BY <1>14 DEF vars
<1>. QED
  BY <1>1, <1>2, <1>3, <1>4, <1>5, <1>6, <1>7, <1>8, <1>9, <1>10, <1>11, <1>12, <1>13, <1>14
     DEF Next, Start, Continue

(* The types of the workers' records, their sessions and the parent's mail.   *)
THEOREM WorkerTypes == Spec => []TypeOK
<1>1. Shape => TypeOK
  BY DEF Shape
<1>. QED
  BY <1>1, InitShape, ShapeStep, PTL DEF Spec

-----------------------------------------------------------------------------
(* Allocation.                                                               *)

(* While one daemon spawns, what it is about to log has room below the        *)
(* ceiling.                                                                  *)
Reserved ==
  "twins" \notin env =>
    /\ allocated <= RegisteredCeiling
    /\ \A p \in Proc : Spawning(p) => allocated + local[p].record.budget <= RegisteredCeiling
    /\ \A p, q \in Proc : Spawning(p) /\ Spawning(q) => p = q

(* Every step keeps the room that was reserved.                               *)
LEMMA ReservedStep == ASSUME Shape, Reserved, [Next]_vars PROVE Reserved'
<1>. USE AmountAssumption, CeilingType
     DEF Shape, TypeOK, Reserved, Spawning, Steps, Records, Idle, NoWorker, Fresh, Restarted, MayStart
<1>1. ASSUME NEW p \in Proc, NEW c \in Child, NEW b \in Request, SpawnCheck(p, c, b) PROVE Reserved'
  <2>1. CASE UNCHANGED local
    BY <1>1, <2>1 DEF SpawnCheck
  <2>2. CASE Enter(p, "create", c, Fresh(b), "none", 0) /\ allocated + b <= RegisteredCeiling
    BY <1>1, <2>2 DEF SpawnCheck
  <2>. QED
    BY <1>1, <2>1, <2>2 DEF SpawnCheck
<1>2. ASSUME NEW p \in Proc, NEW c \in Child, NEW usd \in Cost, Charge(p, c, usd) PROVE Reserved'
  BY <1>2 DEF Charge
<1>3. ASSUME NEW p \in Proc, NEW c \in Child, HarnessCrash(p, c) PROVE Reserved'
  <2>1. \E r \in {Restarted(worker[c]), [worker[c] EXCEPT !.status = "permanently_failed"]},
            news \in News : Enter(p, "set_status", c, r, news, 0)
    BY <1>3 DEF HarnessCrash, News
  <2>2. \A q \in Proc : Spawning(q)' => Spawning(q) /\ q # p /\ local'[q] = local[q]
    BY <1>3, <2>1 DEF HarnessCrash
  <2>. QED
    BY <1>3, <2>2 DEF HarnessCrash
<1>4. ASSUME NEW p \in Proc, NEW c \in Child, Failed(p, c) PROVE Reserved'
  BY <1>4 DEF Failed
<1>5. ASSUME NEW p \in Proc, NEW c \in Child, ApprovalParked(p, c) PROVE Reserved'
  BY <1>5 DEF ApprovalParked
<1>6. ASSUME NEW p \in Proc, CreateChild(p) PROVE Reserved'
  BY <1>6 DEF CreateChild
<1>7. ASSUME NEW p \in Proc, SaveSpawned(p) PROVE Reserved'
  BY <1>7 DEF SaveSpawned
<1>8. ASSUME NEW p \in Proc, LogSpawned(p) PROVE Reserved'
  BY <1>8 DEF LogSpawned
<1>9. ASSUME NEW p \in Proc, SaveCharged(p) PROVE Reserved'
  BY <1>9 DEF SaveCharged
<1>10. ASSUME NEW p \in Proc, SetStatus(p) PROVE Reserved'
  BY <1>10 DEF SetStatus
<1>11. ASSUME NEW p \in Proc, Tell(p) PROVE Reserved'
  BY <1>11 DEF Tell
<1>12. ASSUME NEW p \in Proc, SaveExit(p) PROVE Reserved'
  BY <1>12 DEF SaveExit
<1>13. ASSUME NEW p \in Proc, Crash(p) PROVE Reserved'
  BY <1>13 DEF Crash
<1>14. CASE UNCHANGED vars
  BY <1>14 DEF vars
<1>. QED
  BY <1>1, <1>2, <1>3, <1>4, <1>5, <1>6, <1>7, <1>8, <1>9, <1>10, <1>11, <1>12, <1>13, <1>14
     DEF Next, Start, Continue

(* The allocations in the parent's log stay within its ceiling wherever its   *)
(* one daemon dies, and whatever the harness asks for again                  *)
(* (orchestration.rs, spawn).                                                *)
THEOREM AllocationsHaveRoom == Spec => []AllocatedWithinCeiling
<1>1. Init => Reserved
  BY CeilingType DEF Init, Reserved, Idle, Spawning
<1>2. Shape /\ Reserved /\ [Next]_vars => Reserved'
  BY ReservedStep
<1>3. Reserved => AllocatedWithinCeiling
  BY DEF Reserved, AllocatedWithinCeiling
<1>. QED
  BY <1>1, <1>2, <1>3, InitShape, ShapeStep, PTL DEF Spec

-----------------------------------------------------------------------------
(* Restarts.                                                                 *)

Restarting(p) == local[p].step \in {"set_status", "tell", "save_exit"} /\ local[p].news = "restarted"
Resuming(p) == local[p].step \in {"tell", "save_exit"} /\ local[p].news = "restarted"

(* The record a process will save counts one restart more than the worker's   *)
(* if it restarts it, and resumed runs ahead of the saved count by the        *)
(* processes that resume, or died before they saved.                          *)
Calm == env \cap {"race", "respawn"} = {}
Counted ==
  /\ \A p, q \in Proc : Active(p) /\ Active(q) /\ local[p].child = local[q].child => p = q
  /\ \A p \in Proc : Active(p) =>
       /\ local[p].record.restarts <= MaxRestarts
       /\ Restarting(p) => local[p].record.restarts = worker[local[p].child].restarts + 1
       /\ ~Restarting(p) => local[p].record.restarts = worker[local[p].child].restarts
  /\ \A c \in Child : worker[c].restarts <= MaxRestarts
  /\ \A p \in Proc : Resuming(p) => resumed[local[p].child] <= local[p].record.restarts + crashes
  /\ \A c \in Child :
       (\A p \in Proc : Resuming(p) => local[p].child # c)
         => resumed[c] <= worker[c].restarts + crashes

(* No step changes the environment.                                           *)
LEMMA EnvironmentStays == [Next]_vars => env' = env
BY DEF Next, vars, Start, Continue, SpawnCheck, Charge, HarnessCrash, Failed, ApprovalParked, CreateChild,
       SaveSpawned, LogSpawned, SaveCharged, SetStatus, Tell, SaveExit, Crash

(* A process that starts on a child, with a record of the worker as it is or  *)
(* restarted, finds nobody at work on it.                                    *)
LEMMA CountedStart ==
  ASSUME Calm, Shape, Counted, NEW p \in Proc, NEW c \in Child, MayStart(p, c),
         NEW step \in Steps \ {"idle", "tell", "save_exit"}, NEW r \in Records, NEW news \in News, NEW usd,
         Enter(p, step, c, r, news, usd), UNCHANGED <<worker, resumed, crashes>>,
         \/ r.restarts = worker[c].restarts /\ ~(step = "set_status" /\ news = "restarted")
         \/ /\ step = "set_status" /\ news = "restarted"
            /\ r.restarts = worker[c].restarts + 1 /\ worker[c].restarts < MaxRestarts
  PROVE  Counted'
<1>1. \A q \in Proc : Active(q) => local[q].child # c
  BY DEF MayStart, Calm, Active
<1>2. \A q \in Proc : q # p => local'[q] = local[q]
  BY DEF Shape, TypeOK
<1>3. /\ local'[p].step = step /\ local'[p].child = c
      /\ local'[p].record = r /\ local'[p].news = news
  BY DEF Shape, TypeOK
<1>4. r.restarts \in Nat /\ \A d \in Child : worker[d].restarts \in Nat
  BY DEF Records, Shape, TypeOK
<1> HIDE DEF Enter
<1>. USE <1>2, <1>3 DEF Active, Restarting, Resuming
<1>5. \A q, s \in Proc : (Active(q) /\ Active(s) /\ local[q].child = local[s].child)' => q = s
  BY <1>1 DEF Counted
<1>6. \A q \in Proc : Active(q)' =>
        /\ local'[q].record.restarts <= MaxRestarts
        /\ Restarting(q)' => local'[q].record.restarts = worker'[local'[q].child].restarts + 1
        /\ ~Restarting(q)' => local'[q].record.restarts = worker'[local'[q].child].restarts
  <2>1. CASE step = "set_status" /\ news = "restarted"
    BY <1>4, <2>1, BoundAssumption DEF Counted
  <2>2. CASE ~(step = "set_status" /\ news = "restarted")
    BY <1>4, <2>2, BoundAssumption DEF Counted
  <2>. QED
    BY <2>1, <2>2
<1>7. \A q \in Proc : Resuming(q)' =>
        Resuming(q) /\ local'[q] = local[q]
  OBVIOUS
<1>8. \A q \in Proc : Resuming(q) => Resuming(q)' /\ local'[q] = local[q]
  BY DEF MayStart
<1>. QED
  BY <1>5, <1>6, <1>7, <1>8 DEF Counted

(* Nothing that counts has changed.                                           *)
LEMMA CountedSame ==
  ASSUME Counted, UNCHANGED <<worker, resumed, crashes>>,
         \A q \in Proc :
           /\ Active(q)' = Active(q) /\ Restarting(q)' = Restarting(q) /\ Resuming(q)' = Resuming(q)
           /\ local'[q].child = local[q].child /\ local'[q].record = local[q].record
  PROVE  Counted'
BY DEF Counted

(* A process that has not resumed its worker ends.                            *)
LEMMA CountedReturn ==
  ASSUME Shape, Counted, NEW p \in Proc, ~Resuming(p), Return(p),
         UNCHANGED <<worker, resumed, crashes>>
  PROVE  Counted'
<1>1. \A q \in Proc : q # p => local'[q] = local[q]
  BY DEF Shape, TypeOK
<1>2. ~Active(p)' /\ ~Resuming(p)'
  BY DEF Shape, TypeOK, Idle, Active, Resuming
<1>. QED
  BY <1>1, <1>2 DEF Counted, Active, Resuming, Restarting

(* The count is saved by the one process at work on the worker.               *)
LEMMA CountedSave ==
  ASSUME Shape, Counted, NEW p \in Proc, Active(p), local[p].child \in Child,
         \A q \in Proc : q # p => local'[q] = local[q],
         \/ local'[p].step = "idle"
         \/ /\ local'[p].step = "log_spawned" /\ local'[p].child = local[p].child
            /\ local'[p].record = local[p].record,
         \A c \in Child : worker'[c] = IF c = local[p].child THEN local[p].record ELSE worker[c],
         UNCHANGED <<resumed, crashes>>
  PROVE  Counted'
<1>1. \A q \in Proc : Active(q) /\ q # p => local[q].child # local[p].child
  BY DEF Counted
<1>2. \A q \in Proc : local[q].record.restarts \in Nat /\ (Active(q) => local[q].child \in Child)
  BY DEF Shape, TypeOK, Records
<1>3. /\ \A c \in Child : worker[c].restarts \in Nat /\ resumed[c] \in Nat
      /\ crashes \in Nat
  BY DEF Shape, TypeOK, Records
<1>4. \A q \in Proc : q # p =>
        /\ Active(q)' = Active(q) /\ Restarting(q)' = Restarting(q) /\ Resuming(q)' = Resuming(q)
        /\ Active(q) => worker'[local'[q].child] = worker[local[q].child]
  BY <1>1, <1>2 DEF Active, Restarting, Resuming
<1>5. ~Resuming(p)' /\ ~Restarting(p)'
  BY DEF Resuming, Restarting
<1>6. resumed[local[p].child] <= local[p].record.restarts + crashes
  <2>1. CASE Resuming(p)
    BY <2>1 DEF Counted
  <2>2. CASE ~Resuming(p)
    <3>1. \A q \in Proc : Resuming(q) => local[q].child # local[p].child
      BY <1>1, <2>2 DEF Resuming, Active
    <3>2. resumed[local[p].child] <= worker[local[p].child].restarts + crashes
      BY <3>1 DEF Counted
    <3>3. worker[local[p].child].restarts <= local[p].record.restarts
      BY <1>2, <1>3 DEF Counted
    <3>. QED
      BY <1>2, <1>3, <3>2, <3>3
  <2>. QED
    BY <2>1, <2>2
<1>7. \A c \in Child :
        (\A q \in Proc : Resuming(q)' => local'[q].child # c) => resumed[c] <= worker'[c].restarts + crashes
  <2>. SUFFICES ASSUME NEW c \in Child, \A q \in Proc : Resuming(q)' => local'[q].child # c,
                       c # local[p].child
                PROVE  resumed[c] <= worker'[c].restarts + crashes
    BY <1>6
  <2>1. \A q \in Proc : Resuming(q) => local[q].child # c
    BY <1>4
  <2>. QED
    BY <2>1 DEF Counted
<1>8. \A q \in Proc : Active(q)' =>
        /\ local'[q].record.restarts <= MaxRestarts
        /\ Restarting(q)' => local'[q].record.restarts = worker'[local'[q].child].restarts + 1
        /\ ~Restarting(q)' => local'[q].record.restarts = worker'[local'[q].child].restarts
  <2>1. ASSUME NEW q \in Proc, q # p, Active(q)'
        PROVE  /\ local'[q].record.restarts <= MaxRestarts
               /\ Restarting(q)' => local'[q].record.restarts = worker'[local'[q].child].restarts + 1
               /\ ~Restarting(q)' => local'[q].record.restarts = worker'[local'[q].child].restarts
    BY <1>4, <2>1 DEF Counted
  <2>2. Active(p)' => /\ local'[p].record.restarts <= MaxRestarts
                      /\ local'[p].record.restarts = worker'[local'[p].child].restarts
    BY DEF Counted, Active
  <2>. QED
    BY <1>5, <2>1, <2>2
<1>9. \A q, r \in Proc : (Active(q) /\ Active(r) /\ local[q].child = local[r].child)' => q = r
  BY <1>4 DEF Counted, Active
<1>10. \A c \in Child : worker'[c].restarts <= MaxRestarts
  BY DEF Counted
<1>11. \A q \in Proc : Resuming(q)' => resumed[local'[q].child] <= local'[q].record.restarts + crashes
  BY <1>4, <1>5 DEF Counted
<1>. QED
  BY <1>7, <1>8, <1>9, <1>10, <1>11 DEF Counted

(* Every step keeps the count.                                                *)
LEMMA CountedStep == ASSUME Calm, Shape, Counted, [Next]_vars PROVE Counted'
<1>. USE DEF Shape, TypeOK, Active, Restarting, Resuming
<1>0. \A c \in Child : worker[c] \in Records
  OBVIOUS
<1>1. ASSUME NEW p \in Proc, NEW c \in Child, NEW b \in Request, SpawnCheck(p, c, b) PROVE Counted'
  <2>1. CASE UNCHANGED local
    BY <1>1, <2>1 DEF SpawnCheck, Counted
  <2>2. CASE Enter(p, "create", c, Fresh(b), "none", 0)
    <3>1. worker[c] = NoWorker
      BY <1>1 DEF SpawnCheck, Calm
    <3>2. Fresh(b) \in Records /\ Fresh(b).restarts = worker[c].restarts
      BY <3>1, AmountAssumption DEF Fresh, Records, NoWorker
    <3>. HIDE DEF Enter
    <3>. QED
      BY <1>1, <2>2, <3>2, CountedStart DEF SpawnCheck, Steps, News
  <2>. QED
    BY <1>1, <2>1, <2>2 DEF SpawnCheck
<1>2. ASSUME NEW p \in Proc, NEW c \in Child, NEW usd \in Cost, Charge(p, c, usd) PROVE Counted'
  <2>1. [worker[c] EXCEPT !.spent = @ + usd] \in Records
    BY <1>0, <1>2, AmountAssumption DEF Records
  <2>2. [worker[c] EXCEPT !.spent = @ + usd].restarts = worker[c].restarts
    BY <1>0 DEF Records
  <2>. HIDE DEF Enter
  <2>. QED
    BY <1>2, <2>1, <2>2, CountedStart DEF Charge, Steps, News
<1>3. ASSUME NEW p \in Proc, NEW c \in Child, HarnessCrash(p, c) PROVE Counted'
  <2>1. CASE worker[c].restarts < MaxRestarts
    <3>1. Restarted(worker[c]) \in Records /\ Restarted(worker[c]).restarts = worker[c].restarts + 1
      BY <1>0, RestartedRecord
    <3>. HIDE DEF Enter
    <3>. QED
      BY <1>3, <2>1, <3>1, CountedStart DEF HarnessCrash, Steps, News
  <2>2. CASE ~(worker[c].restarts < MaxRestarts)
    <3>1. [worker[c] EXCEPT !.status = "permanently_failed"] \in Records
      BY <1>0 DEF Records
    <3>2. [worker[c] EXCEPT !.status = "permanently_failed"].restarts = worker[c].restarts
      BY <1>0 DEF Records
    <3>. HIDE DEF Enter
    <3>. QED
      BY <1>3, <2>2, <3>1, <3>2, CountedStart DEF HarnessCrash, Steps, News
  <2>. QED
    BY <2>1, <2>2
<1>4. ASSUME NEW p \in Proc, NEW c \in Child, Failed(p, c) PROVE Counted'
  <2>1. [worker[c] EXCEPT !.status = "failed"] \in Records
    BY <1>0 DEF Records
  <2>2. [worker[c] EXCEPT !.status = "failed"].restarts = worker[c].restarts
    BY <1>0 DEF Records
  <2>. HIDE DEF Enter
  <2>. QED
    BY <1>4, <2>1, <2>2, CountedStart DEF Failed, Steps, News
<1>5. ASSUME NEW p \in Proc, NEW c \in Child, ApprovalParked(p, c) PROVE Counted'
  <2>1. [worker[c] EXCEPT !.status = "awaiting_approval"] \in Records
    BY <1>0 DEF Records
  <2>2. [worker[c] EXCEPT !.status = "awaiting_approval"].restarts = worker[c].restarts
    BY <1>0 DEF Records
  <2>. HIDE DEF Enter
  <2>. QED
    BY <1>5, <2>1, <2>2, CountedStart DEF ApprovalParked, Steps, News
<1>6. ASSUME NEW p \in Proc, CreateChild(p) PROVE Counted'
  <2>1. \A q \in Proc :
          /\ Active(q)' = Active(q) /\ Restarting(q)' = Restarting(q) /\ Resuming(q)' = Resuming(q)
          /\ local'[q].child = local[q].child /\ local'[q].record = local[q].record
    BY <1>6 DEF CreateChild
  <2>2. UNCHANGED <<worker, resumed, crashes>>
    BY <1>6 DEF CreateChild
  <2>. QED
    BY <2>1, <2>2, CountedSame
<1>7. ASSUME NEW p \in Proc, SaveSpawned(p) PROVE Counted'
  <2>1. /\ \A q \in Proc : q # p => local'[q] = local[q]
        /\ local'[p].step = "log_spawned" /\ local'[p].child = local[p].child
        /\ local'[p].record = local[p].record
    BY <1>7 DEF SaveSpawned, Idle
  <2>2. \A c \in Child : worker'[c] = IF c = local[p].child THEN local[p].record ELSE worker[c]
    BY <1>7 DEF SaveSpawned
  <2>3. UNCHANGED <<resumed, crashes>> /\ Active(p) /\ local[p].child \in Child
    BY <1>7 DEF SaveSpawned
  <2>. QED
    BY <1>7, <2>1, <2>2, <2>3, CountedSave DEF SaveSpawned, Works
<1>8. ASSUME NEW p \in Proc, LogSpawned(p) PROVE Counted'
  <2>1. ~Resuming(p)
    BY <1>8 DEF LogSpawned
  <2>2. Return(p) /\ UNCHANGED <<worker, resumed, crashes>>
    BY <1>8 DEF LogSpawned
  <2>. QED
    BY <2>1, <2>2, CountedReturn
<1>9. ASSUME NEW p \in Proc, SaveCharged(p) PROVE Counted'
  <2>1. /\ \A q \in Proc : q # p => local'[q] = local[q]
        /\ local'[p].step = "idle" /\ local'[p].child = "none"
    BY <1>9 DEF SaveCharged, Idle
  <2>2. \A c \in Child : worker'[c] = IF c = local[p].child THEN local[p].record ELSE worker[c]
    BY <1>9 DEF SaveCharged
  <2>3. UNCHANGED <<resumed, crashes>> /\ Active(p) /\ local[p].child \in Child
    BY <1>9 DEF SaveCharged
  <2>. QED
    BY <1>9, <2>1, <2>2, <2>3, CountedSave DEF SaveCharged, Works
<1>10. ASSUME NEW p \in Proc, SetStatus(p) PROVE Counted'
  <2>1. /\ \A q \in Proc : q # p => local'[q] = local[q]
        /\ local'[p].step = "tell" /\ local'[p].child = local[p].child
        /\ local'[p].record = local[p].record /\ local'[p].news = local[p].news
        /\ local[p].step = "set_status" /\ local[p].child \in Child
    BY <1>10 DEF SetStatus
  <2>2. /\ UNCHANGED <<worker, crashes>>
        /\ \A c \in Child : resumed'[c] = IF c = local[p].child /\ local[p].news = "restarted"
                                            THEN resumed[c] + 1 ELSE resumed[c]
    BY <1>10 DEF SetStatus
  <2>3. \A q \in Proc : Resuming(q) => local[q].child # local[p].child
    BY <2>1 DEF Counted
  <2>4. \A q \in Proc : local[q].record.restarts \in Nat
    BY DEF Records
  <2>5. \A c \in Child : worker[c].restarts \in Nat
    BY DEF Records
  <2>6. \A q \in Proc : q # p =>
          /\ Active(q)' = Active(q) /\ Restarting(q)' = Restarting(q) /\ Resuming(q)' = Resuming(q)
          /\ Active(q) => local[q].child # local[p].child
    BY <2>1 DEF Counted
  <2>7. Restarting(p)' = Restarting(p) /\ (Resuming(p)' <=> local[p].news = "restarted")
    BY <2>1
  <2>8. resumed[local[p].child] <= worker[local[p].child].restarts + crashes
    BY <2>1, <2>3 DEF Counted
  <2>9. \A q \in Proc : Resuming(q)' => resumed'[local'[q].child] <= local'[q].record.restarts + crashes
    <3>1. Resuming(p)' => resumed'[local[p].child] <= local[p].record.restarts + crashes
      <4>. SUFFICES ASSUME local[p].news = "restarted"
                    PROVE  resumed'[local[p].child] <= local[p].record.restarts + crashes
        BY <2>7
      <4>1. local[p].record.restarts = worker[local[p].child].restarts + 1
        BY <2>1 DEF Counted
      <4>2. resumed'[local[p].child] = resumed[local[p].child] + 1
        BY <2>1, <2>2
      <4>3. resumed[local[p].child] \in Nat /\ crashes \in Nat
        BY <2>1
      <4>. QED
        BY <2>1, <2>5, <2>8, <4>1, <4>2, <4>3
    <3>2. \A q \in Proc : q # p /\ Resuming(q) => resumed'[local[q].child] = resumed[local[q].child]
      BY <2>2, <2>3
    <3>. QED
      BY <2>1, <2>6, <3>1, <3>2 DEF Counted
  <2>10. \A c \in Child :
           (\A q \in Proc : Resuming(q)' => local'[q].child # c)
             => resumed'[c] <= worker[c].restarts + crashes
    <3>. SUFFICES ASSUME NEW c \in Child, \A q \in Proc : Resuming(q)' => local'[q].child # c
                  PROVE  resumed'[c] <= worker[c].restarts + crashes
      OBVIOUS
    <3>1. resumed'[c] = resumed[c]
      BY <2>1, <2>2, <2>7
    <3>2. \A q \in Proc : Resuming(q) => local[q].child # c
      BY <2>1, <2>6, <2>7
    <3>. QED
      BY <3>1, <3>2 DEF Counted
  <2>11. /\ \A q, r \in Proc : (Active(q) /\ Active(r) /\ local[q].child = local[r].child)' => q = r
         /\ \A q \in Proc : Active(q)' => Active(q) /\ local'[q].record = local[q].record
    BY SMTT(20), <2>1 DEF Counted
  <2>. QED
    BY <2>1, <2>2, <2>6, <2>7, <2>9, <2>10, <2>11 DEF Counted
<1>11. ASSUME NEW p \in Proc, Tell(p) PROVE Counted'
  <2>1. \A q \in Proc :
          /\ Active(q)' = Active(q) /\ Restarting(q)' = Restarting(q) /\ Resuming(q)' = Resuming(q)
          /\ local'[q].child = local[q].child /\ local'[q].record = local[q].record
    BY <1>11 DEF Tell
  <2>2. UNCHANGED <<worker, resumed, crashes>>
    BY <1>11 DEF Tell
  <2>. QED
    BY <2>1, <2>2, CountedSame
<1>12. ASSUME NEW p \in Proc, SaveExit(p) PROVE Counted'
  <2>1. /\ \A q \in Proc : q # p => local'[q] = local[q]
        /\ local'[p].step = "idle" /\ local'[p].child = "none"
    BY <1>12 DEF SaveExit, Idle
  <2>2. \A c \in Child : worker'[c] = IF c = local[p].child THEN local[p].record ELSE worker[c]
    BY <1>12 DEF SaveExit
  <2>3. UNCHANGED <<resumed, crashes>> /\ Active(p) /\ local[p].child \in Child
    BY <1>12 DEF SaveExit
  <2>. QED
    BY <1>12, <2>1, <2>2, <2>3, CountedSave DEF SaveExit, Works
<1>13. ASSUME NEW p \in Proc, Crash(p) PROVE Counted'
  <2>1. /\ \A q \in Proc : q # p => local'[q] = local[q]
        /\ local'[p].step = "idle" /\ UNCHANGED <<worker, resumed>> /\ crashes' = crashes + 1
    BY <1>13 DEF Crash, Idle
  <2>2. \A q \in Proc : local[q].record.restarts \in Nat
    BY DEF Records
  <2>3. \A c \in Child : worker[c].restarts \in Nat
    BY DEF Records
  <2>4. \A c \in Child : resumed[c] <= worker[c].restarts + 1 + crashes
    BY <2>2, <2>3 DEF Counted
  <2>. QED
    BY <2>1, <2>2, <2>3, <2>4 DEF Counted
<1>14. CASE UNCHANGED vars
  <2>1. UNCHANGED <<worker, resumed, crashes, local>>
    BY <1>14 DEF vars
  <2>. QED
    BY <2>1, CountedSame
<1>. QED
  BY <1>1, <1>2, <1>3, <1>4, <1>5, <1>6, <1>7, <1>8, <1>9, <1>10, <1>11, <1>12, <1>13, <1>14
     DEF Next, Start, Continue

(* A worker is resumed no more often than max_restarts allows and supervisors *)
(* die while they resume it (orchestration.rs, worker_exit).                  *)
THEOREM RestartsAreBounded == Spec => []RestartsBounded
<1> DEFINE Inv == Calm => Counted
<1>1. Init => Inv
  BY BoundAssumption DEF Init, Counted, Idle, Active, NoWorker, Resuming
<1>2. Shape /\ Inv /\ [Next]_vars => Inv'
  BY CountedStep, EnvironmentStays DEF Calm
<1>3. Shape /\ Inv => RestartsBounded
  <2>. SUFFICES ASSUME Shape, Counted, NEW c \in Child PROVE resumed[c] <= MaxRestarts + crashes
    BY DEF RestartsBounded, Calm
  <2>1. /\ resumed[c] \in Nat /\ worker[c].restarts \in Nat /\ crashes \in Nat
        /\ \A p \in Proc : local[p].record.restarts \in Nat
    BY DEF Shape, TypeOK, Records
  <2>2. CASE \E p \in Proc : Resuming(p) /\ local[p].child = c
    BY <2>1, <2>2, BoundAssumption DEF Counted, Resuming, Active
  <2>3. CASE \A p \in Proc : Resuming(p) => local[p].child # c
    BY <2>1, <2>3, BoundAssumption DEF Counted
  <2>. QED
    BY <2>2, <2>3
<1>. QED
  BY <1>1, <1>2, <1>3, InitShape, ShapeStep, PTL DEF Spec

-----------------------------------------------------------------------------
(* What the parent is told.                                                  *)

(* Whoever is about to save a record of a worker in trouble has told the      *)
(* parent, or read it from a record whose writer had.                        *)
Told ==
  /\ TroubleIsTold
  /\ \A p \in Proc : local[p].step = "save_exit" => <<local[p].child, local[p].news>> \in told
  /\ \A p \in Proc : local[p].step = "save_charged" =>
       \/ local[p].record.status \in {"absent", "running"}
       \/ <<local[p].child, local[p].record.status>> \in told
  /\ \A p \in Proc : local[p].step \in {"create", "save_spawned", "log_spawned"} =>
       local[p].record.status = "running"

(* Every step keeps the parent informed: mail is never taken back.            *)
LEMMA ToldStep == ASSUME Shape, Told, [Next]_vars PROVE Told'
<1>. USE DEF Shape, TypeOK, Told, TroubleIsTold, Active, Steps, Records, News, Idle, NoWorker, Fresh,
             Restarted, MayStart
<1>1. ASSUME NEW p \in Proc, NEW c \in Child, NEW b \in Request, SpawnCheck(p, c, b) PROVE Told'
  <2>1. CASE UNCHANGED local
    BY <1>1, <2>1 DEF SpawnCheck
  <2>2. CASE Enter(p, "create", c, Fresh(b), "none", 0)
    BY <1>1, <2>2 DEF SpawnCheck
  <2>. QED
    BY <1>1, <2>1, <2>2 DEF SpawnCheck
<1>2. ASSUME NEW p \in Proc, NEW c \in Child, NEW usd \in Cost, Charge(p, c, usd) PROVE Told'
  BY <1>2 DEF Charge
<1>3. ASSUME NEW p \in Proc, NEW c \in Child, HarnessCrash(p, c) PROVE Told'
  <2>1. \E r \in {Restarted(worker[c]), [worker[c] EXCEPT !.status = "permanently_failed"]},
            news \in News : Enter(p, "set_status", c, r, news, 0)
    BY <1>3 DEF HarnessCrash
  <2>2. /\ \A q \in Proc : q # p => local'[q] = local[q]
        /\ local'[p].step = "set_status"
    BY <1>3, <2>1
  <2>3. UNCHANGED <<worker, told>>
    BY <1>3 DEF HarnessCrash
  <2>. QED
    BY <2>2, <2>3
<1>4. ASSUME NEW p \in Proc, NEW c \in Child, Failed(p, c) PROVE Told'
  BY <1>4 DEF Failed
<1>5. ASSUME NEW p \in Proc, NEW c \in Child, ApprovalParked(p, c) PROVE Told'
  BY <1>5 DEF ApprovalParked
<1>6. ASSUME NEW p \in Proc, CreateChild(p) PROVE Told'
  BY <1>6 DEF CreateChild
<1>7. ASSUME NEW p \in Proc, SaveSpawned(p) PROVE Told'
  BY <1>7 DEF SaveSpawned
<1>8. ASSUME NEW p \in Proc, LogSpawned(p) PROVE Told'
  BY <1>8 DEF LogSpawned
<1>9. ASSUME NEW p \in Proc, SaveCharged(p) PROVE Told'
  BY <1>9 DEF SaveCharged
<1>10. ASSUME NEW p \in Proc, SetStatus(p) PROVE Told'
  BY <1>10 DEF SetStatus
<1>11. ASSUME NEW p \in Proc, Tell(p) PROVE Told'
  BY <1>11 DEF Tell
<1>12. ASSUME NEW p \in Proc, SaveExit(p) PROVE Told'
  BY <1>12 DEF SaveExit
<1>13. ASSUME NEW p \in Proc, Crash(p) PROVE Told'
  BY <1>13 DEF Crash
<1>14. CASE UNCHANGED vars
  BY <1>14 DEF vars
<1>. QED
  BY <1>1, <1>2, <1>3, <1>4, <1>5, <1>6, <1>7, <1>8, <1>9, <1>10, <1>11, <1>12, <1>13, <1>14
     DEF Next, Start, Continue

(* No record says that a worker failed or waits without mail to its parent,   *)
(* whoever races and dies (orchestration.rs, worker_exit, approval_parked).  *)
THEOREM ParentIsTold == Spec => []TroubleIsTold
<1>1. Init => Told
  BY DEF Init, Told, TroubleIsTold, Idle, NoWorker
<1>2. Shape /\ Told /\ [Next]_vars => Told'
  BY ToldStep
<1>3. Told => TroubleIsTold
  BY DEF Told
<1>. QED
  BY <1>1, <1>2, <1>3, InitShape, ShapeStep, PTL DEF Spec

-----------------------------------------------------------------------------
(* Spending.                                                                 *)

(* A row of dollars has as many as its ends say.                             *)
Row(c, m, n) == {<<c, i>> : i \in m..n}
LEMMA RowSize ==
  ASSUME NEW c, NEW m \in Int, NEW n \in Nat
  PROVE  IsFiniteSet(Row(c, m + 1, m + n)) /\ Cardinality(Row(c, m + 1, m + n)) = n
<1>. DEFINE a == m + 1
            b == m + n
            f == [i \in a..b |-> <<c, i>>]
<1>1. IsFiniteSet(a..b) /\ Cardinality(a..b) = n
  <2>1. a \in Int /\ b \in Int
    OBVIOUS
  <2>2. /\ IsFiniteSet(a..b)
        /\ Cardinality(a..b) = IF a > b THEN 0 ELSE b - a + 1
    BY <2>1, FS_Interval
  <2>3. (IF a > b THEN 0 ELSE b - a + 1) = n
    OBVIOUS
  <2>. QED
    BY <2>2, <2>3
<1>2. f \in Injection(a..b, Row(c, a, b)) /\ f \in Surjection(a..b, Row(c, a, b))
  <2>1. f \in [a..b -> Row(c, a, b)]
    BY DEF Row
  <2>2. f \in Injection(a..b, Row(c, a, b))
    BY <2>1 DEF Injection, IsInjective
  <2>3. f \in Surjection(a..b, Row(c, a, b))
    BY <2>1 DEF Surjection, Row
  <2>. QED
    BY <2>2, <2>3
<1>. HIDE DEF f, a, b
<1>3. IsFiniteSet(Row(c, a, b)) /\ Cardinality(Row(c, a, b)) = Cardinality(a..b)
  BY <1>1, <1>2, FS_Surjection
<1>. QED
  BY <1>1, <1>3 DEF a, b

LEMMA Together ==
  ASSUME NEW S, NEW T, IsFiniteSet(S), IsFiniteSet(T)
  PROVE  /\ Cardinality(S) \in Nat /\ Cardinality(T) \in Nat
         /\ \A U : U \subseteq S \cup T =>
              IsFiniteSet(U) /\ Cardinality(U) \in Nat /\ Cardinality(U) <= Cardinality(S) + Cardinality(T)
         /\ \A U : U \subseteq S \ T /\ T \subseteq S =>
              IsFiniteSet(U) /\ Cardinality(U) \in Nat /\ Cardinality(U) <= Cardinality(S) - Cardinality(T)
<1>1. Cardinality(S) \in Nat /\ Cardinality(T) \in Nat /\ Cardinality(S \cap T) \in Nat
  BY FS_CardinalityType, FS_Intersection
<1>2. IsFiniteSet(S \cup T) /\ Cardinality(S \cup T) = Cardinality(S) + Cardinality(T) - Cardinality(S \cap T)
  BY FS_Union
<1>3. IsFiniteSet(S \ T) /\ Cardinality(S \ T) = Cardinality(S) - Cardinality(S \cap T)
  BY FS_Difference
<1>4. ASSUME NEW U, U \subseteq S \cup T
      PROVE  IsFiniteSet(U) /\ Cardinality(U) \in Nat /\ Cardinality(U) <= Cardinality(S \cup T)
  BY <1>2, <1>4, FS_Subset, FS_CardinalityType
<1>5. ASSUME NEW U, U \subseteq S \ T
      PROVE  IsFiniteSet(U) /\ Cardinality(U) \in Nat /\ Cardinality(U) <= Cardinality(S \ T)
  BY <1>3, <1>5, FS_Subset, FS_CardinalityType
<1>6. T \subseteq S => S \cap T = T
  OBVIOUS
<1>. DEFINE a == Cardinality(S)
            b == Cardinality(T)
            d == Cardinality(S \cap T)
<1>7. a \in Nat /\ b \in Nat /\ d \in Nat /\ (T \subseteq S => d = b)
  BY <1>1, <1>6
<1>8. Cardinality(S \cup T) = a + b - d /\ Cardinality(S \ T) = a - d
  BY <1>2, <1>3
<1>. HIDE DEF a, b, d
<1>9. ASSUME NEW U, U \subseteq S \cup T
      PROVE  IsFiniteSet(U) /\ Cardinality(U) \in Nat /\ Cardinality(U) <= a + b
  BY <1>4, <1>7, <1>8, <1>9
<1>10. ASSUME NEW U, U \subseteq S \ T, T \subseteq S
      PROVE  IsFiniteSet(U) /\ Cardinality(U) \in Nat /\ Cardinality(U) <= a - b
  BY <1>5, <1>7, <1>8, <1>10
<1>. QED
  BY <1>7, <1>9, <1>10 DEF a, b

(* The dollars that workers may still be charged, but of the worker whose     *)
(* allocation is not in the log yet.                                         *)
Unlogged(c) == \E p \in Proc : local[p].step = "log_spawned" /\ local[p].child = c
Unspent ==
  {d \in Child \X Int : /\ worker[d[1]].spent < d[2] /\ d[2] <= worker[d[1]].budget
                        /\ ~Unlogged(d[1])}

(* One process at a time is at work on a worker, with the record as it is but *)
(* for what it changes; what was charged, and what can still be, is allocated.*)
Ours(p) ==
  LET c == local[p].child  r == local[p].record  w == worker[c] IN
  CASE local[p].step \in {"create", "save_spawned"} -> r.spent = 0 /\ r.budget >= 0
    [] local[p].step = "log_spawned" -> r.spent = 0 /\ r.budget >= 0 /\ w = r
    [] local[p].step = "save_charged" ->
         r.budget = w.budget /\ r.spent = w.spent + local[p].usd /\ r.spent <= r.budget
    [] local[p].step \in {"set_status", "tell", "save_exit"} ->
         r.budget = w.budget /\ r.spent = w.spent
    [] OTHER -> TRUE
Frugal == env \cap {"twins", "race", "crash"} = {}
Thrifty ==
  /\ \A p, q \in Proc : Active(p) /\ Active(q) /\ local[p].child = local[q].child => p = q
  /\ \A p \in Proc : Ours(p)
  /\ IsFiniteSet(Unspent) /\ billed + Cardinality(Unspent) <= allocated

(* A process that begins changes nothing but its place, and a process that is *)
(* at work nobody else's. *)
LEMMA ThriftyStart ==
  ASSUME Frugal, Shape, Thrifty, NEW p \in Proc, NEW c \in Child, MayStart(p, c),
         NEW step \in {"create", "save_charged", "set_status"}, NEW r \in Records, NEW news, NEW usd,
         Enter(p, step, c, r, news, usd), UNCHANGED <<worker, billed, allocated>>, Ours(p)'
  PROVE  Thrifty'
<1>1. \A q \in Proc : Active(q) => local[q].child # c
  BY DEF MayStart, Frugal, Active
<1>2. /\ \A q \in Proc : q # p => local'[q] = local[q]
      /\ local'[p].step = step /\ local'[p].child = c
      /\ local[p].step = "idle"
  BY DEF Shape, TypeOK, MayStart
<1>3. \A q \in Proc : q # p => Ours(q)' = Ours(q)
  BY <1>2 DEF Ours
<1>4. \A d \in Child : Unlogged(d)' <=> Unlogged(d)
  BY <1>2 DEF Unlogged
<1>5. Unspent' = Unspent
  BY <1>4 DEF Unspent
<1>6. \A q, s \in Proc : (Active(q) /\ Active(s) /\ local[q].child = local[s].child)' => q = s
  BY <1>1, <1>2 DEF Thrifty, Active
<1>7. \A q \in Proc : Ours(q)'
  BY <1>3 DEF Thrifty
<1>. QED
  BY <1>5, <1>6, <1>7 DEF Thrifty

(* A process at work, on the worker d: the other processes and workers stay. *)
LEMMA ThriftyGo ==
  ASSUME Shape, Thrifty, NEW p \in Proc, Active(p), NEW d \in Child, d = local[p].child,
         \A q \in Proc : q # p => local'[q] = local[q],
         local'[p].step = "idle" \/ local'[p].child = d,
         \A c \in Child : c # d => worker'[c] = worker[c],
         Ours(p)'
  PROVE  /\ \A q, s \in Proc : (Active(q) /\ Active(s) /\ local[q].child = local[s].child)' => q = s
         /\ \A q \in Proc : Ours(q)'
         /\ \A c \in Child : c # d => (Unlogged(c)' <=> Unlogged(c))
         /\ Unlogged(d) <=> local[p].step = "log_spawned"
         /\ Unlogged(d)' <=> local'[p].step = "log_spawned"
<1>1. \A q \in Proc : q # p /\ Active(q) => local[q].child # d /\ local[q].child \in Child
  BY DEF Thrifty, Shape
<1>2. \A q \in Proc : q # p => Ours(q)'
  <2>. SUFFICES ASSUME NEW q \in Proc, q # p PROVE Ours(q)'
    OBVIOUS
  <2>1. Active(q) => worker'[local[q].child] = worker[local[q].child]
    BY <1>1
  <2>. QED
    BY <2>1 DEF Ours, Active, Thrifty
<1>3. \A q, s \in Proc : (Active(q) /\ Active(s) /\ local[q].child = local[s].child)' => q = s
  BY <1>1 DEF Thrifty, Active
<1>4. \A c \in Child : c # d => (Unlogged(c)' <=> Unlogged(c))
  BY DEF Unlogged
<1>5. Unlogged(d) <=> local[p].step = "log_spawned"
  BY <1>1 DEF Unlogged, Active
<1>6. Unlogged(d)' <=> local'[p].step = "log_spawned"
  BY <1>1 DEF Unlogged, Active
<1>. QED
  BY <1>2, <1>3, <1>4, <1>5, <1>6

LEMMA UnspentPairs ==
  /\ \A c \in Child, i \in Int :
       <<c, i>> \in Unspent <=> worker[c].spent < i /\ i <= worker[c].budget /\ ~Unlogged(c)
  /\ \A c \in Child, i \in Int :
       <<c, i>> \in Unspent' <=> worker'[c].spent < i /\ i <= worker'[c].budget /\ ~Unlogged(c)'
  /\ \A d \in Unspent \cup Unspent' : \E c \in Child, i \in Int : d = <<c, i>>
  BY DEF Unspent

(* What one process changes of the dollars is a worker's row. *)
LEMMA UnspentMoves ==
  ASSUME Shape, Shape', NEW d \in Child, \A c \in Child : c # d => worker'[c] = worker[c],
         \A c \in Child : c # d => (Unlogged(c)' <=> Unlogged(c))
  PROVE  /\ Unlogged(d)' => Unspent' \subseteq Unspent
         /\ /\ worker'[d].budget = worker[d].budget /\ worker'[d].spent = worker[d].spent
            /\ Unlogged(d)' <=> Unlogged(d)
            => Unspent' \subseteq Unspent
         /\ \A n \in Nat : worker'[d].budget = n /\ worker'[d].spent = 0 =>
              Unspent' \subseteq Unspent \cup Row(d, 0 + 1, 0 + n)
         /\ \A n \in Nat :
              /\ worker'[d].budget = worker[d].budget /\ worker'[d].spent = worker[d].spent + n
              /\ worker'[d].spent <= worker[d].budget /\ ~Unlogged(d)
              => LET R == Row(d, worker[d].spent + 1, worker[d].spent + n)
                 IN  Unspent' \subseteq Unspent \ R /\ R \subseteq Unspent
<1>0. \A c \in Child : /\ worker[c].spent \in Int /\ worker[c].budget \in Int
                       /\ worker'[c].spent \in Int /\ worker'[c].budget \in Int
  BY DEF Shape, TypeOK, Records
<1>1. ASSUME NEW x \in Unspent' PROVE \E i \in Int : x = <<d, i>> \/ x \in Unspent
  <2>1. PICK c \in Child, i \in Int : x = <<c, i>>
    BY <1>1, UnspentPairs
  <2>. QED
    BY <1>1, <2>1, UnspentPairs
<1>2. ASSUME Unlogged(d)' PROVE Unspent' \subseteq Unspent
  BY <1>1, <1>2, UnspentPairs
<1>3. ASSUME worker'[d].budget = worker[d].budget, worker'[d].spent = worker[d].spent,
             Unlogged(d)' <=> Unlogged(d)
      PROVE  Unspent' \subseteq Unspent
  BY <1>1, <1>3, UnspentPairs
<1>4. ASSUME NEW n \in Nat, worker'[d].budget = n, worker'[d].spent = 0,
             NEW x \in Unspent', x \notin Unspent
      PROVE  x \in Row(d, 0 + 1, 0 + n)
  <2>1. PICK i \in Int : x = <<d, i>>
    BY <1>1, <1>4
  <2>2. 0 < i /\ i <= n
    BY <1>4, <2>1, UnspentPairs
  <2>. QED
    BY <2>1, <2>2 DEF Row
<1>5. ASSUME NEW n \in Nat, worker'[d].budget = worker[d].budget,
             worker'[d].spent = worker[d].spent + n,
             worker'[d].spent <= worker[d].budget, ~Unlogged(d)
      PROVE  LET R == Row(d, worker[d].spent + 1, worker[d].spent + n)
             IN  Unspent' \subseteq Unspent \ R /\ R \subseteq Unspent
  <2>. DEFINE a == worker[d].spent + 1
              b == worker[d].spent + n
              R == Row(d, a, b)
  <2>1. ASSUME NEW x \in R PROVE x \in Unspent /\ x \notin Unspent'
    <3>1. PICK i \in a..b : x = <<d, i>>
      BY <2>1 DEF Row
    <3>2. /\ i \in Int /\ worker[d].spent < i /\ i <= worker[d].budget
          /\ ~(worker'[d].spent < i)
      BY <1>0, <1>5
    <3>. QED
      BY <1>5, <3>1, <3>2, UnspentPairs
  <2>2. ASSUME NEW x \in Unspent' PROVE x \in Unspent
    <3>1. ASSUME NEW i \in Int, x = <<d, i>> PROVE x \in Unspent
      <4>1. worker'[d].spent < i /\ i <= worker'[d].budget
        BY <2>2, <3>1, UnspentPairs
      <4>2. worker[d].spent < i /\ i <= worker[d].budget
        BY <1>0, <1>5, <4>1
      <4>. QED
        BY <1>5, <3>1, <4>2, UnspentPairs
    <3>. QED
      BY <1>1, <2>2, <3>1
  <2>. HIDE DEF R
  <2>. QED
    BY <2>1, <2>2 DEF R
<1>. QED
  BY <1>2, <1>3, <1>4, <1>5

LEMMA ThriftyStep == ASSUME Frugal, Shape, Thrifty, [Next]_vars PROVE Thrifty'
<1>0. Shape' /\ IsFiniteSet(Unspent) /\ billed + Cardinality(Unspent) <= allocated
  BY ShapeStep DEF Thrifty
<1>1. /\ \A p \in Proc : local[p].record \in Records /\ local[p].usd \in Nat
                          /\ (Active(p) => local[p].child \in Child)
      /\ \A c \in Child : worker[c] \in Records
      /\ billed \in Nat /\ allocated \in Int
      /\ \A p \in Proc : Ours(p)
  BY DEF Shape, TypeOK, Thrifty
(* The steps that begin. *)
<1>2. ASSUME NEW p \in Proc, NEW c \in Child, NEW b \in Request, SpawnCheck(p, c, b) PROVE Thrifty'
  <2>1. CASE UNCHANGED local
    <3>1. Unspent' = Unspent /\ \A q \in Proc : Ours(q)' = Ours(q) /\ Active(q)' = Active(q)
      BY <1>2, <2>1 DEF SpawnCheck, Unspent, Unlogged, Ours, Active
    <3>. QED
      BY <1>2, <2>1, <3>1 DEF SpawnCheck, Thrifty
  <2>2. CASE Enter(p, "create", c, Fresh(b), "none", 0) /\ b >= 0
    <3>1. Fresh(b) \in Records /\ Fresh(b).spent = 0 /\ Fresh(b).budget = b
      BY AmountAssumption DEF Fresh, Records
    <3>2. local'[p].step = "create" /\ local'[p].record = Fresh(b)
      BY <2>2 DEF Shape, TypeOK
    <3>3. Ours(p)'
      BY <2>2, <3>1, <3>2 DEF Ours
    <3>. QED
      BY <1>2, <2>2, <3>1, <3>3, ThriftyStart DEF SpawnCheck
  <2>. QED
    BY <1>2, <2>1, <2>2, AmountAssumption DEF SpawnCheck
<1>3. ASSUME NEW p \in Proc, NEW c \in Child, NEW usd \in Cost, Charge(p, c, usd) PROVE Thrifty'
  <2>. DEFINE r == [worker[c] EXCEPT !.spent = worker[c].spent + usd]
  <2>1. /\ r \in Records /\ r.spent = worker[c].spent + usd /\ r.budget = worker[c].budget
    BY <1>1, AmountAssumption DEF Records
  <2>2. /\ Enter(p, "save_charged", c, r, "none", usd) /\ MayStart(p, c)
        /\ worker[c].spent + usd <= worker[c].budget
        /\ UNCHANGED <<worker, billed, allocated>>
    BY <1>3 DEF Charge
  <2>. HIDE DEF r
  <2>3. /\ local'[p].step = "save_charged" /\ local'[p].record = r /\ local'[p].child = c
        /\ local'[p].usd = usd
    BY <2>2 DEF Shape, TypeOK
  <2>4. Ours(p)'
    BY <2>1, <2>2, <2>3 DEF Ours
  <2>. QED
    BY <2>1, <2>2, <2>4, ThriftyStart
<1>4. ASSUME NEW p \in Proc, NEW c \in Child, NEW r \in Records, NEW news, NEW usd, MayStart(p, c),
             Enter(p, "set_status", c, r, news, usd), UNCHANGED <<worker, billed, allocated>>,
             r.budget = worker[c].budget, r.spent = worker[c].spent
      PROVE  Thrifty'
  <2>1. /\ local'[p].step = "set_status" /\ local'[p].record = r /\ local'[p].child = c
    BY <1>4 DEF Shape, TypeOK
  <2>2. Ours(p)'
    BY <1>4, <2>1 DEF Ours
  <2>. QED
    BY <1>4, <2>2, ThriftyStart
<1>5. ASSUME NEW w \in Records, NEW status \in {"failed", "permanently_failed", "awaiting_approval"}
      PROVE  LET r == [w EXCEPT !.status = status]
             IN  r \in Records /\ r.budget = w.budget /\ r.spent = w.spent
  BY <1>5 DEF Records
<1>6. ASSUME NEW w \in Records
      PROVE  Restarted(w) \in Records /\ Restarted(w).budget = w.budget /\ Restarted(w).spent = w.spent
  BY RestartedRecord DEF Restarted, Records
<1>7. ASSUME NEW p \in Proc, NEW c \in Child, HarnessCrash(p, c) \/ Failed(p, c) \/ ApprovalParked(p, c)
      PROVE  Thrifty'
  <2>1. \E r \in Records : \E news, usd :
          /\ Enter(p, "set_status", c, r, news, usd)
          /\ r.budget = worker[c].budget /\ r.spent = worker[c].spent
    <3>1. CASE HarnessCrash(p, c)
      <4>1. CASE worker[c].restarts < MaxRestarts
        <5>1. Enter(p, "set_status", c, Restarted(worker[c]), "restarted", 0)
          BY <3>1, <4>1 DEF HarnessCrash
        <5>. QED
          BY <1>1, <1>6, <5>1
      <4>2. CASE ~(worker[c].restarts < MaxRestarts)
        <5>. DEFINE r == [worker[c] EXCEPT !.status = "permanently_failed"]
        <5>1. Enter(p, "set_status", c, r, "permanently_failed", 0)
          BY <3>1, <4>2 DEF HarnessCrash
        <5>2. r \in Records /\ r.budget = worker[c].budget /\ r.spent = worker[c].spent
          BY <1>1, <1>5
        <5>. QED
          BY <5>1, <5>2
      <4>. QED
        BY <4>1, <4>2
    <3>2. CASE Failed(p, c)
      BY <1>1, <1>5, <3>2 DEF Failed
    <3>3. CASE ApprovalParked(p, c)
      BY <1>1, <1>5, <3>3 DEF ApprovalParked
    <3>. QED
      BY <1>7, <3>1, <3>2, <3>3
  <2>2. MayStart(p, c) /\ UNCHANGED <<worker, billed, allocated>>
    BY <1>7 DEF HarnessCrash, Failed, ApprovalParked
  <2>. QED
    BY <1>4, <2>1, <2>2
(* The steps of a process at work. *)
<1>8. ASSUME NEW p \in Proc, Active(p), NEW d \in Child, d = local[p].child,
             \A q \in Proc : q # p => local'[q] = local[q],
             local'[p].step = "idle" \/ local'[p].child = d,
             \A c \in Child : c # d => worker'[c] = worker[c],
             Ours(p)'
      PROVE  /\ \A U : U = Unspent' =>
                  (IsFiniteSet(U) /\ billed' + Cardinality(U) <= allocated' => Thrifty')
             /\ \/ local'[p].step = "log_spawned"
                \/ /\ local[p].step # "log_spawned"
                   /\ worker'[d].budget = worker[d].budget /\ worker'[d].spent = worker[d].spent
                => Unspent' \subseteq Unspent
             /\ Unlogged(d) <=> local[p].step = "log_spawned"
  <2>1. /\ \A q, s \in Proc : (Active(q) /\ Active(s) /\ local[q].child = local[s].child)' => q = s
        /\ \A q \in Proc : Ours(q)'
        /\ \A c \in Child : c # d => (Unlogged(c)' <=> Unlogged(c))
        /\ Unlogged(d) <=> local[p].step = "log_spawned"
        /\ Unlogged(d)' <=> local'[p].step = "log_spawned"
    BY <1>8, ThriftyGo
  <2>2. \/ local'[p].step = "log_spawned"
        \/ /\ local[p].step # "log_spawned"
           /\ worker'[d].budget = worker[d].budget /\ worker'[d].spent = worker[d].spent
        => Unspent' \subseteq Unspent
    BY <1>0, <1>8, <2>1, UnspentMoves
  <2>. QED
    BY <2>1, <2>2 DEF Thrifty
<1>9. ASSUME NEW p \in Proc, Active(p), NEW d \in Child, d = local[p].child,
             \A q \in Proc : q # p => local'[q] = local[q],
             local'[p].step = "idle" \/ local'[p].child = d,
             \A c \in Child : c # d => worker'[c] = worker[c],
             Ours(p)', UNCHANGED <<billed, allocated>>,
             \/ local'[p].step = "log_spawned"
             \/ /\ local[p].step # "log_spawned"
                /\ worker'[d].budget = worker[d].budget /\ worker'[d].spent = worker[d].spent
      PROVE  Thrifty'
  <2>1. Unspent' \subseteq Unspent
    BY <1>8, <1>9
  <2>2. IsFiniteSet(Unspent') /\ Cardinality(Unspent') <= Cardinality(Unspent)
        /\ Cardinality(Unspent) \in Nat /\ Cardinality(Unspent') \in Nat
    BY <1>0, <2>1, FS_Subset, FS_CardinalityType
  <2>. DEFINE m == Cardinality(Unspent)
              n == Cardinality(Unspent')
  <2>3. billed' + n <= allocated'
    <3>1. billed + m <= allocated /\ m \in Nat /\ n \in Nat /\ n <= m
          /\ billed' = billed /\ allocated' = allocated
      BY <1>0, <1>9, <2>2
    <3>. HIDE DEF m, n
    <3>. QED
      BY <1>1, <3>1
  <2>. QED
    BY <1>8, <1>9, <2>2, <2>3
<1>10. ASSUME NEW p \in Proc, CreateChild(p) \/ SetStatus(p) \/ Tell(p) PROVE Thrifty'
  <2>1. \E step \in {"save_spawned", "tell", "save_exit"} :
          /\ local' = [local EXCEPT ![p].step = step]
          /\ step = "save_spawned" <=> local[p].step = "create"
          /\ local[p].step \in {"create", "set_status", "tell"}
    BY <1>10 DEF CreateChild, SetStatus, Tell
  <2>2. UNCHANGED <<worker, billed, allocated>>
    BY <1>10 DEF CreateChild, SetStatus, Tell
  <2>3. /\ \A q \in Proc : q # p => local'[q] = local[q]
        /\ local'[p].child = local[p].child /\ local'[p].record = local[p].record
        /\ local'[p].step \in {"save_spawned", "tell", "save_exit"}
        /\ local'[p].step = "save_spawned" <=> local[p].step = "create"
        /\ local[p].step \in {"create", "set_status", "tell"}
    BY <2>1 DEF Shape, TypeOK
  <2>4. Ours(p)
    BY <1>1
  <2>5. Ours(p)'
    BY <2>2, <2>3, <2>4 DEF Ours
  <2>6. Active(p) /\ local[p].child \in Child
    BY <1>1, <2>3 DEF Active
  <2>. QED
    BY <1>9, <2>2, <2>3, <2>5, <2>6
<1>11. ASSUME NEW p \in Proc, SaveSpawned(p) \/ SaveExit(p) PROVE Thrifty'
  <2>. DEFINE d == local[p].child
              r == local[p].record
  <2>1. /\ worker' = [worker EXCEPT ![d] = r]
        /\ UNCHANGED <<billed, allocated>>
        /\ \/ local[p].step = "save_spawned" /\ local' = [local EXCEPT ![p].step = "log_spawned"]
           \/ local[p].step = "save_exit" /\ local' = [local EXCEPT ![p] = Idle]
    BY <1>11 DEF SaveSpawned, SaveExit
  <2>2. /\ \A q \in Proc : q # p => local'[q] = local[q]
        /\ \/ /\ local[p].step = "save_spawned" /\ local'[p].step = "log_spawned"
              /\ local'[p].child = d /\ local'[p].record = r
           \/ local[p].step = "save_exit" /\ local'[p].step = "idle"
    BY <2>1 DEF Shape, TypeOK, Idle
  <2>3. Active(p) /\ d \in Child
    BY <1>1, <2>2 DEF Active
  <2>4. worker'[d] = r /\ \A c \in Child : c # d => worker'[c] = worker[c]
    BY <2>1, <2>3 DEF Shape, TypeOK
  <2>5. Ours(p)
    BY <1>1
  <2>6. Ours(p)' /\ (local[p].step = "save_exit" => r.budget = worker[d].budget /\ r.spent = worker[d].spent)
    BY <2>2, <2>4, <2>5 DEF Ours
  <2>. HIDE DEF r
  <2>. QED
    BY <1>9, <2>1, <2>2, <2>3, <2>4, <2>6
<1>12. ASSUME NEW p \in Proc, LogSpawned(p) PROVE Thrifty'
  <2>. DEFINE d == local[p].child
              b == local[p].record.budget
  <2>1. /\ local[p].step = "log_spawned" /\ local' = [local EXCEPT ![p] = Idle]
        /\ worker' = worker /\ billed' = billed /\ allocated' = allocated + b
    BY <1>12 DEF LogSpawned
  <2>2. /\ \A q \in Proc : q # p => local'[q] = local[q]
        /\ local'[p].step = "idle"
    BY <2>1 DEF Shape, TypeOK, Idle
  <2>3. Active(p) /\ d \in Child
    BY <1>1, <2>1 DEF Active
  <2>4. Ours(p)
    BY <1>1
  <2>5. worker[d].budget = b /\ worker[d].spent = 0 /\ b \in Nat
    BY <1>1, <2>1, <2>4 DEF Ours, Records
  <2>6. Ours(p)'
    BY <2>2 DEF Ours
  <2>. DEFINE R == Row(d, 0 + 1, 0 + b)
  <2>7. Unspent' \subseteq Unspent \cup R
    <3>1. \A c \in Child : c # d => (Unlogged(c)' <=> Unlogged(c))
      BY <2>1, <2>2, <2>3, <2>6, ThriftyGo
    <3>. QED
      <4>1. \A c \in Child : c # d => worker'[c] = worker[c]
        BY <2>1
      <4>2. \A k \in Nat : worker'[d].budget = k /\ worker'[d].spent = 0 =>
              Unspent' \subseteq Unspent \cup Row(d, 0 + 1, 0 + k)
        BY <1>0, <2>3, <3>1, <4>1, UnspentMoves
      <4>3. worker'[d].budget = b /\ worker'[d].spent = 0
        BY <2>1, <2>5
      <4>. QED
        BY <2>5, <4>2, <4>3
  <2>8. IsFiniteSet(R) /\ Cardinality(R) = b
    <3>1. 0 \in Int /\ b \in Nat
      BY <2>5
    <3>. HIDE DEF b
    <3>. QED
      BY <3>1, RowSize, Zenon
  <2>. HIDE DEF R, b
  <2>9. IsFiniteSet(Unspent') /\ Cardinality(Unspent') <= Cardinality(Unspent) + b
        /\ Cardinality(Unspent) \in Nat /\ Cardinality(Unspent') \in Nat
    BY <1>0, <2>7, <2>8, Together
  <2>. DEFINE m == Cardinality(Unspent)
              n == Cardinality(Unspent')
  <2>10. billed' + n <= allocated'
    <3>1. billed + m <= allocated /\ m \in Nat /\ n \in Nat /\ n <= m + b /\ b \in Nat
          /\ billed' = billed /\ allocated' = allocated + b
      BY <1>0, <2>1, <2>5, <2>9
    <3>. HIDE DEF m, n
    <3>. QED
      BY <1>1, <3>1
  <2>. QED
    BY <1>8, <2>1, <2>2, <2>3, <2>6, <2>9, <2>10
<1>13. ASSUME NEW p \in Proc, SaveCharged(p) PROVE Thrifty'
  <2>. DEFINE d == local[p].child
              r == local[p].record
              u == local[p].usd
  <2>1. /\ local[p].step = "save_charged" /\ local' = [local EXCEPT ![p] = Idle]
        /\ worker' = [worker EXCEPT ![d] = r]
        /\ billed' = billed + u /\ allocated' = allocated
    BY <1>13 DEF SaveCharged
  <2>2. /\ \A q \in Proc : q # p => local'[q] = local[q]
        /\ local'[p].step = "idle"
    BY <2>1 DEF Shape, TypeOK, Idle
  <2>3. Active(p) /\ d \in Child
    BY <1>1, <2>1 DEF Active
  <2>4. worker'[d] = r /\ \A c \in Child : c # d => worker'[c] = worker[c]
    BY <2>1, <2>3 DEF Shape, TypeOK
  <2>5. Ours(p)
    BY <1>1
  <2>6. r.budget = worker[d].budget /\ r.spent = worker[d].spent + u /\ r.spent <= r.budget /\ u \in Nat
    BY <1>1, <2>1, <2>5 DEF Ours
  <2>7. Ours(p)'
    BY <2>2 DEF Ours
  <2>. DEFINE R == Row(d, worker[d].spent + 1, worker[d].spent + u)
  <2>8. Unspent' \subseteq Unspent \ R /\ R \subseteq Unspent
    <3>1. \A c \in Child : c # d => (Unlogged(c)' <=> Unlogged(c))
      BY <2>2, <2>3, <2>4, <2>7, ThriftyGo
    <3>2. ~Unlogged(d)
      BY <1>8, <2>1, <2>2, <2>3, <2>4, <2>7
    <3>. QED
      <4>1. \A k \in Nat :
              /\ worker'[d].budget = worker[d].budget /\ worker'[d].spent = worker[d].spent + k
              /\ worker'[d].spent <= worker[d].budget /\ ~Unlogged(d)
              => LET B == Row(d, worker[d].spent + 1, worker[d].spent + k)
                 IN  Unspent' \subseteq Unspent \ B /\ B \subseteq Unspent
        BY <1>0, <2>3, <2>4, <3>1, UnspentMoves
      <4>2. /\ worker'[d].budget = worker[d].budget /\ worker'[d].spent = worker[d].spent + u
            /\ worker'[d].spent <= worker[d].budget /\ u \in Nat
        BY <2>4, <2>6
      <4>. QED
        BY <3>2, <4>1, <4>2
  <2>9. IsFiniteSet(R) /\ Cardinality(R) = u
    <3>1. worker[d].spent \in Int /\ u \in Nat
      BY <1>1, <2>3, <2>6 DEF Records
    <3>. HIDE DEF u
    <3>. QED
      BY <3>1, RowSize, Zenon
  <2>. HIDE DEF R, u
  <2>10. IsFiniteSet(Unspent') /\ Cardinality(Unspent') <= Cardinality(Unspent) - u
        /\ Cardinality(Unspent) \in Nat /\ Cardinality(Unspent') \in Nat
    BY <1>0, <2>8, <2>9, Together
  <2>. DEFINE m == Cardinality(Unspent)
              n == Cardinality(Unspent')
  <2>11. billed' + n <= allocated'
    <3>1. billed + m <= allocated /\ m \in Nat /\ n \in Nat /\ n <= m - u /\ u \in Nat
          /\ billed' = billed + u /\ allocated' = allocated
      BY <1>0, <2>1, <2>6, <2>10
    <3>. HIDE DEF m, n
    <3>. QED
      BY <1>1, <3>1
  <2>. QED
    BY <1>8, <2>2, <2>3, <2>4, <2>7, <2>10, <2>11
<1>14. ASSUME NEW p \in Proc, Crash(p) PROVE Thrifty'
  BY <1>14 DEF Crash, Frugal
<1>15. CASE UNCHANGED vars
  <2>1. Unspent' = Unspent /\ \A q \in Proc : Ours(q)' = Ours(q) /\ Active(q)' = Active(q)
    BY <1>15 DEF vars, Unspent, Unlogged, Ours, Active
  <2>. QED
    BY <1>15, <2>1 DEF vars, Thrifty
<1>. QED
  BY <1>2, <1>3, <1>7, <1>10, <1>11, <1>12, <1>13, <1>14, <1>15 DEF Next, Start, Continue

(* orchestration.rs spawn and charge: what all workers are charged together   *)
(* stays within the parent's ceiling, however often a harness that was        *)
(* resumed spawns a worker anew, if one daemon spawns, one process at a time  *)
(* works on a worker, and no spawn is cut short before its log entry.         *)
THEOREM SpendingHasRoom == Spec => []SpendWithinCeiling
<1>1. Init => Thrifty
  <2>. SUFFICES ASSUME Init PROVE Thrifty
    OBVIOUS
  <2>1. \A p \in Proc : local[p].step = "idle"
    BY DEF Init, Idle
  <2>2. Unspent = {}
    <3>1. \A c \in Child : worker[c].spent = 0 /\ worker[c].budget = 0
      BY DEF Init, NoWorker
    <3>2. \A i \in Int : ~(0 < i /\ i <= 0)
      OBVIOUS
    <3>3. \A c \in Child, i \in Int : <<c, i>> \notin Unspent
      BY <3>1, <3>2, UnspentPairs
    <3>. QED
      BY <3>3, UnspentPairs
  <2>. QED
    BY <2>1, <2>2, FS_EmptySet DEF Init, Thrifty, Ours, Active
<1>2. Frugal /\ Shape /\ Thrifty /\ [Next]_vars => Thrifty'
  BY ThriftyStep
<1>3. [Next]_vars => (Frugal <=> Frugal')
  BY EnvironmentStays DEF Frugal
<1>4. Shape /\ Thrifty /\ AllocatedWithinCeiling /\ Frugal => SpendWithinCeiling
  <2>. SUFFICES ASSUME Shape, Thrifty, AllocatedWithinCeiling, Frugal PROVE billed <= RegisteredCeiling
    BY DEF SpendWithinCeiling
  <2>. DEFINE n == Cardinality(Unspent)
  <2>1. n \in Nat /\ billed + n <= allocated /\ allocated <= RegisteredCeiling
    BY FS_CardinalityType DEF Thrifty, AllocatedWithinCeiling, Frugal
  <2>. HIDE DEF n
  <2>. QED
    BY <2>1, CeilingType DEF Shape, TypeOK
<1>5. ~Frugal => SpendWithinCeiling
  BY DEF Frugal, SpendWithinCeiling
<1>. QED
  BY <1>1, <1>2, <1>3, <1>4, <1>5, InitShape, ShapeStep, AllocationsHaveRoom, PTL DEF Spec
=============================================================================
