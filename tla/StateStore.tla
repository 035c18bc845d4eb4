----------------------------- MODULE StateStore -----------------------------
(***************************************************************************)
(* Typed session state and the signal queue of                             *)
(* crates/cybersin-runtime/src/storage.rs (SQLite) and pg_storage.rs        *)
(* (Postgres), for one key (a blackboard entry of orchestration.rs, or a   *)
(* state.set key) and one mailbox (one recipient and sender).  set_state,   *)
(* cas_state, enqueue_signal and take_signal each                          *)
(* issue several SQL statements with no transaction around them: writers   *)
(* of several sessions, daemons and processes interleave between any two.  *)
(* Postgres differs in take_signal, a transaction there, and in nothing     *)
(* else: its append_event is atomic under an advisory lock, as SQLite's is  *)
(* as a single statement.                                                  *)
(***************************************************************************)
EXTENDS Integers, Sequences, FiniteSets

CONSTANTS
  Writer,       \* processes that write the key
  Receiver,     \* daemons that drain the mailbox
  Value,        \* JSON values of one json_type
  Odd,          \* a value of another json_type
  Uses,         \* what may be done, and on which database: subsets of Feature
  MaxWrites,    \* bound: writes begun
  MaxMail,      \* bound: messages sent
  Mortal,       \* processes that may die between two statements
  None

Feature == {"set", "cas", "send", "postgres"}
Party == Writer \cup Receiver
ASSUME PartyAssumption == Writer \cap Receiver = {} /\ None \notin Value \cup {Odd}
ASSUME ValueAssumption == Odd \notin Value /\ \A u \in Uses : u \subseteq Feature
ASSUME StoreBounds == MaxWrites \in Nat /\ MaxMail \in Nat /\ Mortal \subseteq Party

VARIABLES
  use,        \* the member of Uses that this behaviour is about; never changes
  row,        \* session_state: value, value_type and updated_seq (0: no row)
  log,        \* the state.set events of the key, in order
  signals,    \* the signals rows, in signal_id order
  delivered,  \* signal.delivered events, in order
  pc,
  op,         \* what a writer is writing, and the version it expects
  known,      \* the last record a writer was given
  picked,     \* the signal a receiver has selected
  received,   \* what each receiver's take_signal returned
  applied,    \* history: the versions that applied CASes replaced
  begun,      \* history: writes begun
  echoes      \* history: applied CASes answered with another write's value

store == <<row, log, signals, delivered>>
storeVars == <<use, store, pc, op, known, picked, received, applied, begun, echoes>>

NoRecord == [value |-> None, type |-> None, version |-> 0]
NoOp == [value |-> None, expected |-> 0]
JsonType(v) == IF v = Odd THEN "odd" ELSE "plain"

StoreInit ==
  /\ use \in Uses
  /\ row = NoRecord /\ log = <<>> /\ signals = <<>> /\ delivered = <<>>
  /\ pc = [p \in Party |-> "idle"]
  /\ op = [w \in Writer |-> NoOp]
  /\ known = [w \in Writer |-> NoRecord]
  /\ picked = [r \in Receiver |-> 0]
  /\ received = [r \in Receiver |-> <<>>]
  /\ applied = <<>> /\ begun = 0 /\ echoes = 0

Step(p, from, to) == pc[p] = from /\ pc' = [pc EXCEPT ![p] = to]
Begin(w, to, v) ==
  /\ begun < MaxWrites
  /\ begun' = begun + 1
  /\ Step(w, "idle", to)
  /\ op' = [op EXCEPT ![w] = [value |-> v, expected |-> known[w].version]]

-----------------------------------------------------------------------------
(* get_state: a writer reads the record it will base its next write on. *)
Get(w) ==
  /\ pc[w] = "idle"
  /\ known' = [known EXCEPT ![w] = row]
  /\ UNCHANGED <<use, store, pc, op, picked, received, applied, begun, echoes>>

(* set_state: the type of the existing row is checked; a mismatch is an error *)
(* that leaves no trace,                                                     *)
SetCheck(w) ==
  /\ "set" \in use
  /\ \E v \in Value \cup {Odd} :
       /\ row.version # 0 => row.type = JsonType(v)
       /\ Begin(w, "set_log", v)
  /\ UNCHANGED <<use, store, known, picked, received, applied, echoes>>

(* then the event is appended, and its seq kept, *)
SetLog(w) ==
  /\ Step(w, "set_log", "set_row")
  /\ log' = Append(log, op[w].value)
  /\ op' = [op EXCEPT ![w] = [value |-> op[w].value, expected |-> Len(log) + 1]]
  /\ UNCHANGED <<use, row, signals, delivered, known, picked, received, applied, begun, echoes>>

(* then the row is upserted; an existing row keeps its value_type column. *)
SetRow_OwnVersion(w) ==
  /\ Step(w, "set_row", "idle")
  /\ row' = [value |-> op[w].value, version |-> row.version + 1,
             type |-> IF row.version = 0 THEN JsonType(op[w].value) ELSE row.type]
  /\ UNCHANGED <<use, log, signals, delivered, op, known, picked, received, applied, begun, echoes>>
SetRow(w) ==
  /\ Step(w, "set_row", "idle")
  /\ row' = [value |-> op[w].value, version |-> op[w].expected,
             type |-> IF row.version = 0 THEN JsonType(op[w].value) ELSE row.type]
  /\ UNCHANGED <<use, log, signals, delivered, op, known, picked, received, applied, begun, echoes>>

-----------------------------------------------------------------------------
(* cas_state: one conditional INSERT or UPDATE, which checks no type. *)
CasBegin(w) ==
  /\ "cas" \in use
  /\ \E v \in Value \cup {Odd} : Begin(w, "cas", v)
  /\ UNCHANGED <<use, store, known, picked, received, applied, echoes>>

CasApply_Blind(w) ==
  /\ Step(w, "cas", "cas_log")
  /\ row' = [value |-> op[w].value, type |-> JsonType(op[w].value), version |-> row.version + 1]
  /\ applied' = Append(applied, op[w].expected)
  /\ UNCHANGED <<use, log, signals, delivered, op, known, picked, received, begun, echoes>>
CasApply(w) ==
  /\ row.version = op[w].expected
  /\ Step(w, "cas", "cas_log")
  /\ row' = [value |-> op[w].value, type |-> JsonType(op[w].value), version |-> row.version + 1]
  /\ applied' = Append(applied, op[w].expected)
  /\ UNCHANGED <<use, log, signals, delivered, op, known, picked, received, begun, echoes>>

CasStale(w) ==
  /\ row.version # op[w].expected
  /\ Step(w, "cas", "idle")
  /\ UNCHANGED <<use, store, op, known, picked, received, applied, begun, echoes>>

CasLog(w) ==
  /\ Step(w, "cas_log", "cas_read")
  /\ log' = Append(log, op[w].value)
  /\ UNCHANGED <<use, row, signals, delivered, op, known, picked, received, applied, begun, echoes>>

(* Applied(get_state): the record is read back in a statement of its own. *)
CasRead(w) ==
  /\ Step(w, "cas_read", "idle")
  /\ known' = [known EXCEPT ![w] = row]
  /\ echoes' = IF row.value = op[w].value /\ row.version = op[w].expected + 1
                 THEN echoes ELSE echoes + 1
  /\ UNCHANGED <<use, store, op, picked, received, applied, begun>>

-----------------------------------------------------------------------------
(* Orchestrator::send: enqueue_signal's row; its signal.notified event says   *)
(* no more.                                                                   *)
Send ==
  /\ "send" \in use
  /\ Len(signals) < MaxMail
  /\ signals' = Append(signals, FALSE)
  /\ UNCHANGED <<use, row, log, delivered, pc, op, known, picked, received, applied, begun, echoes>>

(* take_signal: the oldest undelivered row is selected, in Postgres FOR UPDATE *)
(* SKIP LOCKED in the transaction that TakeUpdate commits,                   *)
Locked_Never == {}                                \* mutant: a plain SELECT
Locked == IF "postgres" \in use
            THEN {picked[r] : r \in {q \in Receiver : pc[q] = "take_update"}} ELSE {}
Undelivered == {n \in 1..Len(signals) : ~signals[n]} \ Locked
Oldest == CHOOSE n \in Undelivered : \A m \in Undelivered : n <= m
TakeSelect(r) ==
  /\ Undelivered # {}
  /\ Step(r, "idle", "take_update")
  /\ picked' = [picked EXCEPT ![r] = Oldest]
  /\ UNCHANGED <<use, store, op, known, received, applied, begun, echoes>>

(* then updated, in SQLite whoever else selected it, *)
TakeUpdate_UpToNewest(r) ==
  /\ Step(r, "take_update", "take_log")
  /\ signals' = [n \in 1..Len(signals) |-> TRUE]
  /\ UNCHANGED <<use, row, log, delivered, op, known, picked, received, applied, begun, echoes>>
TakeUpdate(r) ==
  /\ Step(r, "take_update", "take_log")
  /\ signals' = [signals EXCEPT ![picked[r]] = TRUE]
  /\ UNCHANGED <<use, row, log, delivered, op, known, picked, received, applied, begun, echoes>>

(* then the signal.delivered event is appended and the payload returned. *)
TakeLog(r) ==
  /\ Step(r, "take_log", "idle")
  /\ delivered' = Append(delivered, picked[r])
  /\ received' = [received EXCEPT ![r] = Append(@, picked[r])]
  /\ UNCHANGED <<use, row, log, signals, op, known, picked, applied, begun, echoes>>

-----------------------------------------------------------------------------
(* A process dies between two statements and starts anew; its transaction is  *)
(* rolled back, and what it had locked is free.                              *)
Die(p) ==
  /\ p \in Mortal /\ pc[p] # "idle"
  /\ pc' = [pc EXCEPT ![p] = "idle"]
  /\ IF p \in Writer THEN known' = [known EXCEPT ![p] = NoRecord] ELSE UNCHANGED known
  /\ UNCHANGED <<use, store, op, picked, received, applied, begun, echoes>>

Write(w) == SetCheck(w) \/ SetLog(w) \/ SetRow(w) \/ CasBegin(w) \/ CasApply(w)
              \/ CasStale(w) \/ CasLog(w) \/ CasRead(w)
Take(r) == TakeSelect(r) \/ TakeUpdate(r) \/ TakeLog(r)

StoreNext == \/ \E w \in Writer : Get(w) \/ Write(w)
        \/ \E r \in Receiver : Take(r)
        \/ Send
        \/ \E p \in Party : Die(p)
StoreSpec == StoreInit /\ [][StoreNext]_storeVars
FairStoreSpec == StoreSpec /\ \A r \in Receiver : WF_storeVars(Take(r))

-----------------------------------------------------------------------------
(* Properties *)

Record == [value : Value \cup {Odd}, type : {"plain", "odd"}, version : Nat \ {0}]
            \cup {NoRecord}
(* Type correctness of the store and of the processes' locals. *)
StoreTypeOK ==
  /\ use \in Uses /\ row \in Record
  /\ log \in Seq(Value \cup {Odd})
  /\ signals \in Seq(BOOLEAN)
  /\ delivered \in Seq(1..Len(signals))
  /\ pc \in [Party -> {"idle", "set_log", "set_row", "cas", "cas_log", "cas_read",
                      "take_update", "take_log"}]
  /\ op \in [Writer -> [value : Value \cup {Odd, None}, expected : Nat]]
  /\ known \in [Writer -> Record]
  /\ \A r \in Receiver : pc[r] \in {"take_update", "take_log"} => picked[r] \in 1..Len(signals)
  /\ received \in [Receiver -> Seq(1..Len(signals))]

(* A version is replaced by one CAS at most: of writers that read the same   *)
(* record one succeeds and the others are told they are stale                *)
(* (orchestration.rs, blackboard_cas).                                       *)
OneWriterPerVersion ==
  "set" \notin use => \A m, n \in 1..Len(applied) : applied[m] = applied[n] => m = n

(* A row is written only after its event, and under the seq of that event:    *)
(* what get_state answers, whichever writers raced or died, is an event of    *)
(* the log (set_state alone; a CAS writes the row first).                     *)
RowIsLogged ==
  "cas" \notin use /\ row.version # 0 => row.version <= Len(log) /\ log[row.version] = row.value

(* No receiver gets a message out of the order it was sent in, or twice,     *)
(* however many drain the mailbox; and in Postgres no two get the same one.   *)
Ascending(s) == \A n \in 1..Len(s) - 1 : s[n] < s[n + 1]
Mail(r) == {received[r][n] : n \in 1..Len(received[r])}
MailInOrder ==
  /\ \A r \in Receiver : Ascending(received[r])
  /\ "postgres" \in use => \A q, r \in Receiver : q # r => Mail(q) \cap Mail(r) = {}

(* A message the table calls delivered was handed to a receiver, or is in     *)
(* the hands of one that has yet to return it: none is skipped.               *)
Handed(n) == \E r \in Receiver : \E i \in 1..Len(received[r]) : received[r][i] = n
MailIsHanded ==
  \A n \in 1..Len(signals) : signals[n] =>
    Handed(n) \/ \E r \in Receiver : pc[r] = "take_log" /\ picked[r] = n

(* Every message is handed to some receiver in the end, given that daemons    *)
(* keep draining.                                                            *)
MailIsTaken == \A n \in 1..MaxMail : n <= Len(signals) ~> Handed(n)

-----------------------------------------------------------------------------
(* Expectations of the comments and documents that the code does not meet.   *)

(* storage.rs: signals are durable and delivered once. *)
DeliveredOnce ==
  \A m, n \in 1..Len(delivered) : delivered[m] = delivered[n] => m = n

(* cybersin-spec.md 8.7: every receive is a recorded event. *)
ReceiptIsRecorded ==
  (\A p \in Party : pc[p] = "idle") =>
    \A n \in 1..Len(signals) : signals[n] => \E i \in 1..Len(delivered) : delivered[i] = n

(* supervisor.rs: the log is the source of truth and the table an index of   *)
(* it, so what a resume replays is what the table holds.                     *)
ReplayGivesRow ==
  (\A w \in Writer : pc[w] = "idle") /\ log # <<>> => row.value = log[Len(log)]

(* storage.rs, typed state: the type set_state checks a new value against is  *)
(* the type of the value the row holds.                                      *)
TypeColumnIsTrue == row.version # 0 => row.type = JsonType(row.value)

(* storage.rs: an applied CAS returns what its own write materialized. *)
AppliedIsOwn == echoes = 0
=============================================================================
