----------------------------- MODULE CommandProofs -----------------------------
(***************************************************************************)
(* Proofs about the commands of cybersin and what they share with others.  *)
(* `cybersin ops` (OpsRoom): what its tabs do is what was on the screen,    *)
(* and a call is executed or denied once.  `cybersin build` (BuildDist): a  *)
(* manifest covers what lies beside it, and what a run stores is one        *)
(* build's.  `cybersin run` (HarnessWire): a harness takes each answer for  *)
(* the step it is of, and how a session ended is how it is reported.        *)
(***************************************************************************)
EXTENDS OpsRoom, BuildDist, HarnessWire, SequenceTheorems, WellFoundedInduction, TLAPS

USE DEF table, project, terminal, history, others, local, ours, Running, Goto

-----------------------------------------------------------------------------
(* The shape of the state *)

Proc == Loader \cup {"ui"}
Position == {"recv", "builds", "rows", "store", "gateway", "clear", "decide", "session",
         "draw", "key", "quit"}
RowState == {"absent", "parked", "cleared", "approved", "denied", "elsewhere"}

(* The channel of decisions is a sequence, of whatever was confirmed. *)
IsChannel(q) == \E D : q \in Seq(D)

Shaped ==
  /\ pc \in [Proc -> Position]
  /\ rows \in [Call -> RowState] /\ ends \in [Call -> Nat]
  /\ IsChannel(decisions)
  /\ ui = [tab |-> ui.tab, build |-> ui.build, row |-> ui.row, pending |-> ui.pending]

LEMMA Channels ==
  ASSUME NEW q, IsChannel(q)
  PROVE  /\ \A x : IsChannel(Append(q, x)) /\ Append(q, x) # <<>>
                   /\ (q # <<>> => Head(Append(q, x)) = Head(q))
         /\ q # <<>> => IsChannel(Tail(q))
<1>1. PICK D : q \in Seq(D)
  BY DEF IsChannel
<1>2. ASSUME NEW x
      PROVE  /\ IsChannel(Append(q, x)) /\ Append(q, x) # <<>>
             /\ q # <<>> => Head(Append(q, x)) = Head(q)
  <2>. DEFINE E == D \cup {x}
  <2>1. q \in Seq(E) /\ x \in E
    BY <1>1, SeqMonotonic
  <2>2. Append(q, x) \in Seq(E) /\ Append(q, x) # <<>>
    BY <2>1, AppendProperties
  <2>3. q # <<>> => Head(Append(q, x)) = Head(q)
    BY <2>1, HeadTailAppend
  <2>. QED
    BY <2>2, <2>3 DEF IsChannel
<1>3. q # <<>> => Tail(q) \in Seq(D)
  BY <1>1, HeadTailProperties
<1>. QED
  BY <1>2, <1>3 DEF IsChannel

-----------------------------------------------------------------------------
(* The inductive invariant *)

(* The task works on the first decision of its channel, *)
Busy == pc["action"] \in {"gateway", "clear", "decide"} => decisions # <<>>

(* whose row is parked until it is cleared, and cleared until it is decided,  *)
(* as long as no other process decides.                                      *)
Claimed ==
  \A c \in Call : decisions # <<>> /\ Decision.call = c =>
    /\ pc["action"] = "clear" => rows[c] = "parked"
    /\ pc["action"] = "decide" => rows[c] = "cleared"

(* A row that still awaits its end has had none. *)
EndedOnce ==
  \A c \in Call : /\ ends[c] <= 1
                  /\ rows[c] \in {"absent", "parked", "cleared"} => ends[c] = 0

(* Between a frame and a key the cursor is on what the frame highlights, and  *)
(* the question is the one it shows.                                         *)
Framed ==
  /\ pc["ui"] = "key" => /\ drawn.question = ui.pending
                         /\ drawn.agent = At(drawn.builds, ui.build, 0)
  /\ ui.pending # <<>> => ui.pending = <<ui.pending[1]>>
  /\ strays \subseteq {"question"}

Ordered == Shaped /\ Busy /\ ("others" \notin use => Claimed /\ EndedOnce) /\ Framed

LEMMA InitOrdered == Init => Ordered
<1>. SUFFICES ASSUME Init PROVE Ordered
  OBVIOUS
<1>1. IsChannel(decisions)
  <2>1. decisions \in Seq({})
    BY DEF Init
  <2>. QED
    BY <2>1 DEF IsChannel
<1>2. pc \in [Proc -> Position] /\ pc["ui"] = "draw" /\ pc["action"] = "recv"
  BY DEF Init, Proc, Position, Loader
<1>3. Shaped
  <2>1. /\ rows \in [Call -> RowState] /\ ends \in [Call -> Nat]
        /\ ui = [tab |-> "builds", build |-> 1, row |-> 1, pending |-> <<>>]
    BY DEF Init, RowState
  <2>. QED
    BY <1>1, <1>2, <2>1 DEF Shaped
<1>4. Busy /\ Claimed /\ EndedOnce /\ Framed
  BY <1>2 DEF Init, Busy, Claimed, EndedOnce, Framed
<1>. QED
  BY <1>3, <1>4 DEF Ordered

(* Every step but those below leaves alone what the invariant speaks of, but  *)
(* for the places of loaders, which no decision is at.                       *)
Loading == {"recv", "builds", "rows", "store", "session"}
Framing == <<ui, drawn, strays>>
Deciding == <<decisions, rows, ends>>

LEMMA Idle ==
  ASSUME Ordered, use' = use, UNCHANGED Framing, UNCHANGED Deciding, pc' \in [Proc -> Position],
         pc'["ui"] = "key" => pc["ui"] = "key",
         pc'["action"] \in Loading \/ pc'["action"] = pc["action"]
  PROVE  Ordered'
<1>. USE DEF Ordered, Framing, Deciding
<1>1. Shaped'
  BY DEF Shaped
<1>2. Busy'
  BY DEF Busy, Loading
<1>3. "others" \notin use => Claimed' /\ EndedOnce'
  <2>1. \A c \in Call : Decision' = Decision /\ rows'[c] = rows[c] /\ ends'[c] = ends[c]
    BY DEF Decision
  <2>. QED
    BY <2>1 DEF Claimed, EndedOnce, Loading
<1>4. Framed'
  BY DEF Framed
<1>. QED
  BY <1>1, <1>2, <1>3, <1>4

LEMMA OrderedStep == ASSUME Ordered, [Next]_vars PROVE Ordered'
<1>0. /\ Shaped /\ Busy /\ Framed
      /\ "others" \notin use => Claimed /\ EndedOnce
      /\ pc \in [Proc -> Position]
      /\ {"refresh", "action", "run", "ui"} = Proc
      /\ \A p \in Proc : \A s \in Position : [pc EXCEPT ![p] = s] \in [Proc -> Position]
      /\ Loading \subseteq Position /\ {"gateway", "clear", "decide", "draw", "key", "quit"} \subseteq Position
  BY DEF Ordered, Shaped, Proc, Loader, Loading, Position
<1>1. CASE Act
  <2>1. PICK l \in Loader : Load(l)
    BY <1>1 DEF Act
  <2>2. UNCHANGED Framing /\ UNCHANGED Deciding /\ use' = use
    BY <2>1 DEF Load, LoadBuilds, LoadFails, LoadRows, Store, Framing, Deciding
  <2>3. PICK s \in Loading : pc' = [pc EXCEPT ![l] = s]
    BY <2>1 DEF Load, LoadBuilds, LoadFails, LoadRows, Store, Again, Loading
  <2>4. l \in Proc /\ l # "ui" /\ s \in Position
    BY <1>0 DEF Loader
  <2>. QED
    BY <1>0, <2>2, <2>3, <2>4, Idle
<1>2. CASE StartRun \/ EndRun
  <2>1. UNCHANGED Framing /\ UNCHANGED Deciding /\ use' = use
    BY <1>2 DEF StartRun, EndRun, Framing, Deciding
  <2>2. PICK s \in Loading : pc' = [pc EXCEPT !["run"] = s]
    BY <1>2 DEF StartRun, EndRun, Loading
  <2>. QED
    BY <1>0, <2>1, <2>2, Idle
<1>3. CASE EditAgents \/ UNCHANGED vars
  <2>1. UNCHANGED Framing /\ UNCHANGED Deciding /\ use' = use /\ pc' = pc
    BY <1>3 DEF EditAgents, vars, Framing, Deciding
  <2>. QED
    BY <1>0, <2>1, Idle
(* The terminal. *)
<1>4. ASSUME UNCHANGED <<rows, ends, use>>,
             UNCHANGED decisions \/ \E x : decisions' = Append(decisions, x),
             pc' \in [Proc -> Position], pc'["action"] = pc["action"]
      PROVE  Busy' /\ IsChannel(decisions') /\ ("others" \notin use => Claimed' /\ EndedOnce')
  <2>1. IsChannel(decisions)
    BY <1>0 DEF Shaped
  <2>2. /\ IsChannel(decisions') /\ (decisions # <<>> => decisions' # <<>>)
        /\ (decisions # <<>> => Head(decisions') = Head(decisions))
    BY <1>4, <2>1, Channels
  <2>3. Busy'
    BY <1>0, <1>4, <2>2 DEF Busy
  <2>4. ASSUME "others" \notin use PROVE Claimed' /\ EndedOnce'
    <3>1. Claimed /\ EndedOnce /\ rows' = rows /\ ends' = ends
      BY <1>0, <1>4, <2>4
    <3>2. pc'["action"] \in {"clear", "decide"} => decisions # <<>> /\ Decision' = Decision
      BY <1>0, <1>4, <2>2 DEF Busy, Decision
    <3>3. Claimed'
      BY <1>4, <3>1, <3>2 DEF Claimed
    <3>. QED
      BY <3>1, <3>3 DEF EndedOnce
  <2>. QED
    BY <2>2, <2>3, <2>4
<1>5. ASSUME UNCHANGED <<rows, ends, use>>,
             UNCHANGED decisions \/ \E x : decisions' = Append(decisions, x),
             pc' \in [Proc -> Position], pc'["action"] = pc["action"],
             ui' = [tab |-> ui'.tab, build |-> ui'.build, row |-> ui'.row, pending |-> ui'.pending],
             Framed'
      PROVE  Ordered'
  <2>1. Shaped'
    BY <1>0, <1>4, <1>5 DEF Shaped
  <2>. QED
    BY <1>4, <1>5, <2>1 DEF Ordered
<1>6. CASE Draw
  <2>. DEFINE b == Least(ui.build, Len(shared.builds))
              r == Least(ui.row, Len(shared.approvals))
  <2>1. /\ ui' = [ui EXCEPT !.build = b, !.row = r]
        /\ drawn' = [builds |-> shared.builds, agent |-> At(shared.builds, b, 0),
                     rows |-> Len(shared.approvals),
                     call |-> At(shared.approvals, r, NoCall), question |-> ui.pending]
        /\ pc' = [pc EXCEPT !["ui"] = "key"]
        /\ UNCHANGED <<rows, ends, use, decisions, strays>>
    BY <1>6 DEF Draw
  <2>. HIDE DEF b, r
  <2>2. ui' = [tab |-> ui.tab, build |-> b, row |-> r, pending |-> ui.pending]
    BY <1>0, <2>1 DEF Shaped
  <2>3. Framed'
    BY <1>0, <2>1, <2>2 DEF Framed
  <2>4. pc' \in [Proc -> Position] /\ pc'["action"] = pc["action"]
    BY <1>0, <2>1
  <2>. QED
    BY <1>5, <2>1, <2>2, <2>3, <2>4
<1>7. CASE Keys
  <2>1. /\ UNCHANGED <<rows, ends, use, drawn>> /\ pc["ui"] = "key"
        /\ \E s \in {"draw", "quit"} : pc' = [pc EXCEPT !["ui"] = s]
    BY <1>7 DEF Keys, SwitchTab, MoveBuild, MoveRow, RequestRun, Confirm, Cancel, Quit, Ask,
                Choosing, Press
  <2>2. UNCHANGED decisions \/ \E x : decisions' = Append(decisions, x)
    BY <1>7 DEF Keys, SwitchTab, MoveBuild, MoveRow, RequestRun, Confirm, Cancel, Quit, Ask
  <2>3. \/ ui' = ui
        \/ \E t : ui' = [ui EXCEPT !.tab = t]
        \/ \E i : ui' = [ui EXCEPT !.build = i]
        \/ \E i : ui' = [ui EXCEPT !.row = i]
        \/ \E x : ui' = [ui EXCEPT !.pending = <<x>>]
        \/ ui' = [ui EXCEPT !.pending = <<>>]
    BY <1>7 DEF Keys, SwitchTab, MoveBuild, MoveRow, RequestRun, Confirm, Cancel, Quit, Ask
  <2>4. /\ ui' = [tab |-> ui'.tab, build |-> ui'.build, row |-> ui'.row, pending |-> ui'.pending]
        /\ ui'.pending = ui.pending \/ ui'.pending = <<>> \/ \E x : ui'.pending = <<x>>
    BY <1>0, <2>3 DEF Shaped
  <2>5. ui'.pending # <<>> => ui'.pending = <<ui'.pending[1]>>
    BY <1>0, <2>4 DEF Framed
  <2>6. strays' \subseteq {"question"}
    <3>1. strays \subseteq {"question"} /\ drawn.question = ui.pending
          /\ drawn.agent = At(drawn.builds, ui.build, 0)
          /\ (ui.pending # <<>> => ui.pending = <<ui.pending[1]>>)
      BY <1>0, <2>1 DEF Framed
    <3>2. CASE RequestRun
      <4>1. drawn.builds[ui.build] = drawn.agent
        BY <3>1, <3>2 DEF RequestRun, At
      <4>. QED
        BY <3>1, <3>2, <4>1 DEF RequestRun
    <3>3. CASE Confirm
      BY <3>1, <3>3 DEF Confirm, Confirmed
    <3>4. CASE \E approve \in BOOLEAN : Ask(approve)
      BY <3>1, <3>4 DEF Ask
    <3>5. CASE UNCHANGED strays
      BY <3>1, <3>5
    <3>. QED
      BY <1>7, <3>2, <3>3, <3>4, <3>5 DEF Keys, SwitchTab, MoveBuild, MoveRow, Cancel, Quit
  <2>7. pc' \in [Proc -> Position] /\ pc'["action"] = pc["action"] /\ pc'["ui"] # "key"
    BY <1>0, <2>1
  <2>8. Framed'
    BY <2>5, <2>6, <2>7 DEF Framed
  <2>. QED
    BY <1>5, <2>1, <2>2, <2>4, <2>7, <2>8
(* The decisions. *)
<1>8. ASSUME UNCHANGED Framing, UNCHANGED use, pc' \in [Proc -> Position], pc'["ui"] = pc["ui"],
             rows' \in [Call -> RowState], ends' \in [Call -> Nat], IsChannel(decisions'),
             Busy', "others" \notin use => Claimed' /\ EndedOnce'
      PROVE  Ordered'
  <2>1. Shaped'
    BY <1>0, <1>8 DEF Shaped, Framing
  <2>2. Framed'
    BY <1>0, <1>8 DEF Framed, Framing
  <2>. QED
    BY <1>8, <2>1, <2>2 DEF Ordered
<1>9. ASSUME Done, pc["action"] \in {"gateway", "decide"}
      PROVE  /\ pc' \in [Proc -> Position] /\ pc'["ui"] = pc["ui"] /\ pc'["action"] = "builds"
             /\ IsChannel(decisions') /\ Busy' /\ Claimed'
  <2>1. pc' = [pc EXCEPT !["action"] = "builds"] /\ decisions' = Tail(decisions)
    BY <1>9 DEF Done
  <2>2. pc' \in [Proc -> Position] /\ pc'["ui"] = pc["ui"] /\ pc'["action"] = "builds"
    BY <1>0, <2>1 DEF Loading
  <2>3. IsChannel(decisions')
    BY <1>0, <1>9, <2>1, Channels DEF Shaped, Busy
  <2>. QED
    BY <2>2, <2>3 DEF Busy, Claimed
<1>10. CASE TakeDecision
  <2>1. /\ UNCHANGED Framing /\ UNCHANGED Deciding /\ use' = use
        /\ pc' = [pc EXCEPT !["action"] = "gateway"] /\ decisions # <<>>
    BY <1>10 DEF TakeDecision, Framing, Deciding
  <2>2. pc' \in [Proc -> Position] /\ pc'["ui"] = pc["ui"] /\ pc'["action"] = "gateway"
    BY <1>0, <2>1
  <2>3. Busy' /\ Claimed'
    BY <2>1, <2>2 DEF Busy, Claimed, Deciding, Decision
  <2>4. "others" \notin use => EndedOnce'
    BY <1>0, <2>1 DEF EndedOnce, Deciding
  <2>. QED
    BY <1>0, <1>8, <2>1, <2>2, <2>3, <2>4 DEF Deciding, Shaped
<1>11. CASE GatewayFails \/ (Look /\ Done)
  <2>1. /\ UNCHANGED Framing /\ UNCHANGED <<rows, ends>> /\ use' = use
        /\ Done /\ pc["action"] = "gateway"
    BY <1>11 DEF GatewayFails, Look, Framing
  <2>2. "others" \notin use => EndedOnce'
    BY <1>0, <2>1 DEF EndedOnce
  <2>. QED
    BY <1>0, <1>8, <1>9, <2>1, <2>2 DEF Shaped
<1>12. CASE Look /\ ~Done
  <2>1. /\ UNCHANGED Framing /\ UNCHANGED Deciding /\ use' = use
        /\ pc' = [pc EXCEPT !["action"] = "clear"] /\ decisions # <<>>
        /\ rows[Decision.call] = "parked"
    BY <1>0, <1>12 DEF Look, Framing, Deciding, Busy
  <2>2. pc' \in [Proc -> Position] /\ pc'["ui"] = pc["ui"] /\ pc'["action"] = "clear"
    BY <1>0, <2>1
  <2>3. Busy' /\ Claimed'
    BY <2>1, <2>2 DEF Busy, Claimed, Deciding, Decision
  <2>4. "others" \notin use => EndedOnce'
    BY <1>0, <2>1 DEF EndedOnce, Deciding
  <2>. QED
    BY <1>0, <1>8, <2>1, <2>2, <2>3, <2>4 DEF Deciding, Shaped
<1>13. CASE Clear
  <2>. DEFINE d == Decision.call
  <2>1. /\ UNCHANGED Framing /\ UNCHANGED <<ends, decisions>> /\ use' = use
        /\ pc' = [pc EXCEPT !["action"] = "decide"] /\ pc["action"] = "clear"
        /\ rows' = [rows EXCEPT ![d] = IF rows[d] = "parked" THEN "cleared" ELSE rows[d]]
    BY <1>13 DEF Clear, Unpark, Framing
  <2>2. pc' \in [Proc -> Position] /\ pc'["ui"] = pc["ui"] /\ pc'["action"] = "decide"
        /\ Decision' = Decision
    BY <1>0, <2>1 DEF Decision
  <2>3. d' = d
    BY <2>2
  <2>4. rows \in [Call -> RowState] /\ ends \in [Call -> Nat]
    BY <1>0 DEF Shaped
  <2>. HIDE DEF d
  <2>5. rows' \in [Call -> RowState] /\ ends' \in [Call -> Nat]
    BY <2>1, <2>4 DEF RowState
  <2>6. Busy'
    BY <1>0, <2>1, <2>2 DEF Busy
  <2>7. ASSUME "others" \notin use PROVE Claimed'
    <3>1. d \in Call /\ decisions # <<>> => rows[d] = "parked"
      BY <1>0, <2>1, <2>7 DEF Claimed, d
    <3>2. d \in Call /\ decisions # <<>> => rows'[d] = "cleared"
      BY <2>1, <2>4, <3>1
    <3>. QED
      BY <2>1, <2>2, <2>3, <3>2 DEF Claimed, d
  <2>8. ASSUME "others" \notin use PROVE EndedOnce'
    <3>1. EndedOnce
      BY <1>0, <2>8
    <3>2. ASSUME NEW c \in Call PROVE rows'[c] = rows[c] \/ rows[c] = "parked"
      BY <2>1, <2>4
    <3>. QED
      BY <2>1, <3>1, <3>2 DEF EndedOnce
  <2>9. IsChannel(decisions')
    BY <1>0, <2>1 DEF Shaped
  <2>. QED
    BY <1>8, <2>1, <2>2, <2>5, <2>6, <2>7, <2>8, <2>9
<1>14. CASE Decide
  <2>. DEFINE d == Decision.call
              how == IF Decision.approve THEN "approved" ELSE "denied"
  <2>1. /\ UNCHANGED Framing /\ use' = use /\ Done /\ pc["action"] = "decide"
        /\ rows' = [rows EXCEPT ![d] = how] /\ ends' = [ends EXCEPT ![d] = ends[d] + 1]
    BY <1>14 DEF Decide, Framing
  <2>2. how \in {"approved", "denied"} /\ decisions # <<>>
    BY <1>0, <2>1 DEF Busy
  <2>3. rows \in [Call -> RowState] /\ ends \in [Call -> Nat]
    BY <1>0 DEF Shaped
  <2>. HIDE DEF how
  <2>4. ASSUME "others" \notin use, d \in Call PROVE ends[d] = 0
    BY <1>0, <2>1, <2>2, <2>4 DEF Claimed, EndedOnce
  <2>. HIDE DEF d
  <2>5. rows' \in [Call -> RowState] /\ ends' \in [Call -> Nat]
    <3>1. \A c \in Call : ends[c] + 1 \in Nat
      BY <2>3
    <3>2. ends' \in [Call -> Nat]
      BY <2>1, <2>3, <3>1
    <3>3. how \in RowState
      BY <2>2 DEF RowState
    <3>. QED
      BY <2>1, <2>3, <3>2, <3>3
  <2>6. ASSUME "others" \notin use, NEW c \in Call
        PROVE  ends'[c] <= 1 /\ (rows'[c] \in {"absent", "parked", "cleared"} => ends'[c] = 0)
    <3>1. CASE c = d
      BY <2>1, <2>2, <2>3, <2>4, <2>6, <3>1
    <3>2. CASE c # d
      BY <1>0, <2>1, <2>3, <2>6, <3>2 DEF EndedOnce
    <3>. QED
      BY <3>1, <3>2
  <2>. QED
    BY <1>8, <1>9, <2>1, <2>5, <2>6 DEF EndedOnce
<1>15. ASSUME NEW c \in Call, Park(c) \/ DecideElsewhere(c) PROVE Ordered'
  <2>1. /\ UNCHANGED Framing /\ UNCHANGED <<decisions, pc>> /\ use' = use
        /\ "others" \notin use => /\ rows[c] = "absent" /\ ends' = ends
                                  /\ rows' = [rows EXCEPT ![c] = "parked"]
    BY <1>15 DEF Park, DecideElsewhere, Framing
  <2>2. rows' \in [Call -> RowState] /\ ends' \in [Call -> Nat]
    <3>1. rows \in [Call -> RowState] /\ ends \in [Call -> Nat] /\ ends[c] + 1 \in Nat
      BY <1>0 DEF Shaped
    <3>2. CASE Park(c)
      BY <3>1, <3>2 DEF Park, RowState
    <3>3. CASE DecideElsewhere(c)
      BY <3>1, <3>3 DEF DecideElsewhere, Unpark, RowState
    <3>. QED
      BY <1>15, <3>2, <3>3
  <2>3. Busy'
    BY <1>0, <2>1 DEF Busy
  <2>4. ASSUME "others" \notin use PROVE Claimed' /\ EndedOnce'
    <3>1. rows \in [Call -> RowState] /\ Claimed /\ EndedOnce
      BY <1>0, <2>4 DEF Shaped
    <3>. QED
      BY <2>1, <2>4, <3>1 DEF Claimed, EndedOnce, Decision
  <2>. QED
    BY <1>0, <1>8, <2>1, <2>2, <2>3, <2>4 DEF Shaped
<1>16. CASE Work
  BY <1>2, <1>10, <1>11, <1>12, <1>13, <1>14, <1>16 DEF Work
<1>17. CASE Environment
  BY <1>3, <1>15, <1>17 DEF Environment
<1>. QED
  BY <1>1, <1>3, <1>6, <1>7, <1>16, <1>17 DEF Next

LEMMA OrderedHolds == Spec => []Ordered
  BY InitOrdered, OrderedStep, PTL DEF Spec

(* ops.rs tui_loop: `y` decides what the question on the screen names, and    *)
(* Enter runs the agent that is highlighted, whatever a load replaced since   *)
(* the frame was drawn.                                                      *)
THEOREM ScreenIsHeeded == Spec => []ShownIsDone
<1>1. Ordered => ShownIsDone
  BY DEF Ordered, Framed, ShownIsDone
<1>. QED
  BY <1>1, OrderedHolds, PTL

(* ops.rs run_gateway_actions, with parked_row of the gateway: as long as     *)
(* nobody else decides, a call is executed or denied once, however often and  *)
(* from whatever outdated list it was decided.                               *)
THEOREM CallIsDecidedOnce == Spec => []DecidedOnce
<1>1. Ordered => DecidedOnce
  BY DEF Ordered, EndedOnce, DecidedOnce
<1>. QED
  BY <1>1, OrderedHolds, PTL

-----------------------------------------------------------------------------
(* dist/ under one builder.                                                  *)

OneBuilder == \A b, c \in Builder : b = c

(* The records of the builders and of the runs have their fields.            *)
BuilderFields == {"pc", "watching", "frozen", "todo", "read", "locked", "seen"}
RunFields == {"pc", "manifest", "got", "pinned"}
Fielded ==
  /\ DOMAIN builder = Builder /\ DOMAIN session = Session
  /\ \A b \in Builder : DOMAIN builder[b] = BuilderFields /\ builder[b].todo \subseteq Prompt
  /\ \A s \in Session : DOMAIN session[s] = RunFields

(* A build that writes has taken the old manifest away, has written every     *)
(* prompt that it need not write any more, and the routing after them.       *)
Writing(b) == builder[b].pc \in {"prompts", "routing", "tools", "manifest"}
Building ==
  \A b \in Builder : Writing(b) =>
    /\ "manifest" \notin DOMAIN dist
    /\ \A p \in Prompt :
         builder[b].pc # "prompts" \/ p \notin builder[b].todo
           => p \in DOMAIN dist /\ dist[p] = builder[b].read[p]
    /\ builder[b].pc \in {"tools", "manifest"} =>
         "routing" \in DOMAIN dist /\ dist["routing"] = builder[b].read

(* Every manifest there is, in dist/ or in a run's hands, is one build's, and *)
(* a run has read what its manifest lists.                                   *)
Whole(m) == OfOneBuild(m.files)
Manifested ==
  /\ "manifest" \in DOMAIN dist => Whole(dist["manifest"])
  /\ \A s \in Session : session[s].pc = "new" => DOMAIN session[s].got = {}
  /\ \A s \in Session : session[s].pc = "verify" =>
       /\ Whole(session[s].manifest)
       /\ \A f \in DOMAIN session[s].got : session[s].got[f] = session[s].manifest.files[f]

DistInv == Fielded /\ Building /\ ManifestCovers /\ Manifested /\ BundlesAreWhole

(* Written and removed files.                                                *)
LEMMA WrittenFile ==
  ASSUME NEW files, NEW f, NEW content
  PROVE  /\ DOMAIN Written(files, f, content) = DOMAIN files \cup {f}
         /\ Written(files, f, content)[f] = content
         /\ \A g \in DOMAIN files : g # f => Written(files, f, content)[g] = files[g]
  BY DEF Written
LEMMA RestrictedFiles ==
  ASSUME NEW files, NEW S
  PROVE  /\ DOMAIN Restrict(files, S) = S
         /\ \A g \in S : Restrict(files, S)[g] = files[g]
  BY DEF Restrict

LEMMA EndingRecord ==
  ASSUME NEW r, DOMAIN r = BuilderFields, r.todo \subseteq Prompt
  PROVE  /\ DOMAIN Ending(r) = BuilderFields /\ Ending(r).todo \subseteq Prompt
         /\ Ending(r).pc \in {"off", "poll"}
  BY DEF Ending, Off, Empty, BuilderFields

(* What a builder may do with the invariant in mind: nothing to dist/ and its *)
(* record does not claim more; a step of the write.                          *)
LEMMA Idles ==
  ASSUME DistInv, OneBuilder, NEW b \in Builder, UNCHANGED <<dist, stored, session>>,
         DOMAIN builder' = Builder, \A c \in Builder \ {b} : builder'[c] = builder[c],
         DOMAIN builder'[b] = BuilderFields, builder'[b].todo \subseteq Prompt,
         ~Writing(b)'
  PROVE  DistInv'
<1>1. Fielded'
  BY DEF DistInv, Fielded
<1>2. Building'
  BY DEF Building, OneBuilder
<1>. QED
  BY <1>1, <1>2 DEF DistInv, Manifested, Whole, ManifestCovers, BundlesAreWhole, OfOneBuild

LEMMA BuilderSteps ==
  ASSUME DistInv, OneBuilder, NEW b \in Builder,
         Step(b) \/ Kill(b)
           \/ \E watching, frozen : Begin(b, watching, frozen)
  PROVE  DistInv'
<1>. USE DEF Unbuilt
<1>a. /\ DOMAIN builder = Builder /\ DOMAIN builder[b] = BuilderFields
      /\ builder[b].todo \subseteq Prompt
  BY DEF DistInv, Fielded
<1>. DEFINE ended == Ending(builder[b])
<1>b. DOMAIN ended = BuilderFields /\ ended.todo \subseteq Prompt /\ ended.pc \in {"off", "poll"}
  BY <1>a, EndingRecord
<1>. HIDE DEF ended
<1>1. ASSUME NEW watching, NEW frozen, Begin(b, watching, frozen) PROVE DistInv'
  <2>1. /\ DOMAIN builder'[b] = BuilderFields /\ builder'[b].todo \subseteq Prompt
        /\ builder'[b].pc = "compile"
    BY <1>1, <1>a DEF Begin, Starting, BuilderFields
  <2>. QED
    BY <1>1, <1>a, <2>1, Idles DEF Begin, Writing
<1>2. ASSUME Poll(b) PROVE DistInv'
  <2>1. /\ DOMAIN builder'[b] = BuilderFields /\ builder'[b].todo \subseteq Prompt
        /\ builder'[b].pc = "compile"
    BY <1>2, <1>a DEF Poll, Starting, BuilderFields
  <2>. QED
    BY <1>2, <1>a, <2>1, Idles DEF Poll, Writing
<1>3. ASSUME NEW p \in Prompt, Compile(b, p) PROVE DistInv'
  <2>1. CASE source[p].form = "unparsed"
    <3>1. builder'[b] = ended /\ \A c \in Builder \ {b} : builder'[c] = builder[c]
      BY <1>3, <2>1, <1>a DEF Compile, ended
    <3>. QED
      BY <1>3, <1>a, <1>b, <3>1, Idles DEF Compile, Writing
  <2>2. CASE source[p].form # "unparsed"
    <3>1. /\ DOMAIN builder'[b] = BuilderFields /\ builder'[b].todo \subseteq Prompt
          /\ builder'[b].pc \in {"clear", "compile"}
      <4>. DEFINE read == Written(builder[b].read, p, source[p])
                  next == IF builder[b].todo = {p} THEN "clear" ELSE "compile"
      <4>1. builder'[b] = [builder[b] EXCEPT !.read = read, !.todo = @ \ {p}, !.pc = next]
        BY <1>3, <2>2, <1>a DEF Compile
      <4>2. builder[b].pc = "compile"
        BY <1>3 DEF Compile
      <4>. HIDE DEF read
      <4>. QED
        BY <4>1, <4>2, <1>a DEF BuilderFields
    <3>. QED
      BY <1>3, <1>a, <3>1, Idles DEF Compile, Writing
  <2>. QED
    BY <2>1, <2>2
<1>4. ASSUME NEW f \in DOMAIN dist, ClearFile(b, f) PROVE DistInv'
  <2>1. /\ DOMAIN dist' = DOMAIN dist \ {f} /\ \A g \in DOMAIN dist' : dist'[g] = dist[g]
        /\ UNCHANGED <<builder, stored, session>> /\ ~Writing(b)
    BY <1>4, RestrictedFiles DEF ClearFile, Writing
  <2>2. Building' /\ Fielded'
    BY <2>1 DEF DistInv, Fielded, Building, OneBuilder, Writing
  <2>3. ManifestCovers' /\ Manifested'
    BY <2>1 DEF DistInv, Manifested, Whole, ManifestCovers, OfOneBuild
  <2>. QED
    BY <2>1, <2>2, <2>3 DEF DistInv, BundlesAreWhole, OfOneBuild
<1>5. ASSUME MakeDir(b) PROVE DistInv'
  <2>1. /\ DOMAIN builder'[b] = BuilderFields /\ builder'[b].todo = Prompt
        /\ builder'[b].pc = "prompts" /\ DOMAIN builder' = Builder /\ DOMAIN dist = {}
    BY <1>5, <1>a DEF MakeDir, BuilderFields, Empty
  <2>2. Fielded'
    BY <1>5, <2>1 DEF DistInv, Fielded, MakeDir
  <2>3. Building'
    BY <1>5, <2>1 DEF Building, OneBuilder, Writing, MakeDir
  <2>. QED
    BY <1>5, <2>2, <2>3
    DEF DistInv, Manifested, Whole, ManifestCovers, BundlesAreWhole, OfOneBuild, MakeDir
<1>6. ASSUME NEW p \in Prompt, WritePrompt(b, p) PROVE DistInv'
  <2>1. CASE builder[b].read[p].form = "rejected"
    <3>1. builder'[b] = ended /\ \A c \in Builder \ {b} : builder'[c] = builder[c]
      BY <1>6, <2>1, <1>a DEF WritePrompt, ended
    <3>. QED
      BY <1>6, <2>1, <1>a, <1>b, <3>1, Idles DEF WritePrompt, Writing
  <2>2. CASE builder[b].read[p].form # "rejected"
    <3>1. /\ DOMAIN builder'[b] = BuilderFields /\ builder'[b].todo = builder[b].todo \ {p}
          /\ builder'[b].pc = IF builder[b].todo = {p} THEN "routing" ELSE "prompts"
          /\ builder'[b].read = builder[b].read /\ DOMAIN builder' = Builder
          /\ builder[b].pc = "prompts" /\ UNCHANGED <<stored, session>>
      BY <1>6, <2>2, <1>a DEF WritePrompt, BuilderFields
    <3>2. /\ DOMAIN dist' = DOMAIN dist \cup {p} /\ dist'[p] = builder[b].read[p]
          /\ \A g \in DOMAIN dist : g # p => dist'[g] = dist[g]
      BY <1>6, <2>2 DEF WritePrompt, Written
    <3>3. "manifest" \notin DOMAIN dist' /\ p # "routing"
      BY <3>1, <3>2, NameAssumption DEF DistInv, Building, Writing
    <3>4. Fielded'
      BY <3>1, <1>6, <2>2 DEF DistInv, Fielded, WritePrompt, OneBuilder
    <3>5. Building'
      BY <3>1, <3>2, <3>3 DEF DistInv, Building, OneBuilder, Writing
    <3>. QED
      BY <3>1, <3>3, <3>4, <3>5
      DEF DistInv, Manifested, Whole, ManifestCovers, BundlesAreWhole, OfOneBuild
  <2>. QED
    BY <2>1, <2>2
<1>7. ASSUME WriteRouting(b) PROVE DistInv'
  <2>1. /\ DOMAIN builder'[b] = BuilderFields /\ builder'[b].todo = builder[b].todo
        /\ builder'[b].pc = "tools" /\ builder[b].pc = "routing"
        /\ builder'[b].read = builder[b].read /\ DOMAIN builder' = Builder
        /\ UNCHANGED <<stored, session>>
    BY <1>7, <1>a DEF WriteRouting, BuilderFields
  <2>2. /\ DOMAIN dist' = DOMAIN dist \cup {"routing"} /\ dist'["routing"] = builder[b].read
        /\ \A g \in DOMAIN dist : g # "routing" => dist'[g] = dist[g]
    BY <1>7 DEF WriteRouting, Written
  <2>3. "manifest" \notin DOMAIN dist' /\ "routing" \notin Prompt
    BY <2>1, <2>2, NameAssumption DEF DistInv, Building, Writing
  <2>4. Fielded'
    BY <2>1, <1>7, <1>a DEF DistInv, Fielded, WriteRouting, OneBuilder
  <2>5. Building'
    BY <2>1, <2>2, <2>3 DEF DistInv, Building, OneBuilder, Writing
  <2>. QED
    BY <2>1, <2>3, <2>4, <2>5
    DEF DistInv, Manifested, Whole, ManifestCovers, BundlesAreWhole, OfOneBuild
<1>8. ASSUME WriteTools(b) PROVE DistInv'
  <2>1. CASE source["agent"].form # "sound"
    <3>1. builder'[b] = ended /\ \A c \in Builder \ {b} : builder'[c] = builder[c]
      BY <1>8, <2>1, <1>a DEF WriteTools, ended
    <3>. QED
      BY <1>8, <2>1, <1>a, <1>b, <3>1, Idles DEF WriteTools, Writing
  <2>2. CASE source["agent"].form = "sound"
    <3>1. /\ DOMAIN builder'[b] = BuilderFields /\ builder'[b].todo = builder[b].todo
          /\ builder'[b].pc = "manifest" /\ builder[b].pc = "tools"
          /\ builder'[b].read = builder[b].read /\ DOMAIN builder' = Builder
          /\ UNCHANGED <<stored, session>>
      BY <1>8, <2>2, <1>a DEF WriteTools, BuilderFields
    <3>2. /\ DOMAIN dist' = DOMAIN dist \cup {"tools"}
          /\ \A g \in DOMAIN dist : g # "tools" => dist'[g] = dist[g]
      BY <1>8, <2>2 DEF WriteTools, Written
    <3>3. "manifest" \notin DOMAIN dist' /\ "tools" \notin Prompt
      BY <3>1, <3>2, NameAssumption DEF DistInv, Building, Writing
    <3>4. Fielded'
      BY <3>1, <1>8, <1>a DEF DistInv, Fielded, WriteTools, OneBuilder
    <3>5. Building'
      BY <3>1, <3>2, <3>3 DEF DistInv, Building, OneBuilder, Writing
    <3>. QED
      BY <3>1, <3>3, <3>4, <3>5
      DEF DistInv, Manifested, Whole, ManifestCovers, BundlesAreWhole, OfOneBuild
  <2>. QED
    BY <2>1, <2>2
<1>9. ASSUME WriteManifest(b) PROVE DistInv'
  <2>1. /\ DOMAIN builder'[b] = BuilderFields /\ builder'[b].todo \subseteq Prompt
        /\ builder'[b].pc \in {"off", "poll", "lock"} /\ builder[b].pc = "manifest"
        /\ DOMAIN builder' = Builder /\ UNCHANGED <<stored, session>>
    <3>1. builder'[b] = IF builder[b].frozen THEN ended ELSE [builder[b] EXCEPT !.pc = "lock"]
      BY <1>9, <1>a DEF WriteManifest, ended
    <3>. QED
      BY <1>9, <3>1, <1>a, <1>b DEF WriteManifest, BuilderFields
  <2>. DEFINE m == ManifestOf(b)
              kept == DOMAIN dist \ {"manifest"}
  <2>2. /\ DOMAIN m.files = kept /\ \A g \in kept : m.files[g] = dist[g]
    BY RestrictedFiles DEF ManifestOf
  <2>3. /\ DOMAIN dist' = DOMAIN dist \cup {"manifest"} /\ dist'["manifest"] = m
        /\ \A g \in kept : dist'[g] = dist[g]
    BY <1>9 DEF WriteManifest, Written
  <2>. HIDE DEF m
  <2>4. ManifestCovers'
    BY <2>2, <2>3 DEF ManifestCovers
  <2>5. Whole(m)
    <3>1. /\ Prompt \cup {"routing"} \subseteq kept
          /\ dist["routing"] = builder[b].read
          /\ \A p \in Prompt : dist[p] = builder[b].read[p]
      BY <2>1, NameAssumption DEF DistInv, Building, Writing
    <3>. QED
      BY <2>2, <3>1 DEF Whole, OfOneBuild
  <2>6. Fielded' /\ Building'
    BY <2>1, <1>9, <1>a DEF DistInv, Fielded, Building, OneBuilder, Writing, WriteManifest
  <2>7. Manifested'
    BY <2>1, <2>3, <2>5 DEF DistInv, Manifested, Whole, OfOneBuild
  <2>. QED
    BY <2>1, <2>4, <2>6, <2>7 DEF DistInv, BundlesAreWhole, OfOneBuild
<1>10. ASSUME RewriteLock(b) PROVE DistInv'
  <2>1. builder'[b] = ended /\ \A c \in Builder \ {b} : builder'[c] = builder[c]
    BY <1>10, <1>a DEF RewriteLock, ended
  <2>. QED
    BY <1>10, <1>a, <1>b, <2>1, Idles DEF RewriteLock, Writing
<1>11. ASSUME Kill(b) PROVE DistInv'
  <2>1. /\ DOMAIN builder'[b] = BuilderFields /\ builder'[b].todo \subseteq Prompt
        /\ builder'[b].pc = "off"
    BY <1>11, <1>a DEF Kill, Off, BuilderFields
  <2>. QED
    BY <1>11, <1>a, <2>1, Idles DEF Kill, Writing
<1>. QED
  BY <1>1, <1>2, <1>3, <1>4, <1>5, <1>6, <1>7, <1>8, <1>9, <1>10, <1>11 DEF Step

(* A run changes its own record and the store, and dist/ never.              *)
LEMMA RunSteps ==
  ASSUME DistInv, NEW s \in Session, Run(s)
  PROVE  DistInv'
<1>. USE DEF Unrun
<1>a. DOMAIN session = Session /\ DOMAIN session[s] = RunFields
  BY DEF DistInv, Fielded
<1>. DEFINE Apart ==
       /\ UNCHANGED <<dist, builder>> /\ DOMAIN session' = Session
       /\ DOMAIN session'[s] = RunFields
       /\ \A t \in Session \ {s} : session'[t] = session[t]
<1>b. ASSUME Apart, session'[s].pc \notin {"new", "verify"}, UNCHANGED stored PROVE DistInv'
  <2>1. Fielded' /\ Building'
    BY <1>b DEF DistInv, Fielded, Building, Writing
  <2>2. Manifested'
    BY <1>b DEF DistInv, Manifested, Whole, OfOneBuild
  <2>. QED
    BY <1>b, <2>1, <2>2 DEF DistInv, ManifestCovers, BundlesAreWhole, OfOneBuild
<1>c. ASSUME Fail(s) PROVE DOMAIN session' = Session /\ DOMAIN session'[s] = RunFields
        /\ session'[s].pc = "failed" /\ \A t \in Session \ {s} : session'[t] = session[t]
  BY <1>c, <1>a DEF Fail, Set, RunFields
<1>1. ASSUME OpenBundle(s) PROVE DistInv'
  <2>1. CASE "manifest" \notin DOMAIN dist
    BY <1>1, <1>b, <1>c, <2>1 DEF OpenBundle
  <2>2. CASE "manifest" \in DOMAIN dist
    <3>1. Apart /\ session'[s].manifest = dist["manifest"] /\ session'[s].got = session[s].got
          /\ UNCHANGED stored
      BY <1>1, <1>a, <2>2 DEF OpenBundle, Set, RunFields
    <3>2. Fielded' /\ Building'
      BY <3>1 DEF DistInv, Fielded, Building, Writing
    <3>3. session[s].pc = "new" /\ session'[s].pc = "verify"
      BY <1>1, <1>a, <2>2 DEF OpenBundle, Set, RunFields
    <3>4. Manifested'
      BY <2>2, <3>1, <3>3 DEF DistInv, Manifested, Whole, OfOneBuild
    <3>. QED
      BY <3>1, <3>2, <3>4 DEF DistInv, ManifestCovers, BundlesAreWhole, OfOneBuild
  <2>. QED
    BY <2>1, <2>2
<1>2. ASSUME NEW f \in Artifact, VerifyFile(s, f) PROVE DistInv'
  <2>. DEFINE ok == f \in DOMAIN dist /\ dist[f] = session[s].manifest.files[f]
              got == Written(session[s].got, f, dist[f])
  <2>1. CASE ~ok
    BY <1>2, <1>b, <1>c, <2>1 DEF VerifyFile
  <2>2. CASE ok
    <3>1. /\ Apart /\ UNCHANGED stored /\ session[s].pc = "verify"
          /\ session'[s] = [session[s] EXCEPT !.got = got]
      BY <1>2, <1>a, <2>2 DEF VerifyFile, Set, RunFields
    <3>2. Fielded' /\ Building'
      BY <3>1 DEF DistInv, Fielded, Building, Writing
    <3>3. /\ session'[s].manifest = session[s].manifest /\ session'[s].got = got
          /\ session'[s].pc = "verify"
      BY <3>1, <1>a DEF RunFields
    <3>4. \A g \in DOMAIN got : got[g] = session[s].manifest.files[g]
      BY <2>2, <3>1 DEF DistInv, Manifested, Written
    <3>. HIDE DEF got
    <3>5. Manifested'
      <4>1. ("manifest" \in DOMAIN dist => Whole(dist["manifest"]))'
        BY <3>1 DEF DistInv, Manifested, Whole, OfOneBuild
      <4>2. ASSUME NEW t \in Session, t # s
            PROVE  /\ session'[t].pc = "new" => DOMAIN session'[t].got = {}
                   /\ session'[t].pc = "verify" =>
                        /\ Whole(session'[t].manifest)
                        /\ \A g \in DOMAIN session'[t].got :
                             session'[t].got[g] = session'[t].manifest.files[g]
        BY <3>1, <4>2 DEF DistInv, Manifested
      <4>3. Whole(session'[s].manifest)
        BY <3>1, <3>3 DEF DistInv, Manifested
      <4>. QED
        BY <3>3, <3>4, <4>1, <4>2, <4>3 DEF Manifested, Whole, OfOneBuild
    <3>. QED
      BY <3>1, <3>2, <3>5 DEF DistInv, ManifestCovers, BundlesAreWhole, OfOneBuild
  <2>. QED
    BY <2>1, <2>2
<1>3. ASSUME Ingest(s) PROVE DistInv'
  <2>1. /\ Apart /\ session[s].pc = "verify" /\ session'[s].pc = "open"
        /\ DOMAIN session[s].got = DOMAIN session[s].manifest.files
        /\ \A bundle \in stored' : bundle \in stored \/ bundle.files = session[s].got
    BY <1>3, <1>a DEF Ingest, Set, RunFields
  <2>2. OfOneBuild(session[s].got)
    BY <2>1 DEF DistInv, Manifested, Whole, OfOneBuild
  <2>3. BundlesAreWhole'
    BY <2>1, <2>2 DEF DistInv, BundlesAreWhole, OfOneBuild
  <2>4. Fielded' /\ Building' /\ ManifestCovers'
    BY <2>1 DEF DistInv, Fielded, Building, Writing, ManifestCovers
  <2>5. Manifested'
    BY <2>1 DEF DistInv, Manifested, Whole, OfOneBuild
  <2>. QED
    BY <2>3, <2>4, <2>5 DEF DistInv
<1>4. ASSUME OpenDist(s) \/ LoadRouting(s) PROVE DistInv'
  <2>1. CASE Fail(s)
    BY <1>4, <1>b, <1>c, <2>1 DEF OpenDist, LoadRouting
  <2>2. CASE ~Fail(s)
    <3>1. Apart /\ session'[s].pc \in {"routing", "prompts"} /\ UNCHANGED stored
      BY ZenonT(20), <1>4, <1>a, <2>2 DEF OpenDist, LoadRouting, Set, RunFields
    <3>. QED
      BY <3>1, <1>b
  <2>. QED
    BY <2>1, <2>2
<1>5. ASSUME \/ LoadPrompts(s) \/ StartSession(s) \/ Die(s) \/ Resume(s)
             \/ \E hash \in StoredHashes : Migrate(s, hash)
      PROVE  DistInv'
  <2>1. Apart /\ session'[s].pc \in {"loaded", "live", "dead"} /\ UNCHANGED stored
    BY <1>5, <1>a DEF LoadPrompts, StartSession, Die, Resume, Migrate,
                      Set, RunFields
  <2>. QED
    BY <2>1, <1>b
<1>. QED
  BY <1>1, <1>2, <1>3, <1>4, <1>5 DEF Run

LEMMA DistStep ==
  ASSUME DistInv, OneBuilder, [DistNext]_distVars
  PROVE  DistInv'
<1>. DEFINE Quiet == UNCHANGED <<dist, builder, stored, session>>
<1>1. ASSUME Quiet PROVE DistInv'
  BY <1>1 DEF DistInv, Fielded, Building, Writing, Manifested, Whole, OfOneBuild,
              ManifestCovers, BundlesAreWhole
<1>2. ASSUME NEW f, NEW form, Edit(f, form) PROVE Quiet
  BY <1>2 DEF Edit
<1>3. EditLock \/ UNCHANGED distVars => Quiet
  BY DEF EditLock, distVars
<1>4. ASSUME NEW b \in Builder, NEW watching, NEW frozen, Begin(b, watching, frozen)
      PROVE  DistInv'
  BY <1>4, BuilderSteps
<1>. HIDE DEF Quiet
<1>. QED
  BY <1>1, <1>2, <1>3, <1>4, BuilderSteps, RunSteps DEF DistNext

LEMMA DistStarts == DistInit => DistInv
<1>. SUFFICES ASSUME DistInit PROVE DistInv
  OBVIOUS
<1>1. DOMAIN dist = {} /\ stored = {}
  BY DEF DistInit, Empty
<1>2. /\ DOMAIN builder = Builder
    /\ \A b \in Builder : DOMAIN builder[b] = BuilderFields /\ builder[b].pc = "off"
                              /\ builder[b].todo = {}
  BY DEF DistInit, Off, BuilderFields
<1>3. /\ DOMAIN session = Session
    /\ \A s \in Session : /\ DOMAIN session[s] = RunFields /\ session[s].pc = "new"
                /\ DOMAIN session[s].got = {}
  BY DEF DistInit, Empty, RunFields
<1>. QED
  BY <1>1, <1>2, <1>3 DEF DistInv, Fielded, Building, Writing, Manifested, ManifestCovers,
                          BundlesAreWhole

(* A manifest.json never lies over files that are not what it lists, whatever *)
(* is edited, killed, rejected or read meanwhile: one process builds.         *)
THEOREM ManifestsCover ==
  OneBuilder => (DistSpec => []ManifestCovers)
<1>. SUFFICES ASSUME OneBuilder PROVE DistSpec => []ManifestCovers
  OBVIOUS
<1>. QED
  BY DistStarts, DistStep, PTL DEF DistInv, DistSpec

(* What the artifact store holds, and a resumed session runs, is one build's: *)
(* ingest_artifact_bundle takes only what the manifest it opened first lists. *)
THEOREM StoredIsWhole ==
  OneBuilder => (DistSpec => []BundlesAreWhole)
<1>. SUFFICES ASSUME OneBuilder PROVE DistSpec => []BundlesAreWhole
  OBVIOUS
<1>. QED
  BY DistStarts, DistStep, PTL DEF DistInv, DistSpec

-----------------------------------------------------------------------------
(* One session on the wire: a harness, the daemon, and the command *)

(* The messages of a channel, and what becomes of a channel read or written. *)
Items(q) == {q[i] : i \in 1 .. Len(q)}

LEMMA ItemsAppended ==
  ASSUME NEW q, IsChannel(q), NEW x
  PROVE  /\ Len(q) \in Nat /\ Len(Append(q, x)) = Len(q) + 1
         /\ \A i \in 1 .. Len(q) : Append(q, x)[i] = q[i]
         /\ Append(q, x)[Len(q) + 1] = x
         /\ Items(Append(q, x)) = Items(q) \cup {x}
<1>1. PICK D : q \in Seq(D)
  BY DEF IsChannel
<1>2. q \in Seq(D \cup {x}) /\ x \in D \cup {x}
  BY <1>1, SeqMonotonic
<1>3. /\ Len(q) \in Nat /\ Len(Append(q, x)) = Len(q) + 1
      /\ \A i \in 1 .. Len(q) : Append(q, x)[i] = q[i]
      /\ Append(q, x)[Len(q) + 1] = x
  BY <1>2, AppendProperties, LenProperties
<1>. QED
  BY <1>3 DEF Items

LEMMA ItemsTaken ==
  ASSUME NEW q, IsChannel(q), q # <<>>
  PROVE  /\ Len(q) \in Nat /\ Len(q) >= 1 /\ Len(Tail(q)) = Len(q) - 1
         /\ \A i \in 1 .. Len(q) - 1 : Tail(q)[i] = q[i + 1]
         /\ Head(q) = q[1] /\ Head(q) \in Items(q) /\ Items(Tail(q)) \subseteq Items(q)
<1>1. PICK D : q \in Seq(D)
  BY DEF IsChannel
<1>2. /\ Len(q) \in Nat /\ Len(q) >= 1 /\ Len(Tail(q)) = Len(q) - 1
      /\ \A i \in 1 .. Len(q) - 1 : Tail(q)[i] = q[i + 1]
      /\ Head(q) = q[1]
  BY <1>1, HeadTailProperties, EmptySeq, LenProperties
<1>. QED
  BY <1>2 DEF Items

LEMMA ItemsKept ==
  ASSUME NEW q, IsChannel(q), NEW n \in 0 .. Len(q)
  PROVE  /\ IsChannel(SubSeq(q, 1, n)) /\ Len(SubSeq(q, 1, n)) = n
         /\ \A i \in 1 .. n : SubSeq(q, 1, n)[i] = q[i]
<1>1. PICK D : q \in Seq(D)
  BY DEF IsChannel
<1>2. /\ SubSeq(q, 1, n) \in Seq(D) /\ Len(SubSeq(q, 1, n)) = n
      /\ \A i \in 1 .. n : SubSeq(q, 1, n)[i] = q[i]
  BY <1>1, SubSeqProperties, LenProperties
<1>. QED
  BY <1>2 DEF IsChannel

LEMMA ItemsRemoved ==
  ASSUME NEW q, IsChannel(q), NEW i \in 1 .. Len(q)
  PROVE  IsChannel(RemoveAt(q, i)) /\ Items(RemoveAt(q, i)) \subseteq Items(q)
<1>1. PICK D : q \in Seq(D)
  BY DEF IsChannel
<1>. DEFINE a == SubSeq(q, 1, i - 1)
            b == SubSeq(q, i + 1, Len(q))
<1>2. /\ a \in Seq(D) /\ Len(a) = i - 1 /\ \A j \in 1 .. i - 1 : a[j] = q[j]
      /\ b \in Seq(D) /\ Len(b) = Len(q) - i /\ \A j \in 1 .. Len(q) - i : b[j] = q[i + j]
      /\ Len(q) \in Nat
  BY <1>1, SubSeqProperties, LenProperties
<1>. HIDE DEF a, b
<1>3. /\ a \o b \in Seq(D) /\ Len(a \o b) = Len(q) - 1
      /\ \A j \in 1 .. Len(q) - 1 : (a \o b)[j] = IF j <= i - 1 THEN a[j] ELSE b[j - (i - 1)]
  <2>1. /\ a \o b \in Seq(D) /\ Len(a \o b) = Len(a) + Len(b)
        /\ \A j \in 1 .. Len(a) + Len(b) :
             (a \o b)[j] = IF j <= Len(a) THEN a[j] ELSE b[j - Len(a)]
    BY <1>2, ConcatProperties
  <2>2. Len(a) + Len(b) = Len(q) - 1
    BY <1>2
  <2>. QED
    BY <1>2, <2>1, <2>2
<1>4. Items(a \o b) \subseteq Items(q)
  <2>1. ASSUME NEW j \in 1 .. Len(q) - 1 PROVE (a \o b)[j] \in Items(q)
    <3>1. CASE j <= i - 1
      BY <1>2, <1>3, <3>1 DEF Items
    <3>2. CASE ~(j <= i - 1)
      <4>1. j - (i - 1) \in 1 .. Len(q) - i /\ i + (j - (i - 1)) \in 1 .. Len(q)
        BY <1>2, <3>2
      <4>. QED
        BY <1>2, <1>3, <3>2, <4>1 DEF Items
    <3>. QED
      BY <3>1, <3>2
  <2>. QED
    BY <2>1, <1>3 DEF Items
<1>5. RemoveAt(q, i) = a \o b
  BY DEF RemoveAt, a, b
<1>. HIDE DEF a, b
<1>. QED
  BY <1>3, <1>4, <1>5 DEF IsChannel

(* A part of a channel: what is left when it is read or cut.                 *)
Within(u, q) ==
  /\ IsChannel(u)
  /\ \E k \in Nat : Len(u) + k <= Len(q) /\ \A i \in 1 .. Len(u) : u[i] = q[i + k]

LEMMA Channel ==
  ASSUME NEW q, IsChannel(q)
  PROVE  /\ Len(q) \in Nat /\ Within(q, q) /\ (q # <<>> => Within(Tail(q), q))
         /\ \A n \in 0 .. Len(q) : Within(SubSeq(q, 1, n), q)
<1>1. Len(q) \in Nat
  BY LenProperties DEF IsChannel
<1>2. Within(q, q)
  <2>1. Len(q) + 0 <= Len(q) /\ \A i \in 1 .. Len(q) : q[i] = q[i + 0]
    BY <1>1
  <2>. QED
    BY <2>1 DEF Within
<1>3. ASSUME q # <<>> PROVE Within(Tail(q), q)
  <2>1. Len(Tail(q)) + 1 <= Len(q) /\ \A i \in 1 .. Len(Tail(q)) : Tail(q)[i] = q[i + 1]
    BY <1>3, ItemsTaken
  <2>. QED
    BY <1>3, <2>1, Channels DEF Within
<1>4. ASSUME NEW n \in 0 .. Len(q) PROVE Within(SubSeq(q, 1, n), q)
  <2>1. /\ Len(SubSeq(q, 1, n)) + 0 <= Len(q)
        /\ \A i \in 1 .. Len(SubSeq(q, 1, n)) : SubSeq(q, 1, n)[i] = q[i + 0]
    BY <1>1, ItemsKept
  <2>. QED
    BY <2>1, ItemsKept DEF Within
<1>. QED
  BY <1>1, <1>2, <1>3, <1>4

(* A request on its way is of a step that was sent, not parked, unanswered,  *)
(* and there is no other of that step; what the daemon tells is what it       *)
(* answered, and what it answered it does not answer again.                  *)
HarnessFields == {"pc", "at", "wants", "later", "stash", "got", "code", "finished", "noisy"}
DaemonFields == {"pc", "pending", "summary", "broke"}
WireShape ==
  /\ IsChannel(up) /\ IsChannel(down) /\ IsChannel(harness.stash)
  /\ DOMAIN harness = HarnessFields /\ DOMAIN daemon = DaemonFields
  /\ DOMAIN harness.got = Steps /\ DOMAIN answered = Steps
  /\ harness.at \in Nat /\ Len(world.script) \in Nat

Decided(n) == answered[n] # Unanswered
Awaited(n) == n \in Steps /\ n < harness.at /\ ~Decided(n)
Once(q) ==
  \A i, j \in 1 .. Len(q) :
    q[i].kind = "request" /\ q[j].kind = "request" /\ q[i].id = q[j].id => i = j
Asking ==
  /\ \A i \in 1 .. Len(up) : up[i].kind = "request" =>
       Awaited(up[i].id) /\ up[i].id \notin daemon.pending
  /\ Once(up)
  /\ \A n \in daemon.pending : Awaited(n)
  /\ \A n \in Steps : Decided(n) => n < harness.at

Truthful(m) == m.kind = "result" => m.id \in Steps /\ Decided(m.id) /\ m.value = answered[m.id]
Telling == \A m \in Items(down) \cup Items(harness.stash) : Truthful(m)
Believing ==
  \A n \in Steps : harness.got[n] # <<>> => Decided(n) /\ harness.got[n] = <<n, answered[n]>>

Wired == WireShape /\ Asking /\ Telling /\ Believing

LEMMA WireStarts == ASSUME WireInit PROVE Wired
<1>1. world.script \in Seq({"request", "signal"})
  <2>1. PICK m \in 0 .. 3 : world.script \in [1 .. m -> {"request", "signal"}]
    BY WorldsAssumption DEF WireInit, Script, SeqOf
  <2>. QED
    BY <2>1, SeqDef
<1>2. Len(world.script) \in Nat
  BY <1>1, LenProperties
<1>3. IsChannel(<<>>) /\ Len(<<>>) = 0 /\ Items(<<>>) = {}
  <2>1. <<>> \in Seq({}) /\ Len(<<>>) = 0
    BY EmptySeq
  <2>. QED
    BY <2>1 DEF IsChannel, Items
<1>. QED
  BY <1>2, <1>3 DEF WireInit, Wired, WireShape, HarnessFields, DaemonFields, Asking, Telling,
                    Believing, Decided, Awaited, Once, Unanswered

LEMMA OnceWithin ==
  ASSUME NEW u, NEW q, IsChannel(q), Once(q), Within(u, q)
  PROVE  Once(u)
<1>1. PICK k \in Nat : Len(u) + k <= Len(q) /\ \A i \in 1 .. Len(u) : u[i] = q[i + k]
  BY DEF Within
<1>2. Len(u) \in Nat /\ Len(q) \in Nat
  BY Channel DEF Within
<1>3. \A i \in 1 .. Len(u) : i + k \in 1 .. Len(q)
  BY <1>1, <1>2
<1>. SUFFICES ASSUME NEW i \in 1 .. Len(u), NEW j \in 1 .. Len(u),
                     u[i].kind = "request", u[j].kind = "request", u[i].id = u[j].id
              PROVE  i = j
  BY DEF Once
<1>4. i + k = j + k
  BY <1>1, <1>3 DEF Once
<1>. QED
  BY <1>4

(* Nobody is answered, and nothing is asked that was not on its way.          *)
LEMMA Silence ==
  ASSUME Wired, UNCHANGED <<world, answered>>,
         DOMAIN harness' = HarnessFields, DOMAIN daemon' = DaemonFields,
         harness'.at \in Nat, harness'.at >= harness.at, harness'.got = harness.got,
         daemon'.pending = daemon.pending, Within(up', up),
         IsChannel(down'), IsChannel(harness'.stash),
         Items(harness'.stash) \subseteq Items(down) \cup Items(harness.stash),
         \A m \in Items(down') : m \in Items(down) \/ m.kind # "result"
  PROVE  Wired'
<1>1. WireShape'
  BY DEF Wired, WireShape, Within, Steps
<1>2. PICK k \in Nat : Len(up') + k <= Len(up) /\ \A i \in 1 .. Len(up') : up'[i] = up[i + k]
  BY DEF Within
<1>3. Len(up') \in Nat /\ Len(up) \in Nat
  BY Channel DEF Wired, WireShape, Within
<1>4. \A i \in 1 .. Len(up') : i + k \in 1 .. Len(up)
  BY <1>2, <1>3
<1>5. Asking'
  <2>0. \A n \in Steps : n < harness.at => n < harness'.at
    BY DEF Wired, WireShape, Steps
  <2>1. \A i \in 1 .. Len(up') : up'[i].kind = "request" =>
          Awaited(up[i].id)' /\ up'[i].id \notin daemon'.pending
    BY <1>2, <1>4, <2>0 DEF Wired, Asking, Awaited, Decided, Steps
  <2>2. Once(up')
    BY OnceWithin DEF Wired, WireShape, Asking
  <2>3. /\ \A n \in daemon'.pending : Awaited(n)'
        /\ (\A n \in Steps : Decided(n) => n < harness.at)'
    BY <2>0 DEF Wired, Asking, Awaited, Decided, Steps
  <2>. QED
    BY <2>1, <2>2, <2>3 DEF Asking
<1>6. Telling' /\ Believing'
  BY DEF Wired, Telling, Believing, Truthful, Decided, Steps
<1>. QED
  BY <1>1, <1>5, <1>6 DEF Wired

(* The harness asks for its next step, or sends what is no request.          *)
LEMMA Asks ==
  ASSUME Wired, UNCHANGED <<world, answered, down, daemon>>,
         DOMAIN harness' = HarnessFields, harness'.got = harness.got,
         harness'.stash = harness.stash, harness'.at \in Nat, harness'.at >= harness.at,
         NEW m, up' = Append(up, m),
         m.kind = "request" => m.id = harness.at /\ m.id \in Steps /\ harness'.at > harness.at
  PROVE  Wired'
<1>1. /\ IsChannel(up') /\ Len(up) \in Nat /\ Len(up') = Len(up) + 1
      /\ \A i \in 1 .. Len(up) : up'[i] = up[i]
      /\ up'[Len(up) + 1] = m
  BY ItemsAppended, Channels DEF Wired, WireShape
<1>2. WireShape'
  BY <1>1 DEF Wired, WireShape, Steps
<1>3. Asking'
  <2>1. ASSUME NEW i \in 1 .. Len(up')
        PROVE  (i \in 1 .. Len(up) /\ up'[i] = up[i]) \/ (i = Len(up) + 1 /\ up'[i] = m)
    <3>1. i \in 1 .. Len(up) \/ i = Len(up) + 1
      BY <1>1
    <3>. QED
      BY <1>1, <3>1
  <2>2. m.kind = "request" => Awaited(m.id)' /\ m.id \notin daemon.pending
    BY DEF Wired, WireShape, Asking, Awaited, Decided, Steps
  <2>3. \A n \in Steps : n < harness.at => n < harness'.at
    BY DEF Wired, WireShape, Steps
  <2>4. \A i \in 1 .. Len(up') : up'[i].kind = "request" =>
          Awaited(up[i].id)' /\ up'[i].id \notin daemon'.pending
    BY <2>1, <2>2, <2>3 DEF Wired, Asking, Awaited, Decided, Steps
  <2>5. Once(up')
    <3>1. \A i \in 1 .. Len(up) : m.kind = "request" /\ up[i].kind = "request" => up[i].id # m.id
      BY DEF Wired, WireShape, Asking, Awaited, Steps
    <3>. QED
      BY <2>1, <3>1 DEF Wired, Asking, Once
  <2>6. /\ \A n \in daemon'.pending : Awaited(n)'
        /\ (\A n \in Steps : Decided(n) => n < harness.at)'
    BY <2>3 DEF Wired, Asking, Awaited, Decided, Steps
  <2>. QED
    BY <2>4, <2>5, <2>6 DEF Asking
<1>4. Telling' /\ Believing'
  BY DEF Wired, Telling, Believing, Truthful, Decided, Steps
<1>. QED
  BY <1>2, <1>3, <1>4 DEF Wired

(* The harness takes a reply for the result of the step it is about.         *)
LEMMA Believes ==
  ASSUME Wired, UNCHANGED <<world, answered, daemon, up>>,
         DOMAIN harness' = HarnessFields, harness'.at = harness.at,
         NEW m \in Items(down) \cup Items(harness.stash), m.kind = "result",
         harness'.got = [harness.got EXCEPT ![m.id] = <<m.id, m.value>>],
         IsChannel(down'), IsChannel(harness'.stash),
         Items(harness'.stash) \subseteq Items(harness.stash), Items(down') \subseteq Items(down)
  PROVE  Wired'
<1>1. m.id \in Steps /\ Decided(m.id) /\ m.value = answered[m.id]
  BY DEF Wired, Telling, Truthful
<1>2. WireShape'
  BY DEF Wired, WireShape, Steps
<1>3. Asking'
  BY DEF Wired, Asking, Awaited, Decided, Steps
<1>4. Telling'
  BY DEF Wired, Telling, Truthful, Decided, Steps
<1>5. Believing'
  BY <1>1 DEF Wired, WireShape, Believing, Decided, Steps
<1>. QED
  BY <1>2, <1>3, <1>4, <1>5 DEF Wired

(* The daemon answers a step, once: nothing on its way asks for it again.     *)
LEMMA Decides ==
  ASSUME Wired, UNCHANGED <<world, harness>>, NEW n \in Steps, Awaited(n),
         NEW value \in Outcome, answered' = [answered EXCEPT ![n] = value],
         DOMAIN daemon' = DaemonFields, daemon'.pending = daemon.pending \ {n},
         Within(up', up), \A i \in 1 .. Len(up') : up'[i].kind = "request" => up'[i].id # n,
         IsChannel(down'),
         \A m \in Items(down') :
           m \in Items(down) \/ m.kind # "result" \/ (m.id = n /\ m.value = value)
  PROVE  Wired'
<1>1. WireShape'
  BY DEF Wired, WireShape, Within, Steps
<1>2. PICK k \in Nat : Len(up') + k <= Len(up) /\ \A i \in 1 .. Len(up') : up'[i] = up[i + k]
  BY DEF Within
<1>3. Len(up') \in Nat /\ Len(up) \in Nat
  BY Channel DEF Wired, WireShape, Within
<1>4. \A i \in 1 .. Len(up') : i + k \in 1 .. Len(up)
  BY <1>2, <1>3
<1>5. /\ answered'[n] = value /\ value # Unanswered /\ DOMAIN answered = Steps
      /\ \A o \in Steps \ {n} : answered'[o] = answered[o]
  BY DEF Wired, WireShape, Outcome, Unanswered
<1>6. Asking'
  <2>1. \A i \in 1 .. Len(up') : up'[i].kind = "request" =>
          Awaited(up[i].id)' /\ up'[i].id \notin daemon'.pending
    BY SMTT(20), <1>2, <1>4, <1>5 DEF Wired, Asking, Awaited, Decided, Steps
  <2>2. Once(up')
    BY OnceWithin DEF Wired, WireShape, Asking
  <2>3. /\ \A o \in daemon'.pending : Awaited(o)'
        /\ (\A o \in Steps : Decided(o) => o < harness.at)'
    BY <1>5 DEF Wired, Asking, Awaited, Decided, Steps
  <2>. QED
    BY <2>1, <2>2, <2>3 DEF Asking
<1>7. Telling'
  <2>1. \A m \in Items(down) \cup Items(harness.stash) : Truthful(m)'
    BY <1>5 DEF Wired, Telling, Truthful, Awaited, Decided, Steps
  <2>2. \A m : m.id = n /\ m.value = value => Truthful(m)'
    BY <1>5 DEF Truthful, Decided, Steps
  <2>3. \A m : m.kind # "result" => Truthful(m)'
    BY DEF Truthful
  <2>. QED
    BY <2>1, <2>2, <2>3 DEF Telling
<1>8. Believing'
  BY <1>5 DEF Wired, Believing, Awaited, Decided, Steps
<1>. QED
  BY <1>1, <1>6, <1>7, <1>8 DEF Wired

(* How the two sides send and end.                                          *)
LEMMA Sides ==
  ASSUME Wired
  PROVE  /\ DOMAIN harness = HarnessFields /\ DOMAIN daemon = DaemonFields
         /\ IsChannel(up) /\ IsChannel(down) /\ IsChannel(harness.stash) /\ Within(up, up)
         /\ down # <<>> => /\ IsChannel(Tail(down)) /\ Head(down) \in Items(down)
                           /\ Items(Tail(down)) \subseteq Items(down)
         /\ up # <<>> => Within(Tail(up), up)
         /\ harness.at \in Nat
  BY Channel, Channels, ItemsTaken DEF Wired, WireShape

LEMMA Exits ==
  ASSUME Wired, NEW code, Exit(code)
  PROVE  /\ harness' = [harness EXCEPT !.pc = "exited", !.code = code]
         /\ Within(up', up)
<1>1. CASE Grpc /\ world.manner # "lingers"
  <2>1. PICK n \in 0 .. Len(up) : up' = SubSeq(up, 1, n)
    BY <1>1 DEF Exit
  <2>. QED
    BY <2>1, Sides, Channel DEF Exit
<1>2. CASE ~(Grpc /\ world.manner # "lingers")
  BY <1>2, Sides DEF Exit
<1>. QED
  BY <1>1, <1>2

LEMMA Quits ==
  ASSUME Wired, NEW code, Exit(code), UNCHANGED <<world, daemon, answered>>,
         IsChannel(down'), Items(down') \subseteq Items(down)
  PROVE  Wired'
<1>1. harness' = [harness EXCEPT !.pc = "exited", !.code = code] /\ Within(up', up)
  BY Exits
<1>2. DOMAIN harness = HarnessFields /\ DOMAIN daemon = DaemonFields /\ harness.at \in Nat
      /\ IsChannel(harness.stash)
  BY Sides
<1>3. /\ DOMAIN harness' = HarnessFields /\ harness'.at = harness.at
      /\ harness'.got = harness.got /\ harness'.stash = harness.stash
  BY <1>1, <1>2 DEF HarnessFields
<1>. QED
  BY <1>1, <1>2, <1>3, Silence

LEMMA DaemonSent ==
  ASSUME Wired, NEW msg, NEW sent, NEW broke, DaemonSends(msg, sent, broke)
  PROVE  /\ IsChannel(down') /\ Items(down') \subseteq Items(down) \cup {msg}
         /\ daemon' = sent \/ daemon' = broke
<1>1. IsChannel(down) /\ IsChannel(Append(down, msg))
  BY Sides, Channels
<1>2. Items(Append(down, msg)) = Items(down) \cup {msg}
  BY <1>1, ItemsAppended
<1>. QED
  BY <1>1, <1>2 DEF DaemonSends

(* Replies, in the order they arrive or out of the stash.                   *)
LEMMA Earliests ==
  ASSUME NEW own, own \subseteq Nat, own # {}
  PROVE  Earliest(own) \in own
<1>1. PICK i \in own : \A j \in own : <<j, i>> \notin OpToRel(<, Nat)
  BY NatLessThanWellFounded, WFMin
<1>2. \A j \in own : ~ (j < i)
  BY <1>1 DEF OpToRel
<1>3. \A j \in own : i <= j
  BY <1>2
<1>. QED
  BY <1>3 DEF Earliest

LEMMA Classifies ==
  ASSUME NEW h, NEW m, DOMAIN h = HarnessFields, m.kind \in {"result", "parked"}, m.id = h.wants
  PROVE  /\ DOMAIN Classified(h, m) = HarnessFields
         /\ Classified(h, m).at = h.at /\ Classified(h, m).stash = h.stash
         /\ \/ Classified(h, m).got = h.got
            \/ m.kind = "result" /\ Classified(h, m).got = [h.got EXCEPT ![m.id] = <<m.id, m.value>>]
<1>. DEFINE got == [h.got EXCEPT ![h.wants] = <<m.id, m.value>>]
            kept == Append(h.later, m.id)
            rest == Unkept(h.later, h.wants)
            a == [h EXCEPT !.pc = "idle", !.later = kept]
            b == [h EXCEPT !.pc = "idle", !.got = got, !.later = rest]
            c == [h EXCEPT !.pc = "exited", !.got = got, !.code = 1]
<1>. HIDE DEF got, kept, rest
<1>1. /\ DOMAIN a = HarnessFields /\ a.at = h.at /\ a.stash = h.stash /\ a.got = h.got
      /\ DOMAIN b = HarnessFields /\ b.at = h.at /\ b.stash = h.stash /\ b.got = got
      /\ DOMAIN c = HarnessFields /\ c.at = h.at /\ c.stash = h.stash /\ c.got = got
  BY DEF HarnessFields
<1>2. \/ Classified(h, m) \in {a, h}
      \/ m.kind = "result" /\ Classified(h, m) \in {b, c}
  BY DEF Classified, got, kept, rest
<1>. HIDE DEF a, b, c
<1>3. got = [h.got EXCEPT ![m.id] = <<m.id, m.value>>]
  BY DEF got
<1>. QED
  BY <1>1, <1>2, <1>3

LEMMA Awaits == ASSUME Wired, AwaitResult PROVE Wired'
<1>. DEFINE n == harness.wants
            own == {i \in DOMAIN harness.stash : Correlated(harness.stash[i], n)}
<1>1. CASE own # {}
  <2>. DEFINE i == Earliest(own)
              m == harness.stash[i]
              h == [harness EXCEPT !.stash = RemoveAt(harness.stash, i)]
  <2>1. i \in own /\ i \in 1 .. Len(harness.stash)
    <3>1. DOMAIN harness.stash = 1 .. Len(harness.stash) /\ Len(harness.stash) \in Nat
      BY Sides, LenProperties DEF IsChannel
    <3>2. own \subseteq 1 .. Len(harness.stash) /\ own \subseteq Nat
      BY <3>1
    <3>. HIDE DEF own
    <3>. QED
      BY <1>1, <3>2, Earliests
  <2>2. /\ harness' = Classified(h, m)
        /\ UNCHANGED <<up, down, world, daemon, answered>>
    BY <1>1 DEF AwaitResult
  <2>. HIDE DEF i
  <2>3. m.kind \in {"result", "parked"} /\ m.id = n /\ m \in Items(harness.stash)
    BY <2>1 DEF Correlated, Items
  <2>4. /\ DOMAIN h = HarnessFields /\ h.at = harness.at /\ h.got = harness.got /\ h.wants = n
        /\ IsChannel(h.stash) /\ Items(h.stash) \subseteq Items(harness.stash)
    BY <2>1, Sides, ItemsRemoved DEF HarnessFields
  <2>. HIDE DEF h, m
  <2>5. /\ DOMAIN harness' = HarnessFields /\ harness'.at = harness.at
        /\ harness'.stash = h.stash
        /\ \/ harness'.got = harness.got
           \/ m.kind = "result" /\ harness'.got = [harness.got EXCEPT ![m.id] = <<m.id, m.value>>]
    BY <2>2, <2>3, <2>4, Classifies
  <2>6. CASE harness'.got = harness.got
    BY <2>2, <2>4, <2>5, <2>6, Sides, Silence
  <2>7. CASE m.kind = "result" /\ harness'.got = [harness.got EXCEPT ![m.id] = <<m.id, m.value>>]
    BY <2>2, <2>3, <2>4, <2>5, <2>7, Sides, Believes
  <2>. QED
    BY <2>5, <2>6, <2>7
<1>2. CASE own = {} /\ down # <<>> /\ down' = Tail(down)
  <2>. DEFINE m == Head(down)
  <2>1. m \in Items(down) /\ IsChannel(down') /\ Items(down') \subseteq Items(down)
    BY <1>2, Sides
  <2>2. UNCHANGED <<world, daemon, answered>>
    BY DEF AwaitResult
  <2>3. CASE Correlated(m, n)
    <3>1. harness' = Classified(harness, m) /\ UNCHANGED up
      BY <1>2, <2>3 DEF AwaitResult, HarnessHearsNone, Correlated
    <3>2. m.kind \in {"result", "parked"} /\ m.id = n
      BY <2>3 DEF Correlated
    <3>. HIDE DEF m
    <3>3. /\ DOMAIN harness' = HarnessFields /\ harness'.at = harness.at
          /\ harness'.stash = harness.stash
          /\ \/ harness'.got = harness.got
             \/ m.kind = "result" /\ harness'.got = [harness.got EXCEPT ![m.id] = <<m.id, m.value>>]
      BY <3>1, <3>2, Sides, Classifies
    <3>4. CASE harness'.got = harness.got
      BY <2>1, <2>2, <3>1, <3>3, <3>4, Sides, Silence
    <3>5. CASE m.kind = "result" /\ harness'.got = [harness.got EXCEPT ![m.id] = <<m.id, m.value>>]
      BY <2>1, <2>2, <3>1, <3>3, <3>5, Sides, Believes
    <3>. QED
      BY <3>3, <3>4, <3>5
  <2>4. CASE ~Correlated(m, n) /\ m.kind = "abort"
    <3>1. Exit(1)
      BY <1>2, <2>4 DEF AwaitResult, HarnessHearsNone
    <3>. QED
      BY <2>1, <2>2, <3>1, Quits
  <2>5. CASE ~Correlated(m, n) /\ m.kind # "abort"
    <3>1. harness' = [harness EXCEPT !.stash = Append(harness.stash, m)] /\ UNCHANGED up
      BY <1>2, <2>5 DEF AwaitResult, HarnessHearsNone
    <3>2. /\ DOMAIN harness' = HarnessFields /\ harness'.at = harness.at
          /\ harness'.got = harness.got /\ harness'.stash = Append(harness.stash, m)
      BY <3>1, Sides DEF HarnessFields
    <3>3. IsChannel(harness'.stash) /\ Items(harness'.stash) = Items(harness.stash) \cup {m}
      <4>1. IsChannel(Append(harness.stash, Head(down)))
            /\ Items(Append(harness.stash, Head(down))) = Items(harness.stash) \cup {Head(down)}
        BY Sides, Channels, ItemsAppended
      <4>. QED
        BY <3>2, <4>1, Sides
    <3>. QED
      BY <2>1, <2>2, <3>1, <3>2, <3>3, Sides, Silence
  <2>. QED
    BY <2>3, <2>4, <2>5
<1>3. CASE own = {} /\ HarnessHearsNone /\ Exit(1) /\ UNCHANGED down
  BY <1>3, Sides, Quits DEF AwaitResult
<1>. QED
  BY <1>1, <1>2, <1>3 DEF AwaitResult

LEMMA Sends ==
  ASSUME Wired, NEW m, NEW next, HarnessSends(m, next), UNCHANGED <<world, down, daemon, answered>>,
         DOMAIN next = HarnessFields, next.got = harness.got, next.stash = harness.stash,
         next.at \in Nat, next.at >= harness.at,
         m.kind = "request" => m.id = harness.at /\ m.id \in Steps /\ next.at > harness.at
  PROVE  Wired'
<1>1. CASE up' = Append(up, m) /\ harness' = next
  BY <1>1, Asks
<1>2. CASE UNCHANGED up /\ harness' = next
  BY <1>2, Sides, Silence
<1>3. CASE UNCHANGED up /\ harness' = [harness EXCEPT !.pc = "exited", !.code = 1]
  <2>1. /\ DOMAIN harness' = HarnessFields /\ harness'.at = harness.at
        /\ harness'.got = harness.got /\ harness'.stash = harness.stash
    BY <1>3, Sides DEF HarnessFields
  <2>. QED
    BY <1>3, <2>1, Sides, Silence
<1>. QED
  BY <1>1, <1>2, <1>3 DEF HarnessSends

LEMMA HarnessSteps == ASSUME Wired, Harness \/ Misbehave PROVE Wired'
<1>1. CASE Connect
  <2>1. /\ DOMAIN harness' = HarnessFields /\ harness'.at = harness.at
        /\ harness'.got = harness.got /\ harness'.stash = harness.stash
    BY <1>1, Sides DEF Connect, HarnessFields
  <2>. QED
    BY <1>1, <2>1, Sides, Silence DEF Connect
<1>2. CASE RecvSessionStart
  <2>1. CASE Exit(1)
    BY <1>2, <2>1, Sides, Quits DEF RecvSessionStart
  <2>2. CASE ~Exit(1)
    <3>1. /\ harness' = [harness EXCEPT !.pc = "idle"]
          /\ down # <<>> /\ down' = Tail(down) /\ UNCHANGED <<up, world, daemon, answered>>
      BY <1>2, <2>2 DEF RecvSessionStart
    <3>2. /\ DOMAIN harness' = HarnessFields /\ harness'.at = harness.at
          /\ harness'.got = harness.got /\ harness'.stash = harness.stash
      BY <3>1, Sides DEF HarnessFields
    <3>. QED
      BY <3>1, <3>2, Sides, Silence
  <2>. QED
    BY <2>1, <2>2
<1>3. CASE Request
  <2>. DEFINE n == harness.at
              kind == world.script[n]
              next == [harness EXCEPT !.at = n + 1, !.wants = n,
                         !.pc = IF kind = "signal" THEN "listening" ELSE "awaiting"]
  <2>1. /\ n \in Steps /\ HarnessSends([kind |-> kind, id |-> n], next)
        /\ UNCHANGED <<world, down, daemon, answered>>
    BY <1>3 DEF Request
  <2>2. /\ DOMAIN next = HarnessFields /\ next.got = harness.got /\ next.stash = harness.stash
        /\ next.at = n + 1
    BY Sides DEF HarnessFields
  <2>3. n \in Nat
    BY Sides
  <2>. HIDE DEF next, kind, n
  <2>4. /\ next.at \in Nat /\ next.at >= n /\ next.at > n /\ n = harness.at
    BY <2>2, <2>3 DEF n
  <2>. DEFINE m == [kind |-> kind, id |-> n]
  <2>5. m.id = n
    OBVIOUS
  <2>. HIDE DEF m
  <2>6. HarnessSends(m, next)
    BY <2>1 DEF m
  <2>. QED
    BY <2>1, <2>2, <2>4, <2>5, <2>6, Sends
<1>4. CASE AwaitResult
  BY <1>4, Awaits
<1>5. CASE PollParked
  <2>1. /\ DOMAIN harness' = HarnessFields /\ harness'.at = harness.at
        /\ harness'.got = harness.got /\ harness'.stash = harness.stash
    BY <1>5, Sides DEF PollParked, HarnessFields
  <2>. QED
    BY <1>5, <2>1, Sides, Silence DEF PollParked
<1>6. CASE AwaitSignal
  <2>1. CASE Exit(1)
    BY <1>6, <2>1, Sides, Quits DEF AwaitSignal
  <2>2. CASE ~Exit(1)
    <3>1. /\ down # <<>> /\ down' = Tail(down) /\ UNCHANGED <<up, world, daemon, answered>>
          /\ \/ harness' = [harness EXCEPT !.pc = "idle"]
             \/ harness' = [harness EXCEPT !.stash = Append(harness.stash, Head(down))]
      BY <1>6, <2>2 DEF AwaitSignal
    <3>2. /\ DOMAIN harness' = HarnessFields /\ harness'.at = harness.at
          /\ harness'.got = harness.got
          /\ harness'.stash = harness.stash \/ harness'.stash = Append(harness.stash, Head(down))
      BY <3>1, Sides DEF HarnessFields
    <3>3. IsChannel(harness'.stash) /\ Items(harness'.stash) \subseteq Items(harness.stash) \cup {Head(down)}
      <4>1. IsChannel(Append(harness.stash, Head(down)))
            /\ Items(Append(harness.stash, Head(down))) = Items(harness.stash) \cup {Head(down)}
        BY Sides, Channels, ItemsAppended
      <4>. QED
        BY <3>2, <4>1, Sides
    <3>. QED
      BY <3>1, <3>2, <3>3, Sides, Silence
  <2>. QED
    BY <2>1, <2>2
<1>7. CASE SessionComplete
  <2>. DEFINE next == [harness EXCEPT !.pc = "closing", !.finished = TRUE]
              m == [kind |-> "complete", id |-> 0]
  <2>1. HarnessSends(m, next) /\ UNCHANGED <<world, down, daemon, answered>>
    BY <1>7 DEF SessionComplete
  <2>2. /\ DOMAIN next = HarnessFields /\ next.got = harness.got /\ next.stash = harness.stash
        /\ next.at = harness.at /\ m.kind = "complete"
    BY Sides DEF HarnessFields
  <2>. HIDE DEF next, m
  <2>. QED
    BY <2>1, <2>2, Sides, Sends
<1>8. CASE Close
  <2>1. CASE Exit(0)
    BY <1>8, <2>1, Sides, Quits DEF Close
  <2>2. CASE ~Exit(0)
    <3>1. UNCHANGED <<up, harness, world, daemon, answered>> /\ down # <<>> /\ down' = Tail(down)
      BY <1>8, <2>2 DEF Close
    <3>. QED
      BY <3>1, Sides, Silence
  <2>. QED
    BY <2>1, <2>2
<1>9. CASE Misbehave
  <2>1. ASSUME NEW code, Exit(code) PROVE Wired'
    BY <1>9, <2>1, Sides, Quits DEF Misbehave
  <2>2. CASE /\ up' = Append(up, [kind |-> "noise", id |-> 0])
             /\ harness' = [harness EXCEPT !.noisy = TRUE]
    <3>. DEFINE m == [kind |-> "noise", id |-> 0]
    <3>1. /\ DOMAIN harness' = HarnessFields /\ harness'.at = harness.at
          /\ harness'.got = harness.got /\ harness'.stash = harness.stash
          /\ m.kind = "noise" /\ up' = Append(up, m)
      BY <2>2, Sides DEF HarnessFields
    <3>. HIDE DEF m
    <3>. QED
      BY <1>9, <3>1, Sides, Asks DEF Misbehave
  <2>. QED
    BY <1>9, <2>1, <2>2 DEF Misbehave
<1>. QED
  BY <1>1, <1>2, <1>3, <1>4, <1>5, <1>6, <1>7, <1>8, <1>9 DEF Harness

(* What the daemon reads first asks for a step nobody asks for behind it.    *)
LEMMA Hears ==
  ASSUME Wired, DaemonHears("request"), up' = Tail(up)
  PROVE  /\ Awaited(Head(up).id) /\ Head(up).id \notin daemon.pending
         /\ Within(up', up)
         /\ \A i \in 1 .. Len(up') : up'[i].kind = "request" => up'[i].id # Head(up).id
<1>1. /\ Len(up) \in Nat /\ Len(up) >= 1 /\ Len(up') = Len(up) - 1
      /\ \A i \in 1 .. Len(up) - 1 : up'[i] = up[i + 1]
      /\ Head(up) = up[1] /\ up[1].kind = "request" /\ Within(up', up)
  BY Sides, ItemsTaken DEF DaemonHears
<1>2. 1 \in 1 .. Len(up) /\ \A i \in 1 .. Len(up) - 1 : i + 1 \in 1 .. Len(up) /\ i + 1 # 1
  BY <1>1
<1>. QED
  BY <1>1, <1>2 DEF Wired, Asking, Once

LEMMA Turns ==
  ASSUME NEW d, DOMAIN d = DaemonFields, NEW p, NEW s,
         NEW e \in {d, [d EXCEPT !.pc = p], [d EXCEPT !.pc = p, !.broke = TRUE],
                    [d EXCEPT !.pc = p, !.summary = s], Failing(d)}
  PROVE  DOMAIN e = DaemonFields /\ e.pending = d.pending
  BY DEF DaemonFields, Failing

(* A step of the daemon that answers nobody.                                 *)
LEMMA Tells ==
  ASSUME Wired, UNCHANGED <<world, answered, harness>>, Within(up', up),
         DOMAIN daemon' = DaemonFields, daemon'.pending = daemon.pending,
         \/ UNCHANGED down
         \/ \E msg, sent, broke : msg.kind # "result" /\ DaemonSends(msg, sent, broke)
  PROVE  Wired'
<1>1. IsChannel(down') /\ \A m \in Items(down') : m \in Items(down) \/ m.kind # "result"
  BY Sides, DaemonSent
<1>. QED
  BY <1>1, Sides, Silence

LEMMA Starts == ASSUME Wired, StartServing PROVE Wired'
<1>. DEFINE begun == [daemon EXCEPT !.pc = "serving"]
            held == [daemon EXCEPT !.pc = "held"]
            msg == [kind |-> "start", id |-> 0]
<1>1. /\ \A d \in {begun, held, [daemon EXCEPT !.pc = "dropped", !.broke = TRUE]} :
           DOMAIN d = DaemonFields /\ d.pending = daemon.pending
      /\ msg.kind = "start"
  BY Sides, Turns
<1>2. CASE UNCHANGED harness /\ DaemonSends(msg, begun, IF Double THEN begun ELSE held)
  <2>1. daemon' \in {begun, held}
    BY <1>2, DaemonSent
  <2>. HIDE DEF begun, held, msg
  <2>. QED
    BY <1>1, <1>2, <2>1, Sides, Tells DEF StartServing
<1>3. CASE UNCHANGED <<harness, down>> /\ daemon' = held
  BY <1>1, <1>3, Sides, Tells DEF StartServing
<1>4. CASE /\ daemon' = [daemon EXCEPT !.pc = "dropped", !.broke = TRUE] /\ UNCHANGED down
           /\ harness' = [harness EXCEPT !.pc = "exited", !.code = 1]
  <2>1. /\ DOMAIN harness' = HarnessFields /\ harness'.at = harness.at
        /\ harness'.got = harness.got /\ harness'.stash = harness.stash
    BY <1>4, Sides DEF HarnessFields
  <2>2. DOMAIN daemon' = DaemonFields /\ daemon'.pending = daemon.pending
    BY <1>1, <1>4
  <2>. QED
    BY <1>4, <2>1, <2>2, Sides, Silence DEF StartServing
<1>. QED
  BY <1>2, <1>3, <1>4 DEF StartServing

LEMMA Answers == ASSUME Wired, NEW value \in Outcome, Answer(value) PROVE Wired'
<1>. DEFINE n == Head(up).id
            msg == [kind |-> "result", id |-> n, value |-> value]
<1>1. /\ DaemonHears("request") /\ up' = Tail(up) /\ UNCHANGED <<world, harness>>
      /\ answered' = [answered EXCEPT ![n] = value]
      /\ DaemonSends(msg, daemon, Failing(daemon))
  BY DEF Answer, Consumed
<1>2. /\ Awaited(n) /\ n \notin daemon.pending /\ n \in Steps
      /\ Within(up', up)
      /\ \A i \in 1 .. Len(up') : up'[i].kind = "request" => up'[i].id # n
  BY <1>1, Hears DEF Awaited
<1>3. DOMAIN daemon' = DaemonFields /\ daemon'.pending = daemon.pending \ {n}
  <2>1. daemon' \in {daemon, Failing(daemon)}
    BY <1>1, DaemonSent
  <2>2. DOMAIN daemon' = DaemonFields /\ daemon'.pending = daemon.pending
    BY <2>1, Sides, Turns
  <2>. QED
    BY <1>2, <2>2
<1>4. IsChannel(down') /\ Items(down') \subseteq Items(down) \cup {msg}
  BY <1>1, DaemonSent
<1>5. msg.id = n /\ msg.value = value
  OBVIOUS
<1>. HIDE DEF n, msg
<1>6. \A m \in Items(down') : m \in Items(down) \/ m.kind # "result" \/ (m.id = n /\ m.value = value)
  BY <1>4, <1>5
<1>. QED
  BY <1>1, <1>2, <1>3, <1>4, <1>6, Decides

LEMMA Resolves ==
  ASSUME Wired, NEW n \in Steps, NEW value \in Outcome, Resolve(n, value) PROVE Wired'
<1>. DEFINE resumed == [daemon EXCEPT !.pc = "serving", !.pending = daemon.pending \ {n}]
            msg == [kind |-> "result", id |-> n, value |-> value]
<1>1. /\ n \in daemon.pending /\ UNCHANGED <<world, up, harness>>
      /\ answered' = [answered EXCEPT ![n] = value]
      /\ DaemonSends(msg, resumed, Failing(resumed))
  BY DEF Resolve
<1>2. /\ Awaited(n) /\ Within(up', up)
      /\ \A i \in 1 .. Len(up') : up'[i].kind = "request" => up'[i].id # n
  BY <1>1, Sides DEF Wired, Asking
<1>3. DOMAIN daemon' = DaemonFields /\ daemon'.pending = daemon.pending \ {n}
  <2>1. DOMAIN resumed = DaemonFields /\ resumed.pending = daemon.pending \ {n}
    BY Sides DEF DaemonFields
  <2>2. daemon' \in {resumed, Failing(resumed)}
    BY <1>1, DaemonSent
  <2>. HIDE DEF resumed
  <2>. QED
    BY <2>1, <2>2, Turns
<1>4. IsChannel(down') /\ Items(down') \subseteq Items(down) \cup {msg}
  BY <1>1, DaemonSent
<1>5. msg.id = n /\ msg.value = value
  OBVIOUS
<1>. HIDE DEF msg
<1>6. \A m \in Items(down') : m \in Items(down) \/ m.kind # "result" \/ (m.id = n /\ m.value = value)
  BY <1>4, <1>5
<1>. QED
  BY <1>1, <1>2, <1>3, <1>4, <1>6, Decides

LEMMA Parks == ASSUME Wired, ParkCall PROVE Wired'
<1>. DEFINE n == Head(up).id
            put == [daemon EXCEPT !.pending = daemon.pending \cup {n},
                                     !.pc = IF Double THEN "serving" ELSE "parked"]
            msg == [kind |-> "parked", id |-> n]
<1>1. /\ DaemonHears("request") /\ up' = Tail(up) /\ UNCHANGED <<world, harness, answered>>
      /\ DaemonSends(msg, put, Failing(put))
  BY DEF ParkCall, Consumed
<1>2. /\ Awaited(n) /\ n \notin daemon.pending
      /\ Within(up', up)
      /\ \A i \in 1 .. Len(up') : up'[i].kind = "request" => up'[i].id # n
  BY <1>1, Hears
<1>3. DOMAIN daemon' = DaemonFields /\ daemon'.pending = daemon.pending \cup {n}
  <2>1. DOMAIN put = DaemonFields /\ put.pending = daemon.pending \cup {n}
    BY Sides DEF DaemonFields
  <2>2. daemon' \in {put, Failing(put)}
    BY <1>1, DaemonSent
  <2>. HIDE DEF put
  <2>. QED
    BY <2>1, <2>2, Turns
<1>4. IsChannel(down') /\ Items(down') \subseteq Items(down) \cup {msg} /\ msg.kind = "parked"
  BY <1>1, DaemonSent
<1>. HIDE DEF n, msg, put
<1>5. WireShape'
  BY <1>1, <1>2, <1>3, <1>4 DEF Wired, WireShape, Within, Steps
<1>6. Asking'
  <2>1. PICK k \in Nat : Len(up') + k <= Len(up) /\ \A i \in 1 .. Len(up') : up'[i] = up[i + k]
    BY <1>2 DEF Within
  <2>2. Len(up') \in Nat /\ Len(up) \in Nat
    BY <1>2, Channel DEF Wired, WireShape, Within
  <2>3. \A i \in 1 .. Len(up') : i + k \in 1 .. Len(up)
    BY <2>1, <2>2
  <2>4. \A i \in 1 .. Len(up') : up'[i].kind = "request" =>
          Awaited(up[i].id)' /\ up'[i].id \notin daemon'.pending
    BY <1>1, <1>2, <1>3, <2>1, <2>3 DEF Wired, Asking, Awaited, Decided, Steps
  <2>5. Once(up')
    BY <1>2, OnceWithin DEF Wired, WireShape, Asking
  <2>6. /\ \A o \in daemon'.pending : Awaited(o)'
        /\ (\A o \in Steps : Decided(o) => o < harness.at)'
    BY <1>1, <1>2, <1>3 DEF Wired, Asking, Awaited, Decided, Steps
  <2>. QED
    BY <2>4, <2>5, <2>6 DEF Asking
<1>7. Telling' /\ Believing'
  BY <1>1, <1>4 DEF Wired, Telling, Believing, Truthful, Decided, Steps
<1>. QED
  BY <1>5, <1>6, <1>7 DEF Wired

LEMMA Halts == ASSUME Wired, Halt PROVE Wired'
<1>. DEFINE n == Head(up).id
            over == [daemon EXCEPT !.pc = "ended", !.summary = "halted"]
            abort == [kind |-> "abort", id |-> 0]
            failed == "failed"
            refusal == [kind |-> "result", id |-> n, value |-> failed]
<1>1. DaemonHears("request") /\ up' = Tail(up) /\ UNCHANGED <<world, harness>>
  BY DEF Halt, Consumed
<1>2. /\ Awaited(n) /\ n \in Steps /\ n \notin daemon.pending /\ Within(up', up)
      /\ \A i \in 1 .. Len(up') : up'[i].kind = "request" => up'[i].id # n
  BY <1>1, Hears DEF Awaited
<1>3. DOMAIN over = DaemonFields /\ over.pending = daemon.pending /\ abort.kind = "abort"
  BY Sides DEF DaemonFields
<1>4. CASE Double
  <2>1. /\ down' = IF Present THEN Append(Append(down, refusal), abort) ELSE down
        /\ daemon' = over /\ answered' = [answered EXCEPT ![n] = failed]
    BY <1>4 DEF Halt
  <2>2. refusal.id = n /\ refusal.value = failed
    OBVIOUS
  <2>. HIDE DEF n, over, refusal, abort, failed
  <2>3. IsChannel(down') /\ Items(down') \subseteq Items(down) \cup {refusal, abort}
    <3>1. IsChannel(down) /\ IsChannel(Append(down, refusal))
      BY Sides, Channels
    <3>2. IsChannel(Append(Append(down, refusal), abort))
      BY <3>1, Channels
    <3>3. /\ Items(Append(down, refusal)) = Items(down) \cup {refusal}
          /\ Items(Append(Append(down, refusal), abort)) = Items(Append(down, refusal)) \cup {abort}
      BY <3>1, ItemsAppended
    <3>. QED
      BY <2>1, <3>1, <3>2, <3>3
  <2>4. \A m \in Items(down') :
          m \in Items(down) \/ m.kind # "result" \/ (m.id = n /\ m.value = failed)
    BY <1>3, <2>2, <2>3
  <2>5. daemon'.pending = daemon.pending \ {n} /\ failed \in Outcome
    BY <1>2, <1>3, <2>1 DEF Outcome, failed
  <2>6. /\ DOMAIN daemon' = DaemonFields /\ answered' = [answered EXCEPT ![n] = failed]
        /\ UNCHANGED <<world, harness>> /\ IsChannel(down')
    BY <1>1, <1>3, <2>1, <2>3
  <2>. QED
    BY <1>2, <2>4, <2>5, <2>6, Decides
<1>5. CASE ~Double
  <2>1. DaemonSends(abort, over, Failing(over)) /\ UNCHANGED answered
    BY <1>5 DEF Halt
  <2>. HIDE DEF over, abort
  <2>2. daemon' \in {over, Failing(over)}
    BY <2>1, DaemonSent
  <2>3. DOMAIN daemon' = DaemonFields /\ daemon'.pending = daemon.pending
    BY <1>3, <2>2, Turns
  <2>. QED
    BY <1>1, <1>2, <1>3, <2>1, <2>3, Tells
<1>. QED
  BY <1>4, <1>5

LEMMA ServeSteps == ASSUME Wired, Serve \/ Break \/ Human PROVE Wired'
<1>1. CASE SkipUnparsed
  BY <1>1, Sides, Silence DEF SkipUnparsed, DaemonHears, Consumed
<1>2. CASE WaitSignal
  <2>. DEFINE msg == [kind |-> "signal", id |-> 0]
              waiting == [daemon EXCEPT !.pc = "waiting"]
  <2>1. /\ up # <<>> /\ up' = Tail(up) /\ UNCHANGED <<world, harness, answered>>
        /\ DaemonSends(msg, daemon, daemon) \/ (daemon' = waiting /\ UNCHANGED down)
    BY <1>2 DEF WaitSignal, DaemonHears, Consumed
  <2>2. /\ msg.kind = "signal" /\ DOMAIN waiting = DaemonFields
        /\ waiting.pending = daemon.pending
    BY Sides, Turns
  <2>. HIDE DEF msg, waiting
  <2>3. daemon' \in {daemon, waiting}
    BY <2>1, DaemonSent
  <2>. QED
    BY <2>1, <2>2, <2>3, Sides, Tells
<1>3. CASE Notify
  <2>. DEFINE msg == [kind |-> "signal", id |-> 0]
              resumed == [daemon EXCEPT !.pc = "serving"]
  <2>1. DaemonSends(msg, resumed, Failing(resumed)) /\ UNCHANGED <<world, up, harness, answered>>
    BY <1>3 DEF Notify
  <2>2. msg.kind = "signal" /\ DOMAIN resumed = DaemonFields /\ resumed.pending = daemon.pending
    BY Sides, Turns
  <2>. HIDE DEF msg, resumed
  <2>3. daemon' \in {resumed, Failing(resumed)}
    BY <2>1, DaemonSent
  <2>4. DOMAIN daemon' = DaemonFields /\ daemon'.pending = daemon.pending
    BY <2>2, <2>3, Turns
  <2>. QED
    BY <2>1, <2>2, <2>4, Sides, Tells
<1>4. CASE EndCompleted
  <2>1. DOMAIN daemon' = DaemonFields /\ daemon'.pending = daemon.pending
    BY <1>4, Sides, Turns DEF EndCompleted
  <2>. QED
    BY <1>4, <2>1, Sides, Tells DEF EndCompleted, DaemonHears, Consumed
<1>5. CASE EndAborted
  <2>1. DOMAIN daemon' = DaemonFields /\ daemon'.pending = daemon.pending
    BY <1>5, Sides, Turns DEF EndAborted
  <2>. QED
    BY <1>5, <2>1, Sides, Tells DEF EndAborted
<1>6. CASE Break
  <2>1. DOMAIN daemon' = DaemonFields /\ daemon'.pending = daemon.pending
    BY <1>6, Sides, Turns DEF Break
  <2>. QED
    BY <1>6, <2>1, Sides, Tells DEF Break
<1>. QED
  BY <1>1, <1>2, <1>3, <1>4, <1>5, <1>6, Starts, Answers, Resolves, Parks, Halts
     DEF Serve, Human

LEMMA CommandSteps == ASSUME Wired, Command PROVE Wired'
<1>1. /\ UNCHANGED <<world, up, down, answered>>
      /\ harness' = harness \/ harness' = [harness EXCEPT !.pc = "exited", !.code = 1]
      /\ daemon' = daemon \/ daemon' = [daemon EXCEPT !.pc = "dropped"]
  BY DEF Command, AcceptFails, DriveDaemonEnds, DriveChildExits, Reap, CrashOr, Drain, Join,
         Finish, MoveTo
<1>2. /\ DOMAIN harness' = HarnessFields /\ harness'.at = harness.at
      /\ harness'.got = harness.got /\ harness'.stash = harness.stash
  BY <1>1, Sides DEF HarnessFields
<1>3. DOMAIN daemon' = DaemonFields /\ daemon'.pending = daemon.pending
  BY <1>1, Sides DEF DaemonFields
<1>. QED
  BY <1>1, <1>2, <1>3, Sides, Silence

LEMMA WiredHolds == WireSpec => []Wired
<1>1. Wired /\ UNCHANGED wireVars => Wired'
  BY DEF Wired, WireShape, Asking, Telling, Believing, Awaited, Decided, Once, Truthful, Steps,
         Items, wireVars
<1>2. Wired /\ [WireNext]_wireVars => Wired'
  BY <1>1, HarnessSteps, ServeSteps, CommandSteps DEF WireNext
<1>. QED
  BY <1>2, WireStarts, PTL DEF WireSpec

(* StubHarness::await_result and signal_wait: whatever is put aside, what a   *)
(* script takes for the answer of a step is the one answer the daemon gave to *)
(* that step, for any script, over any link and whatever fails.              *)
THEOREM RepliesAreTheirOwn == WireSpec => []AnswerIsOwn
<1>1. Wired => AnswerIsOwn
  BY DEF Wired, Believing, AnswerIsOwn
<1>. QED
  BY <1>1, WiredHolds, PTL

Ends == {"completed", "halted", "aborted"}
Good == ~(Grpc /\ world.manner = "leaves") /\ ~(world.link = "pipe" /\ harness.noisy)
Placed ==
  /\ world \in Worlds /\ (Present => harness.code = 0)
  /\ harness.finished => harness.pc \in {"closing", "exited"}
  /\ DOMAIN run = {"pc", "result"}
  /\ daemon.pc \in {"new", "held"} =>
       /\ down = <<>> /\ ~harness.finished
       /\ harness.pc \in {"launching", "starting", "exited"}
  /\ run.pc \in {"connect", "start"} => daemon.pc = "new"
  /\ run.pc = "crash" => daemon.pc = "held" \/ daemon.broke
  /\ run.pc = "reap" => daemon.pc = "ended"
  /\ run.pc = "done" => ~Present /\ ~Open
  /\ run.pc # "done" => run.result = "none"
  /\ daemon.pc = "failed" => daemon.broke
Stated ==
  /\ daemon.pc = "ended" => daemon.summary \in Ends /\ (~Double => status = daemon.summary)
  /\ run.result \in Ends => daemon.pc = "ended" /\ run.result = daemon.summary
Pressing ==
  \A i \in 1 .. Len(up) : up[i].kind = "request" =>
    /\ ~harness.finished
    /\ harness.pc = "exited" \/ (harness.pc = "awaiting" /\ harness.wants = up[i].id)
Parkings ==
  \A m \in Items(down) \cup Items(harness.stash) :
    m.kind = "parked" => m.id \in daemon.pending \/ (m.id \in Steps /\ Decided(m.id))
Refused ==
  daemon.pc = "ended" /\ daemon.summary = "halted" =>
    /\ ~harness.finished
    /\ \/ harness.pc = "exited"
       \/ /\ harness.pc = "awaiting"
          /\ \A m \in Items(down) \cup Items(harness.stash) :
               Correlated(m, harness.wants) => m.kind = "result" /\ m.value = "failed"
Noises == \A i \in 1 .. Len(up) : up[i].kind = "noise" => world.host = "run" /\ harness.noisy
Complete ==
  harness.finished /\ harness.code = 0 /\ Good /\ Open =>
    \E i \in 1 .. Len(up) : up[i].kind = "complete"
Lost ==
  daemon.pc = "ended" /\ daemon.summary = "aborted" /\ Good =>
    ~Present /\ ~(harness.finished /\ harness.code = 0)
Reported ==
  run.pc = "done" /\ harness.finished /\ harness.code = 0 /\ ~daemon.broke /\ Good =>
    run.result = "completed"
Accounted ==
  /\ Placed /\ Stated /\ Pressing /\ Parkings /\ Refused /\ Noises /\ Complete /\ Lost
  /\ Reported

LEMMA AccountStarts == ASSUME WireInit PROVE Accounted
<1>1. Len(<<>>) = 0 /\ Items(<<>>) = {}
  BY EmptySeq DEF Items
<1>2. Placed /\ Stated
  BY DEF WireInit, Placed, Stated, Present, Open, Ends
<1>3. Pressing /\ Parkings /\ Noises /\ Refused
  BY <1>1 DEF WireInit, Pressing, Parkings, Noises, Refused
<1>4. Complete /\ Lost /\ Reported
  BY DEF WireInit, Complete, Lost, Reported
<1>. QED
  BY <1>2, <1>3, <1>4 DEF Accounted

(* Only a harness that waits for an answer, or has ended, has a request on its *)
(* way or is refused.                                                        *)
LEMMA AtRest ==
  ASSUME Wired, Accounted, harness.pc \notin {"awaiting", "exited"}
  PROVE  /\ \A i \in 1 .. Len(up) : up[i].kind # "request"
         /\ ~(daemon.pc = "ended" /\ daemon.summary = "halted")
  BY DEF Accounted, Pressing, Refused

LEMMA Part ==
  ASSUME NEW u, NEW q, IsChannel(q), Within(u, q)
  PROVE  \A i \in 1 .. Len(u) : \E j \in 1 .. Len(q) : u[i] = q[j]
<1>1. PICK k \in Nat : Len(u) + k <= Len(q) /\ \A i \in 1 .. Len(u) : u[i] = q[i + k]
  BY DEF Within
<1>2. Len(u) \in Nat /\ Len(q) \in Nat
  BY Channel DEF Within
<1>3. \A i \in 1 .. Len(u) : i + k \in 1 .. Len(q)
  BY <1>1, <1>2
<1>. QED
  BY <1>1, <1>3

(* The harness ends. *)
LEMMA Stops ==
  ASSUME Wired, Accounted, Present, UNCHANGED <<world, daemon, answered, status, run>>,
         harness'.pc = "exited", harness'.finished = harness.finished,
         harness'.noisy = harness.noisy, harness'.stash = harness.stash, Within(up', up),
         harness'.code = 0 /\ harness.finished /\ Good /\ Open => UNCHANGED up,
         down = <<>> => down' = <<>>, Items(down') \subseteq Items(down)
  PROVE  Accounted'
<1>1. Placed' /\ Stated'
  BY DEF Accounted, Placed, Stated, Present, Open, Double
<1>2. Pressing' /\ Noises'
  <2>1. \A i \in 1 .. Len(up') : \E j \in 1 .. Len(up) : up'[i] = up[j]
    BY Part DEF Wired, WireShape
  <2>. QED
    BY <2>1 DEF Accounted, Pressing, Noises
<1>3. Parkings' /\ Refused'
  BY DEF Accounted, Parkings, Refused, Decided, Steps
<1>4. Complete'
  BY DEF Accounted, Placed, Complete, Good, Open, Grpc
<1>5. Lost' /\ Reported'
  BY DEF Accounted, Placed, Lost, Reported, Good, Grpc, Present
<1>. QED
  BY <1>1, <1>2, <1>3, <1>4, <1>5 DEF Accounted

(* The harness goes on, and nothing is asked.                               *)
LEMMA GoesOn ==
  ASSUME Wired, Accounted, Present, Present', UNCHANGED <<world, up, daemon, answered, status, run>>,
         harness'.code = harness.code, harness'.noisy = harness.noisy,
         daemon.pc \notin {"new", "held"}, harness'.finished => harness'.pc = "closing",
         Items(down') \cup Items(harness'.stash) \subseteq Items(down) \cup Items(harness.stash),
         \/ /\ harness'.pc = harness.pc /\ harness'.wants = harness.wants
            /\ harness'.finished = harness.finished
         \/ /\ \A i \in 1 .. Len(up) : up[i].kind # "request"
            /\ ~(daemon.pc = "ended" /\ daemon.summary = "halted")
            /\ harness'.finished = harness.finished \/ ~Open
  PROVE  Accounted'
<1>1. Placed' /\ Stated'
  BY DEF Accounted, Placed, Stated, Present, Open, Double
<1>2. Pressing' /\ Noises'
  BY DEF Accounted, Pressing, Noises, Present
<1>3. Parkings' /\ Refused'
  BY DEF Accounted, Parkings, Refused, Decided, Steps, Present, Correlated
<1>4. Complete'
  BY DEF Accounted, Complete, Good, Open, Grpc
<1>5. Lost' /\ Reported'
  BY DEF Accounted, Placed, Lost, Reported, Good, Grpc, Present
<1>. QED
  BY <1>1, <1>2, <1>3, <1>4, <1>5 DEF Accounted

(* The harness sends, and the daemon's end is open.                         *)
LEMMA Speaks ==
  ASSUME Wired, Accounted, Present, Present', Open, UNCHANGED <<world, down, daemon, answered, status, run>>,
         daemon.pc \notin {"new", "held"}, harness'.finished => harness'.pc = "closing",
         NEW m, up' = Append(up, m),
         harness'.code = harness.code, harness'.stash = harness.stash,
         harness.noisy => harness'.noisy,
         m.kind = "request" => /\ ~harness'.finished /\ harness'.pc = "awaiting"
                               /\ harness'.wants = m.id,
         m.kind = "noise" => world.host = "run" /\ harness'.noisy,
         harness'.finished => harness.finished \/ m.kind = "complete",
         \/ /\ harness'.pc = harness.pc /\ harness'.wants = harness.wants
            /\ harness'.finished = harness.finished
         \/ \A i \in 1 .. Len(up) : up[i].kind # "request"
  PROVE  Accounted'
<1>1. /\ Len(up) \in Nat /\ Len(up') = Len(up) + 1
      /\ \A i \in 1 .. Len(up) : up'[i] = up[i]
      /\ up'[Len(up) + 1] = m
  BY ItemsAppended DEF Wired, WireShape
<1>2. ASSUME NEW i \in 1 .. Len(up')
      PROVE  (i \in 1 .. Len(up) /\ up'[i] = up[i]) \/ up'[i] = m
  <2>1. i \in 1 .. Len(up) \/ i = Len(up) + 1
    BY <1>1
  <2>. QED
    BY <1>1, <2>1
<1>3. Placed' /\ Stated'
  BY DEF Accounted, Placed, Stated, Present, Open, Double
<1>4. Pressing' /\ Noises'
  BY <1>2 DEF Accounted, Pressing, Noises, Present
<1>5. Parkings' /\ Refused'
  BY DEF Accounted, Parkings, Refused, Decided, Steps, Open
<1>6. Complete'
  <2>1. CASE m.kind = "complete"
    BY <1>1, <2>1 DEF Complete
  <2>2. CASE m.kind # "complete"
    <3>1. ASSUME NEW i \in 1 .. Len(up), up[i].kind = "complete"
          PROVE  \E j \in 1 .. Len(up') : up'[j].kind = "complete"
      <4>1. i \in 1 .. Len(up') /\ up'[i].kind = "complete"
        BY <1>1, <3>1
      <4>. QED
        BY <4>1
    <3>. QED
      BY <2>2, <3>1 DEF Accounted, Complete, Good, Open, Grpc
  <2>. QED
    BY <2>1, <2>2
<1>7. Lost' /\ Reported'
  BY DEF Accounted, Placed, Lost, Reported, Good, Grpc, Present, Open
<1>. QED
  BY <1>3, <1>4, <1>5, <1>6, <1>7 DEF Accounted

LEMMA SpeaksOrNot ==
  ASSUME Wired, Accounted, harness.pc = "idle", NEW m, NEW next, HarnessSends(m, next),
         UNCHANGED <<world, down, daemon, answered, status, run>>,
         next.pc # "exited", next.code = harness.code, next.stash = harness.stash,
         next.noisy = harness.noisy, m.kind # "noise",
         m.kind = "request" => ~next.finished /\ next.pc = "awaiting" /\ next.wants = m.id,
         next.finished = harness.finished \/ m.kind = "complete",
         next.finished => next.pc = "closing"
  PROVE  Accounted'
<1>1. Present /\ daemon.pc \notin {"new", "held"}
  BY DEF Accounted, Placed, Present
<1>2. /\ \A i \in 1 .. Len(up) : up[i].kind # "request"
      /\ ~(daemon.pc = "ended" /\ daemon.summary = "halted")
  BY AtRest
<1>3. CASE Open /\ up' = Append(up, m) /\ harness' = next
  BY <1>1, <1>2, <1>3, Speaks DEF Present
<1>4. CASE ~Open /\ UNCHANGED up /\ harness' = next
  BY <1>1, <1>2, <1>4, GoesOn DEF Present
<1>5. CASE UNCHANGED up /\ harness' = [harness EXCEPT !.pc = "exited", !.code = 1]
  <2>1. /\ harness'.pc = "exited" /\ harness'.finished = harness.finished /\ harness'.code = 1
        /\ harness'.noisy = harness.noisy /\ harness'.stash = harness.stash
    BY <1>5, Sides DEF HarnessFields
  <2>. QED
    BY <1>1, <1>5, <2>1, Sides, Stops
<1>. QED
  BY <1>3, <1>4, <1>5 DEF HarnessSends

LEMMA StopsBy ==
  ASSUME Wired, Accounted, Present, NEW code, Exit(code),
         UNCHANGED <<world, daemon, answered, status, run>>,
         code = 0 /\ harness.finished /\ Good /\ Open => UNCHANGED up,
         down = <<>> => down' = <<>>, Items(down') \subseteq Items(down)
  PROVE  Accounted'
<1>1. harness' = [harness EXCEPT !.pc = "exited", !.code = code] /\ Within(up', up)
  BY Exits
<1>2. /\ harness'.pc = "exited" /\ harness'.finished = harness.finished /\ harness'.code = code
      /\ harness'.noisy = harness.noisy /\ harness'.stash = harness.stash
  BY <1>1, Sides DEF HarnessFields
<1>. QED
  BY <1>1, <1>2, Stops

(* A reply to a step that is awaited: nobody asks for that step any more.     *)
LEMMA Replied ==
  ASSUME Wired, Accounted, harness.pc = "awaiting",
         NEW m \in Items(down) \cup Items(harness.stash), Correlated(m, harness.wants)
  PROVE  /\ \A i \in 1 .. Len(up) : up[i].kind # "request"
         /\ daemon.pc = "ended" /\ daemon.summary = "halted" => m.kind = "result" /\ m.value = "failed"
<1>1. m.id \in daemon.pending \/ (m.id \in Steps /\ Decided(m.id))
  BY DEF Correlated, Accounted, Parkings, Wired, Telling, Truthful
<1>2. ASSUME NEW i \in 1 .. Len(up), up[i].kind = "request" PROVE FALSE
  <2>1. up[i].id = m.id /\ Awaited(up[i].id) /\ up[i].id \notin daemon.pending
    BY <1>2 DEF Accounted, Pressing, Wired, Asking, Correlated
  <2>. QED
    BY <1>1, <2>1 DEF Awaited
<1>. QED
  BY <1>2 DEF Accounted, Refused

LEMMA ClassifiedTurn ==
  ASSUME NEW h, NEW m, DOMAIN h = HarnessFields, m.kind \in {"result", "parked"}
  PROVE  /\ Classified(h, m).finished = h.finished /\ Classified(h, m).noisy = h.noisy
         /\ \/ Classified(h, m).pc = "exited" /\ Classified(h, m).code = 1
            \/ Classified(h, m) = h /\ m.kind = "parked"
            \/ /\ Classified(h, m).pc = "idle" /\ Classified(h, m).code = h.code
               /\ m.kind = "parked" \/ m.value = "ok"
<1>. DEFINE got == [h.got EXCEPT ![h.wants] = <<m.id, m.value>>]
            kept == Append(h.later, m.id)
            rest == Unkept(h.later, h.wants)
            a == [h EXCEPT !.pc = "idle", !.later = kept]
            b == [h EXCEPT !.pc = "idle", !.got = got, !.later = rest]
            c == [h EXCEPT !.pc = "exited", !.got = got, !.code = 1]
<1>. HIDE DEF got, kept, rest
<1>1. /\ a.finished = h.finished /\ a.noisy = h.noisy /\ a.pc = "idle" /\ a.code = h.code
      /\ b.finished = h.finished /\ b.noisy = h.noisy /\ b.pc = "idle" /\ b.code = h.code
      /\ c.finished = h.finished /\ c.noisy = h.noisy /\ c.pc = "exited" /\ c.code = 1
  BY DEF HarnessFields
<1>2. \/ m.kind = "parked" /\ Classified(h, m) \in {a, h}
      \/ m.kind = "result" /\ m.value = "ok" /\ Classified(h, m) = b
      \/ Classified(h, m) = c
  BY DEF Classified, got, kept, rest
<1>. HIDE DEF a, b, c
<1>. QED
  BY <1>1, <1>2

LEMMA TakesReply ==
  ASSUME Wired, Accounted, harness.pc = "awaiting",
         NEW m \in Items(down) \cup Items(harness.stash), Correlated(m, harness.wants),
         NEW h, harness' = Classified(h, m), DOMAIN h = HarnessFields,
         h.pc = harness.pc, h.wants = harness.wants, h.finished = harness.finished,
         h.noisy = harness.noisy, h.code = harness.code,
         Items(h.stash) \subseteq Items(harness.stash),
         UNCHANGED <<world, up, daemon, answered, status, run>>,
         Items(down') \subseteq Items(down)
  PROVE  Accounted'
<1>1. m.kind \in {"result", "parked"} /\ m.id = h.wants
  BY DEF Correlated
<1>2. Present /\ daemon.pc \notin {"new", "held"} /\ ~harness.finished
  BY DEF Accounted, Placed, Present
<1>3. harness'.stash = h.stash /\ harness'.finished = harness.finished
      /\ harness'.noisy = harness.noisy
  <2>1. Classified(h, m).stash = h.stash
    BY <1>1, Classifies
  <2>2. Classified(h, m).finished = h.finished /\ Classified(h, m).noisy = h.noisy
    BY <1>1, ClassifiedTurn
  <2>. QED
    BY <2>1, <2>2
<1>4. \A i \in 1 .. Len(up) : up[i].kind # "request"
  BY Replied
<1>5. CASE harness'.pc = "exited"
  <2>1. Placed' /\ Stated'
    BY <1>2, <1>3, <1>5 DEF Accounted, Placed, Stated, Present, Open, Double
  <2>2. harness'.code = 1
    BY <1>1, <1>2, <1>5, ClassifiedTurn DEF Present
  <2>3. Pressing' /\ Noises' /\ Refused'
    BY <1>3, <1>5 DEF Accounted, Pressing, Noises, Refused
  <2>4. Parkings'
    BY <1>3 DEF Accounted, Parkings, Decided, Steps
  <2>5. Complete' /\ Lost' /\ Reported'
    BY <2>2, <1>2, <1>3, <1>5 DEF Accounted, Placed, Complete, Lost, Reported, Present
  <2>. QED
    BY <2>1, <2>3, <2>4, <2>5 DEF Accounted
<1>6. CASE harness'.pc # "exited"
  <2>1. harness'.code = harness.code /\ Present'
    BY <1>1, <1>6, ClassifiedTurn DEF Present
  <2>2. CASE harness' = h
    BY <1>2, <1>3, <1>4, <2>1, <2>2, GoesOn
  <2>3. CASE harness' # h
    <3>1. m.kind = "parked" \/ m.value = "ok"
      BY <1>1, <1>6, <2>3, ClassifiedTurn
    <3>2. ~(daemon.pc = "ended" /\ daemon.summary = "halted")
      BY <3>1, Replied
    <3>. QED
      BY <1>2, <1>3, <1>4, <2>1, <3>2, GoesOn
  <2>. QED
    BY <2>2, <2>3
<1>. QED
  BY <1>5, <1>6

LEMMA AwaitsWell == ASSUME Wired, Accounted, AwaitResult PROVE Accounted'
<1>. DEFINE n == harness.wants
            own == {i \in DOMAIN harness.stash : Correlated(harness.stash[i], n)}
<1>0. /\ harness.pc = "awaiting" /\ Present /\ daemon.pc \notin {"new", "held"} /\ ~harness.finished
      /\ UNCHANGED <<world, daemon, answered, status, run>>
  BY DEF AwaitResult, Accounted, Placed, Present
<1>1. CASE own # {}
  <2>. DEFINE i == Earliest(own)
              m == harness.stash[i]
              h == [harness EXCEPT !.stash = RemoveAt(harness.stash, i)]
  <2>1. i \in own /\ i \in 1 .. Len(harness.stash)
    <3>1. DOMAIN harness.stash = 1 .. Len(harness.stash) /\ Len(harness.stash) \in Nat
      BY Sides, LenProperties DEF IsChannel
    <3>2. own \subseteq 1 .. Len(harness.stash) /\ own \subseteq Nat
      BY <3>1
    <3>. HIDE DEF own
    <3>. QED
      BY <1>1, <3>2, Earliests
  <2>2. /\ harness' = Classified(h, m)
        /\ UNCHANGED <<up, down>>
    BY <1>1 DEF AwaitResult
  <2>. HIDE DEF i
  <2>3. Correlated(m, n) /\ m \in Items(harness.stash)
    BY <2>1 DEF Items
  <2>4. /\ DOMAIN h = HarnessFields /\ h.pc = harness.pc /\ h.wants = harness.wants
        /\ h.finished = harness.finished /\ h.noisy = harness.noisy /\ h.code = harness.code
        /\ Items(h.stash) \subseteq Items(harness.stash)
    BY <2>1, Sides, ItemsRemoved DEF HarnessFields
  <2>. HIDE DEF h, m
  <2>. QED
    BY <1>0, <2>2, <2>3, <2>4, TakesReply
<1>2. CASE own = {} /\ down # <<>> /\ down' = Tail(down)
  <2>. DEFINE m == Head(down)
  <2>1. m \in Items(down) /\ Items(down') \subseteq Items(down)
    BY <1>2, Sides
  <2>3. CASE Correlated(m, n)
    <3>1. harness' = Classified(harness, m) /\ UNCHANGED up
      BY <1>2, <2>3 DEF AwaitResult, HarnessHearsNone, Correlated
    <3>. HIDE DEF m
    <3>. QED
      BY <1>0, <2>1, <2>3, <3>1, Sides, TakesReply
  <2>4. CASE ~Correlated(m, n) /\ m.kind = "abort"
    <3>1. Exit(1)
      BY <1>2, <2>4 DEF AwaitResult, HarnessHearsNone
    <3>. QED
      BY <1>0, <1>2, <2>1, <3>1, StopsBy
  <2>5. CASE ~Correlated(m, n) /\ m.kind # "abort"
    <3>1. harness' = [harness EXCEPT !.stash = Append(harness.stash, m)] /\ UNCHANGED up
      BY <1>2, <2>5 DEF AwaitResult, HarnessHearsNone
    <3>2. /\ harness'.pc = harness.pc /\ harness'.wants = harness.wants
          /\ harness'.finished = harness.finished /\ harness'.code = harness.code
          /\ harness'.noisy = harness.noisy /\ harness'.stash = Append(harness.stash, m)
      BY <3>1, Sides DEF HarnessFields
    <3>3. Items(harness'.stash) = Items(harness.stash) \cup {m}
      BY <3>2, Sides, ItemsAppended
    <3>. QED
      BY <1>0, <2>1, <3>1, <3>2, <3>3, GoesOn DEF Present
  <2>. QED
    BY <2>3, <2>4, <2>5
<1>3. CASE own = {} /\ HarnessHearsNone /\ Exit(1) /\ UNCHANGED down
  BY <1>0, <1>3, StopsBy
<1>. QED
  BY <1>1, <1>2, <1>3 DEF AwaitResult

LEMMA HarnessAccounts == ASSUME Wired, Accounted, Harness \/ Misbehave PROVE Accounted'
<1>1. CASE Connect
  <2>1. /\ UNCHANGED <<world, up, down, daemon, answered, status>> /\ harness.pc = "launching"
        /\ harness' = [harness EXCEPT !.pc = "starting"]
        /\ run' = IF run.pc = "connect" THEN [run EXCEPT !.pc = "start"] ELSE run
    BY <1>1 DEF Connect
  <2>2. /\ harness'.pc = "starting" /\ harness'.finished = harness.finished
        /\ harness'.code = harness.code /\ harness'.noisy = harness.noisy
        /\ harness'.stash = harness.stash
    BY <2>1, Sides DEF HarnessFields
  <2>3. /\ run' = run \/ (run.pc = "connect" /\ run'.pc = "start" /\ run'.result = run.result)
        /\ DOMAIN run' = {"pc", "result"}
    BY <2>1 DEF Accounted, Placed
  <2>4. Placed' /\ Stated'
    BY <2>1, <2>2, <2>3 DEF Accounted, Placed, Stated, Present, Open, Double
  <2>5. /\ \A i \in 1 .. Len(up) : up[i].kind # "request"
        /\ ~(daemon.pc = "ended" /\ daemon.summary = "halted")
    BY <2>1, AtRest
  <2>6. Pressing' /\ Noises' /\ Refused' /\ Parkings'
    BY <2>1, <2>2, <2>5 DEF Accounted, Pressing, Noises, Refused, Parkings, Decided, Steps
  <2>7. Complete' /\ Lost' /\ Reported'
    BY <2>1, <2>2, <2>3 DEF Accounted, Complete, Lost, Reported, Present, Good, Grpc, Open
  <2>. QED
    BY <2>4, <2>6, <2>7 DEF Accounted
<1>2. CASE RecvSessionStart
  <2>0. /\ Present /\ harness.pc = "starting" /\ ~harness.finished
        /\ UNCHANGED <<world, daemon, answered, status, run>>
    BY <1>2 DEF RecvSessionStart, Present, Accounted, Placed
  <2>1. CASE Exit(1)
    <3>1. (down = <<>> => down' = <<>>) /\ Items(down') \subseteq Items(down)
      BY <1>2, Sides DEF RecvSessionStart
    <3>. QED
      BY <2>0, <2>1, <3>1, StopsBy
  <2>2. CASE ~Exit(1)
    <3>1. /\ harness' = [harness EXCEPT !.pc = "idle"]
          /\ down # <<>> /\ down' = Tail(down) /\ UNCHANGED up
      BY <1>2, <2>2 DEF RecvSessionStart
    <3>2. /\ harness'.pc = "idle" /\ harness'.finished = harness.finished
          /\ harness'.code = harness.code /\ harness'.noisy = harness.noisy
          /\ harness'.stash = harness.stash
      BY <3>1, Sides DEF HarnessFields
    <3>3. daemon.pc \notin {"new", "held"}
      BY <3>1 DEF Accounted, Placed
    <3>4. /\ \A i \in 1 .. Len(up) : up[i].kind # "request"
          /\ ~(daemon.pc = "ended" /\ daemon.summary = "halted")
      BY <2>0, AtRest
    <3>. QED
      BY <2>0, <3>1, <3>2, <3>3, <3>4, Sides, GoesOn DEF Present
  <2>. QED
    BY <2>1, <2>2
<1>3. CASE Request
  <2>. DEFINE n == harness.at
              kind == world.script[n]
              next == [harness EXCEPT !.at = n + 1, !.wants = n,
                         !.pc = IF kind = "signal" THEN "listening" ELSE "awaiting"]
              m == [kind |-> kind, id |-> n]
  <2>1. /\ harness.pc = "idle" /\ HarnessSends(m, next) /\ n \in Steps
        /\ UNCHANGED <<world, down, daemon, answered, status, run>>
    BY <1>3 DEF Request
  <2>2. /\ next.finished = harness.finished /\ next.stash = harness.stash
        /\ next.noisy = harness.noisy /\ next.code = harness.code /\ next.wants = n
        /\ next.pc = IF kind = "signal" THEN "listening" ELSE "awaiting"
        /\ m.kind = kind /\ m.id = n
    BY Sides DEF HarnessFields
  <2>3. kind \in {"request", "signal"}
    <3>1. world \in Worlds
      BY DEF Accounted, Placed
    <3>2. PICK k \in 0 .. 3 : world.script \in [1 .. k -> {"request", "signal"}]
      BY <3>1, WorldsAssumption DEF Script, SeqOf
    <3>3. n \in 1 .. k
      <4>1. world.script \in Seq({"request", "signal"}) /\ Len(world.script) = k
        BY <3>2, SeqDef, LenProperties
      <4>. QED
        BY <2>1, <4>1 DEF Steps
    <3>. QED
      BY <3>2, <3>3
  <2>4. ~harness.finished
    BY <2>1 DEF Accounted, Placed
  <2>. HIDE DEF next, m, kind, n
  <2>. QED
    BY <2>1, <2>2, <2>3, <2>4, SpeaksOrNot
<1>4. CASE AwaitResult
  BY <1>4, AwaitsWell
<1>5. CASE PollParked
  <2>1. /\ harness.pc = "idle" /\ Present /\ ~harness.finished
        /\ UNCHANGED <<world, up, down, daemon, answered, status, run>>
    BY <1>5 DEF PollParked, Present, Accounted, Placed
  <2>2. /\ harness'.pc = "awaiting" /\ harness'.finished = harness.finished
        /\ harness'.code = harness.code /\ harness'.noisy = harness.noisy
        /\ harness'.stash = harness.stash
    BY <1>5, Sides DEF PollParked, HarnessFields
  <2>3. daemon.pc \notin {"new", "held"}
    BY <2>1 DEF Accounted, Placed
  <2>4. /\ \A i \in 1 .. Len(up) : up[i].kind # "request"
        /\ ~(daemon.pc = "ended" /\ daemon.summary = "halted")
    BY <2>1, AtRest
  <2>. QED
    BY <2>1, <2>2, <2>3, <2>4, GoesOn DEF Present
<1>6. CASE AwaitSignal
  <2>1. /\ harness.pc = "listening" /\ Present /\ UNCHANGED <<world, daemon, answered, status, run>>
        /\ daemon.pc \notin {"new", "held"} /\ ~harness.finished
    BY <1>6 DEF AwaitSignal, Present, Accounted, Placed
  <2>2. CASE Exit(1)
    <3>1. (down = <<>> => down' = <<>>) /\ Items(down') \subseteq Items(down)
      BY <1>6, Sides DEF AwaitSignal
    <3>. QED
      BY <2>1, <2>2, <3>1, StopsBy
  <2>3. CASE ~Exit(1)
    <3>1. /\ down # <<>> /\ down' = Tail(down) /\ UNCHANGED up
          /\ \/ harness' = [harness EXCEPT !.pc = "idle"]
             \/ harness' = [harness EXCEPT !.stash = Append(harness.stash, Head(down))]
      BY <1>6, <2>3 DEF AwaitSignal
    <3>2. /\ harness'.pc \in {"idle", "listening"} /\ harness'.finished = harness.finished
          /\ harness'.code = harness.code /\ harness'.noisy = harness.noisy
          /\ harness'.stash = harness.stash \/ harness'.stash = Append(harness.stash, Head(down))
      BY <2>1, <3>1, Sides DEF HarnessFields
    <3>3. Items(harness'.stash) \subseteq Items(harness.stash) \cup {Head(down)}
      <4>1. Items(Append(harness.stash, Head(down))) = Items(harness.stash) \cup {Head(down)}
        BY Sides, ItemsAppended
      <4>. QED
        BY <3>2, <4>1
    <3>4. Items(down') \cup Items(harness'.stash) \subseteq Items(down) \cup Items(harness.stash)
      BY <3>1, <3>3, Sides
    <3>5. /\ \A i \in 1 .. Len(up) : up[i].kind # "request"
          /\ ~(daemon.pc = "ended" /\ daemon.summary = "halted")
      BY <2>1, AtRest
    <3>. QED
      BY <2>1, <3>1, <3>2, <3>4, <3>5, GoesOn DEF Present
  <2>. QED
    BY <2>2, <2>3
<1>7. CASE SessionComplete
  <2>. DEFINE next == [harness EXCEPT !.pc = "closing", !.finished = TRUE]
              m == [kind |-> "complete", id |-> 0]
  <2>1. /\ harness.pc = "idle" /\ HarnessSends(m, next)
        /\ UNCHANGED <<world, down, daemon, answered, status, run>>
    BY <1>7 DEF SessionComplete
  <2>2. /\ next.pc = "closing" /\ next.stash = harness.stash
        /\ next.noisy = harness.noisy /\ next.code = harness.code /\ m.kind = "complete"
    BY Sides DEF HarnessFields
  <2>. HIDE DEF next, m
  <2>. QED
    BY <2>1, <2>2, SpeaksOrNot
<1>8. CASE Close
  <2>1. /\ harness.pc = "closing" /\ Present /\ UNCHANGED <<world, daemon, answered, status, run>>
        /\ daemon.pc \notin {"new", "held"}
    BY <1>8 DEF Close, Present, Accounted, Placed
  <2>2. CASE Exit(0) /\ UNCHANGED down /\ (world.manner = "waits" => HarnessHearsNone)
    <3>1. Good /\ Open => UNCHANGED up
      BY <2>2, WorldsAssumption DEF Exit, Good, HarnessHearsNone, Accounted, Placed
    <3>. QED
      BY <2>1, <2>2, <3>1, StopsBy
  <2>3. CASE down # <<>> /\ down' = Tail(down) /\ UNCHANGED <<up, harness>>
    BY <2>1, <2>3, Sides, GoesOn DEF Present
  <2>. QED
    BY <1>8, <2>2, <2>3 DEF Close
<1>9. CASE Misbehave
  <2>0. /\ world.host = "run" /\ Present /\ UNCHANGED <<world, down, daemon, answered, status, run>>
    BY <1>9 DEF Misbehave
  <2>1. CASE Exit(1)
    BY <2>0, <2>1, StopsBy
  <2>2. CASE ~harness.finished /\ Exit(0)
    BY <2>0, <2>2, StopsBy
  <2>3. CASE /\ Open /\ harness.pc \in {"idle", "awaiting", "listening"}
             /\ up' = Append(up, [kind |-> "noise", id |-> 0])
             /\ harness' = [harness EXCEPT !.noisy = TRUE]
    <3>. DEFINE m == [kind |-> "noise", id |-> 0]
    <3>1. /\ harness'.pc = harness.pc /\ harness'.wants = harness.wants
          /\ harness'.finished = harness.finished /\ harness'.code = harness.code
          /\ harness'.stash = harness.stash /\ harness'.noisy = TRUE /\ m.kind = "noise"
          /\ up' = Append(up, m)
      BY <2>3, Sides DEF HarnessFields
    <3>2. daemon.pc \notin {"new", "held"} /\ ~harness.finished
      BY <2>3 DEF Accounted, Placed
    <3>. HIDE DEF m
    <3>. QED
      BY <2>0, <2>3, <3>1, <3>2, Speaks DEF Present
  <2>. QED
    BY <1>9, <2>1, <2>2, <2>3 DEF Misbehave
<1>. QED
  BY <1>1, <1>2, <1>3, <1>4, <1>5, <1>6, <1>7, <1>8, <1>9 DEF Harness

(* The daemon, and the news it has for the harness.                          *)
LEMMA News ==
  ASSUME Wired, Accounted, NEW news, Items(down') \subseteq Items(down) \cup news,
         UNCHANGED <<world, harness>>,
         \A n \in Steps : Decided(n) => Decided(n)',
         \A n \in daemon.pending : n \in daemon'.pending \/ (n \in Steps /\ Decided(n)'),
         \A m \in news : m.kind = "parked" => m.id \in daemon'.pending
  PROVE  Parkings'
  BY DEF Accounted, Parkings, Steps

LEMMA TakenOff ==
  ASSUME Wired, up # <<>>, up' = Tail(up), Head(up).kind # "complete",
         NEW i \in 1 .. Len(up), up[i].kind = "complete"
  PROVE  \E j \in 1 .. Len(up') : up'[j].kind = "complete"
<1>1. /\ Len(up) \in Nat /\ Len(up') = Len(up) - 1
      /\ \A j \in 1 .. Len(up) - 1 : up'[j] = up[j + 1]
      /\ Head(up) = up[1]
  BY Sides, ItemsTaken
<1>2. i # 1
  BY <1>1
<1>3. i - 1 \in 1 .. Len(up) - 1 /\ (i - 1) + 1 = i
  BY <1>1, <1>2
<1>4. up'[i - 1] = up[i]
  BY <1>1, <1>3
<1>. QED
  BY <1>1, <1>3, <1>4

AtWork == {"serving", "parked", "waiting"}
LEMMA WorksOn ==
  ASSUME Wired, Accounted, UNCHANGED <<world, harness, run>>, daemon.pc \in AtWork,
         daemon'.pc \in AtWork \/ (daemon'.pc = "failed" /\ daemon'.broke),
         daemon.broke => daemon'.broke,
         \/ UNCHANGED up
         \/ up # <<>> /\ up' = Tail(up) /\ Head(up).kind # "complete",
         Parkings'
  PROVE  Accounted'
<1>1. Open /\ run.pc \notin {"connect", "start", "reap", "done"}
  BY DEF Accounted, Placed, Open, AtWork
<1>2. Placed' /\ Stated'
  BY <1>1 DEF Accounted, Placed, Stated, Present, Open, Double, AtWork, Ends
<1>3. Within(up', up)
  BY Sides
<1>4. Pressing' /\ Noises'
  <2>1. \A i \in 1 .. Len(up') : \E j \in 1 .. Len(up) : up'[i] = up[j]
    BY <1>3, Part DEF Wired, WireShape
  <2>. QED
    BY <2>1 DEF Accounted, Pressing, Noises
<1>5. Refused' /\ Lost' /\ Reported'
  BY <1>1 DEF Refused, Lost, Reported, AtWork
<1>6. Complete'
  <2>1. Complete
    BY DEF Accounted
  <2>. QED
    BY <1>1, <2>1, TakenOff DEF Complete, Good, Grpc
<1>. QED
  BY <1>2, <1>4, <1>5, <1>6 DEF Accounted

LEMMA Concludes ==
  ASSUME Wired, Accounted, UNCHANGED <<world, harness, run>>, daemon.pc \in AtWork,
         daemon'.pc = "ended", daemon'.summary \in Ends, daemon'.broke = daemon.broke,
         ~Double => status' = daemon'.summary, Within(up', up),
         Parkings', Refused', Lost'
  PROVE  Accounted'
<1>1. Open /\ run.pc \notin {"connect", "start", "reap", "done"}
  BY DEF Accounted, Placed, Open, AtWork
<1>2. Placed' /\ Stated'
  BY <1>1 DEF Accounted, Placed, Stated, Present, Open, Double, AtWork, Ends
<1>3. Pressing' /\ Noises'
  <2>1. \A i \in 1 .. Len(up') : \E j \in 1 .. Len(up) : up'[i] = up[j]
    BY Part DEF Wired, WireShape
  <2>. QED
    BY <2>1 DEF Accounted, Pressing, Noises
<1>4. Complete' /\ Reported'
  BY <1>1 DEF Complete, Reported, Open
<1>. QED
  BY <1>2, <1>3, <1>4 DEF Accounted

LEMMA StartAccounts == ASSUME Wired, Accounted, StartServing PROVE Accounted'
<1>. DEFINE begun == [daemon EXCEPT !.pc = "serving"]
            held == [daemon EXCEPT !.pc = "held"]
            dropped == [daemon EXCEPT !.pc = "dropped", !.broke = TRUE]
            msg == [kind |-> "start", id |-> 0]
<1>0. /\ run.pc = "start" /\ daemon.pc = "new" /\ UNCHANGED <<world, up, answered>>
      /\ down = <<>> /\ ~harness.finished /\ harness.pc \in {"launching", "starting", "exited"}
      /\ DOMAIN run = {"pc", "result"} /\ run.result = "none" /\ Open
      /\ Items(<<>>) = {}
  BY EmptySeq DEF StartServing, Accounted, Placed, Open, Items
<1>1. /\ begun.pc = "serving" /\ held.pc = "held" /\ dropped.pc = "dropped" /\ dropped.broke
      /\ begun.pending = daemon.pending /\ held.pending = daemon.pending
      /\ dropped.pending = daemon.pending
      /\ begun.broke = daemon.broke /\ held.broke = daemon.broke /\ msg.kind = "start"
  BY Sides DEF DaemonFields
<1>2. CASE /\ DaemonSends(msg, begun, IF Double THEN begun ELSE held) /\ UNCHANGED harness
           /\ run' = [run EXCEPT !.pc = IF daemon'.pc = "held" THEN "crash"
                                       ELSE IF world.host = "run" THEN "drive" ELSE "join"]
  <2>1. /\ daemon' \in {begun, held} /\ Items(down') \subseteq Items(down) \cup {msg}
        /\ daemon' = held => UNCHANGED down
    BY <1>1, <1>2, DaemonSent DEF DaemonSends
  <2>. HIDE DEF begun, held, msg, dropped
  <2>2. /\ run'.pc \in {"crash", "drive", "join"}
        /\ run'.pc = "crash" => daemon'.pc = "held"
        /\ run'.result = "none" /\ DOMAIN run' = {"pc", "result"}
        /\ daemon'.pc \in {"serving", "held"}
        /\ daemon'.pc = "held" => down' = <<>>
    BY <1>0, <1>1, <1>2, <2>1
  <2>3. Placed' /\ Stated'
    BY <1>0, <1>2, <2>2 DEF Accounted, Placed, Stated, Present, Open, Double, Ends
  <2>4. Parkings'
    BY <1>0, <1>1, <1>2, <2>1, News DEF Decided
  <2>5. Pressing' /\ Noises' /\ Refused'
    BY <1>0, <1>2, <2>2 DEF Accounted, Pressing, Noises, Refused
  <2>6. Complete' /\ Lost' /\ Reported'
    BY <1>0, <1>2, <2>2 DEF Complete, Lost, Reported
  <2>. QED
    BY <2>3, <2>4, <2>5, <2>6 DEF Accounted
<1>3. CASE daemon' = held /\ run' = [run EXCEPT !.pc = "crash"] /\ UNCHANGED <<down, harness, status>>
  <2>. HIDE DEF begun, held, msg, dropped
  <2>2. /\ run'.pc = "crash" /\ run'.result = "none" /\ DOMAIN run' = {"pc", "result"}
        /\ daemon'.pc = "held"
    BY <1>0, <1>1, <1>3
  <2>3. Placed' /\ Stated'
    BY <1>0, <1>3, <2>2 DEF Accounted, Placed, Stated, Present, Open, Double, Ends
  <2>4. Parkings'
    BY <1>0, <1>1, <1>3 DEF Accounted, Parkings, Decided, Steps
  <2>5. Pressing' /\ Noises' /\ Refused'
    BY <1>0, <1>3, <2>2 DEF Accounted, Pressing, Noises, Refused
  <2>6. Complete' /\ Lost' /\ Reported'
    BY <1>0, <1>3, <2>2 DEF Complete, Lost, Reported
  <2>. QED
    BY <2>3, <2>4, <2>5, <2>6 DEF Accounted
<1>4. CASE /\ daemon' = dropped /\ run' = [pc |-> "done", result |-> "error"]
           /\ harness' = [harness EXCEPT !.pc = "exited", !.code = 1] /\ UNCHANGED <<down, status>>
  <2>1. /\ harness'.pc = "exited" /\ harness'.finished = harness.finished /\ harness'.code = 1
        /\ harness'.noisy = harness.noisy /\ harness'.stash = harness.stash
    BY <1>4, Sides DEF HarnessFields
  <2>. HIDE DEF begun, held, msg, dropped
  <2>2. /\ run'.pc = "done" /\ run'.result = "error" /\ DOMAIN run' = {"pc", "result"}
        /\ daemon'.pc = "dropped" /\ daemon'.broke
    BY <1>1, <1>4
  <2>3. Placed' /\ Stated'
    BY <1>0, <2>1, <2>2 DEF Accounted, Placed, Stated, Present, Open, Double, Ends
  <2>4. Parkings'
    BY <1>0, <1>1, <1>4, <2>1 DEF Accounted, Parkings, Decided, Steps
  <2>5. Pressing' /\ Noises' /\ Refused'
    BY <1>0, <2>1, <2>2 DEF Accounted, Pressing, Noises, Refused
  <2>6. Complete' /\ Lost' /\ Reported'
    BY <1>0, <2>1, <2>2 DEF Complete, Lost, Reported
  <2>. QED
    BY <2>3, <2>4, <2>5, <2>6 DEF Accounted
<1>. QED
  BY <1>2, <1>3, <1>4 DEF StartServing

(* One answer more: whatever was answered stays answered.                    *)
LEMMA Grows ==
  ASSUME Wired, NEW n \in Steps, NEW value \in Outcome, UNCHANGED world,
         answered' = [answered EXCEPT ![n] = value]
  PROVE  Decided(n)' /\ \A o \in Steps : Decided(o) => Decided(o)'
<1>1. DOMAIN answered = Steps /\ value # Unanswered
  BY DEF Wired, WireShape, Outcome, Unanswered
<1>. QED
  BY <1>1 DEF Decided

(* A send of the daemon at work, whether it arrives or not.                  *)
LEMMA Sending ==
  ASSUME Wired, Accounted, daemon.pc \in AtWork, NEW msg, NEW sent,
         DaemonSends(msg, sent, sent) \/ DaemonSends(msg, sent, Failing(sent)),
         DOMAIN sent = DaemonFields, sent.pc \in AtWork, sent.broke = daemon.broke,
         UNCHANGED <<world, harness, run>>,
         \/ UNCHANGED up
         \/ up # <<>> /\ up' = Tail(up) /\ Head(up).kind # "complete",
         \A n \in Steps : Decided(n) => Decided(n)',
         \A n \in daemon.pending : n \in sent.pending \/ (n \in Steps /\ Decided(n)'),
         msg.kind = "parked" => msg.id \in sent.pending
  PROVE  Accounted'
<1>1. Items(down') \subseteq Items(down) \cup {msg} /\ (daemon' = sent \/ daemon' = Failing(sent))
  BY DaemonSent
<1>2. /\ daemon'.pending = sent.pending
      /\ daemon'.pc \in AtWork \/ (daemon'.pc = "failed" /\ daemon'.broke)
      /\ daemon.broke => daemon'.broke
  BY <1>1 DEF Failing, DaemonFields
<1>. DEFINE news == {msg}
<1>3. \A m \in news : m.kind = "parked" => m.id \in daemon'.pending
  BY <1>2
<1>4. Items(down') \subseteq Items(down) \cup news
  BY <1>1
<1>. HIDE DEF news
<1>5. \A n \in daemon.pending : n \in daemon'.pending \/ (n \in Steps /\ Decided(n)')
  BY <1>2
<1>6. Parkings'
  BY <1>3, <1>4, <1>5, News
<1>. QED
  BY <1>2, <1>6, WorksOn

LEMMA AnswerAccounts == ASSUME Wired, Accounted, NEW value \in Outcome, Answer(value) PROVE Accounted'
<1>. DEFINE n == Head(up).id
            msg == [kind |-> "result", id |-> n, value |-> value]
<1>1. /\ DaemonHears("request") /\ up # <<>> /\ Head(up).kind # "complete" /\ up' = Tail(up)
      /\ UNCHANGED <<world, harness, run>> /\ daemon.pc \in AtWork
      /\ answered' = [answered EXCEPT ![n] = value]
      /\ DaemonSends(msg, daemon, Failing(daemon)) /\ msg.kind = "result"
  BY DEF Answer, Consumed, DaemonHears, Serving, AtWork
<1>2. n \in Steps
  BY <1>1, Hears DEF Awaited
<1>. HIDE DEF n, msg
<1>. QED
  BY <1>1, <1>2, Grows, Sides, Sending

LEMMA ResolveAccounts ==
  ASSUME Wired, Accounted, NEW n \in Steps, NEW value \in Outcome, Resolve(n, value)
  PROVE  Accounted'
<1>. DEFINE resumed == [daemon EXCEPT !.pc = "serving", !.pending = daemon.pending \ {n}]
            msg == [kind |-> "result", id |-> n, value |-> value]
<1>1. /\ UNCHANGED <<world, up, harness, run>> /\ daemon.pc \in AtWork
      /\ answered' = [answered EXCEPT ![n] = value]
      /\ DaemonSends(msg, resumed, Failing(resumed)) /\ msg.kind = "result"
  BY DEF Resolve, AtWork
<1>2. /\ DOMAIN resumed = DaemonFields /\ resumed.pending = daemon.pending \ {n}
      /\ resumed.pc \in AtWork /\ resumed.broke = daemon.broke
  BY Sides DEF DaemonFields, AtWork
<1>. HIDE DEF resumed, msg
<1>3. /\ Decided(n)' /\ \A o \in Steps : Decided(o) => Decided(o)'
      /\ \A o \in daemon.pending : o \in resumed.pending \/ o = n
  BY <1>1, <1>2, Grows
<1>. QED
  BY <1>1, <1>2, <1>3, Sending

LEMMA ParkAccounts == ASSUME Wired, Accounted, ParkCall PROVE Accounted'
<1>. DEFINE n == Head(up).id
            put == [daemon EXCEPT !.pending = daemon.pending \cup {n},
                                     !.pc = IF Double THEN "serving" ELSE "parked"]
            msg == [kind |-> "parked", id |-> n]
<1>1. /\ up # <<>> /\ Head(up).kind # "complete" /\ up' = Tail(up) /\ daemon.pc \in AtWork
      /\ UNCHANGED <<world, harness, answered, run>>
      /\ DaemonSends(msg, put, Failing(put)) /\ msg.id = n
  BY DEF ParkCall, Consumed, DaemonHears, Serving, AtWork
<1>2. /\ DOMAIN put = DaemonFields /\ put.pending = daemon.pending \cup {n}
      /\ put.pc \in AtWork /\ put.broke = daemon.broke
  BY Sides DEF DaemonFields, AtWork
<1>3. \A o \in Steps : Decided(o) => Decided(o)'
  BY <1>1 DEF Decided
<1>. HIDE DEF n, put, msg
<1>4. msg.id \in put.pending /\ \A o \in daemon.pending : o \in put.pending
  BY <1>1, <1>2
<1>. QED
  BY <1>1, <1>2, <1>3, <1>4, Sending

LEMMA HaltAccounts == ASSUME Wired, Accounted, Halt PROVE Accounted'
<1>. DEFINE n == Head(up).id
            over == [daemon EXCEPT !.pc = "ended", !.summary = "halted"]
            abort == [kind |-> "abort", id |-> 0]
            failed == "failed"
            refusal == [kind |-> "result", id |-> n, value |-> failed]
<1>1. /\ DaemonHears("request") /\ up # <<>> /\ Head(up).kind = "request" /\ up' = Tail(up)
      /\ UNCHANGED <<world, harness, run>> /\ Within(up', up)
      /\ daemon.pc \in AtWork /\ (~Double => status' = "halted")
  BY Sides DEF Halt, Consumed, DaemonHears, Serving, AtWork, Stored
<1>2. /\ DOMAIN over = DaemonFields /\ over.pending = daemon.pending /\ over.pc = "ended"
      /\ over.summary = "halted" /\ over.broke = daemon.broke
      /\ abort.kind = "abort" /\ refusal.kind = "result" /\ refusal.value = "failed"
  BY Sides DEF DaemonFields
<1>3. n \in Steps /\ failed \in Outcome
  BY <1>1, Hears DEF Awaited, Outcome
<1>4. /\ ~harness.finished /\ harness.pc \in {"exited", "awaiting"}
      /\ harness.pc = "awaiting" =>
           \A m \in Items(down) \cup Items(harness.stash) : ~Correlated(m, harness.wants)
  <2>1. 1 \in 1 .. Len(up) /\ up[1].kind = "request"
    BY <1>1, Sides, ItemsTaken
  <2>. QED
    BY <2>1, Replied DEF Accounted, Pressing
<1>. HIDE DEF n, over, abort, failed, refusal
<1>5. CASE Double
  <2>1. /\ down' = IF Present THEN Append(Append(down, refusal), abort) ELSE down
        /\ daemon' = over /\ answered' = [answered EXCEPT ![n] = failed]
    BY <1>5 DEF Halt, n, over, abort, failed, refusal
  <2>2. Items(down') \subseteq Items(down) \cup {refusal, abort}
    <3>1. IsChannel(down) /\ IsChannel(Append(down, refusal))
      BY Sides, Channels
    <3>2. /\ Items(Append(down, refusal)) = Items(down) \cup {refusal}
          /\ Items(Append(Append(down, refusal), abort)) = Items(Append(down, refusal)) \cup {abort}
      BY <3>1, ItemsAppended
    <3>. QED
      BY <2>1, <3>2
  <2>3. Parkings'
    BY <1>1, <1>2, <1>3, <2>1, <2>2, Grows, News
  <2>4. Refused'
    BY <1>1, <1>2, <1>4, <2>2 DEF Refused, Correlated
  <2>. QED
    BY <1>1, <1>2, <1>5, <2>1, <2>3, <2>4, Concludes DEF Ends, Lost
<1>6. CASE ~Double
  <2>1. DaemonSends(abort, over, Failing(over)) /\ UNCHANGED answered
    BY <1>6 DEF Halt, over, abort
  <2>2. Items(down') \subseteq Items(down) \cup {abort} /\ daemon' \in {over, Failing(over)}
    BY <2>1, DaemonSent
  <2>3. /\ daemon'.pending = daemon.pending
        /\ daemon' # over => daemon'.pc = "failed" /\ daemon'.broke
    BY <1>2, <2>2, <1>6 DEF Failing, DaemonFields
  <2>4. Parkings'
    BY <1>1, <1>2, <2>1, <2>2, <2>3, News DEF Decided
  <2>5. CASE daemon' = over
    <3>1. Refused'
      BY <1>1, <1>2, <1>4, <2>2 DEF Refused, Correlated
    <3>. QED
      BY <1>1, <1>2, <1>6, <2>4, <2>5, <3>1, Concludes DEF Ends, Lost
  <2>6. CASE daemon' # over
    BY <1>1, <2>3, <2>4, <2>6, WorksOn
  <2>. QED
    BY <2>5, <2>6
<1>. QED
  BY <1>5, <1>6

LEMMA ServeAccounts == ASSUME Wired, Accounted, Serve \/ Break \/ Human PROVE Accounted'
<1>1. CASE SkipUnparsed
  <2>1. Parkings'
    BY <1>1 DEF SkipUnparsed, Accounted, Parkings, Decided, Steps
  <2>. QED
    BY <1>1, <2>1, WorksOn DEF SkipUnparsed, DaemonHears, Consumed, Serving, AtWork
<1>2. CASE WaitSignal
  <2>. DEFINE msg == [kind |-> "signal", id |-> 0]
              waiting == [daemon EXCEPT !.pc = "waiting"]
  <2>1. /\ up # <<>> /\ Head(up).kind # "complete" /\ up' = Tail(up) /\ daemon.pc \in AtWork
        /\ UNCHANGED <<world, harness, answered, run>>
        /\ DaemonSends(msg, daemon, daemon) \/ (daemon' = waiting /\ UNCHANGED down)
    BY <1>2 DEF WaitSignal, DaemonHears, Consumed, Serving, AtWork
  <2>2. /\ msg.kind = "signal" /\ waiting.pc \in AtWork /\ waiting.broke = daemon.broke
        /\ waiting.pending = daemon.pending /\ \A n \in Steps : Decided(n) => Decided(n)'
    BY <2>1, Sides DEF DaemonFields, AtWork, Decided
  <2>. HIDE DEF msg, waiting
  <2>3. CASE DaemonSends(msg, daemon, daemon)
    BY <2>1, <2>2, <2>3, Sides, Sending
  <2>4. CASE daemon' = waiting /\ UNCHANGED down
    <3>1. Parkings'
      BY <2>1, <2>2, <2>4 DEF Accounted, Parkings, Decided, Steps
    <3>. QED
      BY <2>1, <2>2, <2>4, <3>1, WorksOn
  <2>. QED
    BY <2>1, <2>3, <2>4
<1>3. CASE Notify
  <2>. DEFINE msg == [kind |-> "signal", id |-> 0]
              resumed == [daemon EXCEPT !.pc = "serving"]
  <2>1. /\ DaemonSends(msg, resumed, Failing(resumed)) /\ daemon.pc \in AtWork
        /\ UNCHANGED <<world, up, harness, answered, run>>
    BY <1>3 DEF Notify, AtWork
  <2>2. /\ msg.kind = "signal" /\ DOMAIN resumed = DaemonFields /\ resumed.pc \in AtWork
        /\ resumed.pending = daemon.pending /\ resumed.broke = daemon.broke
        /\ \A n \in Steps : Decided(n) => Decided(n)'
    BY <2>1, Sides DEF DaemonFields, AtWork, Decided
  <2>. HIDE DEF msg, resumed
  <2>. QED
    BY <2>1, <2>2, Sending
<1>4. CASE EndCompleted
  <2>1. /\ daemon'.pc = "ended" /\ daemon'.summary = "completed" /\ daemon'.broke = daemon.broke
        /\ daemon'.pending = daemon.pending
    BY <1>4, Sides DEF EndCompleted, DaemonFields
  <2>2. /\ UNCHANGED <<world, down, harness, answered, run>> /\ daemon.pc \in AtWork
        /\ ~Double => status' = "completed"
        /\ Within(up', up)
    BY <1>4, Sides DEF EndCompleted, DaemonHears, Consumed, Serving, AtWork, Stored
  <2>3. Parkings'
    BY <2>1, <2>2 DEF Accounted, Parkings, Decided, Steps
  <2>4. Refused' /\ Lost'
    BY <2>1 DEF Refused, Lost
  <2>. QED
    BY <2>1, <2>2, <2>3, <2>4, Concludes DEF Ends
<1>5. CASE EndAborted
  <2>1. /\ daemon'.pc = "ended" /\ daemon'.summary = "aborted" /\ daemon'.broke = daemon.broke
        /\ daemon'.pending = daemon.pending
    BY <1>5, Sides DEF EndAborted, DaemonFields
  <2>2. /\ UNCHANGED <<world, up, down, harness, answered, run>> /\ daemon.pc \in AtWork
        /\ DaemonHearsNone /\ (~Double => status' = "aborted")
    BY <1>5 DEF EndAborted, Serving, AtWork, Stored
  <2>3. Parkings'
    BY <2>1, <2>2 DEF Accounted, Parkings, Decided, Steps
  <2>4. Refused'
    BY <2>1 DEF Refused
  <2>5. Lost'
    <3>1. CASE up = <<>> /\ ~Present
      <4>1. ~\E i \in 1 .. Len(up) : up[i].kind = "complete"
        BY <3>1, EmptySeq
      <4>. QED
        BY <2>2, <3>1, <4>1 DEF Lost, Good, Grpc, Present, Accounted, Complete, Open, AtWork
    <3>2. CASE DaemonHears("noise") /\ ~Grpc
      <4>1. 1 \in 1 .. Len(up) /\ up[1].kind = "noise"
        BY <3>2, Sides, ItemsTaken DEF DaemonHears
      <4>2. world.host = "run" /\ harness.noisy /\ world.link = "pipe"
        BY <3>2, <4>1, WorldsAssumption DEF Accounted, Noises, Placed, Grpc
      <4>. QED
        BY <2>2, <4>2 DEF Lost, Good
    <3>. QED
      BY <2>2, <3>1, <3>2 DEF DaemonHearsNone
  <2>. QED
    BY <2>1, <2>2, <2>3, <2>4, <2>5, Sides, Concludes DEF Ends
<1>6. CASE Break
  <2>1. /\ daemon'.pc = "failed" /\ daemon'.broke /\ daemon'.pending = daemon.pending
        /\ UNCHANGED <<world, up, down, harness, answered, run>> /\ daemon.pc \in AtWork
    BY <1>6, Sides DEF Break, DaemonFields, AtWork
  <2>2. Parkings'
    BY <2>1 DEF Accounted, Parkings, Decided, Steps
  <2>. QED
    BY <2>1, <2>2, WorksOn
<1>. QED
  BY <1>1, <1>2, <1>3, <1>4, <1>5, <1>6, StartAccounts, AnswerAccounts, ResolveAccounts,
     ParkAccounts, HaltAccounts DEF Serve, Human

(* The command ends with a report, or goes on to wait.                       *)
LEMMA Finishes ==
  ASSUME Wired, Accounted, NEW result, Finish(result), run.pc # "done",
         result \in Ends => daemon.pc = "ended" /\ result = daemon.summary,
         harness.finished /\ harness.code = 0 /\ ~Present /\ ~daemon.broke /\ Good
           => result = "completed"
  PROVE  Accounted'
<1>. DEFINE dead == [harness EXCEPT !.pc = "exited", !.code = 1]
            gone == [daemon EXCEPT !.pc = "dropped"]
<1>1. /\ run'.pc = "done" /\ run'.result = result /\ DOMAIN run' = {"pc", "result"}
      /\ UNCHANGED <<world, up, down, answered, status>>
      /\ harness' = IF Present THEN dead ELSE harness
      /\ daemon' = IF Open THEN gone ELSE daemon
  BY DEF Finish
<1>2. /\ dead.pc = "exited" /\ dead.code = 1 /\ dead.finished = harness.finished
      /\ dead.noisy = harness.noisy /\ dead.stash = harness.stash
      /\ gone.pc = "dropped" /\ gone.pending = daemon.pending /\ gone.broke = daemon.broke
      /\ gone.summary = daemon.summary
  BY Sides DEF HarnessFields, DaemonFields
<1>. HIDE DEF dead, gone
<1>3. /\ ~Present' /\ ~Open'
      /\ harness'.finished = harness.finished /\ harness'.noisy = harness.noisy
      /\ harness'.stash = harness.stash
      /\ daemon'.pending = daemon.pending /\ daemon'.broke = daemon.broke
      /\ daemon'.summary = daemon.summary
      /\ daemon'.pc = "ended" => daemon.pc = "ended"
      /\ daemon.pc = "ended" => daemon' = daemon
      /\ daemon'.pc = "failed" => daemon.pc = "failed"
      /\ daemon'.pc \notin {"new", "held"}
      /\ ~Present => harness' = harness
      /\ Present => harness'.code = 1
  BY <1>1, <1>2 DEF Present, Open
<1>4. Placed' /\ Stated'
  BY <1>1, <1>3 DEF Accounted, Placed, Stated, Present, Double, Ends
<1>5. Pressing' /\ Parkings' /\ Refused' /\ Noises'
  BY <1>1, <1>3 DEF Accounted, Pressing, Parkings, Refused, Noises, Decided, Steps, Present
<1>6. Complete' /\ Lost' /\ Reported'
  BY <1>1, <1>3 DEF Accounted, Complete, Lost, Reported, Good, Grpc
<1>. QED
  BY <1>4, <1>5, <1>6 DEF Accounted

LEMMA Moves ==
  ASSUME Wired, Accounted, NEW next, MoveTo(next), run.pc = "drive",
         next \in {"reap", "crash", "drain"}, next = "reap" => daemon.pc = "ended",
         next = "crash" => daemon.pc = "failed"
  PROVE  Accounted'
<1>1. /\ run'.pc = next /\ run'.result = run.result /\ DOMAIN run' = {"pc", "result"}
      /\ UNCHANGED <<world, up, down, harness, daemon, answered, status>>
  BY DEF MoveTo, Accounted, Placed
<1>2. Placed' /\ Stated'
  BY <1>1 DEF Accounted, Placed, Stated, Present, Open, Double, Ends
<1>3. Pressing' /\ Parkings' /\ Refused' /\ Noises'
  BY <1>1 DEF Accounted, Pressing, Parkings, Refused, Noises, Decided, Steps
<1>4. Complete' /\ Lost' /\ Reported'
  BY <1>1 DEF Accounted, Complete, Lost, Reported, Good, Grpc, Open, Present
<1>. QED
  BY <1>2, <1>3, <1>4 DEF Accounted

LEMMA CommandAccounts == ASSUME Wired, Accounted, Command PROVE Accounted'
<1>. DEFINE error == "error"
<1>1. error \notin Ends
  BY DEF Ends
<1>2. /\ daemon.pc = "ended" => daemon.summary \in Ends
      /\ daemon.pc = "ended" /\ harness.finished /\ harness.code = 0 /\ Good
           => daemon.summary = "completed"
  BY DEF Accounted, Stated, Refused, Lost, Ends
<1>. HIDE DEF error
<1>3. ASSUME Finish(daemon.summary), daemon.pc = "ended", run.pc # "done" PROVE Accounted'
  BY <1>2, <1>3, Finishes
<1>4. ASSUME Finish(error), run.pc # "done",
             daemon.broke \/ ~harness.finished \/ harness.code # 0 PROVE Accounted'
  BY <1>1, <1>4, Finishes
<1>5. /\ daemon.pc = "failed" => daemon.broke
      /\ daemon.pc \in {"new", "held"} => ~harness.finished
      /\ run.pc = "connect" => daemon.pc = "new"
      /\ run.pc = "crash" => daemon.pc = "held" \/ daemon.broke
      /\ run.pc = "reap" => daemon.pc = "ended"
  BY DEF Accounted, Placed
<1>6. ASSUME Finish("error") PROVE Finish(error)
  BY <1>6 DEF error
<1>7. CASE AcceptFails
  BY <1>4, <1>5, <1>6, <1>7 DEF AcceptFails
<1>8. CASE DriveDaemonEnds
  BY <1>8, Moves DEF DriveDaemonEnds
<1>9. CASE DriveChildExits
  <2>. DEFINE drain == "drain"
  <2>1. drain \in {"reap", "crash", "drain"} /\ drain \notin {"reap", "crash"}
    OBVIOUS
  <2>. HIDE DEF drain
  <2>2. MoveTo("drain") => MoveTo(drain)
    BY DEF drain
  <2>. QED
    BY <1>4, <1>6, <1>9, <2>1, <2>2, Moves DEF DriveChildExits
<1>10. CASE Reap \/ CrashOr \/ Drain \/ Join
  BY <1>3, <1>4, <1>5, <1>6, <1>10 DEF Reap, CrashOr, Drain, Join
<1>. QED
  BY <1>7, <1>8, <1>9, <1>10 DEF Command

LEMMA AccountedHolds == WireSpec => []Accounted
<1>1. Accounted /\ UNCHANGED wireVars => Accounted'
  BY DEF Accounted, Placed, Stated, Pressing, Parkings, Refused, Noises, Complete, Lost, Reported,
         Present, Open, Double, Good, Grpc, Decided, Steps, Items, Correlated, wireVars
<1>2. Wired /\ Accounted /\ [WireNext]_wireVars => Accounted'
  BY <1>1, HarnessAccounts, ServeAccounts, CommandAccounts DEF WireNext
<1>. QED
  BY <1>2, AccountStarts, WiredHolds, PTL DEF WireSpec

(* run_live and drive_live_daemon: whichever of a child's exit and its last   *)
(* message the command sees first, a session that came to its end is reported *)
(* as it ended, for any script, host and link but the two exceptions.        *)
THEOREM ReportsAreTrue == WireSpec => []ReportIsTrue
<1>1. Accounted => ReportIsTrue
  BY DEF Accounted, Reported, Stated, Good, ReportIsTrue, Ends
<1>. QED
  BY <1>1, AccountedHolds, PTL

================================================================================
