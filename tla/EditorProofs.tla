---------------------------- MODULE EditorProofs ----------------------------
(***************************************************************************)
(* What the editor and the pages it is reached and left by promise, for    *)
(* every number of operations, messages, tabs, edits, requests and faults: *)
(*   EditorAlwaysCurrent, NoticeAlwaysGiven         Editor                 *)
(*   ConversationAlwaysShown, TextAlwaysKept        Chat                   *)
(*   TabsAlwaysFind                                 Welcome                *)
(*   PublishAlwaysShown                             PublishPages           *)
(* and, with the pages of PagesProofs, what MCProduct's run keeps of them: *)
(*   ViewsAlwaysCurrent   what the pages show is what the server has       *)
(*   OutcomeAlwaysTold    a person is told what becomes of what they asked *)
(***************************************************************************)
EXTENDS PagesProofs, SequenceTheorems

-----------------------------------------------------------------------------
(* Editor *)

table == v1
stream == v2
board == v3
asks == v4
pane == v5
boardFaults == v6
deaf == v7
early == v8
watched == v9

USE DEF table, stream, board, asks, pane, boardFaults, deaf, early, watched

Statuses == {"none", "queued", "running", "applied", "failed"}
Rows == [Ops -> Statuses]
Boards == [open : BOOLEAN, due : BOOLEAN, loaded : BOOLEAN, seen : Rows, shown : Rows, stale : BOOLEAN, told : SUBSET Ops]
Panes == [of : {"panel", "chat", "code"}, shown : [Ops -> Statuses \cup {"active", "ended"}], due : BOOLEAN]
Requests == [read : Rows, overtaken : BOOLEAN]

\* An operation may come from a to b, at once or in steps; each of l may have come to what it is in m.
Reached(a, b) ==
  a = b \/ a = "none" \/ (a = "queued" /\ b # "none") \/ (a = "running" /\ b \in {"applied", "failed"})
Behind(l, m) == \A o \in Ops : Reached(l[o], m[o])

\* Rows that the table can have held: queued in order and worked off in order, so that one of the changes under way
\* is the last.
InOrder(l) ==
  /\ \A o, p \in Ops : p < o /\ l[o] # "none" => l[p] # "none"
  /\ \A o, p \in Ops : p < o /\ l[o] \in {"running", "applied", "failed"} => l[p] \in {"applied", "failed"}
HasLast(l) == E!Running(l) = {} \/ \E m \in E!Running(l) : \A p \in E!Running(l) : p <= m
Orderly(l) == l \in Rows /\ InOrder(l) /\ HasLast(l)

BoardTyped ==
  /\ board \in Boards /\ pane \in Panes /\ asks \in Seq(Requests)
  /\ deaf \in BOOLEAN /\ early \subseteq Ops /\ watched \subseteq Ops
  /\ stream = "on" => board.open
  /\ ~board.open => asks = <<>> /\ stream = "off"

(***************************************************************************)
(* The inductive invariant.  Whatever was read was once in the table, and  *)
(* what was asked later read more of it.                                   *)
(***************************************************************************)
ReadsAreOld ==
  /\ Orderly(table) /\ Orderly(board.shown)
  /\ Behind(board.shown, table) /\ Behind(board.seen, table)
  /\ \A i \in 1..Len(asks) : Orderly(asks[i].read) /\ Behind(asks[i].read, table)
  /\ \A i, j \in 1..Len(asks) : i < j => Behind(asks[i].read, asks[j].read)

\* Only an answer that another has overtaken can take back what was seen.
SeenStays ==
  /\ \A i \in 1..Len(asks) : asks[i].overtaken \/ \A o \in Ops : board.seen[o] # "none" => asks[i].read[o] # "none"
  /\ ~board.stale => board.seen = board.shown

\* The outcome of what was seen under way is told with the answer that brings it.
Heeds ==
  \A o \in watched :
    /\ board.seen[o] # "none"
    /\ board.seen[o] \in {"applied", "failed"} => o \in board.told \/ (o \notin Publishes /\ table[o] = "applied")

\* As long as nothing was missed, the last request has read what there is, or its answer has come.
Follows ==
  board.open /\ ~deaf /\ ~board.due =>
    \/ asks # <<>> /\ ~asks[Len(asks)].overtaken /\ asks[Len(asks)].read = table
    \/ (\A i \in 1..Len(asks) : asks[i].overtaken) /\ (~board.stale => board.shown = table)

\* A view that is not to load shows what there is, or the page does not know yet and will notice: the chat any
\* status, the others the end of a change and, the panel, its start.
WillEnd(o) == o \in early \/ (table[o] \in {"applied", "failed"} /\ E!WasActive(o))
WillStart(o) == table[o] \in {"queued", "running"} /\ board.shown[o] = "none"
Fresh(o) ==
  \/ pane.shown[o] = E!Shows(o)
  \/ pane.of = "chat" /\ board.shown[o] # table[o]
  \/ pane.of # "chat" /\ WillEnd(o)
  \/ pane.of = "panel" /\ WillStart(o)
Shown == board.open /\ ~pane.due => \A o \in Ops \ Publishes : Fresh(o)

EditorInv == BoardTyped /\ ReadsAreOld /\ SeenStays /\ Heeds /\ Follows /\ Shown

LEMMA OpsGiven == Ops \subseteq Nat
BY ProductAssumption DEF ProductAssumption

LEMMA ReachedOn ==
  ASSUME NEW l \in Rows, NEW m \in Rows, NEW n \in Rows, Behind(l, m), Behind(m, n)
  PROVE  Behind(l, n)
<1> SUFFICES ASSUME NEW o \in Ops PROVE Reached(l[o], n[o])
  BY DEF Behind
<1>1. Reached(l[o], m[o]) /\ Reached(m[o], n[o])
  BY DEF Behind
<1>2. l[o] \in Statuses /\ m[o] \in Statuses /\ n[o] \in Statuses
  BY DEF Rows
<1> QED BY <1>1, <1>2 DEF Reached, Statuses

LEMMA EditorStarts == E!Init => EditorInv
<1> SUFFICES ASSUME E!Init PROVE EditorInv
  OBVIOUS
<1> DEFINE nothing == [o \in Ops |-> "none"]
<1>1. nothing \in Rows /\ \A o \in Ops : nothing[o] = "none"
  BY DEF Rows, Statuses
<1>2. nothing \in [Ops -> Statuses \cup {"active", "ended"}]
  BY DEF Statuses
<1>3. table = nothing /\ stream = "off" /\ asks = <<>> /\ deaf = FALSE /\ early = {} /\ watched = {}
  BY DEF E!Init, E!NoOps
<1>4. board = [open |-> FALSE, due |-> FALSE, loaded |-> FALSE, seen |-> nothing, shown |-> nothing, stale |-> FALSE, told |-> {}]
  BY DEF E!Init, E!Closed, E!NoOps
<1>5. pane = [of |-> "panel", shown |-> nothing, due |-> FALSE]
  BY DEF E!Init, E!Blank, E!NoOps
<1> HIDE DEF nothing
<1>6. board \in Boards /\ pane \in Panes /\ ~board.open /\ ~board.stale /\ board.seen = nothing /\ board.shown = nothing
  BY <1>1, <1>2, <1>4, <1>5 DEF Boards, Panes
<1>7. Orderly(nothing)
  BY <1>1 DEF Orderly, InOrder, HasLast, E!Running, E!Active
<1>8. BoardTyped
  <2>1. <<>> \in Seq(Requests) /\ FALSE \in BOOLEAN /\ stream # "on"
    BY <1>3
  <2> QED BY <1>3, <1>6, <2>1 DEF BoardTyped
<1>9. ReadsAreOld
  BY <1>1, <1>3, <1>6, <1>7 DEF ReadsAreOld, Behind, Reached
<1> QED BY <1>3, <1>6, <1>8, <1>9 DEF EditorInv, SeenStays, Heeds, Follows, Shown

(***************************************************************************)
(* Steps of the table: an operation o comes from one status to the next.   *)
(***************************************************************************)
LEMMA RunningIs ==
  ASSUME NEW l, NEW o \in Ops
  PROVE  o \in E!Running(l) <=> o \notin Publishes /\ l[o] \in {"queued", "running"}
BY DEF E!Running, E!Active

LEMMA QueueInOrder ==
  ASSUME Orderly(table), NEW o \in Ops, E!Queue(o)
  PROVE  table[o] = "none" /\ table' = [table EXCEPT ![o] = "queued"] /\ Orderly(table')
<1>1. table \in Rows /\ table[o] = "none" /\ \A p \in Ops : p < o => table[p] # "none"
  BY DEF Orderly, E!Queue
<1>2. table' = [table EXCEPT ![o] = "queued"]
  BY DEF E!Queue, E!Move
<1>3. table' \in Rows /\ table'[o] = "queued" /\ \A p \in Ops : p # o => table'[p] = table[p]
  BY <1>1, <1>2 DEF Rows, Statuses
<1>4. \A p \in Ops : table[p] # "none" => p <= o /\ p # o
  BY <1>1, OpsGiven DEF Orderly, InOrder
<1>5. InOrder(table')
  <2> SUFFICES ASSUME NEW a \in Ops, NEW p \in Ops, p < a
               PROVE  /\ table'[a] # "none" => table'[p] # "none"
                      /\ table'[a] \in {"running", "applied", "failed"} => table'[p] \in {"applied", "failed"}
    BY DEF InOrder
  <2>1. CASE a = o
    BY <1>1, <1>3, <2>1, OpsGiven
  <2>2. CASE a # o /\ p # o
    BY <1>3, <2>2 DEF Orderly, InOrder
  <2>3. CASE a # o /\ p = o
    BY <1>3, <1>4, <2>3, OpsGiven
  <2> QED BY <2>1, <2>2, <2>3
<1>6. HasLast(table')
  <2>1. CASE o \in Publishes
    <3>1. \A p \in Ops : p \in E!Running(table') <=> p \in E!Running(table)
      BY <1>3, <2>1 DEF E!Running
    <3>2. E!Running(table') = E!Running(table)
      BY <3>1 DEF E!Running
    <3> QED BY <3>2 DEF Orderly, HasLast
  <2>2. CASE o \notin Publishes
    <3>1. o \in E!Running(table')
      BY <1>3, <2>2, RunningIs
    <3>2. ASSUME NEW p \in E!Running(table') PROVE p <= o
      <4>1. p \in Ops /\ table'[p] \in {"queued", "running"}
        BY DEF E!Running, E!Active
      <4> QED BY <1>3, <1>4, <4>1, OpsGiven
    <3> QED BY <3>1, <3>2 DEF HasLast
  <2> QED BY <2>1, <2>2
<1> QED BY <1>1, <1>2, <1>3, <1>5, <1>6 DEF Orderly

LEMMA RunInOrder ==
  ASSUME Orderly(table), NEW o \in Ops, E!Run(o)
  PROVE  table[o] = "queued" /\ table' = [table EXCEPT ![o] = "running"] /\ Orderly(table')
<1>1. table \in Rows /\ table[o] = "queued" /\ \A p \in Ops : p < o => table[p] \in {"applied", "failed"}
  BY DEF Orderly, E!Run, E!Ended
<1>2. table' = [table EXCEPT ![o] = "running"]
  BY DEF E!Run, E!Move
<1>3. table' \in Rows /\ table'[o] = "running" /\ \A p \in Ops : p # o => table'[p] = table[p]
  BY <1>1, <1>2 DEF Rows, Statuses
<1>5. InOrder(table')
  <2> SUFFICES ASSUME NEW a \in Ops, NEW p \in Ops, p < a
               PROVE  /\ table'[a] # "none" => table'[p] # "none"
                      /\ table'[a] \in {"running", "applied", "failed"} => table'[p] \in {"applied", "failed"}
    BY DEF InOrder
  <2>1. CASE a = o
    BY <1>1, <1>3, <2>1, OpsGiven
  <2>2. CASE a # o /\ p # o
    BY <1>3, <2>2 DEF Orderly, InOrder
  <2>3. CASE a # o /\ p = o
    <3>1. table[a] \notin {"running", "applied", "failed"}
      BY <1>1, <2>3 DEF Orderly, InOrder
    <3> QED BY <1>3, <2>3, <3>1
  <2> QED BY <2>1, <2>2, <2>3
<1>6. HasLast(table')
  <2>1. \A p \in Ops : table'[p] \in {"queued", "running"} <=> table[p] \in {"queued", "running"}
    BY <1>1, <1>3
  <2>2. E!Running(table') = E!Running(table)
    BY <2>1 DEF E!Running, E!Active
  <2> QED BY <2>2 DEF Orderly, HasLast
<1> QED BY <1>1, <1>2, <1>3, <1>5, <1>6 DEF Orderly

LEMMA EndInOrder ==
  ASSUME Orderly(table), NEW o \in Ops, NEW status \in {"applied", "failed"}, table[o] = "running",
         table' = [table EXCEPT ![o] = status]
  PROVE  Orderly(table')
<1>1. table \in Rows /\ \A p \in Ops : p < o => table[p] \in {"applied", "failed"}
  BY DEF Orderly, InOrder
<1>3. table' \in Rows /\ table'[o] = status /\ \A p \in Ops : p # o => table'[p] = table[p]
  BY <1>1 DEF Rows, Statuses
<1>5. InOrder(table')
  <2> SUFFICES ASSUME NEW a \in Ops, NEW p \in Ops, p < a
               PROVE  /\ table'[a] # "none" => table'[p] # "none"
                      /\ table'[a] \in {"running", "applied", "failed"} => table'[p] \in {"applied", "failed"}
    BY DEF InOrder
  <2>1. CASE a = o
    <3>1. p # o /\ table[p] \in {"applied", "failed"}
      BY <1>1, <2>1, OpsGiven
    <3> QED BY <1>3, <3>1
  <2>2. CASE a # o /\ p # o
    BY <1>3, <2>2 DEF Orderly, InOrder
  <2>3. CASE a # o /\ p = o
    BY <1>3, <2>3
  <2> QED BY <2>1, <2>2, <2>3
<1>6. HasLast(table')
  <2>1. \A p \in E!Running(table') : p # o /\ p \in E!Running(table)
    BY <1>3 DEF E!Running, E!Active
  <2>2. \A p \in E!Running(table) : p # o => p \in E!Running(table')
    BY <1>3 DEF E!Running, E!Active
  <2>3. CASE E!Running(table') # {}
    <3>1. PICK m \in E!Running(table) : \A p \in E!Running(table) : p <= m
      BY <2>1, <2>3 DEF Orderly, HasLast
    <3>2. m # o
      <4>1. SUFFICES ASSUME m = o PROVE FALSE
        OBVIOUS
      <4>2. PICK p \in E!Running(table') : TRUE
        BY <2>3
      <4>3. p \in Ops /\ p # o /\ p <= o /\ table[p] \in {"queued", "running"}
        BY <2>1, <3>1, <4>1 DEF E!Running, E!Active
      <4> QED BY <1>1, <4>3, OpsGiven
    <3> QED BY <2>1, <2>2, <3>1, <3>2 DEF HasLast
  <2>4. CASE E!Running(table') = {}
    BY <2>4 DEF HasLast
  <2> QED BY <2>3, <2>4
<1> QED BY <1>3, <1>5, <1>6 DEF Orderly

LEMMA TableMoves ==
  ASSUME EditorInv, NEW o \in Ops, NEW s \in Statuses, table' = [table EXCEPT ![o] = s], Orderly(table'),
         \/ table[o] = "none" /\ s = "queued"
         \/ table[o] = "queued" /\ s = "running"
         \/ table[o] = "running" /\ s \in {"applied", "failed"},
         E!Emit, UNCHANGED <<stream, asks, pane, watched>>, early \subseteq early', early' \subseteq Ops,
         s \in {"applied", "failed"} /\ board.open /\ ~board.loaded => o \in early'
  PROVE  EditorInv'
<1>0. table \in Rows /\ board \in Boards /\ pane \in Panes
  BY DEF EditorInv, BoardTyped, ReadsAreOld, Orderly
<1>1. table' \in Rows /\ table'[o] = s /\ \A p \in Ops : p # o => table'[p] = table[p]
  BY <1>0 DEF Rows
<1>2. Behind(table, table')
  BY <1>1 DEF Behind, Reached
<1>3. /\ board' \in Boards /\ board'.open = board.open /\ board'.loaded = board.loaded /\ board'.seen = board.seen
      /\ board'.shown = board.shown /\ board'.stale = board.stale /\ board'.told = board.told
      /\ deaf' \in BOOLEAN /\ (board'.open => deaf' \/ board'.due)
  <2>1. CASE E!Heard
    <3>1. board' = [board EXCEPT !.due = TRUE] /\ deaf' = deaf
      BY <2>1 DEF E!Heard
    <3>2. deaf \in BOOLEAN
      BY DEF EditorInv, BoardTyped
    <3> QED BY <1>0, <3>1, <3>2 DEF Boards
  <2>2. CASE E!Missed
    <3>1. board' = board /\ deaf' = board.open
      BY <2>2 DEF E!Missed
    <3>2. board.open \in BOOLEAN
      BY <1>0 DEF Boards
    <3> QED BY <1>0, <3>1, <3>2
  <2> QED BY <2>1, <2>2 DEF E!Emit
<1>4. board.seen \in Rows /\ board.shown \in Rows
  BY <1>0 DEF Boards
<1>5. BoardTyped'
  BY <1>3 DEF EditorInv, BoardTyped
<1>6. ReadsAreOld'
  <2>1. Behind(board.shown, table') /\ Behind(board.seen, table')
    BY <1>0, <1>1, <1>2, <1>4, ReachedOn DEF EditorInv, ReadsAreOld
  <2>2. ASSUME NEW i \in 1..Len(asks) PROVE Behind(asks[i].read, table')
    <3>1. asks[i].read \in Rows /\ Behind(asks[i].read, table)
      BY DEF EditorInv, ReadsAreOld, Orderly
    <3> QED BY <1>0, <1>1, <1>2, <3>1, ReachedOn
  <2> QED BY <1>3, <2>1, <2>2 DEF EditorInv, ReadsAreOld
<1>7. SeenStays'
  BY <1>3 DEF EditorInv, SeenStays
<1>8. Heeds'
  <2>1. \A p \in Ops : table[p] = "applied" => table'[p] = "applied"
    BY <1>1
  <2>2. \A p \in watched : p \in Ops
    BY DEF EditorInv, BoardTyped
  <2> QED BY <1>3, <2>1, <2>2 DEF EditorInv, Heeds
<1>9. Follows'
  BY <1>3 DEF Follows
<1>10. Shown'
  <2> SUFFICES ASSUME board.open, ~pane.due, NEW p \in Ops \ Publishes PROVE Fresh(p)'
    BY <1>3 DEF Shown
  <2>1. Fresh(p)
    BY DEF EditorInv, Shown
  <2>2. pane' = pane /\ pane.of \in {"chat", "panel", "code"}
    BY <1>0 DEF Panes
  <2>3. E!WasActive(p)' = E!WasActive(p)
    BY <1>3 DEF E!WasActive
  <2>4. CASE p # o
    <3>1. table'[p] = table[p] /\ E!Shows(p)' = E!Shows(p)
      BY <1>1, <2>4 DEF E!Shows
    <3>2. WillEnd(p) => WillEnd(p)'
      BY <2>3, <3>1 DEF WillEnd
    <3>3. WillStart(p) => WillStart(p)'
      BY <1>3, <3>1 DEF WillStart
    <3> QED BY <1>3, <2>1, <2>2, <3>1, <3>2, <3>3 DEF Fresh
  <2>5. CASE p = o
    <3>1. Reached(board.shown[o], table[o]) /\ Reached(board.seen[o], table[o])
      BY DEF EditorInv, ReadsAreOld, Behind
    <3>2. board.shown[o] # s
      BY <3>1 DEF Reached
    <3>3. CASE pane.of = "chat"
      BY <1>1, <1>3, <2>2, <2>5, <3>2, <3>3 DEF Fresh
    <3>4. CASE s \in {"applied", "failed"} /\ pane.of # "chat"
      <4>1. board.seen[o] = "none" \/ board.seen[o] \in {"queued", "running"}
        BY <3>1, <3>4 DEF Reached
      <4>2. o \in early' \/ E!WasActive(o)
        BY <3>4, <4>1 DEF E!WasActive, E!Active
      <4>3. WillEnd(o)'
        BY <1>1, <2>3, <2>5, <3>4, <4>2 DEF WillEnd
      <4> QED BY <2>2, <2>5, <3>4, <4>3 DEF Fresh
    <3>5. CASE s \in {"queued", "running"} /\ pane.of = "code"
      <4>1. E!Shows(o)' = E!Shows(o)
        BY <1>1, <2>2, <3>5 DEF E!Shows
      <4>2. WillEnd(o) => WillEnd(o)'
        BY <3>5 DEF WillEnd
      <4> QED BY <2>1, <2>2, <2>5, <3>5, <4>1, <4>2 DEF Fresh
    <3>6. CASE s = "queued" /\ pane.of = "panel"
      <4>1. board.shown[o] = "none"
        BY <3>1, <3>6 DEF Reached
      <4>2. WillStart(o)'
        BY <1>1, <1>3, <3>6, <4>1 DEF WillStart
      <4> QED BY <2>2, <2>5, <3>6, <4>2 DEF Fresh
    <3>7. CASE s = "running" /\ pane.of = "panel"
      <4>1. E!Shows(o)' = E!Shows(o)
        BY <1>1, <2>2, <3>7 DEF E!Shows, E!Phase, E!Active
      <4>2. WillEnd(o) => WillEnd(o)'
        BY <3>7 DEF WillEnd
      <4>3. WillStart(o) => WillStart(o)'
        BY <1>1, <1>3, <3>7 DEF WillStart
      <4> QED BY <2>1, <2>2, <2>5, <3>7, <4>1, <4>2, <4>3 DEF Fresh
    <3> QED BY <2>2, <3>3, <3>4, <3>5, <3>6, <3>7
  <2> QED BY <2>4, <2>5
<1> QED BY <1>5, <1>6, <1>7, <1>8, <1>9, <1>10 DEF EditorInv

\* The operations.
LEMMA OperationsKeep ==
  ASSUME EditorInv, NEW o \in Ops, E!Queue(o) \/ E!Run(o) \/ E!End(o)
  PROVE  EditorInv'
<1>0. Orderly(table) /\ early \subseteq Ops
  BY DEF EditorInv, ReadsAreOld, BoardTyped
<1>1. CASE E!Queue(o)
  <2>1. E!Emit /\ UNCHANGED <<stream, asks, pane, early, watched>>
    BY <1>1 DEF E!Queue, E!histories
  <2> QED BY <1>0, <1>1, <2>1, QueueInOrder, TableMoves DEF Statuses
<1>2. CASE E!Run(o)
  <2>1. E!Emit /\ UNCHANGED <<stream, asks, pane, early, watched>>
    BY <1>2 DEF E!Run, E!histories
  <2> QED BY <1>0, <1>2, <2>1, RunInOrder, TableMoves DEF Statuses
<1>3. CASE E!End(o)
  <2>1. table[o] = "running" /\ E!Emit /\ UNCHANGED <<stream, asks, pane, watched>>
    BY <1>3 DEF E!End
  <2>2. PICK status \in {"applied", "failed"} : table' = [table EXCEPT ![o] = status]
    BY <1>3 DEF E!End, E!Move, E!Ended
  <2>3. /\ early \subseteq early' /\ early' \subseteq Ops
        /\ board.open /\ ~board.loaded => o \in early'
    BY <1>0, <1>3 DEF E!End
  <2>4. Orderly(table')
    BY <1>0, <2>1, <2>2, EndInOrder
  <2> QED BY <2>1, <2>2, <2>3, <2>4, TableMoves DEF Statuses
<1> QED BY <1>1, <1>2, <1>3

\* The page comes and goes.
LEMMA OpeningKeeps ==
  ASSUME EditorInv, E!Open \/ E!Close \/ E!Subscribed
  PROVE  EditorInv'
<1> DEFINE nothing == [o \in Ops |-> "none"]
<1>0. nothing \in Rows /\ (\A o \in Ops : nothing[o] = "none") /\ nothing \in [Ops -> Statuses \cup {"active", "ended"}]
  BY DEF Rows, Statuses
<1>1. CASE E!Open \/ E!Close
  <2>1. table' = table /\ asks' = <<>> /\ deaf' = FALSE /\ early' = {} /\ watched' = {}
    BY <1>1 DEF E!Open, E!Close
  <2>2. PICK open \in BOOLEAN : board' = [open |-> open, due |-> open, loaded |-> FALSE, seen |-> nothing, shown |-> nothing,
                                          stale |-> FALSE, told |-> {}]
    BY <1>1 DEF E!Open, E!Close, E!Closed, E!NoOps
  <2>3. PICK of \in {"panel", "chat", "code"}, due \in BOOLEAN : pane' = [of |-> of, shown |-> nothing, due |-> due]
    BY <1>1 DEF E!Open, E!Close, E!Blank, E!NoOps, E!Views
  <2>4. pane'.due = board'.open
    <3>1. CASE E!Open
      BY <3>1 DEF E!Open, E!Blank, E!Closed
    <3>2. CASE E!Close
      BY <3>2 DEF E!Close, E!Blank, E!Closed
    <3> QED BY <1>1, <3>1, <3>2
  <2>5. stream' # "on" /\ (~board'.open => stream' = "off")
    BY <1>1 DEF E!Open, E!Close, E!Closed
  <2> HIDE DEF nothing
  <2>6. board' \in Boards /\ pane' \in Panes /\ board'.due = board'.open /\ ~board'.stale /\ board'.seen = nothing
        /\ board'.shown = nothing
    BY <1>0, <2>2, <2>3 DEF Boards, Panes
  <2>7. BoardTyped'
    <3>1. <<>> \in Seq(Requests) /\ FALSE \in BOOLEAN
      OBVIOUS
    <3> QED BY <2>1, <2>5, <2>6, <3>1 DEF BoardTyped
  <2>8. Orderly(nothing)
    BY <1>0 DEF Orderly, InOrder, HasLast, E!Running, E!Active
  <2>9. ReadsAreOld'
    BY <1>0, <2>1, <2>6, <2>8 DEF EditorInv, ReadsAreOld, Behind, Reached
  <2> QED BY <2>1, <2>4, <2>6, <2>7, <2>9 DEF EditorInv, SeenStays, Heeds, Follows, Shown
<1>2. CASE E!Subscribed
  <2>1. UNCHANGED <<table, board, asks, pane, deaf, early, watched>> /\ stream = "joining" /\ stream' = "on"
    BY <1>2 DEF E!Subscribed, E!histories
  <2>2. BoardTyped' /\ ReadsAreOld' /\ SeenStays' /\ Heeds' /\ Follows'
    BY <2>1 DEF EditorInv, BoardTyped, ReadsAreOld, SeenStays, Heeds, Follows
  <2>3. Shown'
    BY <2>1 DEF EditorInv, Shown, Fresh, WillEnd, WillStart, E!Shows, E!WasActive
  <2> QED BY <2>2, <2>3 DEF EditorInv
<1> QED BY <1>1, <1>2

\* A request for the list.
LEMMA AskingKeeps ==
  ASSUME EditorInv, E!Ask
  PROVE  EditorInv'
<1> DEFINE new == [read |-> table, overtaken |-> FALSE]
<1>0. board \in Boards /\ table \in Rows /\ asks \in Seq(Requests) /\ Len(asks) \in Nat /\ Orderly(table)
  BY DEF EditorInv, BoardTyped, ReadsAreOld, Orderly
<1>1. new \in Requests /\ new.read = table /\ ~new.overtaken
  BY <1>0 DEF Requests
<1>2. asks' = Append(asks, new) /\ board.open /\ deaf' = FALSE /\ UNCHANGED <<table, stream, pane, early, watched>>
  BY DEF E!Ask, E!Asked, E!histories
<1>3. board' = [board EXCEPT !.due = FALSE]
  BY DEF E!Ask
<1> HIDE DEF new
<1>4. /\ asks' \in Seq(Requests) /\ Len(asks') = Len(asks) + 1 /\ asks'[Len(asks) + 1] = new
      /\ \A i \in 1..Len(asks) : asks'[i] = asks[i]
  BY <1>0, <1>1, <1>2
<1>5. /\ board' \in Boards /\ board'.open = board.open /\ board'.loaded = board.loaded /\ board'.seen = board.seen
      /\ board'.shown = board.shown /\ board'.stale = board.stale /\ board'.told = board.told
  BY <1>0, <1>3 DEF Boards
<1>6. \A i \in 1..Len(asks') : i \in 1..Len(asks) \/ i = Len(asks')
  BY <1>0, <1>4
<1>7. BoardTyped'
  <2>1. FALSE \in BOOLEAN
    OBVIOUS
  <2> QED BY <1>2, <1>4, <1>5, <2>1 DEF EditorInv, BoardTyped
<1>8. ReadsAreOld'
  <2>1. \A i \in 1..Len(asks') : Orderly(asks'[i].read) /\ Behind(asks'[i].read, table)
    BY <1>0, <1>1, <1>4, <1>6 DEF EditorInv, ReadsAreOld, Behind, Reached
  <2>2. ASSUME NEW i \in 1..Len(asks'), NEW j \in 1..Len(asks'), i < j PROVE Behind(asks'[i].read, asks'[j].read)
    <3>1. i \in 1..Len(asks)
      BY <1>0, <1>4, <2>2
    <3>2. CASE j \in 1..Len(asks)
      BY <1>4, <2>2, <3>1, <3>2 DEF EditorInv, ReadsAreOld
    <3>3. CASE j = Len(asks')
      BY <1>1, <1>4, <3>1, <3>3 DEF EditorInv, ReadsAreOld
    <3> QED BY <1>6, <3>2, <3>3
  <2> QED BY <1>2, <1>5, <2>1, <2>2 DEF EditorInv, ReadsAreOld
<1>9. SeenStays'
  <2>1. \A o \in Ops : board.seen[o] # "none" => table[o] # "none"
    BY DEF EditorInv, ReadsAreOld, Behind, Reached
  <2>2. \A i \in 1..Len(asks') : asks'[i].overtaken \/ \A o \in Ops : board.seen[o] # "none" => asks'[i].read[o] # "none"
    BY <1>1, <1>4, <1>6, <2>1 DEF EditorInv, SeenStays
  <2> QED BY <1>5, <2>2 DEF EditorInv, SeenStays
<1>10. Heeds'
  BY <1>2, <1>5 DEF EditorInv, Heeds
<1>11. Follows'
  <2>1. asks' # <<>> /\ asks'[Len(asks')] = new
    BY <1>0, <1>4
  <2> QED BY <1>1, <1>2, <2>1 DEF Follows
<1>12. Shown'
  BY <1>2, <1>5 DEF EditorInv, Shown, Fresh, WillEnd, WillStart, E!Shows, E!WasActive
<1> QED BY <1>7, <1>8, <1>9, <1>10, <1>11, <1>12 DEF EditorInv

\* The requests that an answer leaves under way: those sent before it are overtaken.
LEMMA WithoutOne ==
  ASSUME NEW reqs \in Seq(Requests), NEW i \in 1..Len(reqs)
  PROVE  /\ E!Without(reqs, i) \in Seq(Requests) /\ Len(E!Without(reqs, i)) = Len(reqs) - 1
         /\ \A j \in 1..(Len(reqs) - 1) :
              /\ j < i => E!Without(reqs, i)[j].read = reqs[j].read /\ E!Without(reqs, i)[j].overtaken
              /\ i <= j => E!Without(reqs, i)[j] = reqs[j + 1]
<1> DEFINE n == Len(reqs) - 1
           rest == [j \in 1..n |-> IF j < i THEN [reqs[j] EXCEPT !.overtaken = TRUE] ELSE reqs[j + 1]]
<1>1. E!Without(reqs, i) = rest /\ n \in Nat
  BY DEF E!Without
<1>2. ASSUME NEW j \in 1..n
      PROVE  /\ rest[j] \in Requests
             /\ j < i => rest[j].read = reqs[j].read /\ rest[j].overtaken
             /\ i <= j => rest[j] = reqs[j + 1]
  <2>1. reqs[j] \in Requests /\ reqs[j + 1] \in Requests
    OBVIOUS
  <2>2. j \in Int /\ i \in Int
    OBVIOUS
  <2>3. CASE j < i
    <3>1. rest[j] = [reqs[j] EXCEPT !.overtaken = TRUE]
      BY <2>3
    <3> HIDE DEF rest
    <3>2. rest[j] \in Requests /\ rest[j].overtaken /\ rest[j].read = reqs[j].read
      BY <2>1, <3>1 DEF Requests
    <3>3. ~(i <= j)
      BY <2>2, <2>3
    <3> QED BY <3>2, <3>3
  <2>4. CASE i <= j
    <3>1. rest[j] = reqs[j + 1]
      BY <2>2, <2>4
    <3> QED BY <2>1, <2>2, <2>4, <3>1
  <2> QED BY <2>2, <2>3, <2>4
<1>3. rest \in [1..n -> Requests]
  BY <1>2
<1> HIDE DEF rest
<1>4. rest \in Seq(Requests) /\ Len(rest) = n
  BY <1>1, <1>3, SeqDef, LenProperties
<1> QED BY <1>1, <1>2, <1>4

LEMMA RestReads ==
  ASSUME EditorInv, NEW i \in 1..Len(asks), asks' = E!Without(asks, i)
  PROVE  /\ asks' \in Seq(Requests) /\ Len(asks') \in Nat /\ Len(asks') = Len(asks) - 1 /\ board.open
         /\ \A j \in 1..Len(asks') : Orderly(asks'[j].read) /\ Behind(asks'[j].read, table)
         /\ \A j, k \in 1..Len(asks') : j < k => Behind(asks'[j].read, asks'[k].read)
         /\ \A j \in 1..Len(asks') :
              \/ asks'[j].overtaken
              \/ j + 1 \in 1..Len(asks) /\ i < j + 1 /\ asks'[j] = asks[j + 1]
<1>1. asks \in Seq(Requests) /\ Len(asks) \in Nat /\ i \in Nat
  BY DEF EditorInv, BoardTyped
<1>2. asks' \in Seq(Requests) /\ Len(asks') = Len(asks) - 1
  BY <1>1, WithoutOne
<1>3. ASSUME NEW j \in 1..Len(asks')
      PROVE  /\ j < i => asks'[j].read = asks[j].read /\ asks'[j].overtaken
             /\ i <= j => asks'[j] = asks[j + 1]
  <2>1. j \in 1..(Len(asks) - 1)
    BY <1>2
  <2> QED BY <1>1, <2>1, WithoutOne
<1>4. asks # <<>>
  BY <1>1
<1>5. board.open
  BY <1>4 DEF EditorInv, BoardTyped
<1>6. ASSUME NEW j \in 1..Len(asks')
      PROVE  /\ j \in 1..Len(asks) /\ j + 1 \in 1..Len(asks)
             /\ asks'[j].read = asks[IF j < i THEN j ELSE j + 1].read
             /\ asks'[j].overtaken \/ (i < j + 1 /\ asks'[j] = asks[j + 1])
  <2>1. j \in Nat /\ j \in 1..Len(asks) /\ j + 1 \in 1..Len(asks)
    BY <1>1, <1>2
  <2>2. CASE j < i
    <3>1. asks'[j].read = asks[j].read /\ asks'[j].overtaken
      BY <1>3, <2>2
    <3> QED BY <2>1, <2>2, <3>1
  <2>3. CASE i <= j
    <3>1. ~(j < i) /\ i < j + 1
      BY <1>1, <2>1, <2>3
    <3> QED BY <1>3, <2>1, <2>3, <3>1
  <2> QED BY <1>1, <2>1, <2>2, <2>3
<1>7. \A j \in 1..Len(asks') : Orderly(asks'[j].read) /\ Behind(asks'[j].read, table)
  BY <1>6 DEF EditorInv, ReadsAreOld
<1>8. ASSUME NEW j \in 1..Len(asks'), NEW k \in 1..Len(asks'), j < k
      PROVE  Behind(asks'[j].read, asks'[k].read)
  <2> DEFINE a == IF j < i THEN j ELSE j + 1
             b == IF k < i THEN k ELSE k + 1
  <2>1. a \in 1..Len(asks) /\ b \in 1..Len(asks) /\ a < b
    BY <1>1, <1>2, <1>6, <1>8
  <2>2. asks'[j].read = asks[a].read /\ asks'[k].read = asks[b].read
    BY <1>6
  <2> HIDE DEF a, b
  <2> QED BY <2>1, <2>2 DEF EditorInv, ReadsAreOld
<1>9. Len(asks') \in Nat
  BY <1>2
<1> QED BY <1>2, <1>5, <1>6, <1>7, <1>8, <1>9

\* An answer is given up.
LEMMA FailingKeeps ==
  ASSUME EditorInv, NEW i \in 1..Len(asks), E!AskFails(i)
  PROVE  EditorInv'
<1>1. asks' = E!Without(asks, i) /\ deaf' = TRUE /\ UNCHANGED <<table, stream, board, pane, early, watched>>
  BY DEF E!AskFails, E!histories
<1>2. BoardTyped'
  <2>1. TRUE \in BOOLEAN
    OBVIOUS
  <2> QED BY <1>1, <2>1, RestReads DEF EditorInv, BoardTyped
<1>3. ReadsAreOld'
  BY <1>1, RestReads DEF EditorInv, ReadsAreOld
<1>4. SeenStays'
  <2>1. ASSUME NEW j \in 1..Len(asks'), ~asks'[j].overtaken, NEW o \in Ops, board.seen[o] # "none"
        PROVE  asks'[j].read[o] # "none"
    <3>1. j + 1 \in 1..Len(asks) /\ asks'[j] = asks[j + 1]
      BY <1>1, <2>1, RestReads
    <3>2. ~asks[j + 1].overtaken
      BY <2>1, <3>1
    <3> QED BY <2>1, <3>1, <3>2 DEF EditorInv, SeenStays
  <2> QED BY <1>1, <2>1 DEF EditorInv, SeenStays
<1>5. Heeds' /\ Follows'
  BY <1>1 DEF EditorInv, Heeds, Follows
<1>6. Shown'
  BY <1>1 DEF EditorInv, Shown, Fresh, WillEnd, WillStart, E!Shows, E!WasActive
<1> QED BY <1>2, <1>3, <1>4, <1>5, <1>6 DEF EditorInv

\* The view loads.
LEMMA LoadingKeeps ==
  ASSUME EditorInv, E!LoadView
  PROVE  EditorInv'
<1> DEFINE shows == [o \in Ops |-> IF o \in Publishes THEN "none" ELSE E!Shows(o)]
<1>0. pane \in Panes /\ table \in Rows
  BY DEF EditorInv, BoardTyped, ReadsAreOld, Orderly
<1>1. UNCHANGED <<table, stream, board, asks, deaf, early, watched>> /\ pane' = [pane EXCEPT !.due = FALSE, !.shown = shows]
  BY DEF E!LoadView, E!histories
<1>2. ASSUME NEW o \in Ops PROVE E!Shows(o) \in Statuses \cup {"active", "ended"}
  <2>1. table[o] \in Statuses /\ pane.of \in {"panel", "chat", "code"}
    BY <1>0 DEF Rows, Panes
  <2> QED BY <2>1 DEF E!Shows, E!Phase, E!Active, E!Ended, Statuses
<1>3. shows \in [Ops -> Statuses \cup {"active", "ended"}] /\ \A o \in Ops \ Publishes : shows[o] = E!Shows(o)
  BY <1>2 DEF Statuses
<1> HIDE DEF shows
<1>4. pane' \in Panes /\ pane'.of = pane.of /\ pane'.shown = shows
  BY <1>0, <1>1, <1>3 DEF Panes
<1>5. BoardTyped' /\ ReadsAreOld' /\ SeenStays' /\ Heeds' /\ Follows'
  BY <1>1, <1>4 DEF EditorInv, BoardTyped, ReadsAreOld, SeenStays, Heeds, Follows
<1>6. \A o \in Ops : E!Shows(o)' = E!Shows(o)
  BY <1>1, <1>4 DEF E!Shows
<1>7. Shown'
  BY <1>3, <1>4, <1>6 DEF Shown, Fresh
<1> QED BY <1>5, <1>7 DEF EditorInv

(***************************************************************************)
(* The list arrives.                                                       *)
(***************************************************************************)
\* An operation that a change of the list shows for the first time is a later one than all that were under way.
LEMMA StartIsNews ==
  ASSUME Orderly(board.shown), NEW read, Orderly(read), NEW o \in Ops \ Publishes,
         board.shown[o] = "none", read[o] \in {"queued", "running"}, pane.of = "panel", NEW ended
  PROVE  E!LoadsAgain(read, ended)
<1> DEFINE last(l) == {p \in E!Running(l) : \A q \in E!Running(l) : q <= p}
<1>1. o \in E!Running(read) /\ o \notin E!Running(board.shown)
  BY RunningIs
<1>2. PICK m \in E!Running(read) : \A q \in E!Running(read) : q <= m
  BY <1>1 DEF Orderly, HasLast
<1>3. m \in last(read)
  BY <1>2
<1>4. o <= m /\ m \in Ops
  BY <1>1, <1>2 DEF E!Running
<1>5. m \notin last(board.shown)
  <2> SUFFICES ASSUME m \in E!Running(board.shown) PROVE FALSE
    OBVIOUS
  <2>1. board.shown[m] # "none" /\ m # o
    BY <1>1, <1>4, RunningIs
  <2>2. o < m
    BY <1>4, <2>1, OpsGiven
  <2> QED BY <1>4, <2>1, <2>2 DEF Orderly, InOrder
<1>6. last(read) # last(board.shown)
  BY <1>3, <1>5
<1> QED BY <1>6 DEF E!LoadsAgain

\* What the page is after the answer that reads l.
Saw(l) == [o \in Ops |-> IF l[o] = "none" THEN board.seen[o] ELSE l[o]]
Over(l) == {o \in Ops : l[o] \in E!Ended /\ E!WasActive(o)}

LEMMA SawIs ==
  ASSUME board \in Boards, NEW l \in Rows, Behind(l, table), Behind(board.seen, table)
  PROVE  /\ Saw(l) \in Rows /\ Behind(Saw(l), table)
         /\ \A o \in Ops : l[o] # "none" => Saw(l)[o] = l[o]
         /\ \A o \in Ops : l[o] = "none" => Saw(l)[o] = board.seen[o]
<1>1. board.seen \in Rows
  BY DEF Boards
<1>2. \A o \in Ops : l[o] \in Statuses /\ board.seen[o] \in Statuses
  BY <1>1 DEF Rows
<1>3. Saw(l) \in [Ops -> Statuses]
  BY <1>2 DEF Saw
<1>4. \A o \in Ops : Saw(l)[o] = IF l[o] = "none" THEN board.seen[o] ELSE l[o]
  BY DEF Saw
<1> QED BY <1>3, <1>4 DEF Rows, Behind

LEMMA Answered ==
  ASSUME board \in Boards, pane \in Panes, NEW i \in 1..Len(asks), asks[i] \in Requests, E!Apply(i)
  PROVE  /\ board' = [board EXCEPT !.loaded = TRUE, !.shown = asks[i].read, !.stale = asks[i].overtaken,
                                   !.seen = Saw(asks[i].read), !.told = board'.told]
         /\ board'.told = board.told \cup {o \in Over(asks[i].read) : asks[i].read[o] = "failed" \/ o \in Publishes}
         /\ asks' = E!Without(asks, i)
         /\ pane'.of = pane.of /\ pane'.shown = pane.shown /\ pane' \in Panes
         /\ pane'.due = (pane.due \/ E!LoadsAgain(asks[i].read, Over(asks[i].read) \ Publishes))
         /\ watched' = watched \cup {o \in Ops : asks[i].read[o] \in E!Active}
         /\ UNCHANGED <<table, stream, deaf, early>>
<1> DEFINE read == asks[i].read
           news == {o \in Over(read) : read[o] = "failed" \/ o \in Publishes}
           again == E!LoadsAgain(read, Over(read) \ Publishes)
<1>1. board' = [board EXCEPT !.loaded = TRUE, !.shown = read, !.stale = asks[i].overtaken,
                             !.seen = Saw(read), !.told = board.told \cup news]
  BY DEF E!Apply, Saw, Over
<1>2. pane' = [pane EXCEPT !.due = pane.due \/ again]
  BY DEF E!Apply, Over
<1>3. asks' = E!Without(asks, i) /\ watched' = watched \cup {o \in Ops : read[o] \in E!Active}
      /\ UNCHANGED <<table, stream, deaf, early>>
  BY DEF E!Apply
<1>4. again \in BOOLEAN
  <2>1. pane.of \in {"panel", "chat", "code"}
    BY DEF Panes
  <2> QED BY <2>1 DEF E!LoadsAgain
<1> HIDE DEF news, again
<1>5. board'.told = board.told \cup news
  BY <1>1 DEF Boards
<1>6. (pane.due \/ again) \in BOOLEAN
  BY <1>4 DEF Panes
<1>7. pane'.of = pane.of /\ pane'.shown = pane.shown /\ pane'.due = (pane.due \/ again) /\ pane' \in Panes
  BY <1>2, <1>6 DEF Panes
<1> QED BY <1>1, <1>3, <1>5, <1>7 DEF news, again

LEMMA EditorAnswerKeeps ==
  ASSUME EditorInv, NEW i \in 1..Len(asks), E!Apply(i)
  PROVE  EditorInv'
<1> DEFINE read == asks[i].read
<1>0. /\ board \in Boards /\ pane \in Panes /\ table \in Rows /\ asks \in Seq(Requests) /\ asks[i] \in Requests
      /\ board.seen \in Rows /\ board.shown \in Rows
  BY DEF EditorInv, BoardTyped, ReadsAreOld, Orderly, Boards
<1>1. read \in Rows /\ Orderly(read) /\ Behind(read, table) /\ Behind(board.seen, table) /\ asks[i].overtaken \in BOOLEAN
  BY <1>0 DEF EditorInv, ReadsAreOld, Requests
<1>2. /\ board' = [board EXCEPT !.loaded = TRUE, !.shown = read, !.stale = asks[i].overtaken,
                                !.seen = Saw(read), !.told = board'.told]
      /\ board'.told = board.told \cup {o \in Over(read) : read[o] = "failed" \/ o \in Publishes}
      /\ asks' = E!Without(asks, i)
  BY <1>0, Answered
<1>3. /\ pane'.of = pane.of /\ pane'.shown = pane.shown /\ pane' \in Panes
      /\ pane'.due = (pane.due \/ E!LoadsAgain(read, Over(read) \ Publishes))
      /\ watched' = watched \cup {o \in Ops : read[o] \in E!Active}
      /\ UNCHANGED <<table, stream, deaf, early>>
  BY <1>0, Answered
<1>4. Saw(read) \in Rows /\ Behind(Saw(read), table)
      /\ \A o \in Ops : /\ read[o] # "none" => Saw(read)[o] = read[o]
                        /\ read[o] = "none" => Saw(read)[o] = board.seen[o]
  BY <1>0, <1>1, SawIs
<1>5. /\ board' \in Boards /\ board'.open = board.open /\ board'.due = board.due /\ board'.loaded = TRUE
      /\ board'.seen = Saw(read) /\ board'.shown = read /\ board'.stale = asks[i].overtaken
  <2>1. board.told \subseteq Ops
    BY <1>0 DEF Boards
  <2>2. board'.told \in SUBSET Ops
    BY <1>2, <2>1 DEF Over
  <2> QED BY <1>0, <1>1, <1>2, <1>4, <2>2 DEF Boards
<1>6. /\ asks' \in Seq(Requests) /\ board.open
      /\ \A j \in 1..Len(asks') : Orderly(asks'[j].read) /\ Behind(asks'[j].read, table)
      /\ \A j, k \in 1..Len(asks') : j < k => Behind(asks'[j].read, asks'[k].read)
  BY <1>2, RestReads
<1>7. ASSUME NEW j \in 1..Len(asks')
      PROVE  asks'[j].overtaken \/ (j + 1 \in 1..Len(asks) /\ i < j + 1 /\ asks'[j] = asks[j + 1])
  BY <1>2, RestReads
<1> HIDE DEF read
<1>8. BoardTyped'
  <2>1. watched' \subseteq Ops
    BY <1>3 DEF EditorInv, BoardTyped
  <2> QED BY <1>3, <1>5, <1>6, <2>1 DEF EditorInv, BoardTyped
<1>9. ReadsAreOld'
  BY <1>1, <1>3, <1>4, <1>5, <1>6 DEF EditorInv, ReadsAreOld
<1>10. SeenStays'
  <2>1. ASSUME NEW j \in 1..Len(asks'), ~asks'[j].overtaken, NEW o \in Ops, Saw(read)[o] # "none"
        PROVE  asks'[j].read[o] # "none"
    <3>1. j + 1 \in 1..Len(asks) /\ i < j + 1 /\ asks'[j] = asks[j + 1]
      BY <1>7, <2>1
    <3>2. ~asks[j + 1].overtaken /\ Behind(read, asks[j + 1].read)
      BY <2>1, <3>1 DEF EditorInv, ReadsAreOld, read
    <3>3. CASE read[o] # "none"
      BY <3>1, <3>2, <3>3 DEF Behind, Reached
    <3>4. CASE read[o] = "none"
      <4>1. board.seen[o] # "none"
        BY <1>4, <2>1, <3>4
      <4> QED BY <3>1, <3>2, <4>1 DEF EditorInv, SeenStays
    <3> QED BY <3>3, <3>4
  <2>2. ASSUME ~asks[i].overtaken PROVE Saw(read) = read
    <3>1. \A o \in Ops : board.seen[o] # "none" => read[o] # "none"
      BY <2>2 DEF EditorInv, SeenStays, read
    <3>2. \A o \in Ops : Saw(read)[o] = read[o]
      BY <1>4, <3>1
    <3> QED BY <1>1, <1>4, <3>2 DEF Rows
  <2> QED BY <1>5, <2>1, <2>2 DEF SeenStays
<1>11. Heeds'
  <2> SUFFICES ASSUME NEW o \in watched'
               PROVE  /\ Saw(read)[o] # "none"
                      /\ Saw(read)[o] \in {"applied", "failed"} =>
                           o \in board'.told \/ (o \notin Publishes /\ table[o] = "applied")
    BY <1>3, <1>5 DEF Heeds
  <2>0. o \in Ops /\ read[o] \in Statuses
    BY <1>1, <1>3 DEF EditorInv, BoardTyped, Rows
  <2>1. CASE read[o] \in {"queued", "running"}
    BY <1>4, <2>0, <2>1
  <2>2. CASE read[o] \notin {"queued", "running"} /\ o \in watched
    <3>1. /\ board.seen[o] # "none"
          /\ board.seen[o] \in {"applied", "failed"} => o \in board.told \/ (o \notin Publishes /\ table[o] = "applied")
      BY <2>2 DEF EditorInv, Heeds
    <3>2. o \in board.told => o \in board'.told
      BY <1>2
    <3>3. CASE read[o] = "none"
      BY <1>4, <2>0, <3>1, <3>2, <3>3
    <3>4. CASE read[o] \in {"applied", "failed"} /\ board.seen[o] \in {"applied", "failed"}
      BY <1>4, <2>0, <3>1, <3>2, <3>4
    <3>5. CASE read[o] \in {"applied", "failed"} /\ board.seen[o] \in {"queued", "running"}
      <4>1. o \in Over(read)
        BY <2>0, <3>5 DEF Over, E!Ended, E!WasActive, E!Active
      <4>2. o \in board'.told \/ (read[o] = "applied" /\ o \notin Publishes)
        BY <1>2, <2>0, <3>5, <4>1
      <4>3. read[o] = "applied" => table[o] = "applied"
        BY <1>1, <2>0 DEF Behind, Reached
      <4> QED BY <1>4, <2>0, <3>5, <4>2, <4>3
    <3>6. board.seen[o] \in Statuses
      BY <1>0, <2>0 DEF Rows
    <3> QED BY <2>0, <2>2, <3>1, <3>3, <3>4, <3>5, <3>6 DEF Statuses
  <2>3. read[o] \in {"queued", "running"} \/ o \in watched
    BY <1>3 DEF E!Active
  <2> QED BY <2>1, <2>2, <2>3
<1>12. Follows'
  <2> SUFFICES ASSUME ~deaf, ~board.due
               PROVE  \/ asks' # <<>> /\ ~asks'[Len(asks')].overtaken /\ asks'[Len(asks')].read = table
                      \/ (\A j \in 1..Len(asks') : asks'[j].overtaken) /\ (~asks[i].overtaken => read = table)
    BY <1>3, <1>5 DEF Follows
  <2>0. Len(asks') = Len(asks) - 1 /\ Len(asks) \in Nat /\ i \in 1..Len(asks)
    <3>1. Len(E!Without(asks, i)) = Len(asks) - 1 /\ Len(asks) \in Nat
      BY <1>0, WithoutOne
    <3> QED BY <1>2, <3>1
  <2>1. CASE ~asks[Len(asks)].overtaken /\ asks[Len(asks)].read = table
    <3>1. CASE i = Len(asks)
      <4>1. \A j \in 1..Len(asks') : asks'[j].overtaken
        <5> SUFFICES ASSUME NEW j \in 1..Len(asks') PROVE asks'[j].overtaken
          OBVIOUS
        <5>1. ~(j + 1 \in 1..Len(asks) /\ i < j + 1)
          BY <2>0, <3>1
        <5> QED BY <1>7, <5>1
      <4> QED BY <2>1, <3>1, <4>1 DEF read
    <3>2. CASE i # Len(asks)
      <4> DEFINE n == Len(asks')
      <4>1. n \in 1..(Len(asks) - 1) /\ n + 1 = Len(asks) /\ i <= n /\ n \in Nat
        BY <2>0, <3>2
      <4>2. E!Without(asks, i)[n] = asks[n + 1]
        BY <1>0, <4>1, WithoutOne
      <4>3. asks'[n] = asks[Len(asks)]
        BY <1>2, <4>1, <4>2
      <4>4. asks' # <<>>
        BY <1>6, <4>1
      <4> QED BY <2>1, <4>3, <4>4
    <3> QED BY <3>1, <3>2
  <2>2. CASE \A j \in 1..Len(asks) : asks[j].overtaken
    <3>1. \A j \in 1..Len(asks') : asks'[j].overtaken
      <4> SUFFICES ASSUME NEW j \in 1..Len(asks') PROVE asks'[j].overtaken
        OBVIOUS
      <4> QED BY <1>7, <2>2
    <3> QED BY <2>2, <3>1
  <2> QED BY <1>6, <2>1, <2>2 DEF EditorInv, Follows
<1>13. Shown'
  <2> SUFFICES ASSUME ~pane.due, ~E!LoadsAgain(read, Over(read) \ Publishes), NEW o \in Ops \ Publishes PROVE Fresh(o)'
    BY <1>3 DEF Shown
  <2>0. Fresh(o) /\ pane.of \in {"panel", "chat", "code"} /\ read[o] \in Statuses /\ board.seen[o] \in Statuses
    BY <1>0, <1>1, <1>6 DEF EditorInv, Shown, Panes, Rows
  <2>1. E!Shows(o)' = E!Shows(o)
    BY <1>3 DEF E!Shows
  <2>2. CASE pane.shown[o] = E!Shows(o)
    BY <1>3, <2>1, <2>2 DEF Fresh
  <2>3. CASE pane.of = "chat" /\ board.shown[o] # table[o]
    <3>1. read = board.shown
      BY <2>3 DEF E!LoadsAgain
    <3> QED BY <1>3, <1>5, <2>3, <3>1 DEF Fresh
  <2>4. CASE pane.of # "chat" /\ WillEnd(o)
    <3>1. Over(read) \ Publishes = {}
      BY <2>0, <2>4 DEF E!LoadsAgain
    <3>2. o \notin Over(read)
      BY <3>1
    <3>3. table[o] \in {"applied", "failed"} /\ E!WasActive(o) => E!WasActive(o)'
      <4> SUFFICES ASSUME E!WasActive(o) PROVE E!WasActive(o)'
        OBVIOUS
      <4>1. read[o] \notin {"applied", "failed"}
        BY <3>2 DEF Over, E!Ended
      <4>2. CASE read[o] = "none"
        BY <1>4, <1>5, <4>2 DEF E!WasActive
      <4>3. CASE read[o] \in {"queued", "running"}
        BY <1>4, <1>5, <4>3 DEF E!WasActive, E!Active
      <4> QED BY <2>0, <4>1, <4>2, <4>3 DEF Statuses
    <3>4. WillEnd(o)'
      BY <1>3, <2>4, <3>3 DEF WillEnd
    <3> QED BY <1>3, <2>4, <3>4 DEF Fresh
  <2>5. CASE pane.of = "panel" /\ WillStart(o)
    <3>1. table[o] \in {"queued", "running"} /\ board.shown[o] = "none" /\ Orderly(board.shown)
      BY <2>5 DEF WillStart, EditorInv, ReadsAreOld
    <3>2. read[o] \notin {"queued", "running"}
      BY <1>1, <2>5, <3>1, StartIsNews
    <3>3. read[o] = "none"
      BY <1>1, <2>0, <3>1, <3>2 DEF Behind, Reached, Statuses
    <3> QED BY <1>3, <1>5, <2>5, <3>1, <3>3 DEF Fresh, WillStart
  <2> QED BY <2>0, <2>2, <2>3, <2>4, <2>5 DEF Fresh
<1> QED BY <1>8, <1>9, <1>10, <1>11, <1>12, <1>13 DEF EditorInv

LEMMA EditorKeeps == EditorInv /\ [E!Next]_(E!state) => EditorInv'
<1>1. EditorInv => DOMAIN asks = 1..Len(asks)
  BY DEF EditorInv, BoardTyped
<1>2. ASSUME EditorInv, UNCHANGED E!state PROVE EditorInv'
  <2>1. UNCHANGED <<table, stream, board, asks, pane, deaf, early, watched>>
    BY <1>2 DEF E!state, E!histories
  <2> QED BY <1>2, <2>1 DEF EditorInv, BoardTyped, ReadsAreOld, SeenStays, Heeds, Follows, Shown, Fresh, WillEnd, WillStart,
                          E!Shows, E!WasActive
<1>3. ASSUME EditorInv, E!Next PROVE EditorInv'
  <2>1. CASE \E o \in Ops : E!Queue(o) \/ E!Run(o) \/ E!End(o)
    BY <1>3, <2>1, OperationsKeep
  <2>2. CASE \E i \in DOMAIN asks : E!Apply(i) \/ E!AskFails(i)
    <3>1. PICK i \in 1..Len(asks) : E!Apply(i) \/ E!AskFails(i)
      BY <1>1, <1>3, <2>2
    <3> QED BY <1>3, <3>1, EditorAnswerKeeps, FailingKeeps
  <2>3. CASE E!Open \/ E!Close \/ E!Subscribed
    BY <1>3, <2>3, OpeningKeeps
  <2>4. CASE E!Ask
    BY <1>3, <2>4, AskingKeeps
  <2>5. CASE E!LoadView
    BY <1>3, <2>5, LoadingKeeps
  <2> QED BY <1>3, <2>1, <2>2, <2>3, <2>4, <2>5 DEF E!Next
<1> QED BY <1>2, <1>3

LEMMA EditorShows == EditorInv => E!ViewsAreCurrent
<1> SUFFICES ASSUME EditorInv, E!Quiet
             PROVE  /\ board.shown = table
                    /\ \A o \in Ops \ Publishes : pane.shown[o] = E!Shows(o) \/ (o \in early /\ pane.of # "chat")
  BY DEF E!ViewsAreCurrent
<1>0. board.open /\ board.loaded /\ ~board.due /\ asks = <<>> /\ ~deaf /\ ~board.stale /\ ~pane.due
  BY DEF E!Quiet
<1>1. board.shown = table /\ board.seen = table
  BY <1>0 DEF EditorInv, Follows, SeenStays
<1>2. ASSUME NEW o \in Ops \ Publishes PROVE pane.shown[o] = E!Shows(o) \/ (o \in early /\ pane.of # "chat")
  <2>1. Fresh(o)
    BY <1>0 DEF EditorInv, Shown
  <2>2. ~WillStart(o)
    BY <1>1 DEF WillStart
  <2>3. WillEnd(o) => o \in early
    BY <1>1 DEF WillEnd, E!WasActive, E!Active
  <2> QED BY <1>1, <2>1, <2>2, <2>3 DEF Fresh
<1> QED BY <1>1, <1>2

LEMMA EditorTells == EditorInv => E!OutcomeIsTold
<1> SUFFICES ASSUME EditorInv, ~board.stale, ~E!Polls, NEW o \in watched
             PROVE  o \in board.told \/ (o \notin Publishes /\ table[o] = "applied")
  BY DEF E!OutcomeIsTold
<1>1. o \in Ops /\ board.seen = board.shown /\ board.seen[o] \in Statuses /\ board.seen[o] # "none"
  BY DEF EditorInv, BoardTyped, SeenStays, Heeds, Boards, Rows
<1>2. board.seen[o] \notin {"queued", "running"}
  BY <1>1 DEF E!Polls, E!Active
<1> QED BY <1>1, <1>2 DEF EditorInv, Heeds, Statuses

\* useOperations, and the views beside it: once nothing is under way they show what the tables say.
THEOREM EditorAlwaysCurrent == E!Spec => []E!ViewsAreCurrent
<1>1. E!Init => EditorInv
  BY EditorStarts
<1>2. EditorInv /\ [E!Next]_(E!state) => EditorInv'
  BY EditorKeeps
<1>3. EditorInv => E!ViewsAreCurrent
  BY EditorShows
<1> QED BY <1>1, <1>2, <1>3, PTL DEF E!Spec

\* useOperations: an operation that the page showed under way has its notice before the page comes to rest.
THEOREM NoticeAlwaysGiven == E!Spec => []E!OutcomeIsTold
<1>1. E!Init => EditorInv
  BY EditorStarts
<1>2. EditorInv /\ [E!Next]_(E!state) => EditorInv'
  BY EditorKeeps
<1>3. EditorInv => E!OutcomeIsTold
  BY EditorTells
<1> QED BY <1>1, <1>2, <1>3, PTL DEF E!Spec

HIDE DEF table, stream, board, asks, pane, boardFaults, deaf, early, watched

-----------------------------------------------------------------------------
(* Chat *)

chatRows == v1
tokens == v2
told == v3
listing == v4
talk == v5
message == v6
chatFaults == v7
typed == v8
late == v9
over == v10
cut == v11
refilled == v12

USE DEF chatRows, tokens, told, listing, talk, message, chatFaults, typed, late, over, cut, refilled

ChatStatuses == {"none", "queued", "staging", "ended"}
ChatRows == [text : Nat, status : ChatStatuses, linked : BOOLEAN, replied : BOOLEAN]
Entries == [row : Nat, status : ChatStatuses, replied : BOOLEAN]
Listings == [at : {"asked", "done"}, list : Seq(Entries), used : Nat, overtaken : BOOLEAN]
Talks == [list : Seq(Entries), used : Nat, draft : Nat, outgoing : Nat]
Sendings == [at : {"none", "asked", "refused", "stored", "queued", "done"}, text : Nat, row : Nat]

\* An operation goes from a to b; what the page knows of message i; whether any is under way.
Upto(a, b) == a = b \/ a = "none" \/ (a = "queued" /\ b # "none") \/ (a = "staging" /\ b = "ended")
Knows(ks, i) == IF i \in 1..Len(ks) THEN ks[i] ELSE "none"
GoingOn(ms) == \E r \in 1..Len(ms) : ms[r].status \in {"queued", "staging"}

ChatTyped ==
  /\ chatRows \in Seq(ChatRows) /\ tokens \in Nat /\ told \in Seq(ChatStatuses) /\ listing \in Seq(Listings)
  /\ talk \in Talks /\ message \in Sendings /\ typed \in Nat

RowFits(r, n) == (r.status = "ended" => r.replied) /\ 0 < r.text /\ r.text <= n

RowsFit ==
  /\ \A i \in 1..Len(chatRows) : RowFits(chatRows[i], typed)
  /\ Len(told) <= Len(chatRows)
  /\ \A i \in 1..Len(told) : Upto(told[i], chatRows[i].status)

\* A text that goes out is the request's, and its message is stored, queued and linked in this order.
MessageFits ==
  /\ talk.outgoing = 0 <=> message.at = "none"
  /\ message.at # "none" => message.text = talk.outgoing
  /\ message.at \in {"stored", "queued", "done"} =>
       message.row \in 1..Len(chatRows) /\ chatRows[message.row].text = message.text
  /\ message.at = "stored" => chatRows[message.row].status = "none"
  /\ message.at \in {"queued", "done"} => chatRows[message.row].status # "none"
  /\ talk.draft <= typed /\ talk.outgoing <= typed
  /\ talk.draft # 0 => talk.draft # talk.outgoing

Recorded(t) == \E i \in 1..Len(chatRows) : chatRows[i].text = t

\* No text is lost, and one that can be stored again was stored before only if its answer was lost.
TextsFit ==
  /\ \A t \in 1..typed : t = talk.draft \/ t = talk.outgoing \/ t \in over \/ Recorded(t)
  /\ \A i, j \in 1..Len(chatRows) : i # j /\ chatRows[i].text = chatRows[j].text => chatRows[i].text \in cut
  /\ Recorded(talk.draft) => talk.draft \in cut
  /\ message.at \in {"asked", "refused"} /\ Recorded(message.text) => message.text \in cut

(***************************************************************************)
(* A row e of a list: it is of one of the messages ms, and says of it no   *)
(* less than the page had been told, by the statuses ks, when it asked.    *)
(***************************************************************************)
Says(e, ms, ks) ==
  /\ e.row <= Len(ms)
  /\ e.status # "none" => 0 < e.row /\ Upto(Knows(ks, e.row), e.status) /\ Upto(e.status, ms[e.row].status)
  /\ e.replied => 0 < e.row /\ ms[e.row].replied
  /\ Knows(ks, e.row) = "ended" => e.replied

SaysAll(es, ms, ks) ==
  /\ \A i \in 1..Len(ms) : Knows(ks, i) # "none" => \E j \in 1..Len(es) : es[j].row = i
  /\ \A j \in 1..Len(es) : Says(es[j], ms, ks)
  /\ \A j, k \in 1..Len(es) : es[j].row = es[k].row => j = k

\* The tokens u that a list came with: those used now, n, unless some came back since it asked.
Counts(u, ms, ks, n, re) == u = n \/ re = TRUE \/ GoingOn(ms) \/ \E r \in 1..Len(ms) : ms[r].status # Knows(ks, r)

UpToDate(es, u, ms, ks, n, re) == SaysAll(es, ms, ks) /\ Counts(u, ms, ks, n, re)

\* The last request for the list is not overtaken, or all are; and what the chat shows, once that is not late, or its
\* last answer, once it is read, is up to date.
ListsFit ==
  /\ \A i, j \in 1..Len(listing) : i < j /\ ~listing[i].overtaken => ~listing[j].overtaken
  /\ \A i \in 1..Len(listing) :
       i = Len(listing) /\ ~listing[i].overtaken /\ listing[i].at = "done" =>
         UpToDate(listing[i].list, listing[i].used, chatRows, told, tokens, refilled)
  /\ ~late => \/ \E i \in 1..Len(listing) : ~listing[i].overtaken
              \/ UpToDate(talk.list, talk.used, chatRows, told, tokens, refilled)

ChatInv == ChatTyped /\ RowsFit /\ MessageFits /\ TextsFit /\ ListsFit

LEMMA ChatStarts == H!Init => ChatInv
<1> SUFFICES ASSUME H!Init PROVE ChatInv
  OBVIOUS
<1> DEFINE one == [row |-> 0, status |-> "none", replied |-> FALSE]
<1>1. one \in Entries /\ one.row = 0 /\ one.status = "none" /\ ~one.replied
  BY DEF Entries, ChatStatuses
<1>2. /\ chatRows = <<>> /\ tokens = 0 /\ told = <<>> /\ listing = <<>> /\ typed = 0 /\ late = FALSE
      /\ talk = [list |-> <<one>>, used |-> 0, draft |-> 0, outgoing |-> 0]
      /\ message = [at |-> "none", text |-> 0, row |-> 0]
  BY DEF H!Init, H!Unloaded, H!NoRequest
<1> HIDE DEF one
<1>3. talk \in Talks /\ talk.list = <<one>> /\ talk.used = 0 /\ talk.draft = 0 /\ talk.outgoing = 0
  BY <1>1, <1>2 DEF Talks
<1>4. message \in Sendings /\ message.at = "none"
  BY <1>2 DEF Sendings
<1>5. Len(chatRows) = 0 /\ Len(told) = 0 /\ Len(listing) = 0
  BY <1>2
<1>6. ChatTyped
  <2>1. <<>> \in Seq(ChatRows) /\ <<>> \in Seq(ChatStatuses) /\ <<>> \in Seq(Listings)
    OBVIOUS
  <2> QED BY <1>2, <1>3, <1>4, <2>1 DEF ChatTyped
<1>7. RowsFit /\ MessageFits /\ TextsFit
  BY <1>2, <1>3, <1>4, <1>5 DEF RowsFit, MessageFits, TextsFit, Recorded
<1>8. Len(talk.list) = 1 /\ talk.list[1] = one
  BY <1>3
<1>9. SaysAll(talk.list, chatRows, told)
  BY <1>1, <1>5, <1>8 DEF SaysAll, Says, Knows
<1>10. ListsFit
  BY <1>2, <1>3, <1>5, <1>9 DEF ListsFit, UpToDate, Counts
<1> QED BY <1>6, <1>7, <1>10 DEF ChatInv

\* The messages ms become ns: some are added, operations go on, replies come.
Later(a, b) ==
  /\ Upto(a.status, b.status)
  /\ a.replied => b.replied
  /\ a.status \in {"queued", "staging"} => b.status \in {"queued", "staging", "ended"}
Grows(ms, ns) == Len(ms) <= Len(ns) /\ \A i \in 1..Len(ms) : Later(ms[i], ns[i])

LEMMA UpToDateStays ==
  ASSUME NEW ms \in Seq(ChatRows), NEW ns \in Seq(ChatRows), NEW ks \in Seq(ChatStatuses), NEW es \in Seq(Entries),
         NEW u, NEW n, NEW m, NEW re, Grows(ms, ns), Len(ks) <= Len(ms), \A i \in 1..Len(ks) : Upto(ks[i], ms[i].status),
         m = n \/ GoingOn(ns), UpToDate(es, u, ms, ks, n, re)
  PROVE  UpToDate(es, u, ns, ks, m, re)
<1>0. Len(ms) \in Nat /\ Len(ns) \in Nat /\ Len(ks) \in Nat /\ Len(es) \in Nat /\ Len(ms) <= Len(ns)
  BY DEF Grows, Later
<1>1. ASSUME NEW i \in 1..Len(ns), Knows(ks, i) # "none" PROVE i \in 1..Len(ms)
  BY <1>0, <1>1 DEF Knows
<1>2. \A j \in 1..Len(es) : Says(es[j], ns, ks)
  <2> SUFFICES ASSUME NEW j \in 1..Len(es) PROVE Says(es[j], ns, ks)
    OBVIOUS
  <2> DEFINE e == es[j]
  <2>1. e \in Entries /\ Says(e, ms, ks)
    BY DEF UpToDate, SaysAll
  <2> HIDE DEF e
  <2>2. e.row \in Nat /\ e.status \in ChatStatuses
    BY <2>1 DEF Entries
  <2>3. ASSUME 0 < e.row PROVE e.row \in 1..Len(ms) /\ ms[e.row].status \in ChatStatuses /\ ns[e.row].status \in ChatStatuses
    <3>1. e.row \in 1..Len(ms) /\ e.row \in 1..Len(ns)
      BY <1>0, <2>1, <2>2, <2>3 DEF Says
    <3>2. ms[e.row] \in ChatRows /\ ns[e.row] \in ChatRows
      BY <3>1
    <3> QED BY <3>1, <3>2 DEF ChatRows
  <2>4. ASSUME e.status # "none" PROVE 0 < e.row /\ Upto(Knows(ks, e.row), e.status) /\ Upto(e.status, ns[e.row].status)
    <3>1. 0 < e.row /\ Upto(Knows(ks, e.row), e.status) /\ Upto(e.status, ms[e.row].status)
      BY <2>1, <2>4 DEF Says
    <3>2. Upto(ms[e.row].status, ns[e.row].status)
      BY <2>3, <3>1 DEF Grows, Later
    <3> QED BY <2>2, <2>3, <3>1, <3>2 DEF Upto, ChatStatuses
  <2>5. ASSUME e.replied PROVE 0 < e.row /\ ns[e.row].replied
    BY <2>1, <2>3, <2>5 DEF Says, Grows, Later
  <2>6. e.row <= Len(ns)
    BY <1>0, <2>1, <2>2 DEF Says
  <2>7. Says(e, ns, ks)
    BY <2>1, <2>4, <2>5, <2>6 DEF Says
  <2> QED BY <2>7 DEF e
<1>3. SaysAll(es, ns, ks)
  BY <1>1, <1>2 DEF UpToDate, SaysAll
<1>4. ASSUME GoingOn(ms) PROVE GoingOn(ns) \/ \E r \in 1..Len(ns) : ns[r].status # Knows(ks, r)
  <2>1. PICK r \in 1..Len(ms) : ms[r].status \in {"queued", "staging"}
    BY <1>4 DEF GoingOn
  <2>2. r \in 1..Len(ns) /\ ns[r].status \in {"queued", "staging", "ended"}
    BY <1>0, <2>1 DEF Grows, Later
  <2>3. Knows(ks, r) # "ended"
    BY <2>1 DEF Knows, Upto
  <2> QED BY <2>2, <2>3 DEF GoingOn
<1>5. ASSUME NEW r \in 1..Len(ms), ms[r].status # Knows(ks, r) PROVE r \in 1..Len(ns) /\ ns[r].status # Knows(ks, r)
  <2>1. r \in 1..Len(ns) /\ Upto(ms[r].status, ns[r].status) /\ ms[r] \in ChatRows /\ ns[r] \in ChatRows
    BY <1>0 DEF Grows, Later
  <2>2. Upto(Knows(ks, r), ms[r].status) /\ Knows(ks, r) \in ChatStatuses
    BY DEF Knows, Upto, ChatStatuses
  <2>3. ms[r].status \in ChatStatuses /\ ns[r].status \in ChatStatuses
    BY <2>1 DEF ChatRows
  <2> QED BY <1>5, <2>1, <2>2, <2>3 DEF Upto, ChatStatuses
<1>6. Counts(u, ns, ks, m, re)
  BY <1>4, <1>5 DEF UpToDate, Counts
<1> QED BY <1>3, <1>6 DEF UpToDate

LEMMA ListingIs ==
  ASSUME ChatInv
  PROVE  /\ \A i \in 1..Len(listing) : listing[i] \in Listings /\ listing[i].list \in Seq(Entries) /\ listing[i].used \in Nat
         /\ talk.list \in Seq(Entries) /\ talk.used \in Nat /\ talk.draft \in Nat /\ talk.outgoing \in Nat
         /\ Len(listing) \in Nat /\ Len(chatRows) \in Nat /\ Len(told) \in Nat
<1>1. listing \in Seq(Listings) /\ talk \in Talks /\ chatRows \in Seq(ChatRows) /\ told \in Seq(ChatStatuses)
  BY DEF ChatInv, ChatTyped
<1>2. \A i \in 1..Len(listing) : listing[i] \in Listings
  BY <1>1
<1> QED BY <1>1, <1>2 DEF Listings, Talks

LEMMA ListsStay ==
  ASSUME ChatInv, chatRows' \in Seq(ChatRows), Grows(chatRows, chatRows'), tokens' = tokens \/ GoingOn(chatRows'),
         UNCHANGED <<told, listing, late, refilled>>, talk'.list = talk.list, talk'.used = talk.used
  PROVE  ListsFit'
<1>1. chatRows \in Seq(ChatRows) /\ told \in Seq(ChatStatuses) /\ Len(told) <= Len(chatRows)
      /\ \A i \in 1..Len(told) : Upto(told[i], chatRows[i].status)
  BY DEF ChatInv, ChatTyped, RowsFit
<1>2. ASSUME NEW es \in Seq(Entries), NEW u, UpToDate(es, u, chatRows, told, tokens, refilled)
      PROVE  UpToDate(es, u, chatRows', told, tokens', refilled)
  BY <1>1, <1>2, UpToDateStays
<1>3. ASSUME NEW i \in 1..Len(listing), i = Len(listing), ~listing[i].overtaken, listing[i].at = "done"
      PROVE  UpToDate(listing[i].list, listing[i].used, chatRows', told, tokens', refilled)
  <2>1. UpToDate(listing[i].list, listing[i].used, chatRows, told, tokens, refilled)
    BY <1>3 DEF ChatInv, ListsFit
  <2> QED BY <1>2, <2>1, ListingIs
<1>4. ASSUME UpToDate(talk.list, talk.used, chatRows, told, tokens, refilled)
      PROVE  UpToDate(talk.list, talk.used, chatRows', told, tokens', refilled)
  BY <1>2, <1>4, ListingIs
<1> QED BY <1>3, <1>4 DEF ChatInv, ListsFit

\* The person.
LEMMA PersonKeeps ==
  ASSUME ChatInv, H!Type \/ H!Send
  PROVE  ChatInv'
<1>0. /\ talk \in Talks /\ talk.draft \in Nat /\ talk.outgoing \in Nat /\ typed \in Nat
      /\ talk.draft <= typed /\ talk.outgoing <= typed
  BY ListingIs DEF ChatInv, ChatTyped, MessageFits
<1>1. CASE H!Type
  <2>1. /\ typed' = typed + 1 /\ talk' = [talk EXCEPT !.draft = typed + 1]
        /\ over' = over \cup ({talk.draft} \ {0})
        /\ UNCHANGED <<chatRows, tokens, told, listing, message, late, cut, refilled>>
    BY <1>1 DEF H!Type
  <2>2. talk' \in Talks /\ talk'.list = talk.list /\ talk'.used = talk.used /\ talk'.draft = typed + 1 /\ talk'.outgoing = talk.outgoing
    BY <1>0, <2>1 DEF Talks
  <2>3. ChatTyped'
    BY <2>1, <2>2 DEF ChatInv, ChatTyped
  <2>4. \A i \in 1..Len(chatRows) : 0 < chatRows[i].text /\ chatRows[i].text <= typed /\ chatRows[i].text \in Nat
    <3>1. chatRows \in Seq(ChatRows)
      BY DEF ChatInv, ChatTyped
    <3>2. \A i \in 1..Len(chatRows) : chatRows[i] \in ChatRows
      BY <3>1
    <3> QED BY <3>2 DEF ChatInv, RowsFit, RowFits, ChatRows
  <2>5. RowsFit'
    <3>1. \A i \in 1..Len(chatRows) : RowFits(chatRows[i], typed + 1)
      BY <1>0, <2>4 DEF ChatInv, RowsFit, RowFits
    <3> QED BY <2>1, <3>1 DEF ChatInv, RowsFit
  <2>6. MessageFits'
    BY <1>0, <2>1, <2>2 DEF ChatInv, MessageFits
  <2>7. TextsFit'
    <3>1. ~Recorded(typed + 1)
      BY <1>0, <2>4 DEF Recorded
    <3>2. ASSUME NEW t \in 1..(typed + 1) PROVE t = typed + 1 \/ t = talk.outgoing \/ t \in over' \/ Recorded(t)
      <4>1. t \in 1..typed \/ t = typed + 1
        BY <1>0
      <4>2. t # 0 /\ over \subseteq over' /\ (t = talk.draft => t \in over')
        BY <1>0, <2>1
      <4> QED BY <4>1, <4>2 DEF ChatInv, TextsFit
    <3>3. \A t : Recorded(t)' <=> Recorded(t)
      BY <2>1 DEF Recorded
    <3> QED BY <2>1, <2>2, <3>1, <3>2, <3>3 DEF ChatInv, TextsFit
  <2>8. ListsFit'
    BY <2>1, <2>2 DEF ChatInv, ListsFit
  <2> QED BY <2>3, <2>5, <2>6, <2>7, <2>8 DEF ChatInv
<1>2. CASE H!Send
  <2>1. /\ talk.draft # 0 /\ talk.outgoing = 0
        /\ talk' = [talk EXCEPT !.outgoing = talk.draft, !.draft = 0]
        /\ message' = [at |-> "asked", text |-> talk.draft, row |-> 0]
        /\ UNCHANGED <<chatRows, tokens, told, listing, typed, late, over, cut, refilled>>
    BY <1>2 DEF H!Send, H!Busy, H!history
  <2>2. talk' \in Talks /\ talk'.list = talk.list /\ talk'.used = talk.used /\ talk'.draft = 0 /\ talk'.outgoing = talk.draft
    BY <1>0, <2>1 DEF Talks
  <2>3. message' \in Sendings /\ message'.at = "asked" /\ message'.text = talk.draft
    BY <1>0, <2>1 DEF Sendings
  <2>4. ChatTyped'
    BY <2>1, <2>2, <2>3 DEF ChatInv, ChatTyped
  <2>5. RowsFit' /\ ListsFit'
    BY <2>1, <2>2 DEF ChatInv, RowsFit, ListsFit
  <2>6. MessageFits'
    BY <1>0, <2>1, <2>2, <2>3 DEF MessageFits
  <2>7. TextsFit'
    <3>1. ~Recorded(0)
      BY DEF ChatInv, RowsFit, RowFits, Recorded
    <3>2. \A t : Recorded(t)' <=> Recorded(t)
      BY <2>1 DEF Recorded
    <3>3. \A t \in 1..typed : t # 0
      OBVIOUS
    <3> QED BY <2>1, <2>2, <2>3, <3>1, <3>2, <3>3 DEF ChatInv, TextsFit
  <2> QED BY <2>4, <2>5, <2>6, <2>7 DEF ChatInv
<1> QED BY <1>1, <1>2

\* The texts of the messages, when those stay that there are.
LEMMA SameTexts ==
  ASSUME ChatInv, Len(chatRows') = Len(chatRows), \A i \in 1..Len(chatRows) : chatRows'[i].text = chatRows[i].text
  PROVE  \A t : Recorded(t)' <=> Recorded(t)
BY DEF Recorded

\* CopilotService.send: the message is stored.
LEMMA StoreKeeps ==
  ASSUME ChatInv, H!Store
  PROVE  ChatInv'
<1>0. /\ message.at = "asked" /\ message \in Sendings /\ message.text \in Nat /\ chatRows \in Seq(ChatRows)
      /\ UNCHANGED <<tokens, told, listing, talk, typed, late, over, cut, refilled>>
  BY DEF H!Store, H!history, ChatInv, ChatTyped, Sendings
<1>1. CASE message' = [message EXCEPT !.at = "refused"] /\ UNCHANGED chatRows
  <2>1. message' \in Sendings /\ message'.at = "refused" /\ message'.text = message.text
    BY <1>0, <1>1 DEF Sendings
  <2>2. \A t : Recorded(t)' <=> Recorded(t)
    BY <1>1 DEF Recorded
  <2>3. ChatTyped' /\ RowsFit' /\ ListsFit'
    BY <1>0, <1>1, <2>1 DEF ChatInv, ChatTyped, RowsFit, ListsFit
  <2>4. MessageFits'
    BY <1>0, <1>1, <2>1 DEF ChatInv, MessageFits
  <2>5. TextsFit'
    BY <1>0, <1>1, <2>1, <2>2 DEF ChatInv, TextsFit
  <2> QED BY <2>3, <2>4, <2>5 DEF ChatInv
<1>2. CASE ~(message' = [message EXCEPT !.at = "refused"] /\ UNCHANGED chatRows)
  <2> DEFINE new == [text |-> message.text, status |-> "none", linked |-> FALSE, replied |-> FALSE]
             n == Len(chatRows)
  <2>1. chatRows' = Append(chatRows, new) /\ message' = [message EXCEPT !.at = "stored", !.row = n + 1]
    BY <1>2 DEF H!Store
  <2>2. new \in ChatRows /\ new.text = message.text /\ new.status = "none" /\ ~new.replied
    BY <1>0 DEF ChatRows, ChatStatuses
  <2> HIDE DEF new
  <2>3. /\ chatRows' \in Seq(ChatRows) /\ n \in Nat /\ Len(chatRows') = n + 1 /\ chatRows'[n + 1] = new
        /\ \A i \in 1..n : chatRows'[i] = chatRows[i]
    BY <1>0, <2>1, <2>2
  <2> HIDE DEF n
  <2>4. message' \in Sendings /\ message'.at = "stored" /\ message'.text = message.text /\ message'.row = n + 1
    <3>1. n + 1 \in Nat
      BY <2>3
    <3> QED BY <1>0, <2>1, <3>1 DEF Sendings
  <2>5. \A i \in 1..Len(chatRows') : i \in 1..n \/ i = n + 1
    BY <2>3
  <2>6. \A t : Recorded(t)' <=> Recorded(t) \/ t = message.text
    <3>1. n + 1 \in 1..Len(chatRows') /\ \A i \in 1..n : i \in 1..Len(chatRows')
      BY <2>3
    <3> QED BY <2>2, <2>3, <2>5, <3>1 DEF Recorded, n
  <2>7. message.text = talk.outgoing /\ talk.outgoing # 0 /\ talk.outgoing <= typed /\ 0 < message.text
    BY <1>0 DEF ChatInv, MessageFits
  <2>8. ChatTyped'
    BY <1>0, <2>3, <2>4 DEF ChatInv, ChatTyped
  <2>9. RowsFit'
    <3>1. \A i \in 1..Len(told) : Upto(told[i], chatRows'[i].status)
      <4>1. \A i \in 1..Len(told) : i \in 1..n
        BY ListingIs DEF ChatInv, RowsFit, n
      <4> QED BY <2>3, <4>1 DEF ChatInv, RowsFit
    <3>2. Len(told) <= Len(chatRows')
      BY <2>3, ListingIs DEF ChatInv, RowsFit, n
    <3>3. \A i \in 1..Len(chatRows') : RowFits(chatRows'[i], typed)
      <4>1. RowFits(new, typed)
        BY <2>2, <2>7 DEF RowFits
      <4> QED BY <2>3, <2>5, <4>1 DEF ChatInv, RowsFit, n
    <3>4. told' = told /\ typed' = typed
      BY <1>0
    <3> QED BY <3>1, <3>2, <3>3, <3>4 DEF RowsFit
  <2>10. MessageFits'
    <3>1. message'.row \in 1..Len(chatRows') /\ chatRows'[message'.row] = new
      BY <2>3, <2>4
    <3> QED BY <1>0, <2>2, <2>4, <3>1 DEF ChatInv, MessageFits
  <2>11. TextsFit'
    <3>1. ASSUME NEW i \in 1..Len(chatRows'), NEW j \in 1..Len(chatRows'), i # j, chatRows'[i].text = chatRows'[j].text
          PROVE  chatRows'[i].text \in cut
      <4>1. CASE i \in 1..n /\ j \in 1..n
        BY <2>3, <3>1, <4>1 DEF ChatInv, TextsFit, n
      <4>2. CASE i = n + 1 \/ j = n + 1
        <5>1. PICK k \in 1..n : chatRows[k].text = message.text
          BY <2>2, <2>3, <2>5, <3>1, <4>2
        <5>2. message.text \in cut
          BY <1>0, <5>1 DEF ChatInv, TextsFit, Recorded, n
        <5> QED BY <2>2, <2>3, <3>1, <4>2, <5>2
      <4> QED BY <2>5, <4>1, <4>2
    <3>2. Recorded(talk.draft)' => talk.draft \in cut
      <4>1. talk.draft = message.text => talk.draft = 0
        BY <2>7 DEF ChatInv, MessageFits
      <4> QED BY <1>0, <2>6, <2>7, <4>1 DEF ChatInv, TextsFit
    <3> QED BY <1>0, <2>4, <2>6, <3>1, <3>2 DEF ChatInv, TextsFit
  <2>12. Grows(chatRows, chatRows')
    <3>1. Len(chatRows) <= Len(chatRows')
      BY <2>3 DEF n
    <3> QED BY <2>3, <3>1 DEF Grows, Later, Upto, n
  <2>13. ListsFit'
    BY <1>0, <2>3, <2>12, ListsStay
  <2> QED BY <2>8, <2>9, <2>10, <2>11, <2>13 DEF ChatInv
<1> QED BY <1>1, <1>2

\* A message's operation goes on, or is linked, or replied to, whoever does it.
LEMMA MovesKeep ==
  ASSUME ChatInv, NEW i \in 1..Len(chatRows), NEW r \in ChatRows, chatRows' = [chatRows EXCEPT ![i] = r],
         Later(chatRows[i], r), r.text = chatRows[i].text,
         r.status = "ended" => r.replied, tokens' \in Nat, tokens' = tokens \/ r.status \in {"queued", "staging"},
         UNCHANGED <<told, listing, talk, typed, late, over, cut, refilled>>, message' \in Sendings,
         message'.text = message.text, message'.row = message.row,
         \/ message' = message /\ chatRows[i].status # "none"
         \/ message.at = "stored" /\ message'.at = "queued" /\ i = message.row /\ r.status # "none"
         \/ message.at = "queued" /\ message'.at = "done" /\ i = message.row
  PROVE  ChatInv'
<1>0. chatRows \in Seq(ChatRows) /\ Len(chatRows) \in Nat
  BY DEF ChatInv, ChatTyped
<1>1. /\ chatRows' \in Seq(ChatRows) /\ Len(chatRows') = Len(chatRows) /\ chatRows'[i] = r /\ Grows(chatRows, chatRows')
      /\ \A j \in 1..Len(chatRows) : chatRows'[j].text = chatRows[j].text /\ (j # i => chatRows'[j] = chatRows[j])
  <2>1. /\ chatRows' \in Seq(ChatRows) /\ Len(chatRows') = Len(chatRows) /\ chatRows'[i] = r
        /\ \A j \in 1..Len(chatRows) : j # i => chatRows'[j] = chatRows[j]
    BY <1>0
  <2>2. ASSUME NEW j \in 1..Len(chatRows)
        PROVE  Later(chatRows[j], chatRows'[j]) /\ chatRows'[j].text = chatRows[j].text
    <3>1. CASE j = i
      BY <2>1, <3>1
    <3>2. CASE j # i
      BY <2>1, <3>2 DEF Upto, Later
    <3> QED BY <3>1, <3>2
  <2> QED BY <1>0, <2>1, <2>2 DEF Grows
<1>2. \A t : Recorded(t)' <=> Recorded(t)
  BY <1>1, SameTexts
<1>3. ChatTyped'
  BY <1>1 DEF ChatInv, ChatTyped
<1>4. RowsFit'
  <2>1. \A j \in 1..Len(chatRows') : RowFits(chatRows'[j], typed)
    <3>1. RowFits(chatRows[i], typed)
      BY DEF ChatInv, RowsFit
    <3>2. RowFits(r, typed)
      BY <3>1 DEF RowFits
    <3> QED BY <1>1, <3>2 DEF ChatInv, RowsFit
  <2>2. ASSUME NEW j \in 1..Len(told) PROVE Upto(told[j], chatRows'[j].status)
    <3>1. j \in 1..Len(chatRows) /\ Upto(told[j], chatRows[j].status)
      BY ListingIs DEF ChatInv, RowsFit
    <3>2. Upto(chatRows[j].status, chatRows'[j].status) /\ chatRows[j] \in ChatRows /\ chatRows'[j] \in ChatRows
      BY <1>0, <1>1, <3>1 DEF Grows, Later
    <3>3. chatRows[j].status \in ChatStatuses /\ chatRows'[j].status \in ChatStatuses /\ told[j] \in ChatStatuses
      BY <3>2 DEF ChatRows, ChatInv, ChatTyped
    <3> QED BY <3>1, <3>2, <3>3 DEF Upto, ChatStatuses
  <2> QED BY <1>1, <2>1, <2>2 DEF ChatInv, RowsFit
<1>5. MessageFits'
  <2>1. message.at = "stored" /\ message' = message => message.row # i
    BY DEF ChatInv, MessageFits
  <2>2. r.status = "none" => chatRows[i].status = "none"
    BY DEF Upto, Later
  <2>3. \A j \in 1..Len(chatRows) : chatRows[j].status # "none" => chatRows'[j].status # "none"
    BY <1>1, <2>2
  <2> QED BY <1>1, <2>1, <2>3 DEF ChatInv, MessageFits
<1>6. TextsFit'
  <2>1. message'.at \in {"asked", "refused"} => message.at = message'.at
    OBVIOUS
  <2> QED BY <1>1, <1>2, <2>1 DEF ChatInv, TextsFit
<1>7. tokens' = tokens \/ GoingOn(chatRows')
  BY <1>1 DEF GoingOn
<1>8. ListsFit'
  BY <1>1, <1>7, ListsStay
<1> QED BY <1>3, <1>4, <1>5, <1>6, <1>8 DEF ChatInv

LEMMA ServingKeeps ==
  ASSUME ChatInv, H!Enqueue \/ H!Link \/ \E i \in DOMAIN chatRows : H!Reply(i) \/ H!Move(i)
  PROVE  ChatInv'
<1>0. chatRows \in Seq(ChatRows) /\ DOMAIN chatRows = 1..Len(chatRows) /\ message \in Sendings /\ tokens \in Nat
  BY DEF ChatInv, ChatTyped
<1>1. ASSUME NEW i \in 1..Len(chatRows)
      PROVE  chatRows[i] \in ChatRows /\ RowFits(chatRows[i], typed)
  BY <1>0 DEF ChatInv, RowsFit
<1>2. CASE H!Enqueue
  <2> DEFINE i == message.row
             r == [chatRows[i] EXCEPT !.status = "queued"]
  <2>1. /\ message.at = "stored" /\ chatRows' = [chatRows EXCEPT ![i].status = "queued"]
        /\ message' = [message EXCEPT !.at = "queued"]
        /\ UNCHANGED <<tokens, told, listing, talk, typed, late, over, cut, refilled>>
    BY <1>2 DEF H!Enqueue, H!history
  <2>2. i \in 1..Len(chatRows) /\ chatRows[i].status = "none"
    BY <2>1 DEF ChatInv, MessageFits
  <2>3. chatRows' = [chatRows EXCEPT ![i] = r]
    BY <2>1
  <2>4. r \in ChatRows /\ r.status = "queued" /\ r.text = chatRows[i].text /\ r.replied = chatRows[i].replied
    BY <1>1, <2>2 DEF ChatRows, ChatStatuses
  <2>5. message' \in Sendings /\ message'.at = "queued" /\ message'.text = message.text /\ message'.row = message.row
    BY <1>0, <2>1 DEF Sendings
  <2> HIDE DEF i, r
  <2>6. Later(chatRows[i], r)
    BY <2>2, <2>4 DEF Later, Upto
  <2> QED BY <1>0, <2>1, <2>2, <2>3, <2>4, <2>5, <2>6, MovesKeep DEF i
<1>3. CASE H!Link
  <2> DEFINE i == message.row
             r == [chatRows[i] EXCEPT !.linked = TRUE]
  <2>1. /\ message.at = "queued" /\ chatRows' = [chatRows EXCEPT ![i].linked = TRUE]
        /\ message' = [message EXCEPT !.at = "done"]
        /\ UNCHANGED <<tokens, told, listing, talk, typed, late, over, cut, refilled>>
    BY <1>3 DEF H!Link, H!history
  <2>2. i \in 1..Len(chatRows)
    BY <2>1 DEF ChatInv, MessageFits
  <2>3. chatRows' = [chatRows EXCEPT ![i] = r]
    BY <2>1
  <2>4. r \in ChatRows /\ r.status = chatRows[i].status /\ r.text = chatRows[i].text /\ r.replied = chatRows[i].replied
    BY <1>1, <2>2 DEF ChatRows
  <2>5. message' \in Sendings /\ message'.at = "done" /\ message'.text = message.text /\ message'.row = message.row
    BY <1>0, <2>1 DEF Sendings
  <2> HIDE DEF i, r
  <2>6. Later(chatRows[i], r) /\ (r.status = "ended" => r.replied)
    BY <1>1, <2>2, <2>4 DEF Later, Upto, RowFits
  <2> QED BY <1>0, <2>1, <2>2, <2>3, <2>4, <2>5, <2>6, MovesKeep DEF i
<1>4. ASSUME NEW i \in 1..Len(chatRows), H!Reply(i) PROVE ChatInv'
  <2> DEFINE r == [chatRows[i] EXCEPT !.replied = TRUE]
  <2>1. /\ chatRows[i].status = "staging" /\ chatRows' = [chatRows EXCEPT ![i].replied = TRUE] /\ tokens' = tokens + 1
        /\ UNCHANGED <<told, listing, talk, message, typed, late, over, cut, refilled>>
    BY <1>4 DEF H!Reply, H!history
  <2>2. chatRows' = [chatRows EXCEPT ![i] = r]
    BY <2>1
  <2>3. r \in ChatRows /\ r.status = "staging" /\ r.text = chatRows[i].text /\ r.replied
    BY <1>1, <2>1 DEF ChatRows
  <2> HIDE DEF r
  <2>4. Later(chatRows[i], r)
    BY <2>1, <2>3 DEF Later, Upto
  <2>5. tokens' \in Nat
    BY <1>0, <2>1
  <2> QED BY <1>0, <2>1, <2>2, <2>3, <2>4, <2>5, MovesKeep
<1>5. ASSUME NEW i \in 1..Len(chatRows), NEW s \in {"staging", "ended"}, H!Move(i), H!Set(i, s),
             \/ chatRows[i].status = "queued" /\ s = "staging"
             \/ chatRows[i].status = "staging" /\ chatRows[i].replied /\ s = "ended"
      PROVE  ChatInv'
  <2> DEFINE r == [chatRows[i] EXCEPT !.status = s]
  <2>1. chatRows' = [chatRows EXCEPT ![i].status = s]
    BY <1>5 DEF H!Set
  <2>2. UNCHANGED <<tokens, told, listing, talk, message, typed, late, over, cut, refilled>>
    BY <1>5 DEF H!Move, H!history
  <2>3. chatRows' = [chatRows EXCEPT ![i] = r]
    BY <2>1
  <2>4. r \in ChatRows /\ r.status = s /\ r.text = chatRows[i].text /\ r.replied = chatRows[i].replied
    BY <1>1, <2>1 DEF ChatRows, ChatStatuses
  <2> HIDE DEF r
  <2>5. Later(chatRows[i], r) /\ (r.status = "ended" => r.replied) /\ chatRows[i].status # "none"
    BY <1>5, <2>4 DEF Later, Upto
  <2> QED BY <1>0, <2>2, <2>3, <2>4, <2>5, MovesKeep
<1>6. ASSUME NEW i \in 1..Len(chatRows), H!Move(i) PROVE ChatInv'
  <2>1. CASE chatRows[i].status = "queued" /\ H!Set(i, "staging")
    BY <1>5, <1>6, <2>1
  <2>2. CASE chatRows[i].status = "staging" /\ chatRows[i].replied /\ H!Set(i, "ended")
    BY <1>5, <1>6, <2>2
  <2> QED BY <1>6, <2>1, <2>2 DEF H!Move
<1> QED BY <1>0, <1>2, <1>3, <1>4, <1>6

LEMMA RefillKeeps ==
  ASSUME ChatInv, H!Refill
  PROVE  ChatInv'
<1>1. tokens' = 0 /\ refilled' = TRUE /\ UNCHANGED <<chatRows, told, listing, talk, message, typed, late, over, cut>>
  BY DEF H!Refill
<1>2. ChatTyped' /\ RowsFit' /\ MessageFits'
  BY <1>1 DEF ChatInv, ChatTyped, RowsFit, MessageFits
<1>3. TextsFit'
  BY <1>1 DEF ChatInv, TextsFit, Recorded
<1>4. \A es, u : UpToDate(es, u, chatRows, told, tokens, refilled) => UpToDate(es, u, chatRows, told, 0, TRUE)
  BY DEF UpToDate, Counts
<1>5. ListsFit'
  BY <1>1, <1>4 DEF ChatInv, ListsFit
<1> QED BY <1>2, <1>3, <1>5 DEF ChatInv

(***************************************************************************)
(* The list.                                                               *)
(***************************************************************************)
LEMMA SameTalk ==
  ASSUME ChatInv, UNCHANGED <<chatRows, message, typed, over, cut>>, talk' \in Talks, talk'.draft = talk.draft,
         talk'.outgoing = talk.outgoing
  PROVE  MessageFits' /\ TextsFit'
<1>1. MessageFits'
  BY DEF ChatInv, MessageFits
<1>2. \A t : Recorded(t)' <=> Recorded(t)
  BY DEF Recorded
<1>3. TextsFit'
  BY <1>2 DEF ChatInv, TextsFit
<1> QED BY <1>1, <1>3

\* A request for the list.
LEMMA ListAsked ==
  ASSUME ChatInv, listing' = Append(listing, H!Load), UNCHANGED <<chatRows, talk, late, refilled, tokens>>,
         told' \in Seq(ChatStatuses)
  PROVE  ListsFit' /\ listing' \in Seq(Listings)
<1> DEFINE n == Len(listing)
<1>1. H!Load \in Listings /\ H!Load.at = "asked" /\ ~H!Load.overtaken
  <2>1. H!Load = [at |-> "asked", list |-> <<>>, used |-> 0, overtaken |-> FALSE]
    BY DEF H!Load
  <2>2. <<>> \in Seq(Entries)
    OBVIOUS
  <2> QED BY <2>1, <2>2 DEF Listings
<1>2. listing \in Seq(Listings) /\ n \in Nat
  BY DEF ChatInv, ChatTyped
<1>3. /\ listing' \in Seq(Listings) /\ Len(listing') = n + 1 /\ listing'[n + 1] = H!Load
      /\ \A i \in 1..n : listing'[i] = listing[i]
  BY <1>1, <1>2
<1> HIDE DEF n
<1>4. \A i \in 1..Len(listing') : i \in 1..n \/ i = n + 1
  BY <1>2, <1>3
<1>5. n + 1 \in 1..Len(listing')
  BY <1>2, <1>3
<1>6. ASSUME NEW i \in 1..Len(listing'), NEW j \in 1..Len(listing'), i < j, ~listing'[i].overtaken PROVE ~listing'[j].overtaken
  <2>1. CASE j = n + 1
    BY <1>1, <1>3, <2>1
  <2>2. CASE j \in 1..n
    <3>1. i \in 1..n
      BY <1>2, <1>4, <1>6, <2>2
    <3> QED BY <1>3, <1>6, <2>2, <3>1 DEF ChatInv, ListsFit, n
  <2> QED BY <1>4, <2>1, <2>2
<1>7. ASSUME NEW i \in 1..Len(listing'), i = Len(listing') PROVE listing'[i].at # "done"
  BY <1>1, <1>3, <1>7
<1>8. ListsFit'
  BY <1>1, <1>3, <1>5, <1>6, <1>7 DEF ListsFit
<1> QED BY <1>3, <1>8

LEMMA OpenKeeps ==
  ASSUME ChatInv, H!Open
  PROVE  ChatInv'
<1>1. /\ listing = <<>> /\ listing' = <<H!Load>>
      /\ UNCHANGED <<chatRows, tokens, told, talk, message, typed, late, over, cut, refilled>>
  BY DEF H!Open, H!history
<1>2. listing' = Append(listing, H!Load) /\ told \in Seq(ChatStatuses)
  BY <1>1 DEF ChatInv, ChatTyped
<1>3. ListsFit' /\ listing' \in Seq(Listings)
  BY <1>1, <1>2, ListAsked
<1>4. ChatTyped' /\ RowsFit'
  BY <1>1, <1>3 DEF ChatInv, ChatTyped, RowsFit
<1>5. MessageFits' /\ TextsFit'
  BY <1>1, SameTalk DEF ChatInv, ChatTyped
<1> QED BY <1>3, <1>4, <1>5 DEF ChatInv

LEMMA LearnKeeps ==
  ASSUME ChatInv, H!Learn
  PROVE  ChatInv'
<1>0. chatRows \in Seq(ChatRows) /\ Len(chatRows) \in Nat /\ told \in Seq(ChatStatuses) /\ Len(told) \in Nat /\ Len(told) <= Len(chatRows)
  BY DEF ChatInv, ChatTyped, RowsFit
<1>1. told' = [i \in 1..Len(chatRows) |-> chatRows[i].status]
      /\ UNCHANGED <<chatRows, tokens, talk, message, typed, late, over, cut, refilled>>
  BY <1>0 DEF H!Learn, H!Statuses, H!history
<1>2. \A i \in 1..Len(chatRows) : chatRows[i].status \in ChatStatuses
  <2>1. \A i \in 1..Len(chatRows) : chatRows[i] \in ChatRows
    BY <1>0
  <2> QED BY <2>1 DEF ChatRows
<1>3. told' \in Seq(ChatStatuses) /\ Len(told') = Len(chatRows)
  <2>1. told' \in [1..Len(chatRows) -> ChatStatuses]
    BY <1>1, <1>2
  <2> QED BY <1>0, <2>1, SeqDef, LenProperties
<1>4. RowsFit'
  BY <1>1, <1>3 DEF ChatInv, RowsFit, Upto
<1>5. MessageFits' /\ TextsFit'
  BY <1>1, SameTalk DEF ChatInv, ChatTyped
<1>6. CASE H!Signature(told) # H!Signature(H!Statuses)
  <2>1. listing' = Append(listing, H!Load)
    BY <1>6 DEF H!Learn
  <2>2. ListsFit' /\ listing' \in Seq(Listings)
    BY <1>1, <1>3, <2>1, ListAsked
  <2>3. ChatTyped'
    BY <1>1, <1>3, <2>2 DEF ChatInv, ChatTyped
  <2> QED BY <1>4, <1>5, <2>2, <2>3 DEF ChatInv
<1>7. CASE H!Signature(told) = H!Signature(H!Statuses)
  <2>1. listing' = listing
    BY <1>7 DEF H!Learn
  <2>2. H!Statuses = told'
    BY <1>0, <1>1 DEF H!Statuses
  <2>3. ASSUME NEW i \in 1..Len(chatRows) PROVE Knows(told', i) = Knows(told, i)
    <3>0. Knows(told', i) = chatRows[i].status
      BY <1>1, <1>3 DEF Knows
    <3>1. CASE chatRows[i].status = "none"
      <4>1. i \in 1..Len(told) => Upto(told[i], "none")
        BY <3>1 DEF ChatInv, RowsFit
      <4> QED BY <3>0, <3>1, <4>1 DEF Knows, Upto
    <3>2. CASE chatRows[i].status # "none"
      <4>1. DOMAIN told' = 1..Len(chatRows) /\ told'[i] = chatRows[i].status
        BY <1>1
      <4>2. <<i, chatRows[i].status>> \in H!Signature(told')
        BY <3>2, <4>1 DEF H!Signature
      <4>3. <<i, chatRows[i].status>> \in H!Signature(told)
        BY <1>7, <2>2, <4>2
      <4>4. PICK j \in DOMAIN told : <<i, chatRows[i].status>> = <<j, told[j]>>
        BY <4>3 DEF H!Signature
      <4>5. i \in 1..Len(told) /\ told[i] = chatRows[i].status
        BY <1>0, <4>4
      <4> QED BY <3>0, <4>5 DEF Knows
    <3> QED BY <3>1, <3>2
  <2>4. ASSUME NEW es \in Seq(Entries), NEW u, UpToDate(es, u, chatRows, told, tokens, refilled)
        PROVE  UpToDate(es, u, chatRows, told', tokens, refilled)
    <3>1. ASSUME NEW j \in 1..Len(es) PROVE Says(es[j], chatRows, told')
      <4>1. es[j] \in Entries /\ es[j].row \in Nat /\ Says(es[j], chatRows, told)
        <5>1. es[j] \in Entries
          OBVIOUS
        <5> QED BY <2>4, <5>1 DEF UpToDate, SaysAll, Entries
      <4>2. es[j].row = 0 \/ es[j].row \in 1..Len(chatRows)
        BY <1>0, <4>1 DEF Says
      <4>3. Knows(told', es[j].row) = Knows(told, es[j].row)
        BY <1>0, <1>3, <2>3, <4>2 DEF Knows
      <4> QED BY <4>1, <4>3 DEF Says
    <3>2. SaysAll(es, chatRows, told')
      BY <2>3, <2>4, <3>1 DEF UpToDate, SaysAll
    <3>3. Counts(u, chatRows, told', tokens, refilled)
      BY <2>3, <2>4 DEF UpToDate, Counts
    <3> QED BY <3>2, <3>3 DEF UpToDate
  <2>5. ASSUME NEW i \in 1..Len(listing), i = Len(listing), ~listing[i].overtaken, listing[i].at = "done"
        PROVE  UpToDate(listing[i].list, listing[i].used, chatRows, told', tokens, refilled)
    <3>1. UpToDate(listing[i].list, listing[i].used, chatRows, told, tokens, refilled)
      BY <2>5 DEF ChatInv, ListsFit
    <3> QED BY <2>4, <3>1, ListingIs
  <2>6. UpToDate(talk.list, talk.used, chatRows, told, tokens, refilled) => UpToDate(talk.list, talk.used, chatRows, told', tokens, refilled)
    BY <2>4, ListingIs
  <2>7. ListsFit'
    BY <1>1, <2>1, <2>5, <2>6 DEF ChatInv, ListsFit
  <2>8. ChatTyped'
    BY <1>1, <1>3, <2>1 DEF ChatInv, ChatTyped
  <2> QED BY <1>4, <1>5, <2>7, <2>8 DEF ChatInv
<1> QED BY <1>6, <1>7

\* An answer of the list is read.
LEMMA ReadingListKeeps ==
  ASSUME ChatInv, NEW l \in 1..Len(listing), H!ReadList(l)
  PROVE  ChatInv'
<1> DEFINE entries == [i \in 1..Len(chatRows) |-> H!Listed(i)]
           new == [listing[l] EXCEPT !.at = "done", !.used = tokens, !.list = entries]
<1>0. /\ chatRows \in Seq(ChatRows) /\ Len(chatRows) \in Nat /\ listing \in Seq(Listings) /\ listing[l] \in Listings
      /\ tokens \in Nat /\ told \in Seq(ChatStatuses) /\ Len(told) \in Nat /\ Len(told) <= Len(chatRows)
  BY ListingIs DEF ChatInv, ChatTyped, RowsFit
<1>1. UNCHANGED <<chatRows, tokens, told, talk, message, typed, late, over, cut, refilled>>
  BY DEF H!ReadList, H!history
<1>2. listing' = [listing EXCEPT ![l] = new]
  <2>1. DOMAIN chatRows = 1..Len(chatRows)
    BY <1>0
  <2> QED BY <1>0, <2>1 DEF H!ReadList
<1>3. ASSUME NEW i \in 1..Len(chatRows)
      PROVE  /\ H!Listed(i) \in Entries /\ H!Listed(i).row = i /\ H!Listed(i).replied = chatRows[i].replied
             /\ H!Listed(i).status \in {"none", chatRows[i].status}
  <2>1. chatRows[i] \in ChatRows
    BY <1>0
  <2>2. i \in Nat
    BY <1>0
  <2> QED BY <2>1, <2>2 DEF H!Listed, Entries, ChatRows, ChatStatuses
<1>4. entries \in Seq(Entries) /\ Len(entries) = Len(chatRows) /\ \A i \in 1..Len(chatRows) : entries[i] = H!Listed(i)
  <2>1. entries \in [1..Len(chatRows) -> Entries]
    BY <1>3
  <2> QED BY <1>0, <2>1, SeqDef, LenProperties
<1> HIDE DEF entries
<1>5. new \in Listings /\ new.at = "done" /\ new.used = tokens /\ new.list = entries /\ new.overtaken = listing[l].overtaken
  BY <1>0, <1>4 DEF Listings
<1> HIDE DEF new
<1>6. /\ listing' \in Seq(Listings) /\ Len(listing') = Len(listing) /\ listing'[l] = new
      /\ \A i \in 1..Len(listing) : i # l => listing'[i] = listing[i]
  BY <1>0, <1>2, <1>5
<1>7. UpToDate(entries, tokens, chatRows, told, tokens, refilled)
  <2>1. ASSUME NEW i \in 1..Len(chatRows) PROVE Says(entries[i], chatRows, told)
    <3> DEFINE e == H!Listed(i)
    <3>1. entries[i] = e /\ e.row = i /\ e.replied = chatRows[i].replied /\ e.status \in {"none", chatRows[i].status}
      BY <1>3, <1>4
    <3>2. Upto(Knows(told, i), chatRows[i].status)
      BY DEF ChatInv, RowsFit, Knows, Upto
    <3>3. Knows(told, i) = "ended" => chatRows[i].status = "ended"
      BY <3>2 DEF Upto
    <3>4. chatRows[i].status = "ended" => chatRows[i].replied
      BY DEF ChatInv, RowsFit, RowFits
    <3>5. i <= Len(chatRows) /\ 0 < i
      BY <1>0
    <3> HIDE DEF e
    <3>6. Says(e, chatRows, told)
      BY <3>1, <3>2, <3>3, <3>4, <3>5 DEF Says, Upto
    <3> QED BY <3>1, <3>6
  <2>2. \A j, k \in 1..Len(entries) : entries[j].row = entries[k].row => j = k
    BY <1>3, <1>4
  <2>3. \A i \in 1..Len(chatRows) : \E j \in 1..Len(entries) : entries[j].row = i
    BY <1>3, <1>4
  <2>4. SaysAll(entries, chatRows, told)
    BY <1>4, <2>1, <2>2, <2>3 DEF SaysAll
  <2> QED BY <2>4 DEF UpToDate, Counts
<1>8. \A i \in 1..Len(listing) : listing'[i].overtaken = listing[i].overtaken
  BY <1>5, <1>6
<1>9. ListsFit'
  <2>1. ASSUME NEW i \in 1..Len(listing), i = Len(listing), ~listing'[i].overtaken, listing'[i].at = "done"
        PROVE  UpToDate(listing'[i].list, listing'[i].used, chatRows, told, tokens, refilled)
    <3>1. CASE i = l
      BY <1>5, <1>6, <1>7, <3>1
    <3>2. CASE i # l
      BY <1>6, <2>1, <3>2 DEF ChatInv, ListsFit
    <3> QED BY <3>1, <3>2
  <2>2. \A i, j \in 1..Len(listing) : i < j /\ ~listing'[i].overtaken => ~listing'[j].overtaken
    BY <1>8 DEF ChatInv, ListsFit
  <2>3. ~late => \/ \E i \in 1..Len(listing) : ~listing'[i].overtaken
                 \/ UpToDate(talk.list, talk.used, chatRows, told, tokens, refilled)
    BY <1>8 DEF ChatInv, ListsFit
  <2> QED BY <1>1, <1>6, <2>1, <2>2, <2>3 DEF ListsFit
<1>10. ChatTyped' /\ RowsFit'
  BY <1>1, <1>6 DEF ChatInv, ChatTyped, RowsFit
<1>11. MessageFits' /\ TextsFit'
  BY <1>1, SameTalk DEF ChatInv, ChatTyped
<1> QED BY <1>9, <1>10, <1>11 DEF ChatInv

\* The requests that the end of one leaves under way.
LEMMA RestOfLists ==
  ASSUME ChatInv, NEW l \in 1..Len(listing), listing' = H!Without(l)
  PROVE  /\ listing' \in Seq(Listings) /\ Len(listing') \in Nat /\ Len(listing') = Len(listing) - 1
         /\ \A j \in 1..Len(listing') :
              \/ listing'[j].overtaken
              \/ j + 1 \in 1..Len(listing) /\ l < j + 1 /\ listing'[j] = listing[j + 1]
         /\ \A i, j \in 1..Len(listing') : i < j /\ ~listing'[i].overtaken => ~listing'[j].overtaken
         /\ l < Len(listing) => Len(listing') \in 1..Len(listing') /\ listing'[Len(listing')] = listing[Len(listing)]
<1> DEFINE n == Len(listing) - 1
           rest == [j \in 1..n |-> IF j < l THEN [listing[j] EXCEPT !.overtaken = TRUE] ELSE listing[j + 1]]
<1>1. listing \in Seq(Listings) /\ Len(listing) \in Nat /\ l \in Nat /\ n \in Nat /\ listing' = rest
  BY DEF ChatInv, ChatTyped, H!Without
<1>2. ASSUME NEW j \in 1..n
      PROVE  /\ rest[j] \in Listings
             /\ j < l => rest[j].overtaken
             /\ l <= j => rest[j] = listing[j + 1]
             /\ j \in Nat /\ j + 1 \in 1..Len(listing)
  <2>1. listing[j] \in Listings /\ listing[j + 1] \in Listings /\ j \in Nat /\ j + 1 \in 1..Len(listing)
    BY <1>1
  <2>2. CASE j < l
    <3>1. rest[j] = [listing[j] EXCEPT !.overtaken = TRUE]
      BY <2>2
    <3> HIDE DEF rest
    <3>2. rest[j] \in Listings /\ rest[j].overtaken
      BY <2>1, <3>1 DEF Listings
    <3>3. ~(l <= j)
      BY <1>1, <2>1, <2>2
    <3> QED BY <2>1, <3>2, <3>3
  <2>3. CASE l <= j
    <3>1. ~(j < l)
      BY <1>1, <2>1, <2>3
    <3>2. rest[j] = listing[j + 1]
      BY <3>1
    <3> QED BY <2>1, <3>1, <3>2
  <2> QED BY <1>1, <2>1, <2>2, <2>3
<1>3. rest \in [1..n -> Listings]
  BY <1>2
<1> HIDE DEF rest
<1>4. listing' \in Seq(Listings) /\ Len(listing') = n
  BY <1>1, <1>3, SeqDef, LenProperties
<1> HIDE DEF n
<1>5. ASSUME NEW j \in 1..n
      PROVE  listing'[j].overtaken \/ (j + 1 \in 1..Len(listing) /\ l < j + 1 /\ listing'[j] = listing[j + 1])
  <2>1. CASE j < l
    BY <1>1, <1>2, <2>1
  <2>2. CASE l <= j
    <3>1. l < j + 1 /\ j + 1 \in 1..Len(listing) /\ rest[j] = listing[j + 1]
      BY <1>1, <1>2, <2>2
    <3> QED BY <1>1, <3>1
  <2> QED BY <1>1, <1>2, <2>1, <2>2
<1>6. ASSUME NEW i \in 1..n, NEW j \in 1..n, i < j, ~listing'[i].overtaken PROVE ~listing'[j].overtaken
  <2>1. i + 1 \in 1..Len(listing) /\ l < i + 1 /\ listing'[i] = listing[i + 1]
    BY <1>5, <1>6
  <2>2. l <= j /\ j + 1 \in 1..Len(listing) /\ i + 1 < j + 1
    BY <1>1, <1>2, <1>6, <2>1
  <2>3. listing'[j] = listing[j + 1]
    BY <1>1, <1>2, <2>2
  <2>4. ~listing[i + 1].overtaken
    BY <1>6, <2>1
  <2>5. ~listing[j + 1].overtaken
    BY <2>1, <2>2, <2>4 DEF ChatInv, ListsFit
  <2> QED BY <2>3, <2>5
<1>7. l < Len(listing) => n \in 1..n /\ listing'[n] = listing[Len(listing)]
  <2> SUFFICES ASSUME l < Len(listing) PROVE n \in 1..n /\ listing'[n] = listing[Len(listing)]
    OBVIOUS
  <2>1. n \in 1..n /\ l <= n /\ n + 1 = Len(listing)
    BY <1>1 DEF n
  <2>2. rest[n] = listing[n + 1]
    BY <1>2, <2>1
  <2> QED BY <1>1, <2>1, <2>2
<1> QED BY <1>1, <1>4, <1>5, <1>6, <1>7 DEF n

LEMMA ListLoadedKeeps ==
  ASSUME ChatInv, NEW l \in 1..Len(listing), H!Loaded(l)
  PROVE  ChatInv'
<1>0. listing[l] \in Listings /\ listing[l].list \in Seq(Entries) /\ listing[l].used \in Nat /\ talk \in Talks
      /\ Len(listing) \in Nat
  BY ListingIs DEF ChatInv, ChatTyped
<1>1. /\ listing[l].at = "done" /\ listing' = H!Without(l) /\ late' = listing[l].overtaken
      /\ talk' = [talk EXCEPT !.list = listing[l].list, !.used = listing[l].used]
      /\ UNCHANGED <<chatRows, tokens, told, message, typed, over, cut, refilled>>
  BY DEF H!Loaded
<1>2. /\ talk' \in Talks /\ talk'.list = listing[l].list /\ talk'.used = listing[l].used
      /\ talk'.draft = talk.draft /\ talk'.outgoing = talk.outgoing
  BY <1>0, <1>1 DEF Talks
<1>3. /\ listing' \in Seq(Listings) /\ Len(listing') \in Nat /\ Len(listing') = Len(listing) - 1
      /\ \A j \in 1..Len(listing') :
           \/ listing'[j].overtaken
           \/ j + 1 \in 1..Len(listing) /\ l < j + 1 /\ listing'[j] = listing[j + 1]
      /\ \A i, j \in 1..Len(listing') : i < j /\ ~listing'[i].overtaken => ~listing'[j].overtaken
      /\ l < Len(listing) => Len(listing') \in 1..Len(listing') /\ listing'[Len(listing')] = listing[Len(listing)]
  BY <1>1, RestOfLists
<1>4. ASSUME NEW i \in 1..Len(listing'), i = Len(listing'), ~listing'[i].overtaken, listing'[i].at = "done"
      PROVE  UpToDate(listing'[i].list, listing'[i].used, chatRows, told, tokens, refilled)
  <2>1. i + 1 \in 1..Len(listing) /\ listing'[i] = listing[i + 1] /\ i + 1 = Len(listing)
    BY <1>0, <1>3, <1>4
  <2> QED BY <1>4, <2>1 DEF ChatInv, ListsFit
<1>5. ASSUME ~listing[l].overtaken
      PROVE  \/ \E i \in 1..Len(listing') : ~listing'[i].overtaken
             \/ UpToDate(talk'.list, talk'.used, chatRows, told, tokens, refilled)
  <2>1. CASE l = Len(listing)
    BY <1>1, <1>2, <1>5, <2>1 DEF ChatInv, ListsFit
  <2>2. CASE l # Len(listing)
    <3>1. l < Len(listing) /\ Len(listing) \in 1..Len(listing)
      BY <1>0, <2>2
    <3>2. ~listing[Len(listing)].overtaken
      BY <1>5, <3>1 DEF ChatInv, ListsFit
    <3> QED BY <1>3, <3>1, <3>2
  <2> QED BY <2>1, <2>2
<1>6. ListsFit'
  BY <1>1, <1>3, <1>4, <1>5 DEF ListsFit
<1>7. ChatTyped' /\ RowsFit'
  BY <1>1, <1>2, <1>3 DEF ChatInv, ChatTyped, RowsFit
<1>8. MessageFits' /\ TextsFit'
  BY <1>1, <1>2, SameTalk
<1> QED BY <1>6, <1>7, <1>8 DEF ChatInv

LEMMA LoadFailsKeeps ==
  ASSUME ChatInv, NEW l \in 1..Len(listing), H!LoadFails(l)
  PROVE  ChatInv'
<1>0. talk \in Talks /\ Len(listing) \in Nat /\ talk.list \in Seq(Entries)
  BY ListingIs DEF ChatInv, ChatTyped
<1>1. /\ listing' = H!Without(l) /\ late' = TRUE
      /\ talk' = [talk EXCEPT !.list = IF talk.list = H!Unloaded THEN <<>> ELSE talk.list]
      /\ UNCHANGED <<chatRows, tokens, told, message, typed, over, cut, refilled>>
  BY DEF H!LoadFails
<1>2. talk' \in Talks /\ talk'.draft = talk.draft /\ talk'.outgoing = talk.outgoing
  <2>1. <<>> \in Seq(Entries)
    OBVIOUS
  <2> QED BY <1>0, <1>1, <2>1 DEF Talks
<1>3. /\ listing' \in Seq(Listings) /\ Len(listing') \in Nat /\ Len(listing') = Len(listing) - 1
      /\ \A j \in 1..Len(listing') :
           \/ listing'[j].overtaken
           \/ j + 1 \in 1..Len(listing) /\ l < j + 1 /\ listing'[j] = listing[j + 1]
      /\ \A i, j \in 1..Len(listing') : i < j /\ ~listing'[i].overtaken => ~listing'[j].overtaken
  BY <1>1, RestOfLists
<1>4. ASSUME NEW i \in 1..Len(listing'), i = Len(listing'), ~listing'[i].overtaken, listing'[i].at = "done"
      PROVE  UpToDate(listing'[i].list, listing'[i].used, chatRows, told, tokens, refilled)
  <2>1. i + 1 \in 1..Len(listing) /\ listing'[i] = listing[i + 1] /\ i + 1 = Len(listing)
    BY <1>0, <1>3, <1>4
  <2> QED BY <1>4, <2>1 DEF ChatInv, ListsFit
<1>5. ListsFit'
  BY <1>1, <1>3, <1>4 DEF ListsFit
<1>6. ChatTyped' /\ RowsFit'
  BY <1>1, <1>2, <1>3 DEF ChatInv, ChatTyped, RowsFit
<1>7. MessageFits' /\ TextsFit'
  BY <1>1, <1>2, SameTalk
<1> QED BY <1>5, <1>6, <1>7 DEF ChatInv

(***************************************************************************)
(* The answer to a message.                                                *)
(***************************************************************************)
LEMMA AnsweredKeeps ==
  ASSUME ChatInv, H!Answered
  PROVE  ChatInv'
<1> DEFINE new == [row |-> message.row, status |-> "queued", replied |-> FALSE]
           old == IF talk.list = H!Unloaded THEN <<>> ELSE talk.list
           entries == H!Added(talk.list)
<1>0. /\ talk \in Talks /\ talk.list \in Seq(Entries) /\ message \in Sendings /\ message.at = "done"
      /\ chatRows \in Seq(ChatRows) /\ Len(chatRows) \in Nat
      /\ message.row \in 1..Len(chatRows) /\ chatRows[message.row].status # "none"
      /\ chatRows[message.row].text = talk.outgoing /\ told \in Seq(ChatStatuses)
  BY ListingIs DEF ChatInv, ChatTyped, MessageFits, H!Answered
<1>1. /\ talk' = [talk EXCEPT !.list = entries, !.outgoing = 0] /\ message' = [at |-> "none", text |-> 0, row |-> 0]
      /\ UNCHANGED <<chatRows, tokens, told, listing, typed, late, over, cut, refilled>>
  BY DEF H!Answered, H!NoRequest, H!history
<1>2. new \in Entries /\ new.row = message.row /\ new.status = "queued" /\ ~new.replied
  BY <1>0 DEF Entries, ChatStatuses
<1>3. old \in Seq(Entries)
  BY <1>0
<1>4. entries = IF \E j \in 1..Len(talk.list) : talk.list[j].row = message.row THEN talk.list ELSE Append(old, new)
  <2>1. DOMAIN talk.list = 1..Len(talk.list)
    BY <1>0
  <2> QED BY <2>1 DEF H!Added
<1> HIDE DEF new, old, entries
<1>5. entries \in Seq(Entries)
  BY <1>0, <1>2, <1>3, <1>4
<1>6. ASSUME SaysAll(talk.list, chatRows, told) PROVE SaysAll(entries, chatRows, told)
  <2>1. CASE \E j \in 1..Len(talk.list) : talk.list[j].row = message.row
    BY <1>4, <1>6, <2>1
  <2>2. CASE ~\E j \in 1..Len(talk.list) : talk.list[j].row = message.row
    <3> DEFINE n == Len(old)
    <3>1. entries = Append(old, new)
      BY <1>4, <2>2
    <3>2. n \in Nat /\ Len(entries) = n + 1 /\ entries[n + 1] = new /\ \A j \in 1..n : entries[j] = old[j]
      BY <1>2, <1>3, <3>1
    <3>3. \A j \in 1..Len(entries) : j \in 1..n \/ j = n + 1
      BY <3>2
    <3>4. Knows(told, message.row) = "none"
      BY <1>0, <1>6, <2>2 DEF SaysAll
    <3>5. Says(new, chatRows, told)
      <4>1. chatRows[message.row] \in ChatRows
        BY <1>0
      <4>2. Upto("queued", chatRows[message.row].status)
        BY <1>0 DEF Upto
      <4>3. 0 < message.row /\ message.row <= Len(chatRows)
        BY <1>0
      <4> QED BY <1>2, <3>4, <4>2, <4>3 DEF Says, Upto
    <3>6. /\ \A j \in 1..n : Says(old[j], chatRows, told) /\ old[j].row # message.row
          /\ \A j, k \in 1..n : old[j].row = old[k].row => j = k
          /\ \A i \in 1..Len(chatRows) : Knows(told, i) # "none" => \E j \in 1..n : old[j].row = i
      <4>1. CASE talk.list # H!Unloaded
        <5>1. old = talk.list
          BY <4>1 DEF old
        <5> QED BY <1>6, <2>2, <5>1 DEF SaysAll
      <4>2. CASE talk.list = H!Unloaded
        <5>1. old = <<>> /\ n = 0
          BY <4>2 DEF old
        <5>2. Len(talk.list) = 1 /\ talk.list[1].row = 0
          BY <4>2 DEF H!Unloaded
        <5>3. ASSUME NEW i \in 1..Len(chatRows), Knows(told, i) # "none" PROVE FALSE
          <6>1. PICK j \in 1..Len(talk.list) : talk.list[j].row = i
            BY <1>6, <5>3 DEF SaysAll
          <6> QED BY <1>0, <5>2, <6>1
        <5> QED BY <5>1, <5>3
      <4> QED BY <4>1, <4>2
    <3>7. \A j \in 1..Len(entries) : Says(entries[j], chatRows, told)
      BY <3>2, <3>3, <3>5, <3>6
    <3>8. \A j, k \in 1..Len(entries) : entries[j].row = entries[k].row => j = k
      BY <1>2, <3>2, <3>3, <3>6
    <3>9. \A i \in 1..Len(chatRows) : Knows(told, i) # "none" => \E j \in 1..Len(entries) : entries[j].row = i
      <4>1. \A j \in 1..n : j \in 1..Len(entries)
        BY <3>2
      <4> QED BY <3>2, <3>6, <4>1
    <3> QED BY <3>7, <3>8, <3>9 DEF SaysAll
  <2> QED BY <2>1, <2>2
<1>7. talk' \in Talks /\ talk'.list = entries /\ talk'.used = talk.used /\ talk'.draft = talk.draft /\ talk'.outgoing = 0
  BY <1>0, <1>1, <1>5 DEF Talks
<1>8. message' \in Sendings /\ message'.at = "none"
  BY <1>1 DEF Sendings
<1>9. ChatTyped' /\ RowsFit'
  BY <1>1, <1>7, <1>8 DEF ChatInv, ChatTyped, RowsFit
<1>10. MessageFits'
  BY <1>1, <1>7, <1>8 DEF ChatInv, ChatTyped, MessageFits
<1>11. TextsFit'
  <2>1. \A t : Recorded(t)' <=> Recorded(t)
    BY <1>1 DEF Recorded
  <2>2. Recorded(talk.outgoing)
    BY <1>0 DEF Recorded
  <2> QED BY <1>1, <1>7, <1>8, <2>1, <2>2 DEF ChatInv, TextsFit
<1>12. ListsFit'
  BY <1>1, <1>6, <1>7 DEF ChatInv, ListsFit, UpToDate
<1> QED BY <1>9, <1>10, <1>11, <1>12 DEF ChatInv

\* The text is given back, if there is room.
LEMMA GivingBackKeeps ==
  ASSUME ChatInv, H!Refused \/ H!Lost
  PROVE  ChatInv'
<1>0. talk \in Talks /\ talk.draft \in Nat /\ talk.outgoing \in Nat /\ message \in Sendings
  BY ListingIs DEF ChatInv, ChatTyped
<1>1. /\ talk' = [talk EXCEPT !.outgoing = 0, !.draft = IF talk.draft = 0 THEN talk.outgoing ELSE talk.draft]
      /\ over' = IF talk.draft = 0 THEN over ELSE over \cup {talk.outgoing}
      /\ message' = [at |-> "none", text |-> 0, row |-> 0] /\ message.at # "none"
      /\ UNCHANGED <<chatRows, tokens, told, listing, typed, late, refilled>>
  BY DEF H!Refused, H!Lost, H!GivesBack, H!Overwritten, H!NoRequest
<1>2. cut \subseteq cut' /\ (message.at \notin {"asked", "refused"} => message.text \in cut')
  BY <1>0 DEF H!Refused, H!Lost, Sendings
<1>3. /\ talk' \in Talks /\ talk'.list = talk.list /\ talk'.used = talk.used /\ talk'.outgoing = 0
      /\ talk'.draft = IF talk.draft = 0 THEN talk.outgoing ELSE talk.draft
  BY <1>0, <1>1 DEF Talks
<1>4. message' \in Sendings /\ message'.at = "none"
  BY <1>1 DEF Sendings
<1>5. ChatTyped' /\ RowsFit'
  BY <1>1, <1>3, <1>4 DEF ChatInv, ChatTyped, RowsFit
<1>6. MessageFits'
  BY <1>0, <1>1, <1>3, <1>4 DEF ChatInv, ChatTyped, MessageFits
<1>7. TextsFit'
  <2>1. \A t : Recorded(t)' <=> Recorded(t)
    BY <1>1 DEF Recorded
  <2>2. message.text = talk.outgoing
    BY <1>1 DEF ChatInv, MessageFits
  <2>3. Recorded(talk.outgoing) => talk.outgoing \in cut'
    BY <1>2, <2>2 DEF ChatInv, TextsFit
  <2>4. Recorded(talk.draft) => talk.draft \in cut'
    BY <1>2 DEF ChatInv, TextsFit
  <2>5. Recorded(talk'.draft) => talk'.draft \in cut'
    BY <1>3, <2>3, <2>4
  <2>6. ASSUME NEW t \in 1..typed PROVE t = talk'.draft \/ t = talk'.outgoing \/ t \in over' \/ Recorded(t)
    <3>1. t # 0 /\ (t = talk.draft \/ t = talk.outgoing \/ t \in over \/ Recorded(t))
      BY DEF ChatInv, TextsFit
    <3> QED BY <1>1, <1>3, <3>1
  <2>7. \A i, j \in 1..Len(chatRows) : i # j /\ chatRows[i].text = chatRows[j].text => chatRows[i].text \in cut'
    BY <1>2 DEF ChatInv, TextsFit
  <2> QED BY <1>1, <1>4, <2>1, <2>5, <2>6, <2>7 DEF TextsFit
<1>8. ListsFit'
  BY <1>1, <1>3 DEF ChatInv, ListsFit
<1> QED BY <1>5, <1>6, <1>7, <1>8 DEF ChatInv

LEMMA ChatKeeps == ChatInv /\ [H!Next]_(H!state) => ChatInv'
<1>1. ASSUME ChatInv, UNCHANGED H!state PROVE ChatInv'
  <2>1. UNCHANGED <<chatRows, tokens, told, listing, talk, message, typed, late, over, cut, refilled>>
    BY <1>1 DEF H!state, H!history
  <2> QED BY <1>1, <2>1 DEF ChatInv, ChatTyped, RowsFit, MessageFits, TextsFit, Recorded, ListsFit
<1>2. ASSUME ChatInv, H!Next PROVE ChatInv'
  <2>0. DOMAIN listing = 1..Len(listing)
    BY <1>2 DEF ChatInv, ChatTyped
  <2>1. CASE H!Type \/ H!Send
    BY <1>2, <2>1, PersonKeeps
  <2>2. CASE H!Store
    BY <1>2, <2>2, StoreKeeps
  <2>3. CASE H!Enqueue \/ H!Link \/ \E i \in DOMAIN chatRows : H!Reply(i) \/ H!Move(i)
    BY <1>2, <2>3, ServingKeeps
  <2>4. CASE H!Refill
    BY <1>2, <2>4, RefillKeeps
  <2>5. CASE H!Open
    BY <1>2, <2>5, OpenKeeps
  <2>6. CASE H!Learn
    BY <1>2, <2>6, LearnKeeps
  <2>7. CASE H!Answered
    BY <1>2, <2>7, AnsweredKeeps
  <2>8. CASE H!Refused \/ H!Lost
    BY <1>2, <2>8, GivingBackKeeps
  <2>9. CASE \E l \in DOMAIN listing : H!ReadList(l) \/ H!Loaded(l) \/ H!LoadFails(l)
    <3>1. PICK l \in 1..Len(listing) : H!ReadList(l) \/ H!Loaded(l) \/ H!LoadFails(l)
      BY <2>0, <2>9
    <3> QED BY <1>2, <3>1, ReadingListKeeps, ListLoadedKeeps, LoadFailsKeeps
  <2> QED BY <1>2, <2>1, <2>2, <2>3, <2>4, <2>5, <2>6, <2>7, <2>8, <2>9 DEF H!Next
<1> QED BY <1>1, <1>2

LEMMA ChatShows == ChatInv => H!ConversationIsShown
<1> SUFFICES ASSUME ChatInv, H!Quiet, NEW i \in DOMAIN chatRows, chatRows[i].status # "none"
             PROVE  /\ H!Shown(i)
                    /\ H!Entry(i).status \in {"none", chatRows[i].status}
                    /\ chatRows[i].status \in H!Ended => H!Entry(i).replied = chatRows[i].replied
                    /\ chatRows[i].status \in H!Active /\ ~chatRows[i].replied => H!Pending \/ H!Entry(i).status = "none"
                    /\ (\A r \in DOMAIN chatRows : chatRows[r].status \notin H!Active) => talk.used = tokens \/ refilled
  BY DEF H!ConversationIsShown
<1>0. /\ chatRows \in Seq(ChatRows) /\ DOMAIN chatRows = 1..Len(chatRows) /\ Len(chatRows) \in Nat
      /\ talk.list \in Seq(Entries) /\ DOMAIN talk.list = 1..Len(talk.list)
  BY ListingIs DEF ChatInv, ChatTyped
<1>1. listing = <<>> /\ told = [r \in DOMAIN chatRows |-> chatRows[r].status] /\ ~late
  BY DEF H!Quiet, H!Statuses
<1>2. UpToDate(talk.list, talk.used, chatRows, told, tokens, refilled)
  BY <1>1 DEF ChatInv, ListsFit
<1>3. \A r \in 1..Len(chatRows) : Knows(told, r) = chatRows[r].status
  <2>1. told \in Seq(ChatStatuses) /\ DOMAIN told = 1..Len(chatRows)
    BY <1>0, <1>1 DEF ChatInv, ChatTyped
  <2>2. Len(told) = Len(chatRows)
    BY <1>0, <2>1
  <2> QED BY <1>0, <1>1, <2>2 DEF Knows
<1>4. PICK j \in 1..Len(talk.list) : talk.list[j].row = i
  BY <1>0, <1>2, <1>3 DEF UpToDate, SaysAll
<1>5. H!Shown(i)
  BY <1>0, <1>4 DEF H!Shown
<1>6. H!Entry(i) = talk.list[j]
  <2>1. \A k \in DOMAIN talk.list : talk.list[k].row = i => k = j
    BY <1>0, <1>2, <1>4 DEF UpToDate, SaysAll
  <2>2. j = CHOOSE k \in DOMAIN talk.list : talk.list[k].row = i
    BY <1>0, <1>4, <2>1
  <2> QED BY <2>2 DEF H!Entry
<1>7. talk.list[j] \in Entries /\ Says(talk.list[j], chatRows, told) /\ chatRows[i] \in ChatRows /\ RowFits(chatRows[i], typed)
  BY <1>0, <1>2 DEF UpToDate, SaysAll, ChatInv, RowsFit
<1> DEFINE e == talk.list[j]
<1>8. /\ e.status \in ChatStatuses /\ chatRows[i].status \in ChatStatuses /\ e.replied \in BOOLEAN
      /\ chatRows[i].replied \in BOOLEAN
  BY <1>7 DEF Entries, ChatRows
<1>9. Says(e, chatRows, told) /\ e.row = i /\ Knows(told, i) = chatRows[i].status
  BY <1>0, <1>3, <1>4, <1>7
<1>10. H!Entry(i) = e
  BY <1>6
<1> HIDE DEF e
<1>11. e.status \in {"none", chatRows[i].status}
  BY <1>8, <1>9 DEF Says, Upto, ChatStatuses
<1>12. chatRows[i].status = "ended" => e.replied /\ chatRows[i].replied
  BY <1>7, <1>9 DEF Says, RowFits
<1>13. e.replied => chatRows[i].replied
  BY <1>9 DEF Says
<1>14. chatRows[i].status \in H!Active /\ ~chatRows[i].replied => H!Pending \/ e.status = "none"
  <2> SUFFICES ASSUME chatRows[i].status \in H!Active, ~chatRows[i].replied, e.status = chatRows[i].status PROVE H!Pending
    BY <1>11
  <2>1. j \in DOMAIN talk.list /\ talk.list[j].status \in H!Active /\ ~talk.list[j].replied
    BY <1>0, <1>13 DEF e
  <2> QED BY <2>1 DEF H!Pending
<1>15. (\A r \in DOMAIN chatRows : chatRows[r].status \notin H!Active) => talk.used = tokens \/ refilled
  <2> SUFFICES ASSUME \A r \in DOMAIN chatRows : chatRows[r].status \notin H!Active PROVE talk.used = tokens \/ refilled
    OBVIOUS
  <2>1. ~GoingOn(chatRows)
    BY <1>0 DEF GoingOn, H!Active
  <2>2. talk.used = tokens \/ refilled = TRUE
    BY <1>2, <1>3, <2>1 DEF UpToDate, Counts
  <2> QED BY <2>2
<1>16. chatRows[i].status \in H!Ended => e.replied = chatRows[i].replied
  BY <1>8, <1>12 DEF H!Ended
<1> QED BY <1>5, <1>10, <1>11, <1>14, <1>15, <1>16

LEMMA ChatKeepsText == ChatInv => H!TextIsKept
<1> SUFFICES ASSUME ChatInv PROVE H!TextIsKept
  OBVIOUS
<1>1. DOMAIN chatRows = 1..Len(chatRows)
  BY DEF ChatInv, ChatTyped
<1>2. ASSUME NEW t \in 1..typed
      PROVE  t \in {talk.draft, talk.outgoing} \cup over \cup {chatRows[i].text : i \in DOMAIN chatRows}
  BY <1>1, <1>2 DEF ChatInv, TextsFit, Recorded
<1> QED BY <1>1, <1>2 DEF ChatInv, TextsFit, H!TextIsKept

\* CopilotChat, CopilotService: the chat shows every message whose change was queued, as it stands.
THEOREM ConversationAlwaysShown == H!Spec => []H!ConversationIsShown
<1>1. H!Init => ChatInv
  BY ChatStarts
<1>2. ChatInv /\ [H!Next]_(H!state) => ChatInv'
  BY ChatKeeps
<1>3. ChatInv => H!ConversationIsShown
  BY ChatShows
<1> QED BY <1>1, <1>2, <1>3, PTL DEF H!Spec

\* CopilotChat.send: no text that was typed is lost, and none is recorded twice but after a lost answer.
THEOREM TextAlwaysKept == H!Spec => []H!TextIsKept
<1>1. H!Init => ChatInv
  BY ChatStarts
<1>2. ChatInv /\ [H!Next]_(H!state) => ChatInv'
  BY ChatKeeps
<1>3. ChatInv => H!TextIsKept
  BY ChatKeepsText
<1> QED BY <1>1, <1>2, <1>3, PTL DEF H!Spec

HIDE DEF chatRows, tokens, told, listing, talk, message, chatFaults, typed, late, over, cut, refilled

-----------------------------------------------------------------------------
(* Welcome *)

site == v1
sitePreview == v2
siteDetails == v3
tabs == v4
queries == v5
visits == v6
tabFaults == v7
heard == v8
missed == v9

USE DEF site, sitePreview, siteDetails, tabs, queries, visits, tabFaults, heard, missed

SiteLooks == Looks \cup {FirstLook}
Sites == [status : {"none", "provisioning", "failed", "ready"}, look : SiteLooks]
Steps3 == {"failed", "creating", "stuck", "starting", "personalising", "ready"}
Mounted == [at : {"closed", "start", "onboarding", "dashboard"}, url : BOOLEAN, stage : {"role", "look", "setup"},
            known : BOOLEAN, look : SiteLooks, opened : BOOLEAN,
            shown : Steps3 \cup {"none", "provisioning", "site", "loading", "error"}]
Queries == [tab : Tabs, kind : {"start", "then", "list", "look", "setup", "home", "panel", "create", "retry", "preview", "rebuild"},
            done : BOOLEAN, got : Steps3 \cup {"", "none", "provisioning", "created", "limit", "queued", "conflict"},
            look : SiteLooks]

\* There is a request of this kind of t's among those of qs.
Has(qs, t, kind) == \E c \in qs : c.tab = t /\ c.kind = kind

\* A request belongs to the page p that its tab shows, and its answer is true of the portfolio r for good.
QueryFits(c, p, r) ==
  /\ c.kind \in {"start", "then"} => p.at = "start"
  /\ c.kind \in {"home", "panel"} => p.at = "dashboard"
  /\ c.kind \in {"create", "look", "setup"} => p.at = "onboarding"
  /\ c.kind = "setup" => p.stage = "setup"
  /\ c.kind \in {"look", "setup", "then"} => r.status # "none"
  /\ c.done /\ c.kind \in {"start", "list", "home", "panel"} =>
       /\ c.got \in {"none", "provisioning", "failed", "ready"}
       /\ c.got # "none" => r.status # "none"
       /\ c.got = "ready" => r.status = "ready"
  /\ c.done /\ c.kind \in {"setup", "then"} => c.got \in Steps3
  /\ c.done /\ c.kind = "create" => r.status # "none" /\ c.got \in {"created", "limit"}
  /\ c.done /\ c.kind = "look" => c.look = r.look

\* What a dashboard shows was so once, or is on its way.
DashboardFits(t, p, r, qs, f) ==
  \/ p.shown = "none" /\ Has(qs, t, "home")
  \/ p.shown = "loading" /\ Has(qs, t, "panel")
  \/ p.shown \in {"site", "ready"} /\ r.status = "ready"
  \/ p.shown \in {"provisioning", "failed"} /\ r.status # "none"
  \/ p.shown = "error" /\ f > 0

\* The page p of tab t, with the requests qs: the tabs hs have heard of a portfolio, the tabs ms have missed its theme.
TabFits(t, p, r, qs, hs, ms, f) ==
  /\ p.at = "start" => Has(qs, t, "start") \/ Has(qs, t, "then")
  /\ p.at = "dashboard" => ~p.url /\ DashboardFits(t, p, r, qs, f)
  /\ p.at = "onboarding" /\ p.stage = "setup" =>
       p.known /\ r.status # "none" /\ (p.look = r.look \/ t \in ms \/ Has(qs, t, "look"))
  /\ p.at = "onboarding" /\ p.stage # "setup" /\ t \in hs => p.url

WelcomeTyped ==
  /\ site \in Sites /\ tabs \in [Tabs -> Mounted] /\ queries \subseteq Queries /\ tabFaults \in Nat

WelcomeInv ==
  /\ WelcomeTyped
  /\ \A c \in queries : QueryFits(c, tabs[c.tab], site)
  /\ \A t \in Tabs : TabFits(t, tabs[t], site, queries, heard, missed, tabFaults)

LEMMA WelcomeStarts == O!Init => WelcomeInv
<1> SUFFICES ASSUME O!Init PROVE WelcomeInv
  OBVIOUS
<1> DEFINE p == [at |-> "closed", url |-> FALSE, stage |-> "role", known |-> FALSE, look |-> FirstLook, opened |-> FALSE,
                 shown |-> "none"]
<1>1. p \in Mounted /\ p.at = "closed"
  BY DEF Mounted, SiteLooks
<1>2. tabs = [t \in Tabs |-> p] /\ queries = {} /\ tabFaults = 0 /\ site = [status |-> "none", look |-> FirstLook]
  BY DEF O!Init, O!Page
<1> HIDE DEF p
<1>3. site \in Sites
  BY <1>2 DEF Sites, SiteLooks
<1>4. WelcomeTyped
  BY <1>1, <1>2, <1>3 DEF WelcomeTyped
<1>5. \A t \in Tabs : tabs[t] = p
  BY <1>2
<1> QED BY <1>1, <1>2, <1>4, <1>5 DEF WelcomeInv, TabFits

\* A portfolio r becomes s.
Onward(r, s) ==
  /\ r.status # "none" => s.status # "none" /\ s.look = r.look
  /\ r.status = "ready" => s.status = "ready"

LEMMA QueryStays ==
  ASSUME NEW c \in Queries, NEW p, NEW q, NEW r, NEW s, QueryFits(c, p, r), Onward(r, s), q.at = p.at,
         p.stage = "setup" => q.stage = "setup"
  PROVE  QueryFits(c, q, s)
<1>1. /\ c.kind \in {"start", "then"} => q.at = "start"
      /\ c.kind \in {"home", "panel"} => q.at = "dashboard"
      /\ c.kind \in {"create", "look", "setup"} => q.at = "onboarding"
      /\ c.kind = "setup" => q.stage = "setup"
      /\ c.kind \in {"look", "setup", "then"} => s.status # "none"
  BY DEF QueryFits, Onward
<1>2. c.done /\ c.kind \in {"start", "list", "home", "panel"} =>
       /\ c.got \in {"none", "provisioning", "failed", "ready"}
       /\ c.got # "none" => s.status # "none"
       /\ c.got = "ready" => s.status = "ready"
  BY DEF QueryFits, Onward
<1>3. /\ c.done /\ c.kind \in {"setup", "then"} => c.got \in Steps3
      /\ c.done /\ c.kind = "create" => s.status # "none" /\ c.got \in {"created", "limit"}
      /\ c.done /\ c.kind = "look" => c.look = s.look
  BY DEF QueryFits, Onward
<1> QED BY <1>1, <1>2, <1>3 DEF QueryFits

LEMMA TabStays ==
  ASSUME NEW t, NEW p, NEW r, NEW s, NEW qs, NEW ds, NEW hs, NEW gs, NEW ms, NEW ns, NEW f \in Nat, NEW g \in Nat,
         TabFits(t, p, r, qs, hs, ms, f), Onward(r, s), f <= g,
         \A kind : Has(qs, t, kind) => Has(ds, t, kind), t \in gs <=> t \in hs, t \in ms => t \in ns
  PROVE  TabFits(t, p, s, ds, gs, ns, g)
<1>1. DashboardFits(t, p, r, qs, f) => DashboardFits(t, p, s, ds, g)
  BY DEF DashboardFits, Onward
<1>2. /\ p.at = "start" => Has(ds, t, "start") \/ Has(ds, t, "then")
      /\ p.at = "dashboard" => ~p.url /\ DashboardFits(t, p, s, ds, g)
      /\ p.at = "onboarding" /\ p.stage # "setup" /\ t \in gs => p.url
  BY <1>1 DEF TabFits
<1>3. p.at = "onboarding" /\ p.stage = "setup" =>
       p.known /\ s.status # "none" /\ (p.look = s.look \/ t \in ns \/ Has(ds, t, "look"))
  BY DEF TabFits, Onward
<1> QED BY <1>2, <1>3 DEF TabFits

\* The portfolio moves on, and no tab knows.
LEMMA SiteMoves ==
  ASSUME WelcomeInv, site' \in Sites, Onward(site, site'), tabFaults' \in Nat, tabFaults <= tabFaults',
         UNCHANGED <<tabs, queries, heard, missed>>
  PROVE  WelcomeInv'
<1>1. WelcomeTyped'
  BY DEF WelcomeInv, WelcomeTyped
<1>2. \A c \in queries : QueryFits(c, tabs[c.tab], site')
  BY QueryStays DEF WelcomeInv, WelcomeTyped
<1>3. \A t \in Tabs : TabFits(t, tabs[t], site', queries, heard, missed, tabFaults')
  BY TabStays DEF WelcomeInv, WelcomeTyped
<1> QED BY <1>1, <1>2, <1>3 DEF WelcomeInv

\* A step of one tab t, whose page is p then, and of the portfolio at most.
LEMMA OneTab ==
  ASSUME WelcomeInv, NEW t \in Tabs, NEW p \in Mounted, tabs' = [tabs EXCEPT ![t] = p],
         site' \in Sites, Onward(site, site'), tabFaults' \in Nat, tabFaults <= tabFaults', queries' \subseteq Queries,
         \A c \in Queries : c.tab # t => (c \in queries' <=> c \in queries),
         \A c \in queries' : c.tab = t => QueryFits(c, p, site'),
         \A u \in Tabs : u # t => (u \in heard' <=> u \in heard) /\ (u \in missed' <=> u \in missed),
         TabFits(t, p, site', queries', heard', missed', tabFaults')
  PROVE  WelcomeInv'
<1>1. tabs' \in [Tabs -> Mounted] /\ tabs'[t] = p /\ \A u \in Tabs : u # t => tabs'[u] = tabs[u]
  BY DEF WelcomeInv, WelcomeTyped
<1>2. WelcomeTyped'
  BY <1>1 DEF WelcomeTyped
<1>3. ASSUME NEW c \in queries' PROVE QueryFits(c, tabs'[c.tab], site')
  <2>1. c \in Queries /\ c.tab \in Tabs
    BY DEF Queries
  <2>2. CASE c.tab = t
    BY <1>1, <2>2
  <2>3. CASE c.tab # t
    <3>1. QueryFits(c, tabs[c.tab], site) /\ tabs'[c.tab] = tabs[c.tab]
      BY <1>1, <2>1, <2>3 DEF WelcomeInv
    <3> QED BY <2>1, <3>1, QueryStays
  <2> QED BY <2>2, <2>3
<1>4. ASSUME NEW u \in Tabs PROVE TabFits(u, tabs'[u], site', queries', heard', missed', tabFaults')
  <2>1. CASE u = t
    BY <1>1, <2>1
  <2>2. CASE u # t
    <3>1. TabFits(u, tabs[u], site, queries, heard, missed, tabFaults) /\ tabs'[u] = tabs[u] /\ tabFaults \in Nat
      BY <1>1, <2>2 DEF WelcomeInv, WelcomeTyped
    <3>2. \A kind : Has(queries, u, kind) => Has(queries', u, kind)
      BY <2>2 DEF Has, WelcomeInv, WelcomeTyped
    <3> QED BY <2>2, <3>1, <3>2, TabStays
  <2> QED BY <2>1, <2>2
<1> QED BY <1>2, <1>3, <1>4 DEF WelcomeInv

-----------------------------------------------------------------------------
(* The pages that are mounted, and what they ask for. *)

Asked == {"start", "then", "list", "look", "setup", "home", "panel", "create", "retry", "preview", "rebuild"}

\* A request as it is made.
LEMMA FreshCall ==
  ASSUME NEW t \in Tabs, NEW kind \in Asked
  PROVE  O!Call(t, kind) \in Queries /\ O!Call(t, kind).tab = t /\ O!Call(t, kind).kind = kind /\ ~O!Call(t, kind).done
<1>1. FirstLook \in SiteLooks /\ FALSE \in BOOLEAN /\ "" \in Steps3 \cup {"", "none", "provisioning", "created", "limit", "queued", "conflict"}
  BY DEF SiteLooks
<1> QED BY <1>1 DEF O!Call, Queries, Asked

LEMMA NewQueryFits ==
  ASSUME NEW t \in Tabs, NEW kind \in Asked, NEW p, NEW r,
         kind \in {"start", "then"} => p.at = "start",
         kind \in {"home", "panel"} => p.at = "dashboard",
         kind \in {"create", "look", "setup"} => p.at = "onboarding",
         kind = "setup" => p.stage = "setup",
         kind \in {"look", "setup", "then"} => r.status # "none"
  PROVE  QueryFits(O!Call(t, kind), p, r)
<1>1. O!Call(t, kind).kind = kind /\ ~O!Call(t, kind).done
  BY FreshCall
<1> QED BY <1>1 DEF QueryFits

\* The list of portfolios is read for whatever page is shown then.
LEMMA ListFits ==
  ASSUME NEW c, NEW p, NEW q, NEW r, QueryFits(c, p, r), c.kind = "list"
  PROVE  QueryFits(c, q, r)
BY DEF QueryFits

LEMMA OnwardSame == ASSUME NEW r PROVE Onward(r, r)
BY DEF Onward

\* A page is mounted, and asks c; of what its tab asked before, only the list of portfolios is still heard.
LEMMA NewPage ==
  ASSUME WelcomeInv, NEW t \in Tabs, NEW p \in Mounted, NEW c \in Queries, c.tab = t, QueryFits(c, p, site),
         tabs' = [tabs EXCEPT ![t] = p], site' = site, tabFaults' \in Nat, tabFaults <= tabFaults', c \in queries',
         \A d \in queries' : d = c \/ (d \in queries /\ (d.tab = t => d.kind = "list")),
         \A d \in queries : d.tab # t => d \in queries',
         \A u \in Tabs : u # t => (u \in heard' <=> u \in heard) /\ (u \in missed' <=> u \in missed),
         TabFits(t, p, site, queries', heard', missed', tabFaults')
  PROVE  WelcomeInv'
<1>1. site' \in Sites /\ Onward(site, site') /\ queries' \subseteq Queries
  BY OnwardSame DEF WelcomeInv, WelcomeTyped
<1>2. \A d \in Queries : d.tab # t => (d \in queries' <=> d \in queries)
  OBVIOUS
<1>3. ASSUME NEW d \in queries', d.tab = t PROVE QueryFits(d, p, site')
  <2>1. CASE d = c
    BY <2>1
  <2>2. CASE d # c
    <3>1. QueryFits(d, tabs[d.tab], site) /\ d.kind = "list"
      BY <1>3, <2>2 DEF WelcomeInv
    <3> QED BY <3>1, ListFits
  <2> QED BY <2>1, <2>2
<1>4. TabFits(t, p, site', queries', heard', missed', tabFaults')
  OBVIOUS
<1> QED BY <1>1, <1>2, <1>3, <1>4, OneTab

\* The four pages.
LEMMA SetupPage ==
  ASSUME NEW t \in Tabs, NEW r, r.status # "none", NEW qs, O!Call(t, "look") \in qs, NEW hs, NEW ms, NEW f
  PROVE  /\ O!Page("onboarding", TRUE) \in Mounted /\ O!First(t, "onboarding", TRUE) = {O!Call(t, "look")}
         /\ O!Call(t, "look") \in Queries /\ O!Call(t, "look").tab = t
         /\ QueryFits(O!Call(t, "look"), O!Page("onboarding", TRUE), r)
         /\ TabFits(t, O!Page("onboarding", TRUE), r, qs, hs, ms, f)
<1> DEFINE p == O!Page("onboarding", TRUE)
<1>1. p \in Mounted /\ p.at = "onboarding" /\ p.stage = "setup" /\ p.known
  BY DEF O!Page, Mounted, SiteLooks
<1>2. "look" \in Asked
  BY DEF Asked
<1>3. O!First(t, "onboarding", TRUE) = {O!Call(t, "look")}
  BY DEF O!First
<1>4. O!Call(t, "look") \in Queries /\ O!Call(t, "look").tab = t /\ O!Call(t, "look").kind = "look"
  BY <1>2, FreshCall
<1> HIDE DEF p
<1>5. QueryFits(O!Call(t, "look"), p, r)
  BY <1>1, <1>2, NewQueryFits
<1>6. TabFits(t, p, r, qs, hs, ms, f)
  BY <1>1, <1>4 DEF TabFits, Has
<1> QED BY <1>1, <1>3, <1>4, <1>5, <1>6 DEF p

LEMMA RolesPage ==
  ASSUME NEW t \in Tabs, NEW r, NEW qs, NEW hs, t \notin hs, NEW ms, NEW f
  PROVE  /\ O!Page("onboarding", FALSE) \in Mounted /\ O!First(t, "onboarding", FALSE) = {O!Call(t, "list")}
         /\ O!Call(t, "list") \in Queries /\ O!Call(t, "list").tab = t
         /\ QueryFits(O!Call(t, "list"), O!Page("onboarding", FALSE), r)
         /\ TabFits(t, O!Page("onboarding", FALSE), r, qs, hs, ms, f)
<1> DEFINE p == O!Page("onboarding", FALSE)
<1>1. p \in Mounted /\ p.at = "onboarding" /\ p.stage = "role"
  BY DEF O!Page, Mounted, SiteLooks
<1>2. "list" \in Asked
  BY DEF Asked
<1>3. O!First(t, "onboarding", FALSE) = {O!Call(t, "list")}
  BY DEF O!First
<1>4. O!Call(t, "list") \in Queries /\ O!Call(t, "list").tab = t
  BY <1>2, FreshCall
<1> HIDE DEF p
<1>5. QueryFits(O!Call(t, "list"), p, r)
  BY <1>1, <1>2, NewQueryFits
<1>6. TabFits(t, p, r, qs, hs, ms, f)
  BY <1>1 DEF TabFits
<1> QED BY <1>1, <1>3, <1>4, <1>5, <1>6 DEF p

LEMMA DashboardPage ==
  ASSUME NEW t \in Tabs, NEW r, NEW qs, O!Call(t, "home") \in qs, NEW hs, NEW ms, NEW f
  PROVE  /\ O!Page("dashboard", FALSE) \in Mounted /\ O!First(t, "dashboard", FALSE) = {O!Call(t, "home")}
         /\ O!Call(t, "home") \in Queries /\ O!Call(t, "home").tab = t
         /\ QueryFits(O!Call(t, "home"), O!Page("dashboard", FALSE), r)
         /\ TabFits(t, O!Page("dashboard", FALSE), r, qs, hs, ms, f)
<1> DEFINE p == O!Page("dashboard", FALSE)
<1>1. p \in Mounted /\ p.at = "dashboard" /\ ~p.url /\ p.shown = "none"
  BY DEF O!Page, Mounted, SiteLooks
<1>2. "home" \in Asked
  BY DEF Asked
<1>3. O!First(t, "dashboard", FALSE) = {O!Call(t, "home")}
  BY DEF O!First
<1>4. O!Call(t, "home") \in Queries /\ O!Call(t, "home").tab = t /\ O!Call(t, "home").kind = "home"
  BY <1>2, FreshCall
<1> HIDE DEF p
<1>5. QueryFits(O!Call(t, "home"), p, r)
  BY <1>1, <1>2, NewQueryFits
<1>6. TabFits(t, p, r, qs, hs, ms, f)
  BY <1>1, <1>4 DEF TabFits, DashboardFits, Has
<1> QED BY <1>1, <1>3, <1>4, <1>5, <1>6 DEF p

LEMMA StartPage ==
  ASSUME NEW t \in Tabs, NEW r, NEW qs, O!Call(t, "start") \in qs, NEW hs, NEW ms, NEW f
  PROVE  /\ O!Page("start", FALSE) \in Mounted /\ O!First(t, "start", FALSE) = {O!Call(t, "start")}
         /\ O!Call(t, "start") \in Queries /\ O!Call(t, "start").tab = t
         /\ QueryFits(O!Call(t, "start"), O!Page("start", FALSE), r)
         /\ TabFits(t, O!Page("start", FALSE), r, qs, hs, ms, f)
<1> DEFINE p == O!Page("start", FALSE)
<1>1. p \in Mounted /\ p.at = "start"
  BY DEF O!Page, Mounted, SiteLooks
<1>2. "start" \in Asked
  BY DEF Asked
<1>3. O!First(t, "start", FALSE) = {O!Call(t, "start")}
  BY DEF O!First
<1>4. O!Call(t, "start") \in Queries /\ O!Call(t, "start").tab = t /\ O!Call(t, "start").kind = "start"
  BY <1>2, FreshCall
<1> HIDE DEF p
<1>5. QueryFits(O!Call(t, "start"), p, r)
  BY <1>1, <1>2, NewQueryFits
<1>6. TabFits(t, p, r, qs, hs, ms, f)
  BY <1>1, <1>4 DEF TabFits, Has
<1> QED BY <1>1, <1>3, <1>4, <1>5, <1>6 DEF p

-----------------------------------------------------------------------------
(* Navigation: rest are the requests of before without one of t's. *)

LEMMA LeadsToSetup ==
  ASSUME WelcomeInv, NEW t \in Tabs, NEW rest \in SUBSET queries, \A d \in queries : d \notin rest => d.tab = t,
         tabs[t].at = "onboarding" => \A d \in queries : d \notin rest => d.kind = "list",
         site.status # "none", O!Leads(t, "onboarding", TRUE, rest), site' = site, tabFaults' \in Nat, tabFaults <= tabFaults'
  PROVE  WelcomeInv'
<1> DEFINE new == O!Call(t, "look")
<1> DEFINE q == O!Page("onboarding", TRUE)
<1>1. CASE tabs[t].at # "onboarding"
  <2>1. /\ tabs' = [tabs EXCEPT ![t] = q]
        /\ queries' = {d \in rest : d.tab = t => d.kind = "list"} \cup {new}
        /\ heard' = heard \cup {t} /\ missed' = missed \ {t}
    BY <1>1, SetupPage DEF O!Leads
  <2>2. /\ q \in Mounted /\ new \in Queries /\ new.tab = t /\ QueryFits(new, q, site)
        /\ TabFits(t, q, site, queries', heard', missed', tabFaults')
    BY <2>1, SetupPage
  <2> HIDE DEF new, q
  <2>3. new \in queries' /\ \A d \in queries' : d = new \/ (d \in queries /\ (d.tab = t => d.kind = "list"))
    BY <2>1
  <2>4. \A d \in queries : d.tab # t => d \in queries'
    BY <2>1
  <2>5. \A u \in Tabs : u # t => (u \in heard' <=> u \in heard) /\ (u \in missed' <=> u \in missed)
    BY <2>1
  <2> QED BY <2>1, <2>2, <2>3, <2>4, <2>5, NewPage
<1>2. CASE tabs[t].at = "onboarding"
  <2> DEFINE p == [tabs[t] EXCEPT !.url = TRUE]
  <2>1. /\ tabs' = [tabs EXCEPT ![t] = p] /\ heard' = heard \cup {t} /\ missed' = missed
        /\ rest \subseteq queries' /\ queries' \subseteq rest \cup {new}
    BY <1>2, SetupPage DEF O!Leads
  <2>2. tabs[t] \in Mounted /\ TabFits(t, tabs[t], site, queries, heard, missed, tabFaults)
    BY DEF WelcomeInv, WelcomeTyped
  <2>3. /\ p \in Mounted /\ p.at = "onboarding" /\ p.url /\ p.stage = tabs[t].stage /\ p.look = tabs[t].look
        /\ p.known = tabs[t].known
    BY <1>2, <2>2 DEF Mounted
  <2> HIDE DEF p
  <2>4. new \in Queries /\ new.tab = t /\ QueryFits(new, p, site)
    <3>1. "look" \in Asked
      BY DEF Asked
    <3> QED BY <2>3, <3>1, FreshCall, NewQueryFits
  <2> HIDE DEF new
  <2>5. /\ queries' \subseteq Queries /\ Onward(site, site') /\ site' \in Sites
        /\ \A d \in Queries : d.tab # t => (d \in queries' <=> d \in queries)
        /\ \A u \in Tabs : u # t => (u \in heard' <=> u \in heard) /\ (u \in missed' <=> u \in missed)
    BY <2>1, <2>4, OnwardSame DEF WelcomeInv, WelcomeTyped
  <2>6. ASSUME NEW d \in queries', d.tab = t PROVE QueryFits(d, p, site')
    <3>1. CASE d = new
      BY <2>4, <3>1
    <3>2. CASE d # new
      <4>1. d \in Queries /\ QueryFits(d, tabs[t], site) /\ p.at = tabs[t].at
        BY <1>2, <2>1, <2>3, <2>6, <3>2 DEF WelcomeInv, WelcomeTyped
      <4> QED BY <2>3, <2>5, <4>1, QueryStays
    <3> QED BY <3>1, <3>2
  <2>7. TabFits(t, p, site', queries', heard', missed', tabFaults')
    <3>1. Has(queries, t, "look") => Has(queries', t, "look")
      BY <1>2, <2>1 DEF Has
    <3> QED BY <1>2, <2>1, <2>2, <2>3, <3>1 DEF TabFits
  <2> QED BY <2>1, <2>3, <2>5, <2>6, <2>7, OneTab
<1> QED BY <1>1, <1>2

LEMMA LeadsToRoles ==
  ASSUME WelcomeInv, NEW t \in Tabs, NEW rest \in SUBSET queries, \A d \in queries : d \notin rest => d.tab = t,
         tabs[t].at # "onboarding", O!Leads(t, "onboarding", FALSE, rest),
         site' = site, tabFaults' \in Nat, tabFaults <= tabFaults'
  PROVE  WelcomeInv'
<1> DEFINE new == O!Call(t, "list")
<1> DEFINE q == O!Page("onboarding", FALSE)
<1>1. /\ tabs' = [tabs EXCEPT ![t] = q]
      /\ queries' = {d \in rest : d.tab = t => d.kind = "list"} \cup {new}
      /\ heard' = heard \ {t} /\ missed' = missed \ {t}
  BY RolesPage DEF O!Leads
<1>2. t \notin heard'
  BY <1>1
<1>3. /\ q \in Mounted /\ new \in Queries /\ new.tab = t /\ QueryFits(new, q, site)
      /\ TabFits(t, q, site, queries', heard', missed', tabFaults')
  BY <1>1, <1>2, RolesPage
<1> HIDE DEF new, q
<1>4. new \in queries' /\ \A d \in queries' : d = new \/ (d \in queries /\ (d.tab = t => d.kind = "list"))
  BY <1>1
<1>5. \A d \in queries : d.tab # t => d \in queries'
  BY <1>1
<1>6. \A u \in Tabs : u # t => (u \in heard' <=> u \in heard) /\ (u \in missed' <=> u \in missed)
  BY <1>1
<1> QED BY <1>1, <1>3, <1>4, <1>5, <1>6, NewPage

LEMMA LeadsToDashboard ==
  ASSUME WelcomeInv, NEW t \in Tabs, NEW rest \in SUBSET queries, \A d \in queries : d \notin rest => d.tab = t,
         tabs[t].at = "dashboard" => \A d \in queries : d \notin rest => d.kind = "list",
         O!Leads(t, "dashboard", FALSE, rest), site' = site, tabFaults' \in Nat, tabFaults <= tabFaults'
  PROVE  WelcomeInv'
<1> DEFINE new == O!Call(t, "home")
<1> DEFINE q == O!Page("dashboard", FALSE)
<1>1. CASE tabs[t].at # "dashboard"
  <2>1. /\ tabs' = [tabs EXCEPT ![t] = q]
        /\ queries' = {d \in rest : d.tab = t => d.kind = "list"} \cup {new}
        /\ heard' = heard \ {t} /\ missed' = missed \ {t}
    BY <1>1, DashboardPage DEF O!Leads
  <2>2. /\ q \in Mounted /\ new \in Queries /\ new.tab = t /\ QueryFits(new, q, site)
        /\ TabFits(t, q, site, queries', heard', missed', tabFaults')
    BY <2>1, DashboardPage
  <2> HIDE DEF new, q
  <2>3. new \in queries' /\ \A d \in queries' : d = new \/ (d \in queries /\ (d.tab = t => d.kind = "list"))
    BY <2>1
  <2>4. \A d \in queries : d.tab # t => d \in queries'
    BY <2>1
  <2>5. \A u \in Tabs : u # t => (u \in heard' <=> u \in heard) /\ (u \in missed' <=> u \in missed)
    BY <2>1
  <2> QED BY <2>1, <2>2, <2>3, <2>4, <2>5, NewPage
<1>2. CASE tabs[t].at = "dashboard"
  <2>1. tabs[t] \in Mounted /\ TabFits(t, tabs[t], site, queries, heard, missed, tabFaults)
    BY DEF WelcomeInv, WelcomeTyped
  <2>2. tabs[t].url = FALSE
    BY <1>2, <2>1 DEF TabFits, Mounted
  <2>3. tabs' = [tabs EXCEPT ![t].url = FALSE] /\ queries' = rest /\ heard' = heard /\ missed' = missed
    BY <1>2, <2>2 DEF O!Leads
  <2>4. [tabs[t] EXCEPT !.url = FALSE] = tabs[t]
    BY <2>1, <2>2 DEF Mounted
  <2>5. tabs' = [tabs EXCEPT ![t] = tabs[t]]
    BY <2>3, <2>4
  <2>6. /\ queries' \subseteq Queries /\ Onward(site, site') /\ site' \in Sites
        /\ \A d \in Queries : d.tab # t => (d \in queries' <=> d \in queries)
    BY <2>3, OnwardSame DEF WelcomeInv, WelcomeTyped
  <2>7. \A d \in queries' : d.tab = t => QueryFits(d, tabs[t], site')
    BY <2>3 DEF WelcomeInv
  <2>8. TabFits(t, tabs[t], site', queries', heard', missed', tabFaults')
    <3>1. /\ Has(queries, t, "home") => Has(queries', t, "home")
          /\ Has(queries, t, "panel") => Has(queries', t, "panel")
      BY <1>2, <2>3 DEF Has
    <3> QED BY <1>2, <2>1, <2>3, <3>1 DEF TabFits, DashboardFits, WelcomeInv, WelcomeTyped
  <2> QED BY <2>1, <2>3, <2>5, <2>6, <2>7, <2>8, OneTab
<1> QED BY <1>1, <1>2

LEMMA VisitKeeps ==
  ASSUME WelcomeInv, NEW t \in Tabs, NEW at \in {"start", "onboarding", "dashboard"}, O!Visit(t, at)
  PROVE  WelcomeInv'
<1>1. /\ tabs' = [tabs EXCEPT ![t] = O!Page(at, FALSE)] /\ site' = site /\ tabFaults' = tabFaults
      /\ queries' = {d \in queries : d.tab # t} \cup O!First(t, at, FALSE)
      /\ heard' = heard \ {t} /\ missed' = missed \ {t}
  BY DEF O!Visit, O!server
<1>2. tabFaults' \in Nat /\ tabFaults <= tabFaults'
  BY <1>1 DEF WelcomeInv, WelcomeTyped
<1>3. PICK c : /\ O!First(t, at, FALSE) = {c} /\ c \in Queries /\ c.tab = t /\ QueryFits(c, O!Page(at, FALSE), site)
               /\ O!Page(at, FALSE) \in Mounted
               /\ TabFits(t, O!Page(at, FALSE), site, queries', heard', missed', tabFaults')
  <2>1. CASE at = "start"
    BY <1>1, <2>1, StartPage
  <2>2. CASE at = "onboarding"
    <3>1. t \notin heard'
      BY <1>1
    <3> QED BY <1>1, <2>2, <3>1, RolesPage
  <2>3. CASE at = "dashboard"
    BY <1>1, <2>3, DashboardPage
  <2> QED BY <2>1, <2>2, <2>3
<1>4. c \in queries' /\ \A d \in queries' : d = c \/ (d \in queries /\ (d.tab = t => d.kind = "list"))
  BY <1>1, <1>3
<1>5. \A d \in queries : d.tab # t => d \in queries'
  BY <1>1
<1>6. \A u \in Tabs : u # t => (u \in heard' <=> u \in heard) /\ (u \in missed' <=> u \in missed)
  BY <1>1
<1> QED BY <1>1, <1>2, <1>3, <1>4, <1>5, <1>6, NewPage

-----------------------------------------------------------------------------
(* Answers and requests that leave the page where it is. *)

LEMMA QueryIs ==
  ASSUME WelcomeInv, NEW c \in queries
  PROVE  /\ c \in Queries /\ c.tab \in Tabs /\ QueryFits(c, tabs[c.tab], site) /\ tabs[c.tab] \in Mounted
         /\ TabFits(c.tab, tabs[c.tab], site, queries, heard, missed, tabFaults) /\ site \in Sites /\ tabFaults \in Nat
<1>1. c \in Queries
  BY DEF WelcomeInv, WelcomeTyped
<1>2. c.tab \in Tabs
  BY <1>1 DEF Queries
<1> QED BY <1>1, <1>2 DEF WelcomeInv, WelcomeTyped

\* c has its answer, d.
LEMMA QueryAnswered ==
  ASSUME WelcomeInv, NEW c \in queries, NEW d \in Queries, d.tab = c.tab, d.kind = c.kind,
         QueryFits(d, tabs[c.tab], site'), site' \in Sites, Onward(site, site'), queries' = (queries \ {c}) \cup {d},
         UNCHANGED <<tabs, tabFaults, heard, missed>>
  PROVE  WelcomeInv'
<1>1. /\ c \in Queries /\ c.tab \in Tabs /\ tabs[c.tab] \in Mounted /\ tabFaults' \in Nat /\ tabFaults <= tabFaults'
      /\ TabFits(c.tab, tabs[c.tab], site, queries, heard, missed, tabFaults)
  BY QueryIs
<1>2. tabs' = [tabs EXCEPT ![c.tab] = tabs[c.tab]] /\ queries' \subseteq Queries
  BY DEF WelcomeInv, WelcomeTyped
<1>3. \A e \in Queries : e.tab # c.tab => (e \in queries' <=> e \in queries)
  OBVIOUS
<1>4. ASSUME NEW e \in queries', e.tab = c.tab PROVE QueryFits(e, tabs[c.tab], site')
  <2>1. CASE e = d
    BY <2>1
  <2>2. CASE e # d
    <3>1. e \in queries /\ e \in Queries /\ QueryFits(e, tabs[c.tab], site)
      BY <1>2, <1>4, <2>2 DEF WelcomeInv
    <3> QED BY <3>1, QueryStays
  <2> QED BY <2>1, <2>2
<1>5. \A kind : Has(queries, c.tab, kind) => Has(queries', c.tab, kind)
  BY DEF Has
<1>6. TabFits(c.tab, tabs[c.tab], site', queries', heard', missed', tabFaults')
  BY <1>1, <1>5, TabStays
<1> QED BY <1>1, <1>2, <1>3, <1>4, <1>6, OneTab

\* t asks d.
LEMMA Asks ==
  ASSUME WelcomeInv, NEW t \in Tabs, NEW d \in Queries, d.tab = t, QueryFits(d, tabs[t], site), queries' = queries \cup {d},
         UNCHANGED <<site, tabs, tabFaults, heard, missed>>
  PROVE  WelcomeInv'
<1>1. /\ tabs[t] \in Mounted /\ tabFaults' \in Nat /\ tabFaults <= tabFaults' /\ site' \in Sites /\ Onward(site, site')
      /\ TabFits(t, tabs[t], site, queries, heard, missed, tabFaults)
  BY OnwardSame DEF WelcomeInv, WelcomeTyped
<1>2. tabs' = [tabs EXCEPT ![t] = tabs[t]] /\ queries' \subseteq Queries
  BY DEF WelcomeInv, WelcomeTyped
<1>3. \A e \in Queries : e.tab # t => (e \in queries' <=> e \in queries)
  OBVIOUS
<1>4. \A e \in queries' : e.tab = t => QueryFits(e, tabs[t], site')
  BY DEF WelcomeInv
<1>5. \A kind : Has(queries, t, kind) => Has(queries', t, kind)
  BY DEF Has
<1>6. TabFits(t, tabs[t], site', queries', heard', missed', tabFaults')
  BY <1>1, <1>5, TabStays
<1> QED BY <1>1, <1>2, <1>3, <1>4, <1>6, OneTab

\* The answer to c, or its loss, makes of c's page p, that asks ds.
LEMMA Edits ==
  ASSUME WelcomeInv, NEW c \in queries, NEW p \in Mounted, p.at = tabs[c.tab].at,
         tabs[c.tab].stage = "setup" => p.stage = "setup", NEW ds \in SUBSET Queries,
         \A d \in ds : d.tab = c.tab /\ QueryFits(d, p, site), tabs' = [tabs EXCEPT ![c.tab] = p],
         queries' = (queries \ {c}) \cup ds, site' = site, tabFaults' \in Nat, tabFaults <= tabFaults',
         \A u \in Tabs : u # c.tab => (u \in heard' <=> u \in heard) /\ (u \in missed' <=> u \in missed),
         TabFits(c.tab, p, site, queries', heard', missed', tabFaults')
  PROVE  WelcomeInv'
<1>1. c.tab \in Tabs /\ site' \in Sites /\ Onward(site, site')
  BY QueryIs, OnwardSame
<1>2. queries' \subseteq Queries
  BY DEF WelcomeInv, WelcomeTyped
<1>3. \A e \in Queries : e.tab # c.tab => (e \in queries' <=> e \in queries)
  OBVIOUS
<1>4. ASSUME NEW e \in queries', e.tab = c.tab PROVE QueryFits(e, p, site')
  <2>1. CASE e \in ds
    BY <2>1
  <2>2. CASE e \notin ds
    <3>1. e \in queries /\ e \in Queries /\ QueryFits(e, tabs[c.tab], site)
      BY <1>2, <1>4, <2>2 DEF WelcomeInv
    <3> QED BY <1>1, <3>1, QueryStays
  <2> QED BY <2>1, <2>2
<1>5. TabFits(c.tab, p, site', queries', heard', missed', tabFaults')
  OBVIOUS
<1> QED BY <1>1, <1>2, <1>3, <1>4, <1>5, OneTab

\* c has gone, which the page does not wait for.
LEMMA Drops ==
  ASSUME WelcomeInv, NEW c \in queries, c.kind \notin {"start", "then", "look", "home", "panel"}, NEW ds \in SUBSET Queries,
         \A d \in ds : d.tab = c.tab /\ QueryFits(d, tabs[c.tab], site), queries' = (queries \ {c}) \cup ds,
         site' = site, tabFaults' \in Nat, tabFaults <= tabFaults', UNCHANGED <<tabs, heard, missed>>
  PROVE  WelcomeInv'
<1>1. /\ tabs[c.tab] \in Mounted /\ TabFits(c.tab, tabs[c.tab], site, queries, heard, missed, tabFaults)
      /\ tabFaults \in Nat /\ Onward(site, site)
  BY QueryIs, OnwardSame
<1>2. tabs' = [tabs EXCEPT ![c.tab] = tabs[c.tab]]
  BY DEF WelcomeInv, WelcomeTyped
<1>3. /\ Has(queries, c.tab, "start") => Has(queries', c.tab, "start")
      /\ Has(queries, c.tab, "then") => Has(queries', c.tab, "then")
      /\ Has(queries, c.tab, "look") => Has(queries', c.tab, "look")
      /\ Has(queries, c.tab, "home") => Has(queries', c.tab, "home")
      /\ Has(queries, c.tab, "panel") => Has(queries', c.tab, "panel")
  BY DEF Has
<1>4. TabFits(c.tab, tabs[c.tab], site, queries', heard', missed', tabFaults')
  BY <1>1, <1>3 DEF TabFits, DashboardFits
<1>5. \A u \in Tabs : u # c.tab => (u \in heard' <=> u \in heard) /\ (u \in missed' <=> u \in missed)
  OBVIOUS
<1> QED BY <1>1, <1>2, <1>4, <1>5, Edits

-----------------------------------------------------------------------------
(* The server's steps. *)

LEMMA ElsewhereKeeps == ASSUME WelcomeInv, O!Elsewhere PROVE WelcomeInv'
<1>1. site \in Sites /\ UNCHANGED <<tabs, queries, heard, missed, tabFaults>> /\ tabFaults \in Nat
  BY DEF WelcomeInv, WelcomeTyped, O!Elsewhere, O!history
<1>2. CASE site.status = "none" /\ \E look \in Looks : site' = [status |-> "provisioning", look |-> look]
  <2>1. site' \in Sites /\ Onward(site, site')
    BY <1>2 DEF Sites, SiteLooks, Onward
  <2> QED BY <1>1, <2>1, SiteMoves
<1>3. CASE site.status = "failed" /\ site' = [site EXCEPT !.status = "provisioning"]
  <2>1. site' \in Sites /\ Onward(site, site')
    BY <1>1, <1>3 DEF Sites, Onward
  <2> QED BY <1>1, <2>1, SiteMoves
<1> QED BY <1>2, <1>3 DEF O!Elsewhere

LEMMA ProvisionedKeeps == ASSUME WelcomeInv, O!Provisioned PROVE WelcomeInv'
<1>1. site \in Sites /\ UNCHANGED <<tabs, queries, heard, missed>> /\ tabFaults \in Nat /\ site.status = "provisioning"
  BY DEF WelcomeInv, WelcomeTyped, O!Provisioned, O!history
<1>2. tabFaults' \in Nat /\ tabFaults <= tabFaults'
  BY <1>1 DEF O!Provisioned, O!Fault
<1>3. CASE site' = [site EXCEPT !.status = "ready"]
  <2>1. site' \in Sites /\ Onward(site, site')
    BY <1>1, <1>3 DEF Sites, Onward
  <2> QED BY <1>1, <1>2, <2>1, SiteMoves
<1>4. CASE site' = [site EXCEPT !.status = "failed"]
  <2>1. site' \in Sites /\ Onward(site, site')
    BY <1>1, <1>4 DEF Sites, Onward
  <2> QED BY <1>1, <1>2, <2>1, SiteMoves
<1> QED BY <1>3, <1>4 DEF O!Provisioned

LEMMA PreviewKeeps == ASSUME WelcomeInv, O!Personalise \/ O!PreviewStarts PROVE WelcomeInv'
<1>1. /\ UNCHANGED <<site, tabs, queries, heard, missed>> /\ site' \in Sites /\ Onward(site, site')
      /\ tabFaults' \in Nat /\ tabFaults <= tabFaults'
  BY OnwardSame DEF WelcomeInv, WelcomeTyped, O!Personalise, O!PreviewStarts, O!history, O!Fault
<1> QED BY <1>1, SiteMoves

\* What SetupProgress is told.
LEMMA ProgressIs == ASSUME site \in Sites, site.status # "none" PROVE O!Progress \in Steps3
<1>1. CASE site.status = "failed"
  BY <1>1 DEF O!Progress, Steps3
<1>2. CASE site.status = "provisioning"
  BY <1>2 DEF O!Progress, Steps3
<1>3. CASE site.status = "ready" /\ ~O!PreviewDone
  BY <1>3 DEF O!Progress, Steps3
<1>4. CASE site.status = "ready" /\ O!PreviewDone
  BY <1>4 DEF O!Progress, Steps3
<1> QED BY <1>1, <1>2, <1>3, <1>4 DEF Sites

LEMMA ReadKeeps == ASSUME WelcomeInv, NEW c \in queries, O!Read(c) PROVE WelcomeInv'
<1> DEFINE got == IF c.kind \in {"setup", "then"} THEN O!Progress ELSE site.status
<1> DEFINE look == IF c.kind = "look" THEN site.look ELSE FirstLook
<1> DEFINE d == [c EXCEPT !.done = TRUE, !.got = got, !.look = look]
<1>1. queries' = (queries \ {c}) \cup {d}
  BY DEF O!Read, O!Reply
<1>2. UNCHANGED <<site, tabs, tabFaults, heard, missed>> /\ c.kind \in {"start", "then", "list", "look", "setup", "home", "panel"}
  BY DEF O!Read, O!server, O!history
<1>3. /\ c \in Queries /\ QueryFits(c, tabs[c.tab], site) /\ site \in Sites /\ Onward(site, site)
  BY QueryIs, OnwardSame
<1>4. c.kind \in {"setup", "then"} => got \in Steps3
  BY <1>3, ProgressIs DEF QueryFits
<1>5. c.kind \notin {"setup", "then"} => got = site.status
  OBVIOUS
<1>6. got \in Steps3 \cup {"", "none", "provisioning", "created", "limit", "queued", "conflict"}
  BY <1>3, <1>4, <1>5 DEF Sites, Steps3
<1>7. look \in SiteLooks /\ (c.kind = "look" => look = site.look)
  BY <1>3 DEF Sites, SiteLooks
<1> HIDE DEF got, look
<1>8. d \in Queries /\ d.tab = c.tab /\ d.kind = c.kind /\ d.got = got /\ d.look = look
  BY <1>3, <1>6, <1>7 DEF Queries
<1> HIDE DEF d
<1>9. QueryFits(d, tabs[c.tab], site)
  <2>1. /\ d.kind \in {"start", "then"} => tabs[c.tab].at = "start"
        /\ d.kind \in {"home", "panel"} => tabs[c.tab].at = "dashboard"
        /\ d.kind \in {"create", "look", "setup"} => tabs[c.tab].at = "onboarding"
        /\ d.kind = "setup" => tabs[c.tab].stage = "setup"
        /\ d.kind \in {"look", "setup", "then"} => site.status # "none"
    BY <1>3, <1>8 DEF QueryFits
  <2>2. d.kind \in {"start", "list", "home", "panel"} =>
          /\ d.got \in {"none", "provisioning", "failed", "ready"}
          /\ d.got # "none" => site.status # "none"
          /\ d.got = "ready" => site.status = "ready"
    BY <1>3, <1>5, <1>8 DEF Sites
  <2>3. (d.kind \in {"setup", "then"} => d.got \in Steps3) /\ d.kind # "create" /\ (d.kind = "look" => d.look = site.look)
    BY <1>2, <1>4, <1>7, <1>8
  <2> QED BY <2>1, <2>2, <2>3 DEF QueryFits
<1> QED BY <1>1, <1>2, <1>3, <1>8, <1>9, QueryAnswered

LEMMA CreateKeeps == ASSUME WelcomeInv, NEW c \in queries, O!Create(c) PROVE WelcomeInv'
<1>1. /\ c \in Queries /\ QueryFits(c, tabs[c.tab], site) /\ site \in Sites /\ c.look \in SiteLooks
      /\ c.kind = "create" /\ UNCHANGED <<tabs, tabFaults, heard, missed>> /\ FirstLook \in SiteLooks
  BY QueryIs DEF O!Create, O!history, Queries, SiteLooks
<1>2. tabs[c.tab].at = "onboarding"
  BY <1>1 DEF QueryFits
<1>3. CASE site.status = "none"
  <2> DEFINE d == [c EXCEPT !.done = TRUE, !.got = "created", !.look = FirstLook]
  <2>1. site' = [status |-> "provisioning", look |-> c.look] /\ queries' = (queries \ {c}) \cup {d}
    BY <1>3 DEF O!Create, O!Reply
  <2>2. d \in Queries /\ d.tab = c.tab /\ d.kind = "create" /\ d.got = "created"
    BY <1>1 DEF Queries
  <2> HIDE DEF d
  <2>3. site' \in Sites /\ Onward(site, site') /\ site'.status # "none"
    BY <1>1, <1>3, <2>1 DEF Sites, Onward
  <2>4. QueryFits(d, tabs[c.tab], site')
    BY <1>2, <2>2, <2>3 DEF QueryFits
  <2> QED BY <1>1, <2>1, <2>2, <2>3, <2>4, QueryAnswered
<1>4. CASE site.status # "none"
  <2> DEFINE d == [c EXCEPT !.done = TRUE, !.got = "limit", !.look = FirstLook]
  <2>1. site' = site /\ queries' = (queries \ {c}) \cup {d}
    BY <1>4 DEF O!Create, O!Reply
  <2>2. d \in Queries /\ d.tab = c.tab /\ d.kind = "create" /\ d.got = "limit"
    BY <1>1 DEF Queries
  <2> HIDE DEF d
  <2>3. site' \in Sites /\ Onward(site, site') /\ site'.status # "none"
    BY <1>1, <1>4, <2>1, OnwardSame
  <2>4. QueryFits(d, tabs[c.tab], site')
    BY <1>2, <2>2, <2>3 DEF QueryFits
  <2> QED BY <1>1, <2>1, <2>2, <2>3, <2>4, QueryAnswered
<1> QED BY <1>3, <1>4

LEMMA AgainKeeps == ASSUME WelcomeInv, NEW c \in queries, O!Again(c) PROVE WelcomeInv'
<1>1. /\ c \in Queries /\ site \in Sites /\ c.look \in SiteLooks
      /\ c.kind = "retry" /\ UNCHANGED <<tabs, tabFaults, heard, missed>>
  BY QueryIs DEF O!Again, O!history, Queries
<1> DEFINE d(got) == [c EXCEPT !.done = TRUE, !.got = got, !.look = c.look]
<1>2. /\ d("queued") \in Queries /\ d("queued").tab = c.tab /\ d("queued").kind = "retry"
      /\ d("conflict") \in Queries /\ d("conflict").tab = c.tab /\ d("conflict").kind = "retry"
  BY <1>1 DEF Queries
<1>3. \/ site' = [site EXCEPT !.status = "provisioning"] /\ site.status = "failed" /\ queries' = (queries \ {c}) \cup {d("queued")}
      \/ site' = site /\ queries' = (queries \ {c}) \cup {d("conflict")}
  BY DEF O!Again, O!Reply
<1> HIDE DEF d
<1>4. site' \in Sites /\ Onward(site, site')
  BY <1>1, <1>3 DEF Sites, Onward
<1>5. QueryFits(d("queued"), tabs[c.tab], site') /\ QueryFits(d("conflict"), tabs[c.tab], site')
  BY <1>2 DEF QueryFits
<1>6. CASE queries' = (queries \ {c}) \cup {d("queued")}
  BY <1>1, <1>2, <1>4, <1>5, <1>6, QueryAnswered
<1>7. CASE queries' = (queries \ {c}) \cup {d("conflict")}
  BY <1>1, <1>2, <1>4, <1>5, <1>7, QueryAnswered
<1> QED BY <1>3, <1>6, <1>7

LEMMA OpensKeeps == ASSUME WelcomeInv, NEW c \in queries, O!Opens(c) PROVE WelcomeInv'
<1>1. /\ c.kind \in {"preview", "rebuild"} /\ UNCHANGED <<site, tabs, tabFaults, heard, missed>>
      /\ queries' = (queries \ {c}) \cup {}
  BY DEF O!Opens, O!history
<1>2. tabFaults' \in Nat /\ tabFaults <= tabFaults' /\ {} \in SUBSET Queries
  BY <1>1 DEF WelcomeInv, WelcomeTyped
<1> QED BY <1>1, <1>2, Drops

-----------------------------------------------------------------------------
(* The pages' steps. *)

\* What has become of a request, in the words of the lemmas on navigation.
LEMMA Without ==
  ASSUME WelcomeInv, NEW c \in queries
  PROVE  /\ queries \ {c} \in SUBSET queries /\ \A d \in queries : d \notin queries \ {c} => d.tab = c.tab
         /\ c.tab \in Tabs
BY QueryIs

LEMMA StartedKeeps == ASSUME WelcomeInv, NEW c \in queries, O!Started(c) PROVE WelcomeInv'
<1> DEFINE rest == queries \ {c}
<1>1. /\ rest \in SUBSET queries /\ \A d \in queries : d \notin rest => d.tab = c.tab
  BY Without
<1>2. /\ c.tab \in Tabs /\ QueryFits(c, tabs[c.tab], site) /\ tabs[c.tab] \in Mounted /\ tabFaults \in Nat
      /\ TabFits(c.tab, tabs[c.tab], site, queries, heard, missed, tabFaults)
  BY QueryIs
<1>3. c.done /\ c.kind \in {"start", "then"} /\ site' = site /\ tabFaults' = tabFaults
  BY DEF O!Started, O!server
<1>4. tabs[c.tab].at = "start" /\ (c.got \in {"provisioning", "failed", "personalising"} => site.status # "none")
  BY <1>2, <1>3 DEF QueryFits
<1>5. tabFaults' \in Nat /\ tabFaults <= tabFaults'
  BY <1>2, <1>3
<1>6. CASE c.got = "none"
  <2>1. O!Leads(c.tab, "onboarding", FALSE, rest)
    BY <1>6 DEF O!Started
  <2> QED BY <1>1, <1>2, <1>3, <1>4, <1>5, <2>1, LeadsToRoles
<1>7. CASE c.kind = "start" /\ c.got = "ready"
  <2> DEFINE new == O!Call(c.tab, "then")
  <2>1. queries' = rest \cup {new} /\ UNCHANGED <<tabs, heard, missed>>
    BY <1>7 DEF O!Started, O!history
  <2>2. site.status # "none" /\ "then" \in Asked
    BY <1>2, <1>3, <1>7 DEF QueryFits, Asked
  <2>3. new \in Queries /\ new.tab = c.tab /\ new.kind = "then" /\ QueryFits(new, tabs[c.tab], site)
    BY <1>2, <1>4, <2>2, FreshCall, NewQueryFits
  <2> HIDE DEF new
  <2>4. TabFits(c.tab, tabs[c.tab], site, queries', heard', missed', tabFaults')
    BY <1>4, <2>1, <2>3 DEF TabFits, Has
  <2>5. tabs' = [tabs EXCEPT ![c.tab] = tabs[c.tab]] /\ {new} \in SUBSET Queries
    BY <2>1, <2>3 DEF WelcomeInv, WelcomeTyped
  <2>6. \A u \in Tabs : u # c.tab => (u \in heard' <=> u \in heard) /\ (u \in missed' <=> u \in missed)
    BY <2>1
  <2>7. \A d \in {new} : d.tab = c.tab /\ QueryFits(d, tabs[c.tab], site)
    BY <2>3
  <2>8. queries' = (queries \ {c}) \cup {new}
    BY <2>1
  <2> QED BY <1>2, <1>3, <1>5, <2>4, <2>5, <2>6, <2>7, <2>8, Edits
<1>8. CASE c.got \in {"provisioning", "failed", "personalising"}
  <2>1. O!Leads(c.tab, "onboarding", TRUE, rest)
    BY <1>8 DEF O!Started
  <2> QED BY <1>1, <1>2, <1>3, <1>4, <1>5, <1>8, <2>1, LeadsToSetup
<1>9. CASE ~(c.got = "none" \/ (c.kind = "start" /\ c.got = "ready") \/ c.got \in {"provisioning", "failed", "personalising"})
  <2>1. O!Leads(c.tab, "dashboard", FALSE, rest)
    BY <1>9 DEF O!Started
  <2> QED BY <1>1, <1>2, <1>3, <1>4, <1>5, <2>1, LeadsToDashboard
<1> QED BY <1>6, <1>7, <1>8, <1>9

LEMMA ListedKeeps == ASSUME WelcomeInv, NEW c \in queries, O!Listed(c) PROVE WelcomeInv'
<1> DEFINE rest == queries \ {c}
<1>1. /\ rest \in SUBSET queries /\ \A d \in queries : d \notin rest => d.tab = c.tab /\ d.kind = "list"
  BY Without DEF O!Listed
<1>2. /\ c.tab \in Tabs /\ QueryFits(c, tabs[c.tab], site) /\ tabFaults \in Nat
  BY QueryIs
<1>3. c.done /\ c.kind = "list" /\ site' = site /\ tabFaults' = tabFaults
  BY DEF O!Listed, O!server
<1>4. tabFaults' \in Nat /\ tabFaults <= tabFaults'
  BY <1>2, <1>3
<1>5. CASE c.got = "none"
  <2>1. queries' = (queries \ {c}) \cup {} /\ UNCHANGED <<tabs, heard, missed>> /\ {} \in SUBSET Queries
    BY <1>5 DEF O!Listed, O!history
  <2> QED BY <1>3, <1>4, <2>1, Drops
<1>6. CASE c.got = "ready"
  <2>1. O!Leads(c.tab, "dashboard", FALSE, rest)
    BY <1>6 DEF O!Listed
  <2> QED BY <1>1, <1>2, <1>3, <1>4, <2>1, LeadsToDashboard
<1>7. CASE c.got # "none" /\ c.got # "ready"
  <2>1. O!Leads(c.tab, "onboarding", TRUE, rest)
    BY <1>7 DEF O!Listed
  <2>2. site.status # "none"
    BY <1>2, <1>3, <1>7 DEF QueryFits
  <2> QED BY <1>1, <1>2, <1>3, <1>4, <2>1, <2>2, LeadsToSetup
<1> QED BY <1>5, <1>6, <1>7

LEMMA LookedKeeps == ASSUME WelcomeInv, NEW c \in queries, O!Looked(c) PROVE WelcomeInv'
<1> DEFINE p == [tabs[c.tab] EXCEPT !.look = c.look]
<1>1. /\ c.done /\ c.kind = "look" /\ site' = site /\ tabFaults' = tabFaults /\ heard' = heard
      /\ tabs' = [tabs EXCEPT ![c.tab] = p] /\ queries' = (queries \ {c}) \cup {} /\ missed' = missed \ {c.tab}
  BY DEF O!Looked, O!server
<1>2. /\ c \in Queries /\ c.tab \in Tabs /\ QueryFits(c, tabs[c.tab], site) /\ tabs[c.tab] \in Mounted /\ tabFaults \in Nat
      /\ TabFits(c.tab, tabs[c.tab], site, queries, heard, missed, tabFaults) /\ c.look \in SiteLooks
  BY QueryIs DEF Queries
<1>3. tabs[c.tab].at = "onboarding" /\ site.status # "none" /\ c.look = site.look
  BY <1>1, <1>2 DEF QueryFits
<1>4. /\ p \in Mounted /\ p.at = "onboarding" /\ p.stage = tabs[c.tab].stage /\ p.look = c.look
      /\ p.known = tabs[c.tab].known /\ p.url = tabs[c.tab].url
  BY <1>2, <1>3 DEF Mounted
<1> HIDE DEF p
<1>5. TabFits(c.tab, p, site, queries', heard', missed', tabFaults')
  BY <1>1, <1>2, <1>3, <1>4 DEF TabFits
<1>6. tabFaults' \in Nat /\ tabFaults <= tabFaults' /\ {} \in SUBSET Queries
  BY <1>1, <1>2
<1>7. \A u \in Tabs : u # c.tab => (u \in heard' <=> u \in heard) /\ (u \in missed' <=> u \in missed)
  BY <1>1
<1> QED BY <1>1, <1>3, <1>4, <1>5, <1>6, <1>7, Edits

LEMMA CreatedKeeps == ASSUME WelcomeInv, NEW c \in queries, O!Created(c) PROVE WelcomeInv'
<1> DEFINE p == O!Adopts(c)
<1> DEFINE new == O!Call(c.tab, "look")
<1>1. /\ c.done /\ c.kind = "create" /\ site' = site /\ tabFaults' = tabFaults /\ tabs' = [tabs EXCEPT ![c.tab] = p]
      /\ heard' = heard \cup {c.tab}
      /\ missed' = IF c.got = "limit" \/ tabs[c.tab].url THEN missed \cup {c.tab} ELSE missed
  BY DEF O!Created, O!server
<1>2. /\ c.tab \in Tabs /\ QueryFits(c, tabs[c.tab], site) /\ tabs[c.tab] \in Mounted /\ tabFaults \in Nat
  BY QueryIs
<1>3. tabs[c.tab].at = "onboarding" /\ site.status # "none" /\ c.got \in {"created", "limit"}
  BY <1>1, <1>2 DEF QueryFits
<1>4. p = [tabs[c.tab] EXCEPT !.known = TRUE, !.stage = "setup", !.url = tabs[c.tab].url \/ c.got = "created"]
  BY DEF O!Adopts
<1>5. (tabs[c.tab].url \/ c.got = "created") \in BOOLEAN
  OBVIOUS
<1>6. p \in Mounted /\ p.at = "onboarding" /\ p.stage = "setup" /\ p.known
  BY <1>2, <1>3, <1>4, <1>5 DEF Mounted
<1>7. new \in Queries /\ new.tab = c.tab /\ new.kind = "look" /\ QueryFits(new, p, site)
  <2>1. "look" \in Asked
    BY DEF Asked
  <2> HIDE DEF p
  <2> QED BY <1>2, <1>3, <1>6, <2>1, FreshCall, NewQueryFits
<1>8. /\ c.got = "created" /\ ~tabs[c.tab].url => queries' = (queries \ {c}) \cup {new}
      /\ ~(c.got = "created" /\ ~tabs[c.tab].url) => queries' = (queries \ {c}) \cup {}
  BY SetupPage, <1>2, <1>3 DEF O!Created, O!First
<1>9. /\ (c.got = "created" /\ ~tabs[c.tab].url) \/ c.tab \in missed'
      /\ \A u \in Tabs : u # c.tab => (u \in heard' <=> u \in heard) /\ (u \in missed' <=> u \in missed)
      /\ tabFaults' \in Nat /\ tabFaults <= tabFaults'
  BY <1>1, <1>2, <1>3
<1> HIDE DEF p, new
<1>10. CASE c.got = "created" /\ ~tabs[c.tab].url
  <2>1. queries' = (queries \ {c}) \cup {new}
    BY <1>8, <1>10
  <2>2. TabFits(c.tab, p, site, queries', heard', missed', tabFaults')
    BY <1>3, <1>6, <1>7, <2>1 DEF TabFits, Has
  <2>3. {new} \in SUBSET Queries /\ \A d \in {new} : d.tab = c.tab /\ QueryFits(d, p, site)
    BY <1>7
  <2> QED BY <1>1, <1>3, <1>6, <1>9, <2>1, <2>2, <2>3, Edits
<1>11. CASE ~(c.got = "created" /\ ~tabs[c.tab].url)
  <2>1. queries' = (queries \ {c}) \cup {}
    BY <1>8, <1>11
  <2>2. TabFits(c.tab, p, site, queries', heard', missed', tabFaults')
    BY <1>3, <1>6, <1>9, <1>11 DEF TabFits
  <2>3. {} \in SUBSET Queries
    OBVIOUS
  <2> QED BY <1>1, <1>3, <1>6, <1>9, <2>1, <2>2, <2>3, Edits
<1> QED BY <1>10, <1>11

LEMMA ProgressedKeeps == ASSUME WelcomeInv, NEW c \in queries, O!Progressed(c) PROVE WelcomeInv'
<1> DEFINE done == c.got \notin {"creating", "failed"}
<1> DEFINE p == [tabs[c.tab] EXCEPT !.shown = c.got, !.opened = done]
<1> DEFINE ds == IF done /\ ~tabs[c.tab].opened THEN {O!Call(c.tab, "preview")} ELSE {}
<1>1. /\ c.done /\ c.kind = "setup" /\ UNCHANGED <<site, tabFaults, heard, missed>>
      /\ tabs' = [tabs EXCEPT ![c.tab].shown = c.got, ![c.tab].opened = done] /\ queries' = (queries \ {c}) \cup ds
  BY DEF O!Progressed, O!server, O!history
<1>2. /\ c.tab \in Tabs /\ QueryFits(c, tabs[c.tab], site) /\ tabs[c.tab] \in Mounted /\ tabFaults \in Nat
      /\ TabFits(c.tab, tabs[c.tab], site, queries, heard, missed, tabFaults)
  BY QueryIs
<1>3. tabs' = [tabs EXCEPT ![c.tab] = p]
  BY <1>1, <1>2 DEF WelcomeInv, WelcomeTyped
<1>4. tabs[c.tab].at = "onboarding" /\ c.got \in Steps3 /\ done \in BOOLEAN
  BY <1>1, <1>2 DEF QueryFits
<1>5. /\ p \in Mounted /\ p.at = "onboarding" /\ p.stage = tabs[c.tab].stage /\ p.look = tabs[c.tab].look
      /\ p.known = tabs[c.tab].known /\ p.url = tabs[c.tab].url
  BY <1>2, <1>4 DEF Mounted
<1> HIDE DEF p, done
<1>6. ds \in SUBSET Queries /\ \A d \in ds : d.tab = c.tab /\ QueryFits(d, p, site)
  <2>1. "preview" \in Asked
    BY DEF Asked
  <2> QED BY <1>2, <2>1, FreshCall, NewQueryFits
<1> HIDE DEF ds
<1>7. TabFits(c.tab, p, site, queries', heard', missed', tabFaults')
  <2>1. Has(queries, c.tab, "look") => Has(queries', c.tab, "look")
    BY <1>1 DEF Has
  <2> QED BY <1>1, <1>2, <1>4, <1>5, <2>1 DEF TabFits
<1>8. tabFaults' \in Nat /\ tabFaults <= tabFaults'
  BY <1>1, <1>2
<1>9. \A u \in Tabs : u # c.tab => (u \in heard' <=> u \in heard) /\ (u \in missed' <=> u \in missed)
  BY <1>1
<1>10. site' = site /\ queries' = (queries \ {c}) \cup ds
  BY <1>1
<1> QED BY <1>3, <1>4, <1>5, <1>6, <1>7, <1>8, <1>9, <1>10, Edits

LEMMA RetriedKeeps == ASSUME WelcomeInv, NEW c \in queries, O!Retried(c) PROVE WelcomeInv'
<1> DEFINE ds == IF O!OnPanel(c.tab) /\ c.got = "queued" THEN {O!Call(c.tab, "panel")} ELSE {}
<1>1. /\ c.kind = "retry" /\ UNCHANGED <<site, tabs, tabFaults, heard, missed>> /\ queries' = (queries \ {c}) \cup ds
  BY DEF O!Retried, O!server, O!history
<1>2. c.tab \in Tabs /\ tabFaults \in Nat
  BY QueryIs
<1>3. ds \in SUBSET Queries /\ \A d \in ds : d.tab = c.tab /\ QueryFits(d, tabs[c.tab], site)
  <2>1. CASE O!OnPanel(c.tab)
    <3>1. tabs[c.tab].at = "dashboard" /\ "panel" \in Asked
      BY <2>1 DEF O!OnPanel, Asked
    <3> QED BY <1>2, <3>1, FreshCall, NewQueryFits
  <2>2. CASE ~O!OnPanel(c.tab)
    BY <2>2
  <2> QED BY <2>1, <2>2
<1>4. tabFaults' \in Nat /\ tabFaults <= tabFaults'
  BY <1>1, <1>2
<1> HIDE DEF ds
<1> QED BY <1>1, <1>3, <1>4, Drops

\* The dashboard starts to load, as it does when the first list has no ready portfolio, and when it is lost.
LEMMA LoadsKeep ==
  ASSUME WelcomeInv, NEW c \in queries, c.kind = "home", tabs' = [tabs EXCEPT ![c.tab].shown = "loading"],
         queries' = (queries \ {c}) \cup {O!Call(c.tab, "panel")}, UNCHANGED <<site, heard, missed>>,
         tabFaults' \in Nat, tabFaults <= tabFaults'
  PROVE  WelcomeInv'
<1> DEFINE p == [tabs[c.tab] EXCEPT !.shown = "loading"]
<1> DEFINE new == O!Call(c.tab, "panel")
<1>1. /\ c.tab \in Tabs /\ QueryFits(c, tabs[c.tab], site) /\ tabs[c.tab] \in Mounted
      /\ TabFits(c.tab, tabs[c.tab], site, queries, heard, missed, tabFaults)
  BY QueryIs
<1>2. tabs[c.tab].at = "dashboard"
  BY <1>1 DEF QueryFits
<1>3. p \in Mounted /\ p.at = "dashboard" /\ p.stage = tabs[c.tab].stage /\ p.shown = "loading" /\ p.url = tabs[c.tab].url
  BY <1>1, <1>2 DEF Mounted
<1>4. tabs' = [tabs EXCEPT ![c.tab] = p]
  BY DEF WelcomeInv, WelcomeTyped
<1> HIDE DEF p
<1>5. new \in Queries /\ new.tab = c.tab /\ new.kind = "panel" /\ QueryFits(new, p, site)
  <2>1. "panel" \in Asked
    BY DEF Asked
  <2> QED BY <1>1, <1>3, <2>1, FreshCall, NewQueryFits
<1> DEFINE ds == {new}
<1>6. queries' = (queries \ {c}) \cup ds
  OBVIOUS
<1> HIDE DEF new
<1>7. TabFits(c.tab, p, site, queries', heard', missed', tabFaults')
  BY <1>1, <1>2, <1>3, <1>5, <1>6 DEF TabFits, DashboardFits, Has
<1>8. ds \in SUBSET Queries /\ \A d \in ds : d.tab = c.tab /\ QueryFits(d, p, site)
  BY <1>5
<1> HIDE DEF ds
<1>9. \A u \in Tabs : u # c.tab => (u \in heard' <=> u \in heard) /\ (u \in missed' <=> u \in missed)
  OBVIOUS
<1>10. site' = site /\ p.at = tabs[c.tab].at
  BY <1>2, <1>3
<1> QED BY <1>3, <1>4, <1>6, <1>7, <1>8, <1>9, <1>10, Edits

\* The dashboard shows what it was told, or that it was told nothing.
LEMMA ShowsKeep ==
  ASSUME WelcomeInv, NEW c \in queries, c.kind \in {"home", "panel"}, NEW shown \in {"site", "provisioning", "failed", "ready", "error"},
         shown = "site" \/ shown = "ready" => site.status = "ready",
         shown = "provisioning" \/ shown = "failed" => site.status # "none", shown = "error" => tabFaults' > 0,
         tabs' = [tabs EXCEPT ![c.tab].shown = shown], queries' = (queries \ {c}) \cup {},
         UNCHANGED <<site, heard, missed>>, tabFaults' \in Nat, tabFaults <= tabFaults'
  PROVE  WelcomeInv'
<1> DEFINE p == [tabs[c.tab] EXCEPT !.shown = shown]
<1>1. /\ c.tab \in Tabs /\ QueryFits(c, tabs[c.tab], site) /\ tabs[c.tab] \in Mounted
      /\ TabFits(c.tab, tabs[c.tab], site, queries, heard, missed, tabFaults)
  BY QueryIs
<1>2. tabs[c.tab].at = "dashboard"
  BY <1>1 DEF QueryFits
<1>3. p \in Mounted /\ p.at = "dashboard" /\ p.stage = tabs[c.tab].stage /\ p.shown = shown /\ p.url = tabs[c.tab].url
  <2>1. shown \in Steps3 \cup {"none", "provisioning", "site", "loading", "error"}
    BY DEF Steps3
  <2> QED BY <1>1, <1>2, <2>1 DEF Mounted
<1>4. tabs' = [tabs EXCEPT ![c.tab] = p]
  BY DEF WelcomeInv, WelcomeTyped
<1> HIDE DEF p
<1>5. DashboardFits(c.tab, p, site, queries', tabFaults')
  BY <1>3 DEF DashboardFits
<1>6. TabFits(c.tab, p, site, queries', heard', missed', tabFaults')
  BY <1>1, <1>2, <1>3, <1>5 DEF TabFits
<1> DEFINE ds == {}
<1>7. /\ ds \in SUBSET Queries /\ queries' = (queries \ {c}) \cup ds
      /\ \A d \in ds : d.tab = c.tab /\ QueryFits(d, p, site)
  OBVIOUS
<1> HIDE DEF ds
<1>8. \A u \in Tabs : u # c.tab => (u \in heard' <=> u \in heard) /\ (u \in missed' <=> u \in missed)
  OBVIOUS
<1>9. site' = site /\ p.at = tabs[c.tab].at /\ (tabs[c.tab].stage = "setup" => p.stage = "setup")
  BY <1>2, <1>3
<1> QED BY <1>3, <1>4, <1>6, <1>7, <1>8, <1>9, Edits

LEMMA HomedKeeps == ASSUME WelcomeInv, NEW c \in queries, O!Homed(c) PROVE WelcomeInv'
<1>1. c.done /\ c.kind = "home" /\ UNCHANGED <<site, heard, missed, tabFaults>>
  BY DEF O!Homed, O!server, O!history
<1>2. QueryFits(c, tabs[c.tab], site) /\ tabFaults' \in Nat /\ tabFaults <= tabFaults'
  BY <1>1, QueryIs
<1>3. CASE c.got = "ready"
  <2>1. site.status = "ready"
    BY <1>1, <1>2, <1>3 DEF QueryFits
  <2>2. tabs' = [tabs EXCEPT ![c.tab].shown = "site"] /\ queries' = (queries \ {c}) \cup {}
    BY <1>3 DEF O!Homed
  <2> QED BY <1>1, <1>2, <2>1, <2>2, ShowsKeep
<1>4. CASE c.got # "ready"
  <2>1. tabs' = [tabs EXCEPT ![c.tab].shown = "loading"] /\ queries' = (queries \ {c}) \cup {O!Call(c.tab, "panel")}
    BY <1>4 DEF O!Homed
  <2> QED BY <1>1, <1>2, <2>1, LoadsKeep
<1> QED BY <1>3, <1>4

LEMMA PaneledKeeps == ASSUME WelcomeInv, NEW c \in queries, O!Paneled(c) PROVE WelcomeInv'
<1>1. c.done /\ c.kind = "panel" /\ UNCHANGED <<site, tabFaults>>
  BY DEF O!Paneled, O!server
<1>2. QueryFits(c, tabs[c.tab], site) /\ tabFaults' \in Nat /\ tabFaults <= tabFaults'
  BY <1>1, QueryIs
<1>3. /\ tabs[c.tab].at = "dashboard" /\ c.got \in {"none", "provisioning", "failed", "ready"}
      /\ c.got # "none" => site.status # "none"
      /\ c.got = "ready" => site.status = "ready"
  BY <1>1, <1>2 DEF QueryFits
<1>4. CASE c.got = "none"
  <2>1. O!Leads(c.tab, "onboarding", FALSE, queries \ {c})
    BY <1>4 DEF O!Paneled
  <2> QED BY <1>1, <1>2, <1>3, <2>1, Without, LeadsToRoles
<1>5. CASE c.got # "none"
  <2>1. tabs' = [tabs EXCEPT ![c.tab].shown = c.got] /\ queries' = (queries \ {c}) \cup {} /\ UNCHANGED <<heard, missed>>
    BY <1>5 DEF O!Paneled, O!history
  <2>2. c.got \in {"site", "provisioning", "failed", "ready", "error"}
    BY <1>3, <1>5
  <2>3. /\ c.got = "site" \/ c.got = "ready" => site.status = "ready"
        /\ c.got = "provisioning" \/ c.got = "failed" => site.status # "none"
        /\ c.got = "error" => tabFaults' > 0
    BY <1>3
  <2> QED BY <1>1, <1>2, <2>1, <2>2, <2>3, ShowsKeep
<1> QED BY <1>4, <1>5

LEMMA QueryLostKeeps == ASSUME WelcomeInv, NEW c \in queries, O!Lost(c) PROVE WelcomeInv'
<1> DEFINE rest == queries \ {c}
<1>1. /\ c \in Queries /\ c.tab \in Tabs /\ QueryFits(c, tabs[c.tab], site) /\ tabs[c.tab] \in Mounted /\ tabFaults \in Nat
      /\ TabFits(c.tab, tabs[c.tab], site, queries, heard, missed, tabFaults)
  BY QueryIs
<1>2. site' = site /\ tabFaults' = tabFaults + 1
  BY DEF O!Lost, O!server, O!Fault
<1>3. tabFaults' \in Nat /\ tabFaults <= tabFaults' /\ tabFaults' > 0
  BY <1>1, <1>2
<1>4. CASE c.kind \in {"start", "then"}
  <2>1. O!Leads(c.tab, "dashboard", FALSE, rest)
    BY <1>4 DEF O!Lost
  <2>2. tabs[c.tab].at = "start"
    BY <1>1, <1>4 DEF QueryFits
  <2> QED BY <1>2, <1>3, <2>1, <2>2, Without, LeadsToDashboard
<1>5. CASE c.kind = "home"
  <2>1. /\ tabs' = [tabs EXCEPT ![c.tab].shown = "loading"] /\ queries' = (queries \ {c}) \cup {O!Call(c.tab, "panel")}
        /\ UNCHANGED <<heard, missed>>
    BY <1>5 DEF O!Lost, O!history
  <2> QED BY <1>2, <1>3, <1>5, <2>1, LoadsKeep
<1>6. CASE c.kind = "panel" /\ tabs[c.tab].shown = "loading"
  <2>1. /\ tabs' = [tabs EXCEPT ![c.tab].shown = IF @ = "loading" THEN "error" ELSE @] /\ queries' = (queries \ {c}) \cup {}
        /\ UNCHANGED <<heard, missed>>
    BY <1>6 DEF O!Lost, O!history
  <2>2. tabs' = [tabs EXCEPT ![c.tab].shown = "error"]
    BY <1>6, <2>1
  <2> QED BY <1>2, <1>3, <1>6, <2>1, <2>2, ShowsKeep
<1>7. CASE c.kind = "panel" /\ tabs[c.tab].shown # "loading"
  <2>1. /\ tabs' = [tabs EXCEPT ![c.tab].shown = IF @ = "loading" THEN "error" ELSE @] /\ queries' = (queries \ {c}) \cup {}
        /\ UNCHANGED <<heard, missed>>
    BY <1>7 DEF O!Lost, O!history
  <2>2. tabs' = [tabs EXCEPT ![c.tab] = tabs[c.tab]]
    BY <1>1, <1>7, <2>1 DEF WelcomeInv, WelcomeTyped, Mounted
  <2>3. tabs[c.tab].at = "dashboard"
    BY <1>1, <1>7 DEF QueryFits
  <2>4. Has(queries, c.tab, "home") => Has(queries', c.tab, "home")
    BY <1>7, <2>1 DEF Has
  <2>5. TabFits(c.tab, tabs[c.tab], site, queries', heard', missed', tabFaults')
    BY <1>1, <1>3, <1>7, <2>3, <2>4 DEF TabFits, DashboardFits
  <2>6. \A u \in Tabs : u # c.tab => (u \in heard' <=> u \in heard) /\ (u \in missed' <=> u \in missed)
    BY <2>1
  <2> DEFINE ds == {}
  <2>7. /\ ds \in SUBSET Queries /\ queries' = (queries \ {c}) \cup ds
        /\ \A d \in ds : d.tab = c.tab /\ QueryFits(d, tabs[c.tab], site)
    BY <2>1
  <2> HIDE DEF ds
  <2> QED BY <1>1, <1>2, <1>3, <2>2, <2>5, <2>6, <2>7, Edits
<1>8. CASE c.kind = "look"
  <2>1. /\ tabs' = tabs /\ queries' = (queries \ {c}) \cup {} /\ heard' = heard /\ missed' = missed \cup {c.tab}
    BY <1>8 DEF O!Lost
  <2>2. tabs' = [tabs EXCEPT ![c.tab] = tabs[c.tab]]
    BY <2>1 DEF WelcomeInv, WelcomeTyped
  <2>3. tabs[c.tab].at = "onboarding"
    BY <1>1, <1>8 DEF QueryFits
  <2>4. TabFits(c.tab, tabs[c.tab], site, queries', heard', missed', tabFaults')
    BY <1>1, <2>1, <2>3 DEF TabFits
  <2>5. /\ {} \in SUBSET Queries
        /\ \A u \in Tabs : u # c.tab => (u \in heard' <=> u \in heard) /\ (u \in missed' <=> u \in missed)
    BY <2>1
  <2> QED BY <1>1, <1>2, <1>3, <2>1, <2>2, <2>4, <2>5, Edits
<1>9. CASE c.kind \notin {"start", "then", "home", "panel", "look"}
  <2>1. queries' = (queries \ {c}) \cup {} /\ UNCHANGED <<tabs, heard, missed>> /\ {} \in SUBSET Queries
    BY <1>9 DEF O!Lost, O!history
  <2> QED BY <1>2, <1>3, <1>9, <2>1, Drops
<1> QED BY <1>4, <1>5, <1>6, <1>7, <1>8, <1>9

\* What the user picks on the way to a portfolio.
LEMMA ContinueKeeps == ASSUME WelcomeInv, NEW t \in Tabs, O!Continue(t) PROVE WelcomeInv'
<1>1. tabs[t] \in Mounted /\ TabFits(t, tabs[t], site, queries, heard, missed, tabFaults)
  BY DEF WelcomeInv, WelcomeTyped
<1>2. tabs[t].at = "onboarding" /\ tabs[t].stage # "setup" /\ UNCHANGED <<site, queries, heard, missed, tabFaults>>
  BY DEF O!Continue, O!Choosing, O!server, O!history
<1>3. ASSUME NEW p \in Mounted, tabs' = [tabs EXCEPT ![t] = p], p.at = "onboarding", p.stage # "setup", p.url = tabs[t].url
      PROVE  WelcomeInv'
  <2>1. TabFits(t, p, site', queries', heard', missed', tabFaults')
    BY <1>1, <1>2, <1>3 DEF TabFits
  <2>2. ASSUME NEW d \in queries', d.tab = t PROVE QueryFits(d, p, site')
    <3>1. d \in Queries /\ QueryFits(d, tabs[t], site) /\ Onward(site, site')
      BY <1>2, <2>2, OnwardSame DEF WelcomeInv, WelcomeTyped
    <3> QED BY <1>2, <1>3, <3>1, QueryStays
  <2>3. /\ site' \in Sites /\ Onward(site, site') /\ tabFaults' \in Nat /\ tabFaults <= tabFaults' /\ queries' \subseteq Queries
        /\ \A d \in Queries : d.tab # t => (d \in queries' <=> d \in queries)
        /\ \A u \in Tabs : u # t => (u \in heard' <=> u \in heard) /\ (u \in missed' <=> u \in missed)
    BY <1>2, OnwardSame DEF WelcomeInv, WelcomeTyped
  <2> QED BY <1>3, <2>1, <2>2, <2>3, OneTab
<1>4. CASE tabs' = [tabs EXCEPT ![t].stage = "look"]
  <2> DEFINE p == [tabs[t] EXCEPT !.stage = "look"]
  <2>1. p \in Mounted /\ p.at = "onboarding" /\ p.stage # "setup" /\ p.url = tabs[t].url
    BY <1>1, <1>2 DEF Mounted
  <2>2. tabs' = [tabs EXCEPT ![t] = p]
    BY <1>4 DEF WelcomeInv, WelcomeTyped
  <2> HIDE DEF p
  <2> QED BY <1>3, <2>1, <2>2
<1>5. CASE tabs' = [tabs EXCEPT ![t].stage = "role"]
  <2> DEFINE p == [tabs[t] EXCEPT !.stage = "role"]
  <2>1. p \in Mounted /\ p.at = "onboarding" /\ p.stage # "setup" /\ p.url = tabs[t].url
    BY <1>1, <1>2 DEF Mounted
  <2>2. tabs' = [tabs EXCEPT ![t] = p]
    BY <1>5 DEF WelcomeInv, WelcomeTyped
  <2> HIDE DEF p
  <2> QED BY <1>3, <2>1, <2>2
<1>6. ASSUME NEW look \in Looks, tabs' = [tabs EXCEPT ![t].look = look] PROVE WelcomeInv'
  <2> DEFINE p == [tabs[t] EXCEPT !.look = look]
  <2>1. look \in SiteLooks
    BY DEF SiteLooks
  <2>2. p \in Mounted /\ p.at = "onboarding" /\ p.stage # "setup" /\ p.url = tabs[t].url
    BY <1>1, <1>2, <2>1 DEF Mounted
  <2>3. tabs' = [tabs EXCEPT ![t] = p]
    BY <1>6 DEF WelcomeInv, WelcomeTyped
  <2> HIDE DEF p
  <2> QED BY <1>3, <2>2, <2>3
<1> QED BY <1>4, <1>5, <1>6 DEF O!Continue

\* A tab creates a portfolio, polls or tries again.
LEMMA AsksKeep ==
  ASSUME WelcomeInv, NEW t \in Tabs, O!Creates(t) \/ O!Poll(t) \/ O!Retry(t) \/ O!PanelPolls(t)
  PROVE  WelcomeInv'
<1>1. tabs[t] \in Mounted /\ TabFits(t, tabs[t], site, queries, heard, missed, tabFaults)
  BY DEF WelcomeInv, WelcomeTyped
<1>2. UNCHANGED <<site, tabs, tabFaults, heard, missed>>
  BY DEF O!Creates, O!Poll, O!Retry, O!PanelPolls, O!server, O!history
<1>3. ASSUME NEW kind \in Asked, queries' = queries \cup {O!Call(t, kind)},
             \/ kind \in {"retry", "rebuild"}
             \/ kind = "setup" /\ O!Watching(t)
             \/ kind = "panel" /\ O!OnPanel(t)
      PROVE  WelcomeInv'
  <2> DEFINE d == O!Call(t, kind)
  <2>1. d \in Queries /\ d.tab = t
    BY FreshCall
  <2>2. kind = "setup" => tabs[t].at = "onboarding" /\ tabs[t].stage = "setup" /\ site.status # "none"
    BY <1>1, <1>3 DEF O!Watching, TabFits
  <2>3. kind = "panel" => tabs[t].at = "dashboard"
    BY <1>3 DEF O!OnPanel
  <2>4. QueryFits(d, tabs[t], site)
    BY <1>3, <2>2, <2>3, NewQueryFits
  <2>5. queries' = queries \cup {d}
    BY <1>3
  <2> HIDE DEF d
  <2> QED BY <1>2, <2>1, <2>4, <2>5, Asks
<1>4. CASE O!Creates(t)
  <2> DEFINE d == [O!Call(t, "create") EXCEPT !.look = tabs[t].look]
  <2>1. "create" \in Asked /\ tabs[t].at = "onboarding" /\ tabs[t].look \in SiteLooks /\ queries' = queries \cup {d}
    BY <1>1, <1>4 DEF Asked, O!Creates, O!Choosing, Mounted
  <2>2. \A e \in Queries, look \in SiteLooks :
          LET f == [e EXCEPT !.look = look] IN f \in Queries /\ f.tab = e.tab /\ f.kind = e.kind /\ f.done = e.done
    BY DEF Queries
  <2>3. LET e == O!Call(t, "create") IN e \in Queries /\ e.tab = t /\ e.kind = "create" /\ ~e.done
    BY <2>1, FreshCall
  <2>4. d \in Queries /\ d.tab = t /\ d.kind = "create" /\ ~d.done
    BY <2>1, <2>2, <2>3
  <2> HIDE DEF d
  <2>5. QueryFits(d, tabs[t], site)
    BY <2>1, <2>4 DEF QueryFits
  <2> QED BY <1>2, <2>1, <2>4, <2>5, Asks
<1>5. "setup" \in Asked /\ "retry" \in Asked /\ "rebuild" \in Asked /\ "panel" \in Asked
  BY DEF Asked
<1>6. CASE O!Poll(t)
  <2>1. queries' = queries \cup {O!Call(t, "setup")} /\ O!Watching(t)
    BY <1>6 DEF O!Poll
  <2> QED BY <1>3, <1>5, <2>1
<1>7. CASE O!Retry(t)
  <2>1. queries' = queries \cup {O!Call(t, "retry")} \/ queries' = queries \cup {O!Call(t, "rebuild")}
    BY <1>7 DEF O!Retry
  <2>2. CASE queries' = queries \cup {O!Call(t, "retry")}
    BY <1>3, <1>5, <2>2
  <2>3. CASE queries' = queries \cup {O!Call(t, "rebuild")}
    BY <1>3, <1>5, <2>3
  <2> QED BY <2>1, <2>2, <2>3
<1>8. CASE O!PanelPolls(t)
  <2>1. queries' = queries \cup {O!Call(t, "panel")} /\ O!OnPanel(t)
    BY <1>8 DEF O!PanelPolls, O!Polls
  <2> QED BY <1>3, <1>5, <2>1
<1> QED BY <1>4, <1>6, <1>7, <1>8

LEMMA ArrivesKeeps == ASSUME WelcomeInv, NEW t \in Tabs, O!Arrives(t) PROVE WelcomeInv'
<1>1. /\ O!Leads(t, "dashboard", FALSE, queries) /\ tabs[t].at = "onboarding" /\ site' = site /\ tabFaults' = tabFaults
  BY DEF O!Arrives, O!Watching, O!server
<1>2. tabFaults' \in Nat /\ tabFaults <= tabFaults'
  BY <1>1 DEF WelcomeInv, WelcomeTyped
<1>3. queries \in SUBSET queries /\ \A d \in queries : d \notin queries => d.tab = t
  OBVIOUS
<1> QED BY <1>1, <1>2, <1>3, LeadsToDashboard

\* Every step of the tabs and of the server keeps the invariant.
LEMMA WelcomeKeeps == WelcomeInv /\ [O!Next]_(O!state) => WelcomeInv'
<1> SUFFICES ASSUME WelcomeInv, [O!Next]_(O!state) PROVE WelcomeInv'
  OBVIOUS
<1>1. CASE UNCHANGED O!state
  <2>1. UNCHANGED <<site, tabs, queries, tabFaults, heard, missed>> /\ tabFaults <= tabFaults'
    BY <1>1 DEF O!state, O!server, O!history, WelcomeInv, WelcomeTyped
  <2>2. site' \in Sites /\ Onward(site, site') /\ tabFaults' \in Nat
    BY <2>1, OnwardSame DEF WelcomeInv, WelcomeTyped
  <2> QED BY <2>1, <2>2, SiteMoves
<1>2. CASE O!Elsewhere \/ O!Provisioned \/ O!Personalise \/ O!PreviewStarts
  BY <1>2, ElsewhereKeeps, ProvisionedKeeps, PreviewKeeps
<1>3. ASSUME NEW c \in queries,
             O!Read(c) \/ O!Create(c) \/ O!Again(c) \/ O!Opens(c) \/ O!Started(c) \/ O!Listed(c) \/ O!Looked(c) \/ O!Created(c)
               \/ O!Progressed(c) \/ O!Retried(c) \/ O!Homed(c) \/ O!Paneled(c) \/ O!Lost(c)
      PROVE  WelcomeInv'
  BY <1>3, ReadKeeps, CreateKeeps, AgainKeeps, OpensKeeps, StartedKeeps, ListedKeeps, LookedKeeps, CreatedKeeps,
     ProgressedKeeps, RetriedKeeps, HomedKeeps, PaneledKeeps, QueryLostKeeps
<1>4. ASSUME NEW t \in Tabs,
             O!Continue(t) \/ O!Creates(t) \/ O!Poll(t) \/ O!Arrives(t) \/ O!Retry(t) \/ O!PanelPolls(t)
      PROVE  WelcomeInv'
  BY <1>4, ContinueKeeps, AsksKeep, ArrivesKeeps
<1>5. ASSUME NEW t \in Tabs, NEW at \in {"start", "onboarding", "dashboard"}, O!Visit(t, at) PROVE WelcomeInv'
  BY <1>5, VisitKeeps
<1> QED BY <1>1, <1>2, <1>3, <1>4, <1>5 DEF O!Next

LEMMA WelcomeShows == WelcomeInv => O!TabsFindTheSite
<1> SUFFICES ASSUME WelcomeInv, NEW t \in Tabs
             PROVE  /\ O!Watching(t) => tabs[t].known /\ site.status # "none"
                    /\ O!Watching(t) /\ O!Of(t, "look") = {} => tabs[t].look = site.look \/ t \in missed
                    /\ O!Choosing(t) /\ t \in heard => tabs[t].url
                    /\ O!Quiet(t) => /\ tabs[t].at # "start"
                                     /\ tabs[t].at = "dashboard" =>
                                          \/ tabs[t].shown \in {"site", "ready"} /\ site.status = "ready"
                                          \/ tabs[t].shown = "failed" /\ site.status # "none"
                                          \/ tabs[t].shown = "error" /\ tabFaults > 0
  BY DEF O!TabsFindTheSite
<1>1. TabFits(t, tabs[t], site, queries, heard, missed, tabFaults)
  BY DEF WelcomeInv
<1>2. O!Of(t, "look") = {} => ~Has(queries, t, "look")
  BY DEF O!Of, Has
<1>3. /\ O!Watching(t) => tabs[t].known /\ site.status # "none"
      /\ O!Watching(t) /\ O!Of(t, "look") = {} => tabs[t].look = site.look \/ t \in missed
      /\ O!Choosing(t) /\ t \in heard => tabs[t].url
  BY <1>1, <1>2 DEF TabFits, O!Watching, O!Choosing
<1>4. ASSUME O!Quiet(t)
      PROVE  /\ tabs[t].at # "start"
             /\ tabs[t].at = "dashboard" =>
                  \/ tabs[t].shown \in {"site", "ready"} /\ site.status = "ready"
                  \/ tabs[t].shown = "failed" /\ site.status # "none"
                  \/ tabs[t].shown = "error" /\ tabFaults > 0
  <2>1. ~Has(queries, t, "start") /\ ~Has(queries, t, "then") /\ ~Has(queries, t, "home") /\ ~Has(queries, t, "panel")
    BY <1>4 DEF O!Quiet, Has
  <2>2. tabs[t].at = "dashboard" => tabs[t].shown # "provisioning"
    BY <1>4 DEF O!Quiet, O!Polls, O!OnPanel
  <2> QED BY <1>1, <2>1, <2>2 DEF TabFits, DashboardFits
<1> QED BY <1>3, <1>4

\* Whatever the tabs do at once, each finds the user's one portfolio: no page waits on /start, none asks a user who has a
\* portfolio to start over, and a dashboard at rest shows a site that is ready, a failure, or an error that there was.
THEOREM TabsAlwaysFind == O!Spec => []O!TabsFindTheSite
<1>1. O!Init => WelcomeInv
  BY WelcomeStarts
<1>2. WelcomeInv /\ [O!Next]_(O!state) => WelcomeInv'
  BY WelcomeKeeps
<1>3. WelcomeInv => O!TabsFindTheSite
  BY WelcomeShows
<1> QED BY <1>1, <1>2, <1>3, PTL DEF O!Spec

HIDE DEF site, sitePreview, siteDetails, tabs, queries, visits, tabFaults, heard, missed

-----------------------------------------------------------------------------
(* PublishPages *)

draft == v1
pubs == v2
deployed == v3
cards == v4
gets == v5
pageEdits == v6
presses == v7
cardFaults == v8
crossedPubs == v9
aged == v10
overtook == v11

USE DEF draft, pubs, deployed, cards, gets, pageEdits, presses, cardFaults, crossedPubs, aged, overtook

Stages == {"queued", "applying", "pushed", "ended"}
Builds == {"pending", "ready", "failed"}
Drafts == [ahead : Nat, pending : BOOLEAN]
Sights == [is : {"checking", "status", "unknown"}, publishing : BOOLEAN, pending : BOOLEAN, ahead : Nat, dep : Nat,
            status : {"none", "pending", "ready", "failed"}, live : BOOLEAN, seen : Nat]
Cards == [kind : {"editor", "home", "card"}, shown : Sights, followed : Nat, told : Seq(Nat), asked : Nat]
CardTabs == Homes \cup Editors \cup {"elsewhere"}
Gets == [tab : CardTabs, kind : {"status", "press"}, nr : Nat, waits : BOOLEAN, rows : BOOLEAN, at : Nat,
         pc : {"sent", "absent", "done"}, saw : Nat, got : Sights]

PubTyped ==
  /\ draft \in Drafts /\ pubs \in Seq(Stages) /\ deployed \in Seq(Builds) /\ pageEdits \in Nat
  /\ cards \in [DOMAIN cards -> Cards] /\ DOMAIN cards \subseteq Homes \cup Editors
  /\ gets \subseteq Gets

\* The publishes o: one is under way; one is past its checks; the i-th is.
Underway(o) == \E i \in DOMAIN o : o[i] \in P!Active
Moved(o) == \E i \in DOMAIN o : o[i] = "pushed"
Works(o, i) == o[i] \in {"applying", "pushed"}
Unpushed(dr) == IF dr.pending THEN 1 ELSE 0
Owed(o) == IF Moved(o) THEN 1 ELSE 0

\* Two are under way only if their presses crossed, one at a time is past its checks, and has something to publish: a
\* deployment is owed for an edit that none was owed for.
SiteFits(dr, o, ds, crs, n) ==
  /\ \A i, j \in DOMAIN o : i < j /\ o[i] \in P!Active /\ o[j] \in P!Active => j \in crs
  /\ \A i, j \in DOMAIN o : Works(o, i) /\ Works(o, j) => i = j
  /\ \A i \in DOMAIN o : o[i] = "applying" => dr.ahead > 0
  /\ Len(ds) + dr.ahead + Unpushed(dr) + Owed(o) <= n

\* A request c, when the pages are pg, by its kind; by what its press has seen of the publishes o; and by what it has read.
GetTyped(c, pg) ==
  /\ c.kind = "status" => c.tab \in DOMAIN pg
  /\ c.rows => c.kind = "status"
  /\ c.pc = "absent" => c.kind = "press"
  /\ c.tab \in DOMAIN pg => 0 < c.nr
  /\ c.tab \in DOMAIN pg => (pg[c.tab].kind = "card" => c.kind = "status")

PressFits(c, o) == c.saw <= Len(o) /\ (c.pc = "absent" /\ c.saw = Len(o) => ~Underway(o))

ReadFits(c, o, ds) ==
  c.rows =>
    /\ c.got.seen <= Len(o) /\ c.got.dep <= Len(ds)
    /\ c.got.dep > 0 => c.got.status # "none" /\ (c.got.status # "pending" => ds[c.got.dep] # "pending")
    /\ c.got.dep = 0 => c.got.status = "none"

\* What was read, or is shown, of the draft dr, the publishes and the deployments is so.
Agrees(g, dr, o) == g.publishing = Underway(o) /\ g.pending = dr.pending
DepIs(g, ds, t) == (t \notin Homes => g.dep = Len(ds)) /\ (g.dep > 0 => g.status = ds[g.dep])

\* What c has read is so, unless the site has changed since.
StillSo(c, ag, dr, o, ds) == c.rows /\ <<c.tab, c.nr>> \notin ag => Agrees(c.got, dr, o) /\ DepIs(c.got, ds, c.tab)

\* Two requests: of one tab, they have a number each; and they are read in some order, in which publishes are added and
\* deployments end.
Pair(c, d) ==
  /\ c.tab = d.tab /\ c.nr = d.nr => c = d
  /\ c.rows /\ d.rows /\ c.tab = d.tab =>
     /\ c.at = d.at => c = d
     /\ c.tab \in Homes /\ c.at < d.at => c.got.seen <= d.got.seen
     /\ c.got.status = "pending" /\ d.got.status # "pending" /\ c.got.dep = d.got.dep => c.at < d.at

\* Of the requests there is a last, by number and by reading.
Tops(G) ==
  \A T \in SUBSET G : T # {} => (\E c \in T : \A d \in T : d.nr <= c.nr) /\ (\E c \in T : \A d \in T : d.at <= c.at)

\* The page p of tab t shows what is so, unless the site has changed since ...
CardCurrent(t, p, ag, dr, o, ds) ==
  <<t, 0>> \notin ag /\ p.shown.is = "status" =>
    /\ Agrees(p.shown, dr, o) /\ DepIs(p.shown, ds, t) /\ p.shown.ahead = dr.ahead
    /\ p.followed > 0 /\ p.followed = Len(ds) => ds[p.followed] = "pending"

\* ... has told of deployments that have ended, of each once, and no answer under way saw one of them pending ...
SawPending(c, t, n) == c.tab = t /\ c.rows /\ c.got.status = "pending" /\ c.got.dep = n
ToldOnce(t, p, G) ==
  /\ \A n, m \in DOMAIN p.told : p.told[n] = p.told[m] => n = m
  /\ \A n \in DOMAIN p.told : p.told[n] # p.followed
  /\ \A n \in DOMAIN p.told, c \in G : ~SawPending(c, t, p.told[n])
ToldFits(t, p, G, ds, ov) ==
  /\ \A n \in DOMAIN p.told : p.told[n] \in 1..Len(ds) /\ ds[p.told[n]] # "pending"
  /\ t \in Homes => p.followed = 0
  /\ t \notin ov => ToldOnce(t, p, G)

\* ... and an answer that knows of the publish that was asked for here is on its way, if any may not know.
IsLate(c, t, n) == c.tab = t /\ c.rows /\ c.got.seen < n
InTime(c, t, n) == c.tab = t /\ c.kind = "status" /\ (c.rows => n <= c.got.seen)
AskedFits(t, p, G, o, ov) ==
  /\ p.asked <= Len(o)
  /\ p.kind = "card" => p.asked = 0
  /\ t \in Homes /\ t \notin ov =>
       \/ (p.shown.is = "status" => p.asked <= p.shown.seen) /\ \A c \in G : ~IsLate(c, t, p.asked)
       \/ \E c \in G : InTime(c, t, p.asked)

CardFits(t, p, G, ag, dr, o, ds, ov) ==
  CardCurrent(t, p, ag, dr, o, ds) /\ ToldFits(t, p, G, ds, ov) /\ AskedFits(t, p, G, o, ov)
GetFits(c, pg, ag, dr, o, ds) ==
  GetTyped(c, pg) /\ PressFits(c, o) /\ ReadFits(c, o, ds) /\ StillSo(c, ag, dr, o, ds)

PubInv ==
  /\ PubTyped /\ SiteFits(draft, pubs, deployed, crossedPubs, pageEdits)
  /\ \A c \in gets : GetFits(c, cards, aged, draft, pubs, deployed)
  /\ \A c, d \in gets : Pair(c, d)
  /\ Tops(gets)
  /\ \A t \in DOMAIN cards : CardFits(t, cards[t], gets, aged, draft, pubs, deployed, overtook)

LEMMA TabsGiven == Homes \cap Editors = {} /\ "elsewhere" \notin Homes \cup Editors
BY ProductAssumption DEF ProductAssumption

LEMMA BlankIs == P!Blank \in Sights /\ P!Blank.is = "checking" /\ P!Blank.seen = 0 /\ P!Blank.dep = 0
<1>1. FALSE \in BOOLEAN /\ 0 \in Nat
  OBVIOUS
<1> QED BY <1>1 DEF P!Blank, Sights

\* A request as it is made.
LEMMA NewIs ==
  ASSUME NEW t \in CardTabs, NEW kind \in {"status", "press"}, NEW nr \in Nat
  PROVE  LET c == P!New(t, kind, nr) IN
           /\ c \in Gets /\ c.tab = t /\ c.kind = kind /\ c.nr = nr /\ ~c.rows /\ c.at = 0 /\ c.pc = "sent" /\ c.saw = 0
<1>1. FALSE \in BOOLEAN /\ 0 \in Nat
  OBVIOUS
<1> QED BY <1>1, BlankIs DEF P!New, Gets

\* Sets of requests with a last one.
LEMMA TopLess == ASSUME NEW G, NEW U, Tops(G), U \subseteq G PROVE Tops(U)
BY DEF Tops

LEMMA TopMore == ASSUME NEW G \in SUBSET Gets, NEW d \in Gets, Tops(G) PROVE Tops(G \cup {d})
<1> SUFFICES ASSUME NEW T \in SUBSET (G \cup {d}), T # {}
             PROVE  (\E c \in T : \A e \in T : e.nr <= c.nr) /\ (\E c \in T : \A e \in T : e.at <= c.at)
  BY DEF Tops
<1>1. \A c \in Gets : c.nr \in Nat /\ c.at \in Nat
  BY DEF Gets
<1>2. CASE d \notin T
  <2>1. T \in SUBSET G
    BY <1>2
  <2> QED BY <2>1 DEF Tops
<1>3. CASE T = {d}
  BY <1>1, <1>3
<1>4. CASE d \in T /\ T # {d}
  <2> DEFINE U == T \ {d}
  <2>1. U \in SUBSET G /\ U # {} /\ T = U \cup {d} /\ U \subseteq Gets
    BY <1>4
  <2> HIDE DEF U
  <2>2. PICK a \in U : \A e \in U : e.nr <= a.nr
    BY <2>1 DEF Tops
  <2>3. PICK b \in U : \A e \in U : e.at <= b.at
    BY <2>1 DEF Tops
  <2>4. \E c \in T : \A e \in T : e.nr <= c.nr
    <3>1. CASE d.nr <= a.nr
      BY <2>1, <2>2, <3>1
    <3>2. CASE a.nr <= d.nr
      <4>1. \A e \in U : e.nr <= d.nr
        BY <1>1, <2>1, <2>2, <3>2
      <4>2. \A e \in T : e.nr <= d.nr
        BY <1>1, <2>1, <4>1
      <4> QED BY <1>4, <4>2
    <3> QED BY <1>1, <2>1, <2>2, <3>1, <3>2
  <2>5. \E c \in T : \A e \in T : e.at <= c.at
    <3>1. CASE d.at <= b.at
      BY <2>1, <2>3, <3>1
    <3>2. CASE b.at <= d.at
      <4>1. \A e \in U : e.at <= d.at
        BY <1>1, <2>1, <2>3, <3>2
      <4>2. \A e \in T : e.at <= d.at
        BY <1>1, <2>1, <4>1
      <4> QED BY <1>4, <4>2
    <3> QED BY <1>1, <2>1, <2>3, <3>1, <3>2
  <2> QED BY <2>4, <2>5
<1> QED BY <1>2, <1>3, <1>4

\* The number of the next request, and the turn of the next reading.
LEMMA NextNr ==
  ASSUME NEW T \in SUBSET Gets, Tops(T)
  PROVE  LET m == P!Max({0} \cup {c.nr : c \in T}) IN m \in Nat /\ \A c \in T : c.nr <= m
<1>1. \A c \in Gets : c.nr \in Nat
  BY DEF Gets
<1>2. \E m \in {0} \cup {c.nr : c \in T} : \A n \in {0} \cup {c.nr : c \in T} : m >= n
  <2>1. CASE T = {}
    BY <2>1
  <2>2. CASE T # {}
    <3>1. PICK c \in T : \A d \in T : d.nr <= c.nr
      BY <2>2 DEF Tops
    <3> QED BY <1>1, <3>1
  <2> QED BY <2>1, <2>2
<1> DEFINE N == {0} \cup {c.nr : c \in T}
<1>3. N \subseteq Nat /\ \A c \in T : c.nr \in N
  BY <1>1
<1>4. \E m \in N : \A n \in N : m >= n
  BY <1>2
<1> HIDE DEF N
<1>5. P!Max(N) \in N /\ \A n \in N : P!Max(N) >= n
  BY <1>4 DEF P!Max
<1>6. P!Max(N) \in Nat /\ \A c \in T : c.nr <= P!Max(N)
  BY <1>1, <1>3, <1>5
<1> QED BY <1>6 DEF N

LEMMA NextAt ==
  ASSUME NEW T \in SUBSET Gets, Tops(T), T # {}
  PROVE  LET m == P!Max({c.at : c \in T}) IN m \in Nat /\ \A c \in T : c.at <= m
<1>1. \A c \in Gets : c.at \in Nat
  BY DEF Gets
<1> DEFINE N == {c.at : c \in T}
<1>2. PICK c \in T : \A d \in T : d.at <= c.at
  BY DEF Tops
<1>3. N \subseteq Nat /\ \A d \in T : d.at \in N
  BY <1>1
<1>4. \E m \in N : \A n \in N : m >= n
  BY <1>1, <1>2
<1> HIDE DEF N
<1>5. P!Max(N) \in N /\ \A n \in N : P!Max(N) >= n
  BY <1>4 DEF P!Max
<1>6. P!Max(N) \in Nat /\ \A d \in T : d.at <= P!Max(N)
  BY <1>1, <1>3, <1>5
<1> QED BY <1>6 DEF N

LEMMA PubStarts == P!Init => PubInv
<1> SUFFICES ASSUME P!Init PROVE PubInv
  OBVIOUS
<1>0. PICK first \in Homes \cup Editors : \E look \in SUBSET (Homes \cap {first}) :
        cards = [t \in {first} |-> [kind |-> IF t \in Editors THEN "editor" ELSE IF t \in look THEN "card" ELSE "home",
                                  shown |-> P!Blank, followed |-> 0, told |-> <<>>, asked |-> 0]]
  BY Zenon DEF P!Init
<1>1. PICK look \in SUBSET (Homes \cap {first}) :
        cards = [t \in {first} |-> [kind |-> IF t \in Editors THEN "editor" ELSE IF t \in look THEN "card" ELSE "home",
                                  shown |-> P!Blank, followed |-> 0, told |-> <<>>, asked |-> 0]]
  BY <1>0, Zenon
<1>2. /\ draft = [ahead |-> 0, pending |-> FALSE] /\ pubs = <<>> /\ deployed = <<>>
      /\ gets = {P!New(t, "status", 1) : t \in DOMAIN cards} /\ pageEdits = 0
  BY DEF P!Init, P!OpenTabs
<1> DEFINE kind == IF first \in Editors THEN "editor" ELSE IF first \in look THEN "card" ELSE "home"
<1> DEFINE p == [kind |-> kind, shown |-> P!Blank, followed |-> 0, told |-> <<>>, asked |-> 0]
<1> DEFINE c == P!New(first, "status", 1)
<1>3. DOMAIN cards = {first} /\ cards[first] = p
  BY <1>1
<1>4. kind \in {"editor", "home", "card"}
  OBVIOUS
<1> HIDE DEF kind
<1>5. <<>> \in Seq(Nat) /\ <<>> \in Seq(Stages) /\ <<>> \in Seq(Builds) /\ FALSE \in BOOLEAN /\ 0 \in Nat
  OBVIOUS
<1>6. p \in Cards /\ p.shown = P!Blank /\ p.asked = 0 /\ p.told = <<>>
  BY <1>4, <1>5, BlankIs DEF Cards
<1> HIDE DEF p
<1>7. first \in CardTabs /\ 1 \in Nat
  BY DEF CardTabs
<1>8. c \in Gets /\ c.tab = first /\ c.kind = "status" /\ c.nr = 1 /\ ~c.rows /\ c.pc = "sent" /\ c.saw = 0
  BY <1>7, NewIs
<1>9. gets = {c}
  BY <1>2, <1>3
<1> HIDE DEF c
<1>10. draft \in Drafts /\ pubs \in Seq(Stages) /\ deployed \in Seq(Builds) /\ pageEdits \in Nat
  BY <1>2, <1>5 DEF Drafts
<1>11. PubTyped
  BY <1>1, <1>3, <1>6, <1>8, <1>9, <1>10 DEF PubTyped
<1>12. SiteFits(draft, pubs, deployed, crossedPubs, pageEdits)
  BY <1>2 DEF SiteFits, Moved, Unpushed, Owed
<1>13. GetFits(c, cards, aged, draft, pubs, deployed)
  BY <1>2, <1>3, <1>8 DEF GetFits, GetTyped, PressFits, ReadFits, StillSo
<1>14. Pair(c, c)
  BY <1>8 DEF Pair
<1>15. Tops(gets)
  <2>1. c.nr \in Nat /\ c.at \in Nat
    BY <1>8 DEF Gets
  <2>2. \A T \in SUBSET {c} : T # {} => T = {c}
    OBVIOUS
  <2> QED BY <1>9, <2>1, <2>2 DEF Tops
<1>16. CardFits(first, p, gets, aged, draft, pubs, deployed, overtook)
  <2>1. p.shown.is = "checking" /\ DOMAIN p.told = {}
    BY <1>6, BlankIs
  <2>5. p.followed = 0
    BY DEF p
  <2>2. CardCurrent(first, p, aged, draft, pubs, deployed) /\ ToldFits(first, p, gets, deployed, overtook)
    BY <2>1, <2>5 DEF CardCurrent, ToldFits, ToldOnce
  <2>3. InTime(c, first, p.asked)
    BY <1>8 DEF InTime
  <2>4. AskedFits(first, p, gets, pubs, overtook)
    <3>1. p.asked = 0 /\ p.asked <= Len(pubs)
      BY <1>2, <1>6
    <3>2. \E e \in gets : InTime(e, first, p.asked)
      BY <1>9, <2>3
    <3> QED BY <3>1, <3>2, Zenon DEF AskedFits
  <2> QED BY <2>2, <2>4 DEF CardFits
<1> QED BY <1>3, <1>9, <1>11, <1>12, <1>13, <1>14, <1>15, <1>16 DEF PubInv

-----------------------------------------------------------------------------
(* The site changes: whatever has been read is old then. *)

\* Publishes are added, and deployments end.
Grew(o, oo, ds, dds) ==
  /\ Len(o) <= Len(oo) /\ Len(ds) <= Len(dds)
  /\ \A i \in 1..Len(ds) : ds[i] # "pending" => dds[i] # "pending"

LEMMA GetAges ==
  ASSUME NEW c \in Gets, NEW pg, NEW ag, NEW bg, NEW dr, NEW er, NEW o \in Seq(Stages), NEW oo \in Seq(Stages),
         NEW ds \in Seq(Builds), NEW dds \in Seq(Builds), Grew(o, oo, ds, dds),
         Underway(oo) => Underway(o) \/ Len(o) < Len(oo),
         GetFits(c, pg, ag, dr, o, ds), c.rows => <<c.tab, c.nr>> \in bg
  PROVE  GetFits(c, pg, bg, er, oo, dds)
<1>1. /\ c.saw \in Nat /\ c.got \in Sights /\ Len(o) \in Nat /\ Len(oo) \in Nat /\ Len(ds) \in Nat /\ Len(dds) \in Nat
  BY DEF Gets
<1>2. c.got.seen \in Nat /\ c.got.dep \in Nat
  BY <1>1 DEF Sights
<1>3. PressFits(c, oo)
  BY <1>1 DEF GetFits, PressFits, Grew
<1>4. ReadFits(c, oo, dds)
  BY <1>1, <1>2 DEF GetFits, ReadFits, Grew
<1>5. GetTyped(c, pg) /\ StillSo(c, bg, er, oo, dds)
  BY DEF GetFits, StillSo
<1> QED BY <1>3, <1>4, <1>5 DEF GetFits

LEMMA CardAges ==
  ASSUME NEW t, NEW p \in Cards, NEW G, NEW U, NEW ag, NEW bg, NEW dr, NEW er, NEW o \in Seq(Stages), NEW oo \in Seq(Stages),
         NEW ds \in Seq(Builds), NEW dds \in Seq(Builds), NEW ov, Grew(o, oo, ds, dds),
         CardFits(t, p, G, ag, dr, o, ds, ov), <<t, 0>> \in bg,
         \A c \in U : c \in G \/ ~c.rows, \A c \in G : c \in U \/ c.kind # "status"
  PROVE  CardFits(t, p, U, bg, er, oo, dds, ov)
<1>1. CardCurrent(t, p, bg, er, oo, dds)
  BY DEF CardCurrent
<1>2. \A c \in U : c \in G \/ \A n : ~SawPending(c, t, n) /\ ~IsLate(c, t, n)
  BY DEF SawPending, IsLate
<1>3. \A n : \A c \in G : InTime(c, t, n) => c \in U
  BY DEF InTime
<1>4. Len(ds) \in Nat /\ Len(dds) \in Nat /\ Len(o) \in Nat /\ Len(oo) \in Nat /\ p.asked \in Nat
  BY DEF Cards
<1>5. ToldFits(t, p, U, dds, ov)
  <2>1. \A n \in DOMAIN p.told : p.told[n] \in 1..Len(dds) /\ dds[p.told[n]] # "pending"
    BY <1>4 DEF CardFits, ToldFits, Grew
  <2>2. ASSUME ToldOnce(t, p, G) PROVE ToldOnce(t, p, U)
    BY <1>2, <2>2 DEF ToldOnce
  <2>3. t \in Homes => p.followed = 0
    BY DEF CardFits, ToldFits
  <2> QED BY <2>1, <2>2, <2>3 DEF CardFits, ToldFits
<1>6. AskedFits(t, p, U, oo, ov)
  BY <1>2, <1>3, <1>4 DEF CardFits, AskedFits, Grew
<1> QED BY <1>1, <1>5, <1>6 DEF CardFits

LEMMA Alters ==
  ASSUME PubInv, draft' \in Drafts, pubs' \in Seq(Stages), deployed' \in Seq(Builds), pageEdits' \in Nat,
         SiteFits(draft', pubs', deployed', crossedPubs', pageEdits'), P!Changes, UNCHANGED <<cards, gets, overtook>>,
         Grew(pubs, pubs', deployed, deployed'), Underway(pubs') => Underway(pubs)
  PROVE  PubInv'
<1>1. PubTyped'
  BY DEF PubInv, PubTyped
<1>2. pubs \in Seq(Stages) /\ deployed \in Seq(Builds) /\ gets \subseteq Gets /\ \A t \in DOMAIN cards : cards[t] \in Cards
  BY DEF PubInv, PubTyped
<1>3. (\A t \in DOMAIN cards : <<t, 0>> \in aged') /\ \A c \in gets : c.rows => <<c.tab, c.nr>> \in aged'
  BY DEF P!Changes, P!OpenTabs
<1>4. ASSUME NEW c \in gets PROVE GetFits(c, cards, aged', draft', pubs', deployed')
  BY <1>2, <1>3, GetAges DEF PubInv
<1>5. ASSUME NEW t \in DOMAIN cards PROVE CardFits(t, cards[t], gets, aged', draft', pubs', deployed', overtook)
  BY <1>2, <1>3, CardAges DEF PubInv
<1>6. (\A c, d \in gets : Pair(c, d)) /\ Tops(gets)
  BY DEF PubInv
<1> QED BY <1>1, <1>4, <1>5, <1>6 DEF PubInv

\* The i-th publish becomes s.
LEMMA PubChanges ==
  ASSUME NEW o \in Seq(Stages), NEW i \in DOMAIN o, NEW s \in Stages
  PROVE  LET oo == [o EXCEPT ![i] = s] IN
           /\ oo \in Seq(Stages) /\ Len(oo) = Len(o) /\ DOMAIN oo = DOMAIN o /\ oo[i] = s
           /\ \A j \in DOMAIN o : j # i => oo[j] = o[j]
           /\ (o[i] \in P!Active /\ Underway(oo) => Underway(o))
<1> DEFINE oo == [o EXCEPT ![i] = s]
<1>1. oo \in Seq(Stages) /\ Len(oo) = Len(o) /\ DOMAIN oo = DOMAIN o /\ oo[i] = s /\ \A j \in DOMAIN o : j # i => oo[j] = o[j]
  OBVIOUS
<1> HIDE DEF oo
<1>2. o[i] \in P!Active /\ Underway(oo) => Underway(o)
  BY <1>1 DEF Underway
<1> QED BY <1>1, <1>2 DEF oo

LEMMA SiteIs ==
  ASSUME PubInv
  PROVE  /\ draft \in Drafts /\ pubs \in Seq(Stages) /\ deployed \in Seq(Builds) /\ pageEdits \in Nat
         /\ SiteFits(draft, pubs, deployed, crossedPubs, pageEdits) /\ draft.ahead \in Nat /\ Len(deployed) \in Nat
         /\ Unpushed(draft) \in {0, 1} /\ Owed(pubs) \in {0, 1}
BY DEF PubInv, PubTyped, Drafts, Unpushed, Owed

LEMMA GrewSame ==
  ASSUME NEW o \in Seq(Stages), NEW oo \in Seq(Stages), NEW ds \in Seq(Builds), Len(oo) = Len(o)
  PROVE  Grew(o, oo, ds, ds)
BY DEF Grew

LEMMA EditKeeps == ASSUME PubInv, P!Edit PROVE PubInv'
<1>1. /\ draft \in Drafts /\ pubs \in Seq(Stages) /\ deployed \in Seq(Builds) /\ pageEdits \in Nat
      /\ SiteFits(draft, pubs, deployed, crossedPubs, pageEdits) /\ draft.ahead \in Nat /\ Len(deployed) \in Nat
      /\ Unpushed(draft) \in {0, 1} /\ Owed(pubs) \in {0, 1}
  BY SiteIs
<1>2. /\ pubs' = pubs /\ deployed' = deployed /\ crossedPubs' = crossedPubs /\ pageEdits' = pageEdits + 1
      /\ P!Changes /\ cards' = cards /\ gets' = gets /\ overtook' = overtook
  BY DEF P!Edit, P!Alters
<1>3. \A i \in DOMAIN pubs : ~Works(pubs, i)
  BY DEF P!Edit, P!Working, P!Active, Works
<1>4. ASSUME NEW dr \in Drafts, draft' = dr, dr.ahead + Unpushed(dr) <= draft.ahead + Unpushed(draft) + 1
      PROVE  PubInv'
  <2>1. dr.ahead \in Nat /\ Unpushed(dr) \in {0, 1}
    BY DEF Drafts, Unpushed
  <2>2. SiteFits(draft', pubs', deployed', crossedPubs', pageEdits')
    <3>1. /\ \A i, j \in DOMAIN pubs : i < j /\ pubs[i] \in P!Active /\ pubs[j] \in P!Active => j \in crossedPubs
          /\ \A i, j \in DOMAIN pubs : Works(pubs, i) /\ Works(pubs, j) => i = j
          /\ Len(deployed) + draft.ahead + Unpushed(draft) + Owed(pubs) <= pageEdits
      BY <1>1 DEF SiteFits
    <3>2. \A i \in DOMAIN pubs : pubs[i] = "applying" => dr.ahead > 0
      BY <1>3 DEF Works
    <3>3. Len(deployed) + dr.ahead + Unpushed(dr) + Owed(pubs) <= pageEdits + 1
      <4>1. \A a, b, c, d, e, f, n \in Nat : a + b + c + d <= n /\ e + f <= b + c + 1 => a + e + f + d <= n + 1
        OBVIOUS
      <4>2. Unpushed(draft) \in Nat /\ Owed(pubs) \in Nat /\ Unpushed(dr) \in Nat
        BY <1>1, <2>1
      <4> HIDE DEF draft, pubs, deployed, pageEdits
      <4> QED BY <1>1, <1>4, <2>1, <3>1, <4>1, <4>2
    <3> QED BY <1>2, <1>4, <3>1, <3>2, <3>3 DEF SiteFits
  <2>3. Grew(pubs, pubs', deployed, deployed') /\ (Underway(pubs') => Underway(pubs))
    BY <1>1, <1>2, GrewSame
  <2> QED BY <1>1, <1>2, <1>4, <2>2, <2>3, Alters
<1>5. CASE draft' = [draft EXCEPT !.ahead = @ + 1]
  <2> DEFINE dr == [draft EXCEPT !.ahead = @ + 1]
  <2>1. dr \in Drafts /\ dr.ahead = draft.ahead + 1 /\ dr.pending = draft.pending
    BY <1>1 DEF Drafts
  <2>2. Unpushed(dr) = Unpushed(draft)
    BY <2>1 DEF Unpushed
  <2> HIDE DEF dr
  <2>3. draft' = dr
    BY <1>5 DEF dr
  <2> QED BY <1>1, <1>4, <2>1, <2>2, <2>3
<1>6. CASE draft' = [draft EXCEPT !.pending = TRUE]
  <2> DEFINE dr == [draft EXCEPT !.pending = TRUE]
  <2>1. dr \in Drafts /\ dr.ahead = draft.ahead
    BY <1>1 DEF Drafts
  <2>2. Unpushed(dr) \in {0, 1}
    BY DEF Unpushed
  <2> HIDE DEF dr
  <2>3. draft' = dr
    BY <1>6 DEF dr
  <2> QED BY <1>1, <1>4, <2>1, <2>2, <2>3
<1> QED BY <1>5, <1>6 DEF P!Edit

LEMMA StartsKeeps == ASSUME PubInv, NEW i \in DOMAIN pubs, P!Starts(i) PROVE PubInv'
<1>1. /\ draft \in Drafts /\ pubs \in Seq(Stages) /\ deployed \in Seq(Builds) /\ pageEdits \in Nat
      /\ SiteFits(draft, pubs, deployed, crossedPubs, pageEdits) /\ draft.ahead \in Nat /\ Len(deployed) \in Nat
      /\ Unpushed(draft) \in {0, 1} /\ Owed(pubs) \in {0, 1}
  BY SiteIs
<1> DEFINE ahead == IF draft.pending THEN draft.ahead + 1 ELSE draft.ahead
<1> DEFINE s == IF ahead = 0 THEN "ended" ELSE "applying"
<1>2. /\ draft' = [ahead |-> ahead, pending |-> FALSE] /\ pubs' = [pubs EXCEPT ![i] = s] /\ pubs[i] = "queued"
      /\ deployed' = deployed /\ crossedPubs' = crossedPubs /\ pageEdits' = pageEdits
      /\ P!Changes /\ cards' = cards /\ gets' = gets /\ overtook' = overtook
  BY DEF P!Starts, P!Alters, P!NothingNew
<1>3. \A j \in DOMAIN pubs : ~Works(pubs, j)
  BY DEF P!Starts, P!Working, P!Active, Works
<1>4. ahead = draft.ahead + Unpushed(draft) /\ ahead \in Nat
  BY <1>1 DEF Unpushed
<1>5. s \in Stages /\ (s = "applying" => ahead > 0) /\ s # "pushed"
  BY <1>4 DEF Stages
<1> HIDE DEF ahead, s
<1>6. draft' \in Drafts /\ draft'.ahead = ahead /\ Unpushed(draft') = 0
  BY <1>2, <1>4 DEF Drafts, Unpushed
<1>7. /\ pubs' \in Seq(Stages) /\ Len(pubs') = Len(pubs) /\ DOMAIN pubs' = DOMAIN pubs /\ pubs'[i] = s
      /\ \A j \in DOMAIN pubs : j # i => pubs'[j] = pubs[j]
      /\ Underway(pubs') => Underway(pubs)
  <2>1. pubs[i] \in P!Active
    BY <1>2 DEF P!Active
  <2> QED BY <1>1, <1>2, <1>5, <2>1, PubChanges
<1>8. SiteFits(draft', pubs', deployed', crossedPubs', pageEdits')
  <2>1. \A j \in DOMAIN pubs' : pubs'[j] \in P!Active => pubs[j] \in P!Active
    BY <1>2, <1>7 DEF P!Active
  <2>2. \A j, k \in DOMAIN pubs' : j < k /\ pubs'[j] \in P!Active /\ pubs'[k] \in P!Active => k \in crossedPubs'
    BY <1>1, <1>2, <1>7, <2>1 DEF SiteFits
  <2>3. \A j \in DOMAIN pubs' : Works(pubs', j) => j = i
    BY <1>3, <1>7 DEF Works
  <2>4. \A j \in DOMAIN pubs' : pubs'[j] = "applying" => draft'.ahead > 0
    BY <1>5, <1>6, <1>7, <2>3 DEF Works
  <2>5. ~Moved(pubs')
    BY <1>5, <1>7, <2>3 DEF Moved, Works
  <2>6. Len(deployed') + draft'.ahead + Unpushed(draft') + Owed(pubs') <= pageEdits'
    BY <1>1, <1>2, <1>4, <1>6, <2>5 DEF SiteFits, Owed
  <2> QED BY <2>2, <2>3, <2>4, <2>6 DEF SiteFits
<1>9. Grew(pubs, pubs', deployed, deployed')
  BY <1>1, <1>2, <1>7, GrewSame
<1> QED BY <1>1, <1>2, <1>6, <1>7, <1>8, <1>9, Alters

LEMMA StepKeeps == ASSUME PubInv, NEW i \in DOMAIN pubs, P!Step(i) PROVE PubInv'
<1>1. /\ draft \in Drafts /\ pubs \in Seq(Stages) /\ deployed \in Seq(Builds) /\ pageEdits \in Nat
      /\ SiteFits(draft, pubs, deployed, crossedPubs, pageEdits) /\ draft.ahead \in Nat /\ Len(deployed) \in Nat
      /\ Unpushed(draft) \in {0, 1} /\ Owed(pubs) \in {0, 1}
  BY SiteIs
<1>2. /\ crossedPubs' = crossedPubs /\ pageEdits' = pageEdits
      /\ P!Changes /\ cards' = cards /\ gets' = gets /\ overtook' = overtook
  BY DEF P!Step, P!Alters
<1>3. "pushed" \in Stages /\ "ended" \in Stages /\ "pending" \in Builds
  BY DEF Stages, Builds
<1>4. CASE pubs[i] = "applying" /\ pubs' = [pubs EXCEPT ![i] = "pushed"] /\ draft' = [draft EXCEPT !.ahead = 0] /\ deployed' = deployed
  <2>1. /\ pubs' \in Seq(Stages) /\ Len(pubs') = Len(pubs) /\ DOMAIN pubs' = DOMAIN pubs /\ pubs'[i] = "pushed"
        /\ \A j \in DOMAIN pubs : j # i => pubs'[j] = pubs[j]
        /\ Underway(pubs') => Underway(pubs)
    <3>1. pubs[i] \in P!Active
      BY <1>4 DEF P!Active
    <3>2. /\ pubs' \in Seq(Stages) /\ Len(pubs') = Len(pubs) /\ DOMAIN pubs' = DOMAIN pubs /\ pubs'[i] = "pushed"
          /\ \A j \in DOMAIN pubs : j # i => pubs'[j] = pubs[j]
      BY <1>1, <1>3, <1>4
    <3>3. Underway(pubs') => Underway(pubs)
      BY <3>1, <3>2 DEF Underway
    <3> QED BY <3>2, <3>3
  <2>2. draft' \in Drafts /\ draft'.ahead = 0 /\ draft'.pending = draft.pending
    BY <1>1, <1>4 DEF Drafts
  <2>3. Unpushed(draft') = Unpushed(draft)
    BY <2>2 DEF Unpushed
  <2>4. \A j \in DOMAIN pubs : Works(pubs, j) => j = i
    BY <1>1, <1>4 DEF SiteFits, Works
  <2>5. SiteFits(draft', pubs', deployed', crossedPubs', pageEdits')
    <3>1. \A j \in DOMAIN pubs' : pubs'[j] \in P!Active => pubs[j] \in P!Active
      BY <1>4, <2>1 DEF P!Active
    <3>2. \A j, k \in DOMAIN pubs' : j < k /\ pubs'[j] \in P!Active /\ pubs'[k] \in P!Active => k \in crossedPubs'
      BY <1>1, <1>2, <2>1, <3>1 DEF SiteFits
    <3>3. \A j \in DOMAIN pubs' : Works(pubs', j) => j = i
      BY <2>1, <2>4 DEF Works
    <3>4. \A j \in DOMAIN pubs' : pubs'[j] # "applying"
      BY <2>1, <3>3 DEF Works
    <3>5. ~Moved(pubs)
      BY <1>4, <2>4 DEF Moved, Works
    <3>6. draft.ahead > 0 /\ Owed(pubs') \in {0, 1} /\ Owed(pubs) = 0
      BY <1>1, <1>4, <3>5 DEF SiteFits, Owed
    <3>7. Len(deployed') + draft'.ahead + Unpushed(draft') + Owed(pubs') <= pageEdits'
      BY <1>1, <1>2, <1>4, <2>2, <2>3, <3>6 DEF SiteFits
    <3> QED BY <3>2, <3>3, <3>4, <3>7 DEF SiteFits
  <2>6. Grew(pubs, pubs', deployed, deployed')
    BY <1>1, <1>4, <2>1, GrewSame
  <2> QED BY <1>1, <1>2, <1>4, <2>1, <2>2, <2>5, <2>6, Alters
<1>5. CASE pubs[i] = "pushed" /\ pubs' = [pubs EXCEPT ![i] = "ended"] /\ deployed' = Append(deployed, "pending") /\ draft' = draft
  <2>1. /\ pubs' \in Seq(Stages) /\ Len(pubs') = Len(pubs) /\ DOMAIN pubs' = DOMAIN pubs /\ pubs'[i] = "ended"
        /\ \A j \in DOMAIN pubs : j # i => pubs'[j] = pubs[j]
        /\ Underway(pubs') => Underway(pubs)
    <3>1. pubs[i] \in P!Active
      BY <1>5 DEF P!Active
    <3>2. /\ pubs' \in Seq(Stages) /\ Len(pubs') = Len(pubs) /\ DOMAIN pubs' = DOMAIN pubs /\ pubs'[i] = "ended"
          /\ \A j \in DOMAIN pubs : j # i => pubs'[j] = pubs[j]
      BY <1>1, <1>3, <1>5
    <3>3. Underway(pubs') => Underway(pubs)
      BY <3>1, <3>2 DEF Underway
    <3> QED BY <3>2, <3>3
  <2>2. \A j \in DOMAIN pubs : Works(pubs, j) => j = i
    BY <1>1, <1>5 DEF SiteFits, Works
  <2>3. deployed' \in Seq(Builds) /\ Len(deployed') = Len(deployed) + 1 /\ \A j \in 1..Len(deployed) : deployed'[j] = deployed[j]
    BY <1>1, <1>3, <1>5
  <2>4. SiteFits(draft', pubs', deployed', crossedPubs', pageEdits')
    <3>1. \A j \in DOMAIN pubs' : pubs'[j] \in P!Active => pubs[j] \in P!Active
      BY <1>5, <2>1 DEF P!Active
    <3>2. \A j, k \in DOMAIN pubs' : j < k /\ pubs'[j] \in P!Active /\ pubs'[k] \in P!Active => k \in crossedPubs'
      BY <1>1, <1>2, <2>1, <3>1 DEF SiteFits
    <3>3. \A j \in DOMAIN pubs' : ~Works(pubs', j)
      BY <2>1, <2>2 DEF Works
    <3>4. Owed(pubs') = 0 /\ Owed(pubs) = 1
      BY <1>5, <3>3 DEF Owed, Moved, Works
    <3>5. Len(deployed') + draft'.ahead + Unpushed(draft') + Owed(pubs') <= pageEdits'
      BY <1>1, <1>2, <1>5, <2>3, <3>4 DEF SiteFits
    <3>6. \A j \in DOMAIN pubs' : pubs'[j] # "applying"
      BY <3>3 DEF Works
    <3> QED BY <3>2, <3>3, <3>5, <3>6 DEF SiteFits
  <2>5. Grew(pubs, pubs', deployed, deployed')
    BY <1>1, <2>1, <2>3 DEF Grew
  <2> QED BY <1>1, <1>2, <1>5, <2>1, <2>3, <2>4, <2>5, Alters
<1> QED BY <1>4, <1>5 DEF P!Step

LEMMA FailsKeeps == ASSUME PubInv, NEW i \in DOMAIN pubs, P!Fails(i) PROVE PubInv'
<1>1. /\ draft \in Drafts /\ pubs \in Seq(Stages) /\ deployed \in Seq(Builds) /\ pageEdits \in Nat
      /\ SiteFits(draft, pubs, deployed, crossedPubs, pageEdits) /\ draft.ahead \in Nat /\ Len(deployed) \in Nat
      /\ Unpushed(draft) \in {0, 1} /\ Owed(pubs) \in {0, 1}
  BY SiteIs
<1>2. /\ pubs[i] \in {"queued", "applying"} /\ pubs' = [pubs EXCEPT ![i] = "ended"] /\ draft' = draft /\ deployed' = deployed
      /\ crossedPubs' = crossedPubs /\ pageEdits' = pageEdits
      /\ P!Changes /\ cards' = cards /\ gets' = gets /\ overtook' = overtook
  BY DEF P!Fails, P!Alters
<1>3. /\ pubs' \in Seq(Stages) /\ Len(pubs') = Len(pubs) /\ DOMAIN pubs' = DOMAIN pubs /\ pubs'[i] = "ended"
      /\ \A j \in DOMAIN pubs : j # i => pubs'[j] = pubs[j]
      /\ Underway(pubs') => Underway(pubs)
  <2>1. pubs[i] \in P!Active /\ "ended" \in Stages
    BY <1>2 DEF P!Active, Stages
  <2>2. /\ pubs' \in Seq(Stages) /\ Len(pubs') = Len(pubs) /\ DOMAIN pubs' = DOMAIN pubs /\ pubs'[i] = "ended"
        /\ \A j \in DOMAIN pubs : j # i => pubs'[j] = pubs[j]
    BY <1>1, <1>2, <2>1
  <2>3. Underway(pubs') => Underway(pubs)
    BY <2>1, <2>2 DEF Underway
  <2> QED BY <2>2, <2>3
<1>4. SiteFits(draft', pubs', deployed', crossedPubs', pageEdits')
  <2>1. \A j \in DOMAIN pubs' : pubs'[j] = pubs[j] \/ pubs'[j] = "ended"
    BY <1>3
  <2>2. \A j \in DOMAIN pubs' : (pubs'[j] \in P!Active => pubs[j] \in P!Active) /\ (Works(pubs', j) => Works(pubs, j))
    BY <2>1 DEF P!Active, Works
  <2>3. Owed(pubs') <= Owed(pubs) /\ Owed(pubs') \in {0, 1}
    BY <1>3, <2>1 DEF Owed, Moved
  <2>4. \A j, k \in DOMAIN pubs' : j < k /\ pubs'[j] \in P!Active /\ pubs'[k] \in P!Active => k \in crossedPubs'
    BY <1>1, <1>2, <1>3, <2>2 DEF SiteFits
  <2>5. \A j, k \in DOMAIN pubs' : Works(pubs', j) /\ Works(pubs', k) => j = k
    BY <1>1, <1>3, <2>2 DEF SiteFits
  <2>6. \A j \in DOMAIN pubs' : pubs'[j] = "applying" => draft'.ahead > 0
    BY <1>1, <1>2, <1>3, <2>1 DEF SiteFits
  <2>7. Len(deployed') + draft'.ahead + Unpushed(draft') + Owed(pubs') <= pageEdits'
    BY <1>1, <1>2, <2>3 DEF SiteFits
  <2> QED BY <2>4, <2>5, <2>6, <2>7 DEF SiteFits
<1>5. Grew(pubs, pubs', deployed, deployed')
  BY <1>1, <1>2, <1>3, GrewSame
<1> QED BY <1>1, <1>2, <1>3, <1>4, <1>5, Alters

LEMMA DeploysKeeps == ASSUME PubInv, NEW d \in DOMAIN deployed, P!Deploys(d) PROVE PubInv'
<1>1. /\ draft \in Drafts /\ pubs \in Seq(Stages) /\ deployed \in Seq(Builds) /\ pageEdits \in Nat
      /\ SiteFits(draft, pubs, deployed, crossedPubs, pageEdits) /\ draft.ahead \in Nat /\ Len(deployed) \in Nat
  BY SiteIs
<1>2. /\ draft' = draft /\ pubs' = pubs /\ crossedPubs' = crossedPubs /\ pageEdits' = pageEdits
      /\ P!Changes /\ cards' = cards /\ gets' = gets /\ overtook' = overtook
  BY DEF P!Deploys, P!Alters
<1>3. ASSUME NEW s \in Builds, s # "pending", deployed' = [deployed EXCEPT ![d] = s] PROVE PubInv'
  <2>1. deployed' \in Seq(Builds) /\ Len(deployed') = Len(deployed)
    BY <1>1, <1>3
  <2>2. \A i \in 1..Len(deployed) : deployed[i] # "pending" => deployed'[i] # "pending"
    BY <1>1, <1>3
  <2>3. SiteFits(draft', pubs', deployed', crossedPubs', pageEdits')
    BY <1>1, <1>2, <2>1 DEF SiteFits
  <2>4. Grew(pubs, pubs', deployed, deployed') /\ (Underway(pubs') => Underway(pubs))
    BY <1>1, <1>2, <2>1, <2>2 DEF Grew
  <2> QED BY <1>1, <1>2, <2>1, <2>3, <2>4, Alters
<1>4. "ready" \in Builds /\ "failed" \in Builds
  BY DEF Builds
<1>5. CASE deployed' = [deployed EXCEPT ![d] = "ready"]
  BY <1>3, <1>4, <1>5
<1>6. CASE deployed' = [deployed EXCEPT ![d] = "failed"]
  BY <1>3, <1>4, <1>6
<1> QED BY <1>5, <1>6 DEF P!Deploys

-----------------------------------------------------------------------------
(* Requests come, are read and go, and the site stays. *)

LEMMA GetIs ==
  ASSUME PubInv, NEW c \in gets
  PROVE  /\ c \in Gets /\ c.nr \in Nat /\ c.at \in Nat /\ c.saw \in Nat /\ c.got \in Sights /\ c.got.seen \in Nat /\ c.got.dep \in Nat
         /\ GetFits(c, cards, aged, draft, pubs, deployed)
         /\ DOMAIN cards \subseteq Homes \cup Editors /\ (c.kind = "status" => c.tab \in DOMAIN cards)
BY DEF PubInv, PubTyped, Gets, Sights, GetFits, GetTyped

LEMMA CardGets ==
  ASSUME NEW t, NEW p \in Cards, NEW G, NEW U, NEW ag, NEW dr, NEW o, NEW ds, NEW ov, CardFits(t, p, G, ag, dr, o, ds, ov),
         \A n \in DOMAIN p.told, c \in U : SawPending(c, t, p.told[n]) => c \in G,
         t \in Homes => \A c \in U : IsLate(c, t, p.asked) => c \in G,
         t \in Homes /\ (\E c \in G : InTime(c, t, p.asked)) => \E c \in U : InTime(c, t, p.asked)
  PROVE  CardFits(t, p, U, ag, dr, o, ds, ov)
<1>1. ToldOnce(t, p, G) => ToldOnce(t, p, U)
  BY DEF ToldOnce
<1>2. ToldFits(t, p, U, ds, ov)
  BY <1>1 DEF CardFits, ToldFits
<1>3. AskedFits(t, p, U, o, ov)
  BY DEF CardFits, AskedFits
<1> QED BY <1>2, <1>3 DEF CardFits

\* Some requests are left, G, and there is d.
LEMMA OneGet ==
  ASSUME PubInv, NEW G \in SUBSET gets, NEW d \in Gets, gets' = G \cup {d},
         UNCHANGED <<draft, pubs, deployed, cards, pageEdits, crossedPubs, aged, overtook>>,
         GetFits(d, cards, aged, draft, pubs, deployed), \A e \in G : Pair(d, e) /\ Pair(e, d), Pair(d, d),
         \A t \in DOMAIN cards : CardFits(t, cards[t], gets', aged, draft, pubs, deployed, overtook)
  PROVE  PubInv'
<1>1. PubTyped'
  BY DEF PubInv, PubTyped
<1>2. gets \subseteq Gets /\ Tops(G)
  BY TopLess DEF PubInv, PubTyped
<1>3. Tops(gets')
  BY <1>2, TopMore
<1>4. \A c \in gets' : GetFits(c, cards, aged, draft, pubs, deployed)
  BY DEF PubInv
<1>5. \A c, e \in gets' : Pair(c, e)
  BY DEF PubInv
<1>6. SiteFits(draft, pubs, deployed, crossedPubs, pageEdits)
  BY DEF PubInv
<1> QED BY <1>1, <1>3, <1>4, <1>5, <1>6 DEF PubInv

\* A request as it is made, of an open page or elsewhere, has a number of its own.
LEMMA RequestIs ==
  ASSUME PubInv, NEW t \in Homes \cup Editors, NEW kind \in {"status", "press"}
  PROVE  LET d == P!Request(t, kind) IN
           /\ d \in Gets /\ d.tab = t /\ d.kind = kind /\ 0 < d.nr /\ ~d.rows /\ d.pc = "sent" /\ d.saw = 0
           /\ \A e \in gets : e.tab = t => e.nr < d.nr
<1> DEFINE T == {d \in gets : d.tab = t}
<1> DEFINE m == P!Max({0} \cup {c.nr : c \in T})
<1>1. T \in SUBSET Gets /\ Tops(T)
  BY TopLess DEF PubInv, PubTyped
<1>2. \A e \in gets : (e.tab = t <=> e \in T) /\ e.nr \in Nat
  BY GetIs
<1>3. P!Request(t, kind) = P!New(t, kind, 1 + m)
  BY DEF P!Request
<1> HIDE DEF T
<1>4. m \in Nat /\ \A c \in T : c.nr <= m
  BY <1>1, NextNr
<1> HIDE DEF m
<1>5. 1 + m \in Nat /\ t \in CardTabs
  BY <1>4 DEF CardTabs
<1> DEFINE d == P!New(t, kind, 1 + m)
<1>6. d \in Gets /\ d.tab = t /\ d.kind = kind /\ d.nr = 1 + m /\ ~d.rows /\ d.pc = "sent" /\ d.saw = 0
  BY <1>5, NewIs
<1> HIDE DEF d
<1>7. 0 < d.nr /\ \A e \in gets : e.tab = t => e.nr < d.nr
  BY <1>2, <1>4, <1>6
<1>8. P!Request(t, kind) = d
  BY <1>3 DEF d
<1> QED BY <1>6, <1>7, <1>8

\* A request that has read nothing does not disturb the others.
LEMMA UnreadPairs ==
  ASSUME NEW c, NEW d, ~d.rows, c.tab = d.tab /\ c.nr = d.nr => c = d
  PROVE  Pair(c, d) /\ Pair(d, c)
BY DEF Pair

LEMMA Asked2 ==
  ASSUME PubInv, NEW t \in DOMAIN cards, NEW d \in Gets, d.tab = t, ~d.rows, d.pc = "sent", d.saw = 0, 0 < d.nr,
         cards[t].kind = "card" => d.kind = "status", \A e \in gets : e.tab = t => e.nr < d.nr, gets' = gets \cup {d},
         UNCHANGED <<draft, pubs, deployed, cards, pageEdits, crossedPubs, aged, overtook>>
  PROVE  PubInv'
<1>1. Len(pubs) \in Nat /\ \A u \in DOMAIN cards : cards[u] \in Cards
  BY DEF PubInv, PubTyped
<1>2. GetFits(d, cards, aged, draft, pubs, deployed)
  BY <1>1 DEF GetFits, GetTyped, PressFits, ReadFits, StillSo
<1>3. \A e \in gets : Pair(d, e) /\ Pair(e, d)
  <2> SUFFICES ASSUME NEW e \in gets PROVE Pair(d, e) /\ Pair(e, d)
    OBVIOUS
  <2>1. e.nr \in Nat /\ d.nr \in Nat
    BY GetIs DEF Gets
  <2>2. ~(e.tab = d.tab /\ e.nr = d.nr)
    BY <2>1
  <2> QED BY <2>2, UnreadPairs
<1>4. Pair(d, d)
  BY UnreadPairs
<1>5. ASSUME NEW u \in DOMAIN cards PROVE CardFits(u, cards[u], gets', aged, draft, pubs, deployed, overtook)
  <2>1. \A n : ~SawPending(d, u, n) /\ ~IsLate(d, u, n)
    BY DEF SawPending, IsLate
  <2>2. CardFits(u, cards[u], gets, aged, draft, pubs, deployed, overtook)
    BY DEF PubInv
  <2> QED BY <1>1, <2>1, <2>2, CardGets
<1>6. gets \in SUBSET gets
  OBVIOUS
<1> QED BY <1>2, <1>3, <1>4, <1>5, <1>6, OneGet

LEMMA PollKeeps == ASSUME PubInv, NEW t \in DOMAIN cards, P!Poll(t) \/ P!Press(t) PROVE PubInv'
<1>1. t \in Homes \cup Editors /\ UNCHANGED <<draft, pubs, deployed, cards, pageEdits, crossedPubs, aged, overtook>>
  BY DEF PubInv, PubTyped, P!Poll, P!Press, P!server, P!history
<1>2. CASE P!Poll(t)
  <2> DEFINE d == P!Request(t, "status")
  <2>1. gets' = gets \cup {d}
    BY <1>2 DEF P!Poll
  <2>2. /\ d \in Gets /\ d.tab = t /\ d.kind = "status" /\ 0 < d.nr /\ ~d.rows /\ d.pc = "sent" /\ d.saw = 0
        /\ \A e \in gets : e.tab = t => e.nr < d.nr
    BY <1>1, RequestIs
  <2> HIDE DEF d
  <2> QED BY <1>1, <2>1, <2>2, Asked2
<1>3. CASE P!Press(t)
  <2> DEFINE d == P!Request(t, "press")
  <2>1. gets' = gets \cup {d} /\ cards[t].kind # "card"
    BY <1>3 DEF P!Press, P!Button
  <2>2. /\ d \in Gets /\ d.tab = t /\ d.kind = "press" /\ 0 < d.nr /\ ~d.rows /\ d.pc = "sent" /\ d.saw = 0
        /\ \A e \in gets : e.tab = t => e.nr < d.nr
    BY <1>1, RequestIs
  <2> HIDE DEF d
  <2> QED BY <1>1, <2>1, <2>2, Asked2
<1> QED BY <1>2, <1>3

LEMMA PressElsewhereKeeps == ASSUME PubInv, P!PressElsewhere PROVE PubInv'
<1> DEFINE d == P!New("elsewhere", "press", 0)
<1>1. /\ gets' = gets \cup {d} /\ P!Of("elsewhere", "press") = {}
      /\ UNCHANGED <<draft, pubs, deployed, cards, pageEdits, crossedPubs, aged, overtook>>
  BY DEF P!PressElsewhere, P!server, P!history
<1>2. d \in Gets /\ d.tab = "elsewhere" /\ d.kind = "press" /\ ~d.rows /\ d.pc = "sent" /\ d.saw = 0
  BY NewIs DEF CardTabs
<1> HIDE DEF d
<1>3. "elsewhere" \notin DOMAIN cards /\ Len(pubs) \in Nat /\ \A u \in DOMAIN cards : cards[u] \in Cards
  BY TabsGiven DEF PubInv, PubTyped
<1>4. GetFits(d, cards, aged, draft, pubs, deployed)
  BY <1>2, <1>3 DEF GetFits, GetTyped, PressFits, ReadFits, StillSo
<1>5. ASSUME NEW e \in gets PROVE Pair(d, e) /\ Pair(e, d)
  <2>1. e.tab # "elsewhere"
    <3>1. e \notin P!Of("elsewhere", "press") /\ e.kind \in {"status", "press"}
      BY <1>1, GetIs DEF Gets
    <3>2. e.kind = "status" => e.tab \in DOMAIN cards
      BY GetIs
    <3> QED BY <1>3, <3>1, <3>2 DEF P!Of
  <2> QED BY <1>2, <2>1, UnreadPairs
<1>6. Pair(d, d)
  BY <1>2, UnreadPairs
<1>7. ASSUME NEW u \in DOMAIN cards PROVE CardFits(u, cards[u], gets', aged, draft, pubs, deployed, overtook)
  <2>1. \A n : ~SawPending(d, u, n) /\ ~IsLate(d, u, n)
    BY <1>2 DEF SawPending, IsLate
  <2>2. CardFits(u, cards[u], gets, aged, draft, pubs, deployed, overtook)
    BY DEF PubInv
  <2> QED BY <1>1, <1>3, <2>1, <2>2, CardGets
<1>8. gets \in SUBSET gets
  OBVIOUS
<1> QED BY <1>1, <1>2, <1>4, <1>5, <1>6, <1>7, <1>8, OneGet

LEMMA UnderwayIs == P!Publishing = Underway(pubs)
BY DEF P!Publishing, Underway

\* A press is not late, and nothing is learned by waiting for it.
LEMMA PressSees == ASSUME NEW c, c.kind = "press", ~c.rows, NEW t, NEW n PROVE ~SawPending(c, t, n) /\ ~IsLate(c, t, n) /\ ~InTime(c, t, n)
BY DEF SawPending, IsLate, InTime

LEMMA FindKeeps == ASSUME PubInv, NEW c \in gets, P!Find(c) PROVE PubInv'
<1> DEFINE pc == IF P!Publishing THEN "done" ELSE "absent"
<1> DEFINE d == [c EXCEPT !.pc = pc, !.saw = Len(pubs)]
<1> DEFINE G == gets \ {c}
<1>1. /\ gets' = G \cup {d} /\ c.kind = "press"
      /\ UNCHANGED <<draft, pubs, deployed, cards, pageEdits, crossedPubs, aged, overtook>>
  BY DEF P!Find, P!Progresses, P!server, P!history
<1>2. c \in Gets /\ c.nr \in Nat /\ GetFits(c, cards, aged, draft, pubs, deployed) /\ ~c.rows
  BY <1>1, GetIs DEF GetFits, GetTyped
<1>3. pc \in {"done", "absent"} /\ (pc = "absent" => ~Underway(pubs)) /\ Len(pubs) \in Nat /\ \A u \in DOMAIN cards : cards[u] \in Cards
  BY DEF P!Publishing, Underway, PubInv, PubTyped
<1> HIDE DEF pc
<1>4. d \in Gets /\ d.tab = c.tab /\ d.kind = "press" /\ d.nr = c.nr /\ ~d.rows /\ d.pc = pc /\ d.saw = Len(pubs)
  BY <1>1, <1>2, <1>3 DEF Gets
<1> HIDE DEF d
<1>5. GetFits(d, cards, aged, draft, pubs, deployed)
  <2>1. GetTyped(d, cards)
    BY <1>1, <1>2, <1>4 DEF GetFits, GetTyped
  <2>2. PressFits(d, pubs)
    BY <1>3, <1>4 DEF PressFits
  <2>3. ReadFits(d, pubs, deployed) /\ StillSo(d, aged, draft, pubs, deployed)
    BY <1>4 DEF ReadFits, StillSo
  <2> QED BY <2>1, <2>2, <2>3 DEF GetFits
<1>6. ASSUME NEW e \in G PROVE Pair(d, e) /\ Pair(e, d)
  <2>1. ~(e.tab = d.tab /\ e.nr = d.nr)
    BY <1>4 DEF PubInv, Pair
  <2> QED BY <1>4, <2>1, UnreadPairs
<1>7. Pair(d, d)
  BY <1>4, UnreadPairs
<1>8. ASSUME NEW u \in DOMAIN cards PROVE CardFits(u, cards[u], gets', aged, draft, pubs, deployed, overtook)
  <2>1. \A n : ~SawPending(d, u, n) /\ ~IsLate(d, u, n) /\ ~InTime(c, u, n)
    BY <1>1, <1>2, <1>4, PressSees
  <2>2. CardFits(u, cards[u], gets, aged, draft, pubs, deployed, overtook)
    BY DEF PubInv
  <2> QED BY <1>1, <1>3, <2>1, <2>2, CardGets
<1>9. G \in SUBSET gets
  OBVIOUS
<1> HIDE DEF G
<1> QED BY <1>1, <1>4, <1>5, <1>6, <1>7, <1>8, <1>9, OneGet

\* The request c is taken for d, which has its number, and has read what c had.
LEMMA Becomes ==
  ASSUME PubInv, NEW c \in gets, NEW d, d.tab = c.tab, d.nr = c.nr, ~d.rows, NEW e \in gets \ {c}
  PROVE  Pair(d, e) /\ Pair(e, d)
<1>1. ~(e.tab = d.tab /\ e.nr = d.nr)
  BY DEF PubInv, Pair
<1> QED BY <1>1, UnreadPairs

LEMMA EnqueueKeeps == ASSUME PubInv, NEW c \in gets, P!Enqueue(c) PROVE PubInv'
<1> DEFINE d == [c EXCEPT !.pc = "done", !.saw = Len(pubs) + 1]
<1> DEFINE G == gets \ {c}
<1>1. /\ gets' = G \cup {d} /\ c.pc = "absent" /\ pubs' = Append(pubs, "queued")
      /\ crossedPubs' = IF c.saw = Len(pubs) THEN crossedPubs ELSE crossedPubs \cup {Len(pubs) + 1}
      /\ P!Changes /\ UNCHANGED <<draft, deployed, cards, pageEdits, overtook>>
  BY DEF P!Enqueue
<1>2. c \in Gets /\ c.nr \in Nat /\ GetFits(c, cards, aged, draft, pubs, deployed) /\ c.kind = "press" /\ ~c.rows
  BY <1>1, GetIs DEF GetFits, GetTyped
<1>3. /\ Len(pubs) \in Nat /\ pubs \in Seq(Stages) /\ deployed \in Seq(Builds) /\ gets \subseteq Gets
      /\ \A u \in DOMAIN cards : cards[u] \in Cards
  BY DEF PubInv, PubTyped
<1>4. d \in Gets /\ d.tab = c.tab /\ d.kind = "press" /\ d.nr = c.nr /\ ~d.rows /\ d.pc = "done" /\ d.saw = Len(pubs) + 1
  <2>1. Len(pubs) + 1 \in Nat /\ "done" \in {"sent", "absent", "done"}
    BY <1>3
  <2> QED BY <1>2, <2>1 DEF Gets
<1> HIDE DEF d
<1>5. pubs' \in Seq(Stages) /\ Len(pubs') = Len(pubs) + 1 /\ pubs'[Len(pubs) + 1] = "queued" /\ \A i \in 1..Len(pubs) : pubs'[i] = pubs[i]
  BY <1>1, <1>3 DEF Stages
<1>6. (\A t \in DOMAIN cards : <<t, 0>> \in aged') /\ \A e \in gets : e.rows => <<e.tab, e.nr>> \in aged'
  BY <1>1 DEF P!Changes, P!OpenTabs
<1>7. Grew(pubs, pubs', deployed, deployed')
  BY <1>1, <1>3, <1>5 DEF Grew
<1>8. GetFits(d, cards, aged', draft', pubs', deployed')
  <2>1. GetTyped(d, cards)
    BY <1>1, <1>2, <1>4 DEF GetFits, GetTyped
  <2>2. PressFits(d, pubs')
    BY <1>3, <1>4, <1>5 DEF PressFits
  <2>3. ReadFits(d, pubs', deployed') /\ StillSo(d, aged', draft', pubs', deployed')
    BY <1>4 DEF ReadFits, StillSo
  <2> QED BY <2>1, <2>2, <2>3 DEF GetFits
<1>9. ASSUME NEW e \in G PROVE GetFits(e, cards, aged', draft', pubs', deployed')
  <2>1. e \in Gets /\ GetFits(e, cards, aged, draft, pubs, deployed) /\ (e.rows => <<e.tab, e.nr>> \in aged')
    BY <1>6, GetIs
  <2>2. Underway(pubs') => Underway(pubs) \/ Len(pubs) < Len(pubs')
    BY <1>3, <1>5
  <2>3. deployed' \in Seq(Builds)
    BY <1>1, <1>3
  <2> HIDE DEF G
  <2> QED BY <1>3, <1>5, <1>7, <2>1, <2>2, <2>3, GetAges
<1>10. ASSUME NEW e \in G PROVE Pair(d, e) /\ Pair(e, d)
  BY <1>4, Becomes
<1>11. Pair(d, d)
  BY <1>4, UnreadPairs
<1>12. ASSUME NEW u \in DOMAIN cards PROVE CardFits(u, cards[u], gets', aged', draft', pubs', deployed', overtook)
  <2>1. CardFits(u, cards[u], gets, aged, draft, pubs, deployed, overtook)
    BY DEF PubInv
  <2>2. \A e \in gets' : e \in gets \/ ~e.rows
    BY <1>1, <1>4
  <2>3. \A e \in gets : e \in gets' \/ e.kind # "status"
    BY <1>1, <1>2
  <2>4. deployed' \in Seq(Builds) /\ <<u, 0>> \in aged'
    BY <1>1, <1>3, <1>6
  <2> QED BY <1>3, <1>5, <1>7, <2>1, <2>2, <2>3, <2>4, CardAges
<1>13. SiteFits(draft', pubs', deployed', crossedPubs', pageEdits')
  <2>1. SiteFits(draft, pubs, deployed, crossedPubs, pageEdits) /\ PressFits(c, pubs)
    BY <1>2 DEF PubInv, GetFits
  <2>2. DOMAIN pubs = 1..Len(pubs) /\ DOMAIN pubs' = 1..(Len(pubs) + 1)
    BY <1>3, <1>5
  <2>3. \A i \in DOMAIN pubs' : (i \in DOMAIN pubs /\ pubs'[i] = pubs[i]) \/ (i = Len(pubs) + 1 /\ pubs'[i] = "queued")
    BY <1>3, <1>5, <2>2
  <2>4. \A i \in DOMAIN pubs' : pubs'[i] = "applying" \/ pubs'[i] = "pushed" => i \in DOMAIN pubs /\ pubs'[i] = pubs[i]
    BY <2>3
  <2>5. \A i, j \in DOMAIN pubs' : i < j /\ pubs'[i] \in P!Active /\ pubs'[j] \in P!Active => j \in crossedPubs'
    <3> SUFFICES ASSUME NEW i \in DOMAIN pubs', NEW j \in DOMAIN pubs', i < j, pubs'[i] \in P!Active, pubs'[j] \in P!Active
                 PROVE  j \in crossedPubs'
      OBVIOUS
    <3>1. i \in DOMAIN pubs /\ pubs'[i] = pubs[i]
      BY <1>3, <2>2, <2>3
    <3>2. CASE j \in DOMAIN pubs
      BY <1>1, <1>3, <2>1, <2>2, <2>3, <3>1, <3>2 DEF SiteFits
    <3>3. CASE j = Len(pubs) + 1
      <4>1. Underway(pubs)
        BY <3>1 DEF Underway
      <4> QED BY <1>1, <2>1, <3>3, <4>1 DEF PressFits
    <3> QED BY <2>3, <3>2, <3>3
  <2>6. \A i, j \in DOMAIN pubs' : Works(pubs', i) /\ Works(pubs', j) => i = j
    BY <2>1, <2>4 DEF SiteFits, Works
  <2>7. \A i \in DOMAIN pubs' : pubs'[i] = "applying" => draft'.ahead > 0
    BY <1>1, <2>1, <2>4 DEF SiteFits
  <2>8. Moved(pubs') => Moved(pubs)
    BY <2>4 DEF Moved
  <2>9. Moved(pubs) => Moved(pubs')
    BY <1>5, <2>2 DEF Moved
  <2>10. Owed(pubs') = Owed(pubs)
    BY <2>8, <2>9 DEF Owed
  <2>11. Len(deployed') + draft'.ahead + Unpushed(draft') + Owed(pubs') <= pageEdits'
    BY <1>1, <2>1, <2>10 DEF SiteFits
  <2> QED BY <2>5, <2>6, <2>7, <2>11 DEF SiteFits
<1>14. PubTyped'
  <2>1. gets' \subseteq Gets
    BY <1>1, <1>3, <1>4
  <2> QED BY <1>1, <1>5, <2>1 DEF PubInv, PubTyped
<1>15. Tops(gets')
  <2>1. G \in SUBSET Gets /\ Tops(G)
    BY <1>3, TopLess DEF PubInv
  <2> HIDE DEF G
  <2> QED BY <1>1, <1>4, <2>1, TopMore
<1>16. \A e, f \in gets' : Pair(e, f)
  BY <1>1, <1>10, <1>11 DEF PubInv
<1>17. \A e \in gets' : GetFits(e, cards, aged', draft', pubs', deployed')
  BY <1>1, <1>8, <1>9
<1> QED BY <1>1, <1>12, <1>13, <1>14, <1>15, <1>16, <1>17 DEF PubInv

LEMMA ReadRowsKeeps == ASSUME PubInv, NEW c \in gets, P!ReadRows(c) PROVE PubInv'
<1> DEFINE b == P!Publishing
<1> DEFINE T == P!Of(c.tab, "status")
<1> DEFINE m == 1 + P!Max({e.at : e \in T})
<1> DEFINE n == IF c.tab \in Homes THEN 0 ELSE Len(deployed)
<1> DEFINE s == IF n = 0 THEN "none" ELSE deployed[n]
<1> DEFINE v == \E i \in DOMAIN deployed : deployed[i] = "ready"
<1> DEFINE sn == IF c.tab \in Homes THEN Len(pubs) ELSE 0
<1> DEFINE w == draft.pending
<1> DEFINE d == [c EXCEPT !.rows = TRUE, !.at = m, !.got.publishing = b, !.got.pending = w, !.got.dep = n,
                          !.got.status = s, !.got.live = v, !.got.seen = sn]
<1> DEFINE G == gets \ {c}
<1>1. /\ gets' = G \cup {d} /\ c.kind = "status" /\ ~c.rows
      /\ UNCHANGED <<draft, pubs, deployed, cards, pageEdits, crossedPubs, aged, overtook>>
  BY DEF P!ReadRows, P!Progresses, P!server, P!history
<1>2. c \in Gets /\ c.nr \in Nat /\ GetFits(c, cards, aged, draft, pubs, deployed) /\ c.tab \in DOMAIN cards
  BY <1>1, GetIs
<1>3. /\ draft \in Drafts /\ Len(pubs) \in Nat /\ Len(deployed) \in Nat /\ deployed \in Seq(Builds)
      /\ \A u \in DOMAIN cards : cards[u] \in Cards
  BY DEF PubInv, PubTyped
<1>4. T \in SUBSET gets /\ c \in T /\ \A e \in gets : e.tab = c.tab /\ e.rows => e \in T
  <2>1. \A e \in gets : e.rows => e.kind = "status"
    BY DEF PubInv, GetFits, GetTyped
  <2> QED BY <1>1, <2>1 DEF P!Of
<1> HIDE DEF T
<1>5. m \in Nat /\ \A e \in T : e.at < m
  <2>1. T \in SUBSET Gets /\ Tops(T) /\ T # {}
    BY <1>4, TopLess DEF PubInv, PubTyped
  <2>2. \A e \in T : e.at \in Nat
    BY <1>4, GetIs
  <2> DEFINE a == P!Max({e.at : e \in T})
  <2>3. a \in Nat /\ \A e \in T : e.at <= a
    BY <2>1, NextAt
  <2>4. m = 1 + a
    OBVIOUS
  <2> HIDE DEF a, m
  <2> QED BY <2>2, <2>3, <2>4
<1>6. b = Underway(pubs) /\ b \in BOOLEAN /\ w \in BOOLEAN /\ v \in BOOLEAN
  <2>1. b \in BOOLEAN /\ v \in BOOLEAN
    BY DEF P!Publishing
  <2>2. w \in BOOLEAN
    BY <1>3 DEF Drafts
  <2> QED BY <2>1, <2>2, UnderwayIs
<1>7. n \in Nat /\ n <= Len(deployed) /\ (c.tab \notin Homes => n = Len(deployed)) /\ (n > 0 => c.tab \notin Homes)
  BY <1>3
<1>8. s \in {"none", "pending", "ready", "failed"} /\ (n = 0 => s = "none") /\ (n > 0 => s # "none" /\ s = deployed[n])
  <2>1. n > 0 => deployed[n] \in Builds
    BY <1>3, <1>7
  <2> HIDE DEF n
  <2> QED BY <1>7, <2>1 DEF Builds
<1>9. sn \in Nat /\ sn <= Len(pubs) /\ (c.tab \in Homes => sn = Len(pubs))
  BY <1>3
<1>0. w = draft.pending
  OBVIOUS
<1> HIDE DEF b, m, n, s, v, sn, w
<1>10. /\ d \in Gets /\ d.tab = c.tab /\ d.kind = c.kind /\ d.nr = c.nr /\ d.pc = c.pc /\ d.saw = c.saw
       /\ d.rows /\ d.at = m /\ d.got.publishing = b /\ d.got.pending = w /\ d.got.dep = n /\ d.got.status = s
       /\ d.got.seen = sn
  <2> DEFINE g == [c.got EXCEPT !.publishing = b, !.pending = w, !.dep = n, !.status = s, !.live = v, !.seen = sn]
  <2>1. c.got \in Sights
    BY <1>2 DEF Gets
  <2>2. g \in Sights /\ g.dep = n /\ g.status = s /\ g.seen = sn /\ g.publishing = b /\ g.pending = w
    BY <1>6, <1>7, <1>8, <1>9, <2>1 DEF Sights
  <2>3. d = [c EXCEPT !.rows = TRUE, !.at = m, !.got = g]
    BY <1>2, <2>1 DEF Gets, Sights
  <2> HIDE DEF d, g
  <2>4. TRUE \in BOOLEAN
    OBVIOUS
  <2>5. /\ d \in Gets /\ d.tab = c.tab /\ d.kind = c.kind /\ d.nr = c.nr /\ d.pc = c.pc /\ d.saw = c.saw
        /\ d.rows /\ d.at = m /\ d.got = g
    BY <1>2, <1>5, <2>2, <2>3, <2>4 DEF Gets
  <2> QED BY <2>2, <2>5
<1> HIDE DEF d
<1>11. GetFits(d, cards, aged, draft, pubs, deployed)
  <2>1. GetTyped(d, cards)
    BY <1>1, <1>2, <1>10 DEF GetFits, GetTyped
  <2>2. PressFits(d, pubs)
    BY <1>2, <1>10 DEF GetFits, PressFits
  <2>3. ReadFits(d, pubs, deployed)
    BY <1>7, <1>8, <1>9, <1>10 DEF ReadFits
  <2>4. Agrees(d.got, draft, pubs)
    BY <1>0, <1>6, <1>10, Zenon DEF Agrees
  <2>5. DepIs(d.got, deployed, d.tab)
    BY <1>7, <1>8, <1>10 DEF DepIs
  <2> QED BY <2>1, <2>2, <2>3, <2>4, <2>5 DEF GetFits, StillSo
<1>12. ASSUME NEW e \in G PROVE Pair(d, e) /\ Pair(e, d)
  <2>1. ~(e.tab = d.tab /\ e.nr = d.nr)
    BY <1>10 DEF PubInv, Pair
  <2>2. CASE e.rows /\ e.tab = d.tab
    <3>1. e.at \in Nat /\ e.at < m /\ ReadFits(e, pubs, deployed) /\ e.got.seen \in Nat /\ e.got.dep \in Nat
      BY <1>4, <1>5, <1>10, <2>2, GetIs DEF GetFits
    <3>2. d.got.status = "pending" /\ e.got.dep = d.got.dep => e.got.status = "pending"
      BY <1>7, <1>8, <1>10, <2>2, <3>1 DEF ReadFits
    <3>3. d.tab \in Homes => e.got.seen <= d.got.seen
      BY <1>9, <1>10, <2>2, <3>1 DEF ReadFits
    <3> QED BY <1>5, <1>10, <2>1, <2>2, <3>1, <3>2, <3>3 DEF Pair
  <2>3. CASE ~(e.rows /\ e.tab = d.tab)
    BY <2>1, <2>3 DEF Pair
  <2> QED BY <2>2, <2>3
<1>13. Pair(d, d)
  BY <1>5, <1>10 DEF Pair
<1>14. ASSUME NEW u \in DOMAIN cards PROVE CardFits(u, cards[u], gets', aged, draft, pubs, deployed, overtook)
  <2>1. CardFits(u, cards[u], gets, aged, draft, pubs, deployed, overtook) /\ cards[u] \in Cards
    BY <1>3 DEF PubInv
  <2>2. \A k \in DOMAIN cards[u].told : ~SawPending(d, u, cards[u].told[k])
    <3>1. \A k \in DOMAIN cards[u].told : cards[u].told[k] \in 1..Len(deployed) /\ deployed[cards[u].told[k]] # "pending"
      BY <2>1 DEF CardFits, ToldFits
    <3> QED BY <1>3, <1>7, <1>8, <1>10, <3>1 DEF SawPending
  <2>3. cards[u].asked <= Len(pubs) /\ cards[u].asked \in Nat
    BY <2>1 DEF CardFits, AskedFits, Cards
  <2>4. u \in Homes => ~IsLate(d, u, cards[u].asked)
    BY <1>3, <1>9, <1>10, <2>3 DEF IsLate
  <2>5. u \in Homes /\ InTime(c, u, cards[u].asked) => InTime(d, u, cards[u].asked)
    BY <1>1, <1>3, <1>9, <1>10, <2>3 DEF InTime
  <2>6. \A k \in DOMAIN cards[u].told, e \in gets' : SawPending(e, u, cards[u].told[k]) => e \in gets
    BY <1>1, <2>2
  <2>7. u \in Homes => \A e \in gets' : IsLate(e, u, cards[u].asked) => e \in gets
    BY <1>1, <2>4
  <2>8. u \in Homes /\ (\E e \in gets : InTime(e, u, cards[u].asked)) => \E e \in gets' : InTime(e, u, cards[u].asked)
    BY <1>1, <2>5
  <2> HIDE DEF G
  <2> QED BY <2>1, <2>6, <2>7, <2>8, CardGets
<1>15. G \in SUBSET gets
  OBVIOUS
<1> HIDE DEF G
<1> QED BY <1>1, <1>10, <1>11, <1>12, <1>13, <1>14, <1>15, OneGet

-----------------------------------------------------------------------------
(* Requests are answered, or lost. *)

\* A page that stays as it is, when some requests go.
LEMMA CardLess ==
  ASSUME NEW t, NEW p \in Cards, NEW G, NEW U \in SUBSET G, NEW ag, NEW bg, NEW dr, NEW o, NEW ds, NEW ov, NEW nv,
         CardFits(t, p, G, ag, dr, o, ds, ov), <<t, 0>> \in ag => <<t, 0>> \in bg, t \in ov => t \in nv,
         t \in Homes => \A e \in G : InTime(e, t, p.asked) => e \in U
  PROVE  CardFits(t, p, U, bg, dr, o, ds, nv)
<1>1. CardCurrent(t, p, bg, dr, o, ds)
  BY DEF CardFits, CardCurrent
<1>2. ToldOnce(t, p, G) => ToldOnce(t, p, U)
  BY DEF ToldOnce
<1>3. ToldFits(t, p, U, ds, nv)
  BY <1>2 DEF CardFits, ToldFits
<1>4. AskedFits(t, p, U, o, nv)
  BY DEF CardFits, AskedFits
<1> QED BY <1>1, <1>3, <1>4 DEF CardFits

\* The requests G are left and N made; the pages stay of their kinds, and no request that is left gets any younger.
LEMMA Settles ==
  ASSUME PubInv, NEW G \in SUBSET gets, NEW N \in SUBSET Gets, gets' = G \cup N,
         cards' \in [DOMAIN cards -> Cards], \A t \in DOMAIN cards : cards'[t].kind = cards[t].kind,
         UNCHANGED <<draft, pubs, deployed, pageEdits, crossedPubs>>,
         \A e \in N : GetFits(e, cards', aged', draft, pubs, deployed),
         \A e \in N : \A f \in G : Pair(e, f) /\ Pair(f, e), \A e, f \in N : Pair(e, f), Tops(gets'),
         \A e \in G : <<e.tab, e.nr>> \in aged => <<e.tab, e.nr>> \in aged',
         \A t \in DOMAIN cards : CardFits(t, cards'[t], gets', aged', draft, pubs, deployed, overtook')
  PROVE  PubInv'
<1>1. DOMAIN cards' = DOMAIN cards
  OBVIOUS
<1>2. PubTyped'
  BY <1>1 DEF PubInv, PubTyped
<1>3. ASSUME NEW e \in G PROVE GetFits(e, cards', aged', draft, pubs, deployed)
  <2>1. GetFits(e, cards, aged, draft, pubs, deployed)
    BY DEF PubInv
  <2>2. GetTyped(e, cards')
    BY <1>1, <2>1 DEF GetFits, GetTyped
  <2>3. StillSo(e, aged', draft, pubs, deployed)
    BY <2>1 DEF GetFits, StillSo
  <2> QED BY <2>1, <2>2, <2>3 DEF GetFits
<1>4. \A e, f \in gets' : Pair(e, f)
  BY DEF PubInv
<1>5. \A e \in gets' : GetFits(e, cards', aged', draft, pubs, deployed)
  BY <1>3
<1>6. SiteFits(draft, pubs, deployed, crossedPubs, pageEdits)
  BY DEF PubInv
<1> QED BY <1>1, <1>2, <1>4, <1>5, <1>6 DEF PubInv

\* The request c of an open page goes, and the page is p then.
LEMMA Turned ==
  ASSUME PubInv, NEW c \in gets, c.tab \in DOMAIN cards, NEW p \in Cards, p.kind = cards[c.tab].kind,
         gets' = gets \ {c}, cards' = [cards EXCEPT ![c.tab] = p], UNCHANGED <<draft, pubs, deployed, pageEdits, crossedPubs>>,
         aged \ {<<c.tab, 0>>, <<c.tab, c.nr>>} \subseteq aged', overtook \subseteq overtook',
         CardFits(c.tab, p, gets', aged', draft, pubs, deployed, overtook')
  PROVE  PubInv'
<1>1. gets' \in SUBSET gets /\ gets' \subseteq Gets /\ cards \in [DOMAIN cards -> Cards]
  BY DEF PubInv, PubTyped
<1>2. cards' \in [DOMAIN cards -> Cards] /\ \A t \in DOMAIN cards : cards'[t].kind = cards[t].kind
  BY <1>1
<1>3. Tops(gets')
  BY <1>1, TopLess DEF PubInv
<1>4. ASSUME NEW e \in gets', <<e.tab, e.nr>> \in aged PROVE <<e.tab, e.nr>> \in aged'
  <2>1. ~(e.tab = c.tab /\ e.nr = c.nr)
    BY DEF PubInv, Pair
  <2>2. e.tab = c.tab => 0 < e.nr /\ e.nr \in Nat
    BY GetIs DEF GetFits, GetTyped
  <2>3. <<e.tab, e.nr>> # <<c.tab, 0>> /\ <<e.tab, e.nr>> # <<c.tab, c.nr>>
    BY <2>1, <2>2
  <2> QED BY <1>4, <2>3
<1>5. ASSUME NEW t \in DOMAIN cards PROVE CardFits(t, cards'[t], gets', aged', draft, pubs, deployed, overtook')
  <2>1. CASE t = c.tab
    BY <2>1
  <2>2. CASE t # c.tab
    <3>1. cards'[t] = cards[t] /\ cards[t] \in Cards /\ CardFits(t, cards[t], gets, aged, draft, pubs, deployed, overtook)
      BY <1>1, <2>2 DEF PubInv
    <3>2. <<t, 0>> \in aged => <<t, 0>> \in aged'
      BY <2>2
    <3>3. \A e \in gets : InTime(e, t, cards[t].asked) => e \in gets'
      BY <2>2 DEF InTime
    <3> QED BY <1>1, <3>1, <3>2, <3>3, CardLess
  <2> QED BY <2>1, <2>2
<1> DEFINE N == {}
<1>6. N \in SUBSET Gets /\ gets' = gets' \cup N /\ \A e \in N : FALSE
  OBVIOUS
<1> HIDE DEF N
<1> QED BY <1>1, <1>2, <1>3, <1>4, <1>5, <1>6, Settles

\* What a page shows once it has the answer to c.
LEMMA AnswerIs ==
  ASSUME PubInv, NEW c \in gets
  PROVE  LET a == P!Answer(c) IN
           /\ a \in Sights /\ a.is = "status" /\ a.dep = c.got.dep /\ a.status = c.got.status /\ a.seen = c.got.seen
           /\ a.ahead = draft.ahead /\ (Agrees(c.got, draft, pubs) => Agrees(a, draft, pubs))
           /\ \A t : DepIs(c.got, deployed, t) => DepIs(a, deployed, t)
<1> DEFINE a == P!Answer(c)
<1>1. c.got \in Sights /\ draft.ahead \in Nat
  BY GetIs, SiteIs
<1>2. a = [c.got EXCEPT !.is = "status", !.ahead = draft.ahead]
  BY DEF P!Answer
<1> HIDE DEF a
<1>3. /\ a \in Sights /\ a.is = "status" /\ a.dep = c.got.dep /\ a.status = c.got.status /\ a.seen = c.got.seen
      /\ a.ahead = draft.ahead /\ a.publishing = c.got.publishing /\ a.pending = c.got.pending
  BY <1>1, <1>2 DEF Sights
<1>4. Agrees(c.got, draft, pubs) => Agrees(a, draft, pubs)
  BY <1>3 DEF Agrees
<1>5. \A t : DepIs(c.got, deployed, t) => DepIs(a, deployed, t)
  BY <1>3 DEF DepIs
<1> QED BY <1>3, <1>4, <1>5 DEF a

\* The answer to c is shown by a tab, which was overtaken if it had read what another had not.
LEMMA ShowsIs ==
  ASSUME PubInv, NEW c \in gets, P!Ready(c), P!Shows(c)
  PROVE  /\ gets' = gets \ {c} /\ UNCHANGED <<draft, pubs, deployed, pageEdits, crossedPubs>>
         /\ aged \ {<<c.tab, 0>>, <<c.tab, c.nr>>} \subseteq aged' /\ overtook \subseteq overtook'
         /\ c.kind = "status" /\ c.rows /\ c.tab \in DOMAIN cards
         /\ <<c.tab, 0>> \notin aged' => Agrees(P!Answer(c), draft, pubs) /\ DepIs(P!Answer(c), deployed, c.tab)
         /\ c.tab \notin overtook' => \A e \in gets \ {c} : e.tab = c.tab /\ e.rows => ~(e.at < c.at)
<1>1. /\ gets' = gets \ {c} /\ UNCHANGED <<draft, pubs, deployed, pageEdits, crossedPubs>> /\ c.kind = "status" /\ c.rows
      /\ aged' = (aged \ {<<c.tab, 0>>, <<c.tab, c.nr>>}) \cup IF <<c.tab, c.nr>> \in aged THEN {<<c.tab, 0>>} ELSE {}
      /\ overtook' = IF \E d \in P!Of(c.tab, "status") \ {c} : d.rows /\ d.at < c.at THEN overtook \cup {c.tab} ELSE overtook
  BY DEF P!Ready, P!Shows, P!Overtakes, P!server
<1>2. c.tab \in DOMAIN cards /\ StillSo(c, aged, draft, pubs, deployed)
  BY <1>1, GetIs DEF GetFits
<1>3. <<c.tab, 0>> \notin aged' => Agrees(P!Answer(c), draft, pubs) /\ DepIs(P!Answer(c), deployed, c.tab)
  BY <1>1, <1>2, AnswerIs DEF StillSo
<1>4. \A e \in gets : e.tab = c.tab /\ e.rows => e \in P!Of(c.tab, "status")
  BY DEF PubInv, GetFits, GetTyped, P!Of
<1>5. c.tab \notin overtook' => \A e \in gets \ {c} : e.tab = c.tab /\ e.rows => ~(e.at < c.at)
  BY <1>1, <1>4
<1> QED BY <1>1, <1>2, <1>3, <1>5

LEMMA LoadedKeeps == ASSUME PubInv, NEW c \in gets, P!Loaded(c) PROVE PubInv'
<1> DEFINE t == c.tab
<1> DEFINE a == P!Answer(c)
<1> DEFINE p == [cards[t] EXCEPT !.shown = a]
<1>1. P!Ready(c) /\ P!Shows(c) /\ t \in Homes /\ cards' = [cards EXCEPT ![t].shown = a]
  BY DEF P!Loaded
<1>2. /\ gets' = gets \ {c} /\ UNCHANGED <<draft, pubs, deployed, pageEdits, crossedPubs>>
      /\ aged \ {<<t, 0>>, <<t, c.nr>>} \subseteq aged' /\ overtook \subseteq overtook'
      /\ c.kind = "status" /\ c.rows /\ t \in DOMAIN cards
      /\ <<t, 0>> \notin aged' => Agrees(a, draft, pubs) /\ DepIs(a, deployed, t)
      /\ t \notin overtook' => \A e \in gets \ {c} : e.tab = t /\ e.rows => ~(e.at < c.at)
  BY <1>1, ShowsIs
<1>3. a \in Sights /\ a.is = "status" /\ a.seen = c.got.seen /\ a.ahead = draft.ahead /\ c.got.seen \in Nat /\ c.at \in Nat
  BY AnswerIs, GetIs
<1>4. cards[t] \in Cards /\ CardFits(t, cards[t], gets, aged, draft, pubs, deployed, overtook)
  BY <1>2 DEF PubInv, PubTyped
<1> HIDE DEF a
<1>5. cards' = [cards EXCEPT ![t] = p]
  BY <1>1, <1>2, <1>4 DEF Cards
<1>6. /\ p \in Cards /\ p.kind = cards[t].kind /\ p.shown = a /\ p.followed = cards[t].followed /\ p.told = cards[t].told
      /\ p.asked = cards[t].asked /\ p.asked \in Nat
  BY <1>3, <1>4 DEF Cards
<1> HIDE DEF p
<1>7. CardCurrent(t, p, aged', draft, pubs, deployed)
  <2>1. p.followed = 0
    BY <1>1, <1>4, <1>6 DEF CardFits, ToldFits
  <2> QED BY <1>2, <1>3, <1>6, <2>1 DEF CardCurrent
<1>8. ToldFits(t, p, gets', deployed, overtook')
  <2>1. ToldOnce(t, cards[t], gets) => ToldOnce(t, p, gets')
    BY <1>2, <1>6 DEF ToldOnce
  <2> QED BY <1>2, <1>4, <1>6, <2>1 DEF CardFits, ToldFits
<1>9. AskedFits(t, p, gets', pubs, overtook')
  <2>1. p.asked <= Len(pubs) /\ (p.kind = "card" => p.asked = 0)
    BY <1>4, <1>6 DEF CardFits, AskedFits
  <2>2. ASSUME t \notin overtook', p.asked <= c.got.seen
        PROVE  p.asked <= p.shown.seen /\ \A e \in gets' : ~IsLate(e, t, p.asked)
    <3>1. ASSUME NEW e \in gets', IsLate(e, t, p.asked) PROVE FALSE
      <4>1. e \in gets /\ e # c /\ e.tab = t /\ e.rows /\ e.got.seen < p.asked /\ e.at \in Nat /\ e.got.seen \in Nat
        BY <1>2, <3>1, GetIs DEF IsLate
      <4>2. Pair(c, e)
        BY <4>1 DEF PubInv
      <4>3. ~(e.at < c.at)
        BY <1>2, <2>2, <4>1
      <4>4. ~(c.at <= e.at)
        BY <1>1, <1>2, <1>3, <1>6, <2>2, <4>1, <4>2 DEF Pair
      <4> QED BY <1>3, <4>1, <4>3, <4>4
    <3> QED BY <1>3, <1>6, <2>2, <3>1
  <2>3. ASSUME t \notin overtook', c.got.seen < p.asked PROVE \E e \in gets' : InTime(e, t, p.asked)
    <3>1. IsLate(c, t, p.asked) /\ t \notin overtook
      BY <1>2, <2>3 DEF IsLate
    <3>2. \E e \in gets : InTime(e, t, p.asked)
      BY <1>1, <1>4, <1>6, <3>1 DEF CardFits, AskedFits
    <3>3. ~InTime(c, t, p.asked)
      BY <1>2, <1>3, <1>6, <2>3 DEF InTime
    <3> QED BY <1>2, <3>2, <3>3
  <2>4. p.asked <= c.got.seen \/ c.got.seen < p.asked
    BY <1>3, <1>6
  <2> QED BY <2>1, <2>2, <2>3, <2>4 DEF AskedFits
<1>10. CardFits(t, p, gets', aged', draft, pubs, deployed, overtook')
  BY <1>7, <1>8, <1>9 DEF CardFits
<1> QED BY <1>2, <1>5, <1>6, <1>10, Turned

LEMMA RefreshedKeeps == ASSUME PubInv, NEW c \in gets, P!Refreshed(c) PROVE PubInv'
<1> DEFINE t == c.tab
<1> DEFINE a == P!Answer(c)
<1> DEFINE q == P!Tells(cards[t], a)
<1> DEFINE p == [q EXCEPT !.shown = a]
<1>1. P!Ready(c) /\ P!Shows(c) /\ t \in Editors /\ t \notin Homes /\ cards' = [cards EXCEPT ![t] = p]
  <2>1. P!Ready(c) /\ P!Shows(c) /\ t \in Editors /\ cards' = [cards EXCEPT ![t] = [P!Tells(@, a) EXCEPT !.shown = a]]
    BY DEF P!Refreshed
  <2> QED BY <2>1, TabsGiven
<1>2. /\ gets' = gets \ {c} /\ UNCHANGED <<draft, pubs, deployed, pageEdits, crossedPubs>>
      /\ aged \ {<<t, 0>>, <<t, c.nr>>} \subseteq aged' /\ overtook \subseteq overtook'
      /\ c.kind = "status" /\ c.rows /\ t \in DOMAIN cards
      /\ <<t, 0>> \notin aged' => Agrees(a, draft, pubs) /\ DepIs(a, deployed, t)
      /\ t \notin overtook' => \A e \in gets \ {c} : e.tab = t /\ e.rows => ~(e.at < c.at)
  BY <1>1, ShowsIs
<1>3. /\ a \in Sights /\ a.is = "status" /\ a.dep = c.got.dep /\ a.status = c.got.status /\ a.ahead = draft.ahead
      /\ a.dep \in Nat /\ c.at \in Nat /\ ReadFits(c, pubs, deployed) /\ Len(deployed) \in Nat
  BY AnswerIs, GetIs, SiteIs DEF GetFits
<1>4. cards[t] \in Cards /\ CardFits(t, cards[t], gets, aged, draft, pubs, deployed, overtook)
  BY <1>2 DEF PubInv, PubTyped
<1> DEFINE news == cards[t].told
<1>5. /\ news \in Seq(Nat) /\ cards[t].followed \in Nat
      /\ \A n \in DOMAIN news : news[n] \in 1..Len(deployed) /\ deployed[news[n]] # "pending"
      /\ t \notin overtook => ToldOnce(t, cards[t], gets)
  BY <1>4 DEF Cards, CardFits, ToldFits
<1> HIDE DEF a
\* Whatever the page then follows and has told, it shows the answer.
<1>6. ASSUME NEW f \in Nat, NEW ns \in Seq(Nat), q = [cards[t] EXCEPT !.followed = f, !.told = ns],
             <<t, 0>> \notin aged' /\ f > 0 /\ f = Len(deployed) => deployed[f] = "pending",
             \A n \in DOMAIN ns : ns[n] \in 1..Len(deployed) /\ deployed[ns[n]] # "pending",
             t \notin overtook' =>
               /\ \A n, m \in DOMAIN ns : ns[n] = ns[m] => n = m
               /\ \A n \in DOMAIN ns : ns[n] # f
               /\ \A n \in DOMAIN ns, e \in gets' : ~SawPending(e, t, ns[n])
      PROVE  PubInv'
  <2>1. /\ p \in Cards /\ p.kind = cards[t].kind /\ p.shown = a /\ p.followed = f /\ p.told = ns /\ p.asked = cards[t].asked
    BY <1>3, <1>4, <1>6 DEF Cards
  <2> HIDE DEF p
  <2>2. CardCurrent(t, p, aged', draft, pubs, deployed)
    BY <1>2, <1>3, <1>6, <2>1 DEF CardCurrent
  <2>3. ToldFits(t, p, gets', deployed, overtook')
    BY <1>1, <1>6, <2>1 DEF ToldFits, ToldOnce
  <2>4. AskedFits(t, p, gets', pubs, overtook')
    BY <1>1, <1>4, <2>1 DEF CardFits, AskedFits
  <2>5. CardFits(t, p, gets', aged', draft, pubs, deployed, overtook')
    BY <2>2, <2>3, <2>4 DEF CardFits
  <2> HIDE DEF q
  <2> QED BY <1>1, <1>2, <2>1, <2>5, Turned
<1>7. t \notin overtook' =>
        /\ ToldOnce(t, cards[t], gets)
        /\ \A e \in gets' : e.rows /\ e.tab = t => ~(e.at < c.at)
  BY <1>2, <1>5
<1>8. CASE a.status = "pending"
  <2>1. q = [cards[t] EXCEPT !.followed = a.dep]
    BY <1>8 DEF P!Tells
  <2>2. q = [cards[t] EXCEPT !.followed = a.dep, !.told = news]
    BY <1>4, <2>1 DEF Cards
  <2>3. <<t, 0>> \notin aged' /\ a.dep > 0 /\ a.dep = Len(deployed) => deployed[a.dep] = "pending"
    BY <1>2, <1>8 DEF DepIs
  <2>4. ASSUME t \notin overtook'
        PROVE  /\ \A n, m \in DOMAIN news : news[n] = news[m] => n = m
               /\ \A n \in DOMAIN news : news[n] # a.dep
               /\ \A n \in DOMAIN news, e \in gets' : ~SawPending(e, t, news[n])
    <3>1. ToldOnce(t, cards[t], gets) /\ SawPending(c, t, a.dep)
      BY <1>2, <1>3, <1>7, <1>8, <2>4 DEF SawPending
    <3> QED BY <1>2, <3>1 DEF ToldOnce
  <2> QED BY <1>3, <1>5, <1>6, <2>2, <2>3, <2>4
<1>9. CASE a.status # "pending" /\ a.dep > 0 /\ cards[t].followed = a.dep
  <2> DEFINE ns == Append(news, a.dep)
  <2>1. q = [cards[t] EXCEPT !.followed = 0, !.told = ns]
    BY <1>9 DEF P!Tells
  <2>2. /\ ns \in Seq(Nat) /\ DOMAIN news = 1..Len(news) /\ DOMAIN ns = 1..(Len(news) + 1) /\ Len(news) \in Nat
        /\ ns[Len(news) + 1] = a.dep /\ \A n \in 1..Len(news) : ns[n] = news[n]
    BY <1>3, <1>5
  <2>3. \A n \in DOMAIN ns : (n \in DOMAIN news /\ ns[n] = news[n]) \/ (n = Len(news) + 1 /\ ns[n] = a.dep)
    BY <2>2
  <2> HIDE DEF ns, news
  <2>4. a.dep \in 1..Len(deployed) /\ deployed[a.dep] # "pending"
    BY <1>2, <1>3, <1>9 DEF ReadFits
  <2>5. \A n \in DOMAIN ns : ns[n] \in 1..Len(deployed) /\ deployed[ns[n]] # "pending"
    BY <1>5, <2>3, <2>4
  <2>6. ASSUME t \notin overtook'
        PROVE  /\ \A n, m \in DOMAIN ns : ns[n] = ns[m] => n = m
               /\ \A n \in DOMAIN ns : ns[n] # 0
               /\ \A n \in DOMAIN ns, e \in gets' : ~SawPending(e, t, ns[n])
    <3>1. ToldOnce(t, cards[t], gets)
      BY <1>7, <2>6
    <3>2. /\ \A n, m \in DOMAIN news : news[n] = news[m] => n = m
          /\ \A n \in DOMAIN news : news[n] # a.dep
          /\ \A n \in DOMAIN news, e \in gets' : ~SawPending(e, t, news[n])
      BY <1>2, <1>9, <3>1 DEF ToldOnce, news
    <3>3. \A n, m \in DOMAIN ns : ns[n] = ns[m] => n = m
      BY <2>3, <3>2
    <3>4. ASSUME NEW e \in gets', SawPending(e, t, a.dep) PROVE FALSE
      <4>1. e \in gets /\ Pair(e, c) /\ e.tab = t /\ e.rows /\ e.got.status = "pending" /\ e.got.dep = a.dep
        BY <1>2, <3>4 DEF SawPending, PubInv
      <4>2. e.at < c.at
        BY <1>2, <1>3, <1>9, <4>1 DEF Pair
      <4> QED BY <1>7, <2>6, <4>1, <4>2
    <3>5. \A n \in DOMAIN ns : \A e \in gets' : ~SawPending(e, t, ns[n])
      BY <2>3, <3>2, <3>4
    <3>6. \A n \in DOMAIN ns : ns[n] # 0
      BY <2>5
    <3> QED BY <3>3, <3>5, <3>6
  <2>7. 0 \in Nat /\ ~(0 > 0)
    OBVIOUS
  <2>8. ns \in Seq(Nat)
    BY <2>2
  <2> HIDE DEF q
  <2> QED BY <1>6, <2>1, <2>5, <2>6, <2>7, <2>8
<1>10. CASE a.status # "pending" /\ ~(a.dep > 0 /\ cards[t].followed = a.dep)
  <2> DEFINE f == cards[t].followed
  <2>1. q = cards[t]
    BY <1>10 DEF P!Tells
  <2>2. q = [cards[t] EXCEPT !.followed = f, !.told = news]
    BY <1>4, <2>1 DEF Cards
  <2>3. <<t, 0>> \notin aged' /\ f > 0 /\ f = Len(deployed) => deployed[f] = "pending"
    BY <1>1, <1>2, <1>10 DEF DepIs
  <2>4. ASSUME t \notin overtook'
        PROVE  /\ \A n, m \in DOMAIN news : news[n] = news[m] => n = m
               /\ \A n \in DOMAIN news : news[n] # f
               /\ \A n \in DOMAIN news, e \in gets' : ~SawPending(e, t, news[n])
    BY <1>2, <1>7, <2>4 DEF ToldOnce
  <2> QED BY <1>5, <1>6, <2>2, <2>3, <2>4
<1> QED BY <1>8, <1>9, <1>10

LEMMA LostKeeps == ASSUME PubInv, NEW c \in gets, P!Lost(c) PROVE PubInv'
<1> DEFINE t == c.tab
<1>1. /\ gets' = gets \ {c} /\ aged' = aged \ {<<t, c.nr>>} /\ UNCHANGED <<draft, pubs, deployed, pageEdits, crossedPubs>>
      /\ overtook' = IF P!Of(t, "status") \ {c} = {} THEN overtook ELSE overtook \cup {t}
      /\ cards' = IF c.kind = "press" \/ t \notin Homes \/ cards[t].kind = "card" THEN cards
                  ELSE [cards EXCEPT ![t].shown = [P!Blank EXCEPT !.is = "unknown"]]
  BY DEF P!Lost, P!server
<1>2. overtook \subseteq overtook' /\ cards \in [DOMAIN cards -> Cards]
  BY <1>1 DEF PubInv, PubTyped
<1>3. ASSUME t \notin overtook', NEW e \in gets', e.tab = t PROVE e.kind # "status" /\ ~e.rows
  <2>1. e \in gets /\ e # c /\ (e.rows => e.kind = "status")
    BY <1>1, GetIs DEF GetFits, GetTyped
  <2>2. P!Of(t, "status") \ {c} = {}
    BY <1>1, <1>3
  <2> QED BY <1>3, <2>1, <2>2 DEF P!Of
<1>4. CASE t \notin DOMAIN cards
  <2>1. cards' = cards /\ c.kind = "press"
    BY <1>1, <1>4, GetIs DEF Gets
  <2>2. gets' \in SUBSET gets /\ gets' \subseteq Gets /\ Tops(gets')
    BY <1>1, TopLess DEF PubInv, PubTyped
  <2>3. \A e \in gets' : <<e.tab, e.nr>> \in aged => <<e.tab, e.nr>> \in aged'
    <3>1. \A e \in gets' : ~(e.tab = c.tab /\ e.nr = c.nr)
      BY <1>1 DEF PubInv, Pair
    <3> QED BY <1>1, <3>1
  <2>4. ASSUME NEW u \in DOMAIN cards PROVE CardFits(u, cards'[u], gets', aged', draft, pubs, deployed, overtook')
    <3>1. cards[u] \in Cards /\ CardFits(u, cards[u], gets, aged, draft, pubs, deployed, overtook)
      BY <1>2 DEF PubInv
    <3>2. (<<u, 0>> \in aged => <<u, 0>> \in aged') /\ u # t
      BY <1>1, <1>4
    <3>3. \A e \in gets : InTime(e, u, cards[u].asked) => e \in gets'
      BY <1>1, <3>2 DEF InTime
    <3> QED BY <1>2, <2>1, <2>2, <3>1, <3>2, <3>3, CardLess
  <2> DEFINE N == {}
  <2>5. N \in SUBSET Gets /\ gets' = gets' \cup N /\ \A e \in N : FALSE
    OBVIOUS
  <2> HIDE DEF N
  <2> QED BY <1>1, <1>2, <2>1, <2>2, <2>3, <2>4, <2>5, Settles
<1>5. CASE t \in DOMAIN cards
  <2>1. cards[t] \in Cards /\ CardFits(t, cards[t], gets, aged, draft, pubs, deployed, overtook) /\ 0 < c.nr /\ c.nr \in Nat
    BY <1>2, <1>5, GetIs DEF PubInv, GetFits, GetTyped
  <2>2. aged \ {<<t, 0>>, <<t, c.nr>>} \subseteq aged' /\ (<<t, 0>> \in aged => <<t, 0>> \in aged')
    BY <1>1, <2>1
  <2>3. CASE cards' = cards /\ (c.kind = "press" \/ t \notin Homes)
    <3> DEFINE p == cards[t]
    <3>1. cards' = [cards EXCEPT ![t] = p]
      BY <1>2, <1>5, <2>3
    <3>2. t \in Homes => \A e \in gets : InTime(e, t, p.asked) => e \in gets'
      BY <1>1, <2>3 DEF InTime
    <3>3. CardFits(t, p, gets', aged', draft, pubs, deployed, overtook')
      <4>1. gets' \in SUBSET gets
        BY <1>1
      <4> QED BY <1>2, <2>1, <2>2, <3>2, <4>1, CardLess
    <3> QED BY <1>1, <1>2, <1>5, <2>1, <2>2, <3>1, <3>3, Turned
  <2>4. ASSUME t \in Homes, NEW p \in Cards, p.kind = cards[t].kind, cards' = [cards EXCEPT ![t] = p],
               p.followed = cards[t].followed, p.told = cards[t].told, p.asked = cards[t].asked,
               p.shown = cards[t].shown \/ p.shown.is # "status", p.shown.is = "status" => p.asked = 0
        PROVE  PubInv'
    <3>1. CardCurrent(t, p, aged', draft, pubs, deployed)
      BY <2>1, <2>2, <2>4 DEF CardFits, CardCurrent
    <3>2. ToldFits(t, p, gets', deployed, overtook')
      <4>1. ToldOnce(t, cards[t], gets) => ToldOnce(t, p, gets')
        BY <1>1, <2>4 DEF ToldOnce
      <4> QED BY <1>2, <2>1, <2>4, <4>1 DEF CardFits, ToldFits
    <3>3. AskedFits(t, p, gets', pubs, overtook')
      <4>1. p.asked <= Len(pubs) /\ (p.kind = "card" => p.asked = 0)
        BY <2>1, <2>4 DEF CardFits, AskedFits
      <4>2. p.shown.is = "status" => p.asked <= p.shown.seen
        BY <2>4 DEF Cards, Sights
      <4>3. t \notin overtook' => \A e \in gets' : ~IsLate(e, t, p.asked)
        BY <1>3 DEF IsLate
      <4> QED BY <4>1, <4>2, <4>3 DEF AskedFits
    <3>4. CardFits(t, p, gets', aged', draft, pubs, deployed, overtook')
      BY <3>1, <3>2, <3>3 DEF CardFits
    <3> QED BY <1>1, <1>2, <1>5, <2>2, <2>4, <3>4, Turned
  <2>5. CASE c.kind # "press" /\ t \in Homes /\ cards[t].kind = "card"
    <3>1. cards' = [cards EXCEPT ![t] = cards[t]] /\ cards[t].asked = 0
      BY <1>1, <1>2, <1>5, <2>1, <2>5 DEF CardFits, AskedFits
    <3> QED BY <2>1, <2>4, <2>5, <3>1
  <2>6. CASE c.kind # "press" /\ t \in Homes /\ cards[t].kind # "card"
    <3> DEFINE s == [P!Blank EXCEPT !.is = "unknown"]
    <3> DEFINE p == [cards[t] EXCEPT !.shown = s]
    <3>1. s \in Sights /\ s.is = "unknown"
      BY BlankIs DEF Sights
    <3>2. cards' = [cards EXCEPT ![t].shown = s]
      BY <1>1, <2>6
    <3> HIDE DEF s
    <3>3. /\ p \in Cards /\ p.kind = cards[t].kind /\ p.followed = cards[t].followed /\ p.told = cards[t].told
          /\ p.asked = cards[t].asked /\ p.shown = s
      BY <2>1, <3>1 DEF Cards
    <3>4. cards' = [cards EXCEPT ![t] = p]
      BY <1>2, <1>5, <3>2 DEF Cards
    <3> HIDE DEF p
    <3> QED BY <2>4, <2>6, <3>1, <3>3, <3>4
  <2> QED BY <1>1, <2>3, <2>5, <2>6
<1> QED BY <1>4, <1>5

LEMMA PressedKeeps == ASSUME PubInv, NEW c \in gets, P!Pressed(c) PROVE PubInv'
<1> DEFINE t == c.tab
<1> DEFINE G == gets \ {c}
<1>1. /\ c.kind = "press" /\ c.pc = "done" /\ gets' = G \cup P!Asks(c)
      /\ cards' = [u \in DOMAIN cards |-> IF u = t /\ u \in Homes THEN [cards[u] EXCEPT !.asked = c.saw] ELSE cards[u]]
      /\ UNCHANGED <<draft, pubs, deployed, pageEdits, crossedPubs, aged, overtook>>
  BY DEF P!Pressed, P!OpenTabs, P!server, P!history
<1>2. /\ c \in Gets /\ GetFits(c, cards, aged, draft, pubs, deployed) /\ ~c.rows /\ c.saw \in Nat /\ c.saw <= Len(pubs)
      /\ \A u \in DOMAIN cards : cards[u] \in Cards /\ u \in Homes \cup Editors
  BY <1>1, GetIs DEF GetFits, GetTyped, PressFits, PubInv, PubTyped
<1>3. G \in SUBSET gets /\ G \subseteq Gets /\ Tops(G)
  BY TopLess DEF PubInv, PubTyped
<1>4. ASSUME NEW u \in DOMAIN cards
      PROVE  /\ cards'[u] \in Cards /\ cards'[u].kind = cards[u].kind /\ cards'[u].shown = cards[u].shown
             /\ cards'[u].followed = cards[u].followed /\ cards'[u].told = cards[u].told
             /\ cards'[u].asked = IF u = t /\ u \in Homes THEN c.saw ELSE cards[u].asked
  <2>1. CASE u = t /\ u \in Homes
    <3>1. cards'[u] = [cards[u] EXCEPT !.asked = c.saw]
      BY <1>1, <2>1
    <3> QED BY <1>2, <2>1, <3>1 DEF Cards
  <2>2. CASE ~(u = t /\ u \in Homes)
    BY <1>1, <1>2, <2>2
  <2> QED BY <2>1, <2>2
<1>5. DOMAIN cards' = DOMAIN cards /\ cards' \in [DOMAIN cards -> Cards]
  <2>1. cards' = [u \in DOMAIN cards |-> cards'[u]] /\ DOMAIN cards' = DOMAIN cards
    BY <1>1
  <2> QED BY <1>4, <2>1
\* The page that asks hears of the publish from the request it makes.
<1>6. ASSUME NEW u \in DOMAIN cards, \A e \in gets' : ~e.rows => e \in G \/ e.kind = "status",
             \A e \in gets' : e.rows => e \in G, G \subseteq gets',
             u = t => \E e \in gets' : e.tab = t /\ e.kind = "status" /\ ~e.rows
      PROVE  CardFits(u, cards'[u], gets', aged, draft, pubs, deployed, overtook)
  <2>1. CardFits(u, cards[u], gets, aged, draft, pubs, deployed, overtook)
    BY DEF PubInv
  <2>2. CardCurrent(u, cards'[u], aged, draft, pubs, deployed)
    BY <1>4, <2>1 DEF CardFits, CardCurrent
  <2>3. ToldFits(u, cards'[u], gets', deployed, overtook)
    <3>1. ToldOnce(u, cards[u], gets) => ToldOnce(u, cards'[u], gets')
      BY <1>4, <1>6 DEF ToldOnce, SawPending
    <3> QED BY <1>4, <2>1, <3>1 DEF CardFits, ToldFits
  <2>4. AskedFits(u, cards'[u], gets', pubs, overtook)
    <3>1. CASE u = t /\ u \in Homes
      <4>1. cards[u].kind # "card"
        BY <1>1, <1>2, <3>1 DEF GetFits, GetTyped
      <4>2. \E e \in gets' : InTime(e, u, cards'[u].asked)
        BY <1>6, <3>1 DEF InTime
      <4> QED BY <1>2, <1>4, <3>1, <4>1, <4>2 DEF AskedFits
    <3>2. CASE ~(u = t /\ u \in Homes)
      <4>1. cards'[u].asked = cards[u].asked
        BY <1>4, <3>2
      <4>2. \A e \in gets : InTime(e, u, cards[u].asked) => e \in gets'
        BY <1>1, <1>6 DEF InTime
      <4>3. \A e \in gets' : IsLate(e, u, cards[u].asked) => e \in gets
        BY <1>6 DEF IsLate
      <4> HIDE DEF G
      <4> QED BY <1>4, <2>1, <4>1, <4>2, <4>3 DEF CardFits, AskedFits
    <3> QED BY <3>1, <3>2
  <2> QED BY <2>2, <2>3, <2>4 DEF CardFits
<1>7. CASE t \notin DOMAIN cards
  <2> DEFINE N == {}
  <2>1. N \in SUBSET Gets /\ gets' = G \cup N /\ \A e \in N : FALSE
    BY <1>1, <1>7 DEF P!Asks, P!OpenTabs
  <2> HIDE DEF N
  <2>2. gets' = G
    BY <2>1
  <2> HIDE DEF G
  <2>3. ASSUME NEW u \in DOMAIN cards PROVE CardFits(u, cards'[u], gets', aged, draft, pubs, deployed, overtook)
    BY <1>6, <1>7, <2>2
  <2> QED BY <1>1, <1>3, <1>4, <1>5, <2>1, <2>2, <2>3, Settles
<1>8. CASE t \in DOMAIN cards
  <2> DEFINE r == P!Request(t, "status")
  <2> DEFINE w == t \in Editors
  <2> DEFINE d == [r EXCEPT !.waits = w]
  <2> DEFINE N == {d}
  <2>1. gets' = G \cup N /\ w \in BOOLEAN
    BY <1>1, <1>8 DEF P!Asks, P!OpenTabs
  <2>2. /\ r \in Gets /\ r.tab = t /\ r.kind = "status" /\ 0 < r.nr /\ ~r.rows /\ r.pc = "sent" /\ r.saw = 0
        /\ \A e \in gets : e.tab = t => e.nr < r.nr
    BY <1>2, <1>8, RequestIs
  <2> HIDE DEF r, w
  <2>3. /\ d \in Gets /\ d.tab = t /\ d.kind = "status" /\ d.nr = r.nr /\ ~d.rows /\ d.pc = "sent" /\ d.saw = 0
    BY <2>1, <2>2 DEF Gets
  <2> HIDE DEF d
  <2>4. GetFits(d, cards', aged, draft, pubs, deployed)
    <3>1. GetTyped(d, cards')
      BY <1>5, <1>8, <2>2, <2>3 DEF GetTyped
    <3>2. PressFits(d, pubs)
      BY <1>2, <2>3, SiteIs DEF PressFits
    <3>3. ReadFits(d, pubs, deployed) /\ StillSo(d, aged, draft, pubs, deployed)
      BY <2>3 DEF ReadFits, StillSo
    <3> QED BY <3>1, <3>2, <3>3 DEF GetFits
  <2>5. ASSUME NEW e \in G PROVE Pair(d, e) /\ Pair(e, d)
    <3>1. e.nr \in Nat /\ r.nr \in Nat /\ (e.tab = t => e.nr < r.nr)
      BY <2>2, GetIs DEF Gets
    <3>2. ~(e.tab = d.tab /\ e.nr = d.nr)
      BY <2>3, <3>1
    <3> QED BY <2>3, <3>2, UnreadPairs
  <2>6. Pair(d, d)
    BY <2>3, UnreadPairs
  <2>7. Tops(gets')
    <3>1. G \in SUBSET Gets
      BY <1>3
    <3> HIDE DEF G
    <3> QED BY <1>3, <2>1, <2>3, <3>1, TopMore
  <2>8. /\ N \in SUBSET Gets /\ (\A e \in N : GetFits(e, cards', aged, draft, pubs, deployed))
        /\ (\A e \in N : \A f \in G : Pair(e, f) /\ Pair(f, e)) /\ (\A e, f \in N : Pair(e, f))
    BY <2>3, <2>4, <2>5, <2>6
  <2>9. /\ d \in gets' /\ G \subseteq gets' /\ (\A e \in gets' : e.rows => e \in G)
        /\ \A e \in gets' : ~e.rows => e \in G \/ e.kind = "status"
    BY <2>1, <2>3
  <2> HIDE DEF N, G
  <2>10. ASSUME NEW u \in DOMAIN cards PROVE CardFits(u, cards'[u], gets', aged, draft, pubs, deployed, overtook)
    BY <1>6, <2>3, <2>9
  <2> QED BY <1>1, <1>3, <1>4, <1>5, <2>1, <2>7, <2>8, <2>10, Settles
<1> QED BY <1>7, <1>8

-----------------------------------------------------------------------------

LEMMA PubKeeps == PubInv /\ [P!Next]_(P!state) => PubInv'
<1> SUFFICES ASSUME PubInv, [P!Next]_(P!state) PROVE PubInv'
  OBVIOUS
<1>1. CASE UNCHANGED P!state
  <2>1. /\ UNCHANGED <<draft, pubs, deployed, cards, gets, pageEdits, crossedPubs, aged, overtook>>
    BY <1>1 DEF P!state, P!server, P!history
  <2>2. PubTyped'
    BY <2>1 DEF PubInv, PubTyped
  <2> QED BY <2>1, <2>2 DEF PubInv
<1>2. CASE P!Edit
  BY <1>2, EditKeeps
<1>3. CASE \E i \in DOMAIN pubs : P!Starts(i) \/ P!Step(i) \/ P!Fails(i)
  BY <1>3, StartsKeeps, StepKeeps, FailsKeeps
<1>4. CASE \E d \in DOMAIN deployed : P!Deploys(d)
  BY <1>4, DeploysKeeps
<1>5. CASE \E c \in gets : \/ P!ReadRows(c) \/ P!Find(c) \/ P!Enqueue(c) \/ P!Loaded(c) \/ P!Refreshed(c) \/ P!Pressed(c)
                           \/ P!Lost(c)
  BY <1>5, ReadRowsKeeps, FindKeeps, EnqueueKeeps, LoadedKeeps, RefreshedKeeps, PressedKeeps, LostKeeps
<1>6. CASE P!PressElsewhere
  BY <1>6, PressElsewhereKeeps
<1>7. CASE \E t \in DOMAIN cards : P!Poll(t) \/ P!Press(t)
  BY <1>7, PollKeeps
<1> QED BY <1>1, <1>2, <1>3, <1>4, <1>5, <1>6, <1>7 DEF P!Next, P!OpenTabs

\* A page at rest has no answer to come, and the sums of what is owed leave nothing published twice.
LEMMA PubShows == PubInv => P!PublishIsShown
<1> SUFFICES ASSUME PubInv PROVE P!PublishIsShown
  OBVIOUS
<1>1. SiteFits(draft, pubs, deployed, crossedPubs, pageEdits)
  BY SiteIs
<1>2. \A i, j \in DOMAIN pubs : i < j /\ {pubs[i], pubs[j]} \subseteq P!Active => j \in crossedPubs
  BY <1>1 DEF SiteFits
<1>3. Len(deployed) <= pageEdits
  <2>1. Unpushed(draft) \in Nat /\ Owed(pubs) \in Nat /\ draft.ahead \in Nat /\ Len(deployed) \in Nat /\ pageEdits \in Nat
    BY SiteIs
  <2>2. Len(deployed) + draft.ahead + Unpushed(draft) + Owed(pubs) <= pageEdits
    BY <1>1 DEF SiteFits
  <2>3. \A a, b, c, d, n \in Nat : a + b + c + d <= n => a <= n
    OBVIOUS
  <2> HIDE DEF draft, pubs, deployed, pageEdits
  <2> QED BY <2>1, <2>2, <2>3
<1>4. ASSUME NEW t \in DOMAIN cards
      PROVE  LET p == cards[t] IN
             /\ <<t, 0>> \notin aged /\ p.shown.is = "status" =>
                  /\ p.shown.publishing = P!Publishing /\ P!Changed(p.shown) = P!Changed(draft)
                  /\ t \notin Homes => p.shown.dep = Len(deployed)
                  /\ (p.shown.dep > 0 => p.shown.status = deployed[p.shown.dep])
                  /\ p.followed > 0 /\ p.followed = Len(deployed) => deployed[p.followed] = "pending"
             /\ t \in Homes /\ P!Rests(t) /\ p.shown.is = "status" /\ t \notin overtook => p.shown.seen >= p.asked
             /\ \A n \in DOMAIN p.told : deployed[p.told[n]] # "pending"
             /\ \A n, m \in DOMAIN p.told : n # m /\ p.told[n] = p.told[m] => t \in overtook
  <2> DEFINE p == cards[t]
  <2>1. CardFits(t, p, gets, aged, draft, pubs, deployed, overtook) /\ p \in Cards
    BY DEF PubInv, PubTyped
  <2>2. p.shown \in Sights /\ p.asked \in Nat /\ p.shown.seen \in Nat
    BY <2>1 DEF Cards, Sights
  <2> HIDE DEF p
  <2>3. ASSUME <<t, 0>> \notin aged, p.shown.is = "status"
        PROVE  /\ p.shown.publishing = P!Publishing /\ P!Changed(p.shown) = P!Changed(draft)
               /\ t \notin Homes => p.shown.dep = Len(deployed)
               /\ (p.shown.dep > 0 => p.shown.status = deployed[p.shown.dep])
               /\ p.followed > 0 /\ p.followed = Len(deployed) => deployed[p.followed] = "pending"
    <3>1. /\ Agrees(p.shown, draft, pubs) /\ DepIs(p.shown, deployed, t) /\ p.shown.ahead = draft.ahead
          /\ (p.followed > 0 /\ p.followed = Len(deployed) => deployed[p.followed] = "pending")
      BY <2>1, <2>3 DEF CardFits, CardCurrent
    <3>2. p.shown.publishing = P!Publishing
      BY <3>1, UnderwayIs, Zenon DEF Agrees
    <3>3. P!Changed(p.shown) = P!Changed(draft)
      <4>1. p.shown.pending = draft.pending
        BY <3>1, Zenon DEF Agrees
      <4> QED BY <3>1, <4>1, Zenon DEF P!Changed
    <3> QED BY <3>1, <3>2, <3>3 DEF DepIs
  <2>4. t \in Homes /\ P!Rests(t) /\ p.shown.is = "status" /\ t \notin overtook => p.shown.seen >= p.asked
    BY <2>1, <2>2 DEF CardFits, AskedFits, InTime, P!Rests
  <2>5. /\ \A n \in DOMAIN p.told : deployed[p.told[n]] # "pending"
        /\ \A n, m \in DOMAIN p.told : n # m /\ p.told[n] = p.told[m] => t \in overtook
    BY <2>1 DEF CardFits, ToldFits, ToldOnce
  <2> QED BY <2>3, <2>4, <2>5 DEF p
<1> QED BY <1>2, <1>3, <1>4 DEF P!PublishIsShown, P!OpenTabs

\* From any pages, two publishes are under way only if their presses crossed, and even then nothing is published twice; a
\* page that the site has not changed behind shows it as it is; Home at rest has heard of the publish it asked for; an
\* editor announces what it saw going live once, when it has ended, unless answers overtook each other
\* (OperationsService.submitPublish, OperationRunner.publish, usePublish, Home).
THEOREM PublishAlwaysShown == P!Spec => []P!PublishIsShown
<1>1. P!Init => PubInv
  BY PubStarts
<1>2. PubInv /\ [P!Next]_(P!state) => PubInv'
  BY PubKeeps
<1>3. PubInv => P!PublishIsShown
  BY PubShows
<1> QED BY <1>1, <1>2, <1>3, PTL DEF P!Spec

HIDE DEF draft, pubs, deployed, cards, gets, pageEdits, presses, cardFaults, crossedPubs, aged, overtook

-----------------------------------------------------------------------------
(* What the product's run keeps of them *)

LEMMA ReaderRun ==
  /\ StartsWith /\ which = "reader" => R!Init
  /\ [Steps]_product => which' = which /\ (which = "reader" => [R!Next]_(R!state))
BY DEF StartsWith, Steps, Copilot, Accounts, Checkout, Credentials, Integrations, Editor, Form, Wishes, Codemod, Reader, Chat, Desk, Tree, Welcome,
       Publish, Plans, Panels, product, parts, R!state, R!sandbox, R!counts

LEMMA PanelsRun ==
  /\ StartsWith /\ which = "panels" => S!Init
  /\ [Steps]_product => which' = which /\ (which = "panels" => [S!Next]_(S!state))
BY DEF StartsWith, Steps, Copilot, Accounts, Checkout, Credentials, Integrations, Editor, Form, Wishes, Codemod, Reader, Chat, Desk, Tree, Welcome,
       Publish, Plans, Panels, product, parts, S!state, S!sandbox, S!bounds, S!history

LEMMA FormRun ==
  /\ StartsWith /\ which = "form" => F!Init
  /\ [Steps]_product => which' = which /\ (which = "form" => [F!Next]_(F!state))
BY DEF StartsWith, Steps, Copilot, Accounts, Checkout, Credentials, Integrations, Editor, Form, Wishes, Codemod, Reader, Chat, Desk, Tree, Welcome,
       Publish, Plans, Panels, product, parts, F!state, F!server

LEMMA WishesRun ==
  /\ StartsWith /\ which = "wishes" => W!Init
  /\ [Steps]_product => which' = which /\ (which = "wishes" => [W!Next]_(W!state))
BY DEF StartsWith, Steps, Copilot, Accounts, Checkout, Credentials, Integrations, Editor, Form, Wishes, Codemod, Reader, Chat, Desk, Tree, Welcome,
       Publish, Plans, Panels, product, parts, W!state

LEMMA EditorRun ==
  /\ StartsWith /\ which = "editor" => E!Init
  /\ [Steps]_product => which' = which /\ (which = "editor" => [E!Next]_(E!state))
BY DEF StartsWith, Steps, Copilot, Accounts, Checkout, Credentials, Integrations, Editor, Form, Wishes, Codemod, Reader, Chat, Desk, Tree, Welcome,
       Publish, Plans, Panels, product, parts, E!state, E!histories

LEMMA ChatRun ==
  /\ StartsWith /\ which = "chat" => H!Init
  /\ [Steps]_product => which' = which /\ (which = "chat" => [H!Next]_(H!state))
BY DEF StartsWith, Steps, Copilot, Accounts, Checkout, Credentials, Integrations, Editor, Form, Wishes, Codemod, Reader, Chat, Desk, Tree, Welcome,
       Publish, Plans, Panels, product, parts, H!state, H!history

LEMMA WelcomeRun ==
  /\ StartsWith /\ which = "welcome" => O!Init
  /\ [Steps]_product => which' = which /\ (which = "welcome" => [O!Next]_(O!state))
BY DEF StartsWith, Steps, Copilot, Accounts, Checkout, Credentials, Integrations, Editor, Form, Wishes, Codemod, Reader, Chat, Desk, Tree, Welcome,
       Publish, Plans, Panels, product, parts, O!state, O!server, O!history

LEMMA PublishRun ==
  /\ StartsWith /\ which = "publish" => P!Init
  /\ [Steps]_product => which' = which /\ (which = "publish" => [P!Next]_(P!state))
BY DEF StartsWith, Steps, Copilot, Accounts, Checkout, Credentials, Integrations, Editor, Form, Wishes, Codemod, Reader, Chat, Desk, Tree, Welcome,
       Publish, Plans, Panels, product, parts, P!state, P!server, P!history

\* ViewsAreCurrent, for any operations, files, integrations, users and bounds: what the editor, its code, its panels, the
\* form, the list of wishes and the admins' desk show is what the server has, as far as they can know.
THEOREM ViewsAlwaysCurrent == ProductSpec => []ViewsAreCurrent
<1> DEFINE EditorFits == which = "editor" => EditorInv
           ReaderFits == which = "reader" => ReaderInv
           PanelsFit == which = "panels" => SideInv
           FormFits == which = "form" => FormInv
           WishesFit == which = "wishes" => WishInv
           DeskFits == which = "desk" => RowsInv
<1>1. StartsWith => EditorFits /\ ReaderFits /\ PanelsFit /\ FormFits /\ WishesFit /\ DeskFits
  BY EditorRun, ReaderRun, PanelsRun, FormRun, WishesRun, DeskRun, EditorStarts, ReaderStarts, SideStarts, FormStarts,
     WishesStart, RowsStart, DesksGiven
<1>2. EditorFits /\ [Steps]_product => EditorFits'
  BY EditorRun, EditorKeeps
<1>3. ReaderFits /\ [Steps]_product => ReaderFits'
  BY ReaderRun, ReaderKeeps, PathsGiven
<1>4. PanelsFit /\ [Steps]_product => PanelsFit'
  BY PanelsRun, SideKeeps
<1>5. FormFits /\ [Steps]_product => FormFits'
  BY FormRun, FormKeeps
<1>6. WishesFit /\ [Steps]_product => WishesFit'
  BY WishesRun, WishKeep, PagesGiven
<1>7. DeskFits /\ [Steps]_product => DeskFits'
  BY DeskRun, RowsKept, DesksGiven
<1>8. EditorFits /\ ReaderFits /\ PanelsFit /\ FormFits /\ WishesFit /\ DeskFits => ViewsAreCurrent
  BY EditorShows, ReaderShows, SideShows, FormShows, WishShown, RowsShow, PathsGiven DEF ViewsAreCurrent
<1> HIDE DEF EditorFits, ReaderFits, PanelsFit, FormFits, WishesFit, DeskFits
<1> QED BY <1>1, <1>2, <1>3, <1>4, <1>5, <1>6, <1>7, <1>8, PTL DEF ProductSpec

\* OutcomeIsTold, for any operations, messages, tabs and bounds: a person is told what becomes of what they asked for, in
\* the editor, the chat, the page of the first preview and the pages that publish, and loses no text.
THEOREM OutcomeAlwaysTold == ProductSpec => []OutcomeIsTold
<1> DEFINE EditorFits == which = "editor" => EditorInv
           ChatFits == which = "chat" => ChatInv
           WelcomeFits == which = "welcome" => WelcomeInv
           PublishFits == which = "publish" => PubInv
<1>1. StartsWith => EditorFits /\ ChatFits /\ WelcomeFits /\ PublishFits
  BY EditorRun, ChatRun, WelcomeRun, PublishRun, EditorStarts, ChatStarts, WelcomeStarts, PubStarts
<1>2. EditorFits /\ [Steps]_product => EditorFits'
  BY EditorRun, EditorKeeps
<1>3. ChatFits /\ [Steps]_product => ChatFits'
  BY ChatRun, ChatKeeps
<1>4. WelcomeFits /\ [Steps]_product => WelcomeFits'
  BY WelcomeRun, WelcomeKeeps
<1>5. PublishFits /\ [Steps]_product => PublishFits'
  BY PublishRun, PubKeeps
<1>6. EditorFits /\ ChatFits /\ WelcomeFits /\ PublishFits => OutcomeIsTold
  BY EditorTells, ChatShows, ChatKeepsText, WelcomeShows, PubShows DEF OutcomeIsTold
<1> HIDE DEF EditorFits, ChatFits, WelcomeFits, PublishFits
<1> QED BY <1>1, <1>2, <1>3, <1>4, <1>5, <1>6, PTL DEF ProductSpec

=============================================================================
