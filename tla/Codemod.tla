------------------------------ MODULE Codemod -------------------------------
(***************************************************************************)
(* The codemod engine on text: the children of a slot, the list of the     *)
(* providers, and the slots of the files, between which the owner of the   *)
(* portfolio, or Plinth AI, writes code of their own.  Integrations takes  *)
(* what is shown here for granted, and models plinth.json, the imports and *)
(* who may be installed.                                                   *)
(*                                                                         *)
(* A text is a sequence of what the parser tells apart.  White space and   *)
(* the formatter are left out, but for the comma that it leaves after the  *)
(* last element of a list, or does not.                                    *)
(***************************************************************************)
EXTENDS Naturals, Sequences, FiniteSets

CONSTANTS
  Ids,       \* integrations: numbers, in the order of their ids
  Slots,     \* SLOT_NAMES, in the order of SLOTS
  Wraps,     \* those that wrap the page
  After,     \* slot -> the slot it is added after, or "none"
  Paths,     \* the files that may hold slots, in the order they are looked through
  Template,  \* file -> slots, as the first template had them
  MaxOwn     \* things that the owner does (bound)

VARIABLES
  children,  \* of one slot
  array,     \* the elements of wrap={[...]}
  files,     \* file -> the slots it declares, in order
  version,   \* plinth.json: whether slotsVersion is the current one
  own        \* history: what the owner wrote, and whether a marker was damaged

state == <<children, array, files, version, own>>

Token(kind, i) == [kind |-> kind, id |-> i]
Block(i) == <<Token("start", i), Token("element", i), Token("end", i)>>
Comma    == Token("comma", 0)
Words(s) == SelectSeq(s, LAMBDA t : t.kind = "own")

Init ==
  /\ children = <<>> /\ array = <<>> /\ files = Template /\ version = FALSE
  /\ own = [children |-> <<>>, array |-> <<>>, n |-> 0, damaged |-> {}]

-----------------------------------------------------------------------------
(* Markers *)

Markers(s) == SelectSeq(s, LAMBDA t : t.kind \in {"start", "end"})

\* pair: "refusing anything unpaired or nested"
Paired(s) ==
  LET m == Markers(s)
  IN Len(m) % 2 = 0 /\ \A k \in 1..(Len(m) \div 2) : m[2 * k - 1].kind = "start" /\ m[2 * k] = Token("end", m[2 * k - 1].id)

First(s, Is(_)) == CHOOSE k \in DOMAIN s : Is(s[k]) /\ \A l \in 1..(k - 1) : ~Is(s[l])
Last(s, Is(_))  == CHOOSE k \in DOMAIN s : Is(s[k]) /\ \A l \in (k + 1)..Len(s) : ~Is(s[l])

Has(s, i)     == \E k \in DOMAIN s : s[k] = Token("start", i)
StartOf(s, i) == First(s, LAMBDA t : t = Token("start", i))
EndOf(s, i)   == First(s, LAMBDA t : t = Token("end", i))
Beyond(i)     == {j \in Ids : j > i}

Before(s, k, text)  == SubSeq(s, 1, k - 1) \o text \o SubSeq(s, k, Len(s))
Cut(s, from, to)    == SubSeq(s, 1, from - 1) \o SubSeq(s, to + 1, Len(s))

\* existing.id > integrationId: the block that a new one goes in front of
NextStart(s, i) == First(s, LAMBDA t : t.kind = "start" /\ t.id > i)

-----------------------------------------------------------------------------
(* Elements in a slot *)

InsertElement(s, i) ==
  CASE Has(s, i) -> s
    [] ~Has(s, i) /\ (\E j \in Beyond(i) : Has(s, j)) -> Before(s, NextStart(s, i), Block(i))
    [] OTHER -> s \o Block(i)

RemoveElement(s, i) == IF Has(s, i) THEN Cut(s, StartOf(s, i), EndOf(s, i)) ELSE s

-----------------------------------------------------------------------------
(* Providers in wrap={[...]} *)

IsElement(t) == t.kind \in {"element", "own"}
Empty(s) == \A k \in DOMAIN s : ~IsElement(s[k])

InsertProvider(s, i) ==
  LET end == Last(s, LAMBDA t : IsElement(t) \/ t.kind = "end")
  IN CASE Has(s, i) -> s
       [] ~Has(s, i) /\ (\E j \in Beyond(i) : Has(s, j)) -> Before(s, NextStart(s, i), Block(i) \o <<Comma>>)
       [] ~Has(s, i) /\ (\A j \in Beyond(i) : ~Has(s, j)) /\ Empty(s) -> Block(i) \o s
       [] OTHER -> Before(s, end + 1, <<Comma>> \o Block(i))

\* Mutant: only a comma before the block goes with it.
RemoveCommaBefore(s, i) ==
  IF Has(s, i)
  THEN LET from == StartOf(s, i) IN Cut(s, IF from > 1 /\ s[from - 1] = Comma THEN from - 1 ELSE from, EndOf(s, i))
  ELSE s

\* removeBlock: the comma after the block goes with it, or the one before it.
RemoveProvider(s, i) ==
  LET from == StartOf(s, i)
      to   == EndOf(s, i)
  IN CASE ~Has(s, i) -> s
       [] Has(s, i) /\ to < Len(s) /\ s[to + 1] = Comma -> Cut(s, from, to + 1)
       [] Has(s, i) /\ (to = Len(s) \/ s[to + 1] # Comma) /\ from > 1 /\ s[from - 1] = Comma -> Cut(s, from - 1, to)
       [] OTHER -> Cut(s, from, to)

-----------------------------------------------------------------------------
(* Slots that a portfolio is older than *)

Number(s, x)   == Cardinality({k \in DOMAIN s : s[k] = x})
Declares(fs, x) == {p \in DOMAIN Paths : Number(fs[Paths[p]], x) > 0}

\* findSlotFile
FileOf(fs, x) == Paths[CHOOSE p \in Declares(fs, x) : \A q \in Declares(fs, x) : p <= q]
Missing(fs)   == {x \in {Slots[k] : k \in DOMAIN Slots} : Declares(fs, x) = {}}

\* insertSlotAfter
AddAfter(s, x, anchor) == Before(s, First(s, LAMBDA t : t = anchor) + 1, <<x>>)

\* One slot of one pass: m is the files so far, the slots to be placed and those given up.
Try(m, x) ==
  LET anchor == After[x]
      path   == FileOf(m.files, anchor)
      GiveUp == [m EXCEPT !.pending = @ \ {x}, !.skipped = @ \cup {x}]
  IN CASE x \notin m.pending -> m
       [] x \in m.pending /\ (x \in Wraps \/ anchor = "none") -> GiveUp
       [] x \in m.pending /\ x \notin Wraps /\ anchor # "none" ->
            CASE Declares(m.files, anchor) = {} -> m
              [] Declares(m.files, anchor) # {} /\ Number(m.files[path], anchor) > 1 -> GiveUp
              [] OTHER -> [m EXCEPT !.files[path] = AddAfter(@, x, anchor), !.pending = @ \ {x}]

Pass(m) == LET upTo[k \in 0..Len(Slots)] == IF k = 0 THEN m ELSE Try(upTo[k - 1], Slots[k]) IN upTo[Len(Slots)]

\* migrateSlots: passes until one places nothing; each but the last places a slot.
Passes(fs) ==
  LET after[k \in 0..Len(Slots)] ==
        IF k = 0 THEN [files |-> fs, pending |-> Missing(fs), skipped |-> {}] ELSE Pass(after[k - 1])
  IN after[Len(Slots)]

Complete(m) == m.pending = {} /\ m.skipped = {}

-----------------------------------------------------------------------------
(* Operations.  A text whose markers do not pair is refused, and nothing is written. *)

Install(i) ==
  /\ Paired(children)
  /\ children' = InsertElement(children, i)
  /\ UNCHANGED <<array, files, version, own>>

Uninstall(i) ==
  /\ Paired(children)
  /\ children' = RemoveElement(children, i)
  /\ UNCHANGED <<array, files, version, own>>

Wrap(i) ==
  /\ Paired(array)
  /\ array' = InsertProvider(array, i)
  /\ UNCHANGED <<children, files, version, own>>

Unwrap(i) ==
  /\ Paired(array)
  /\ array' = RemoveProvider(array, i)
  /\ UNCHANGED <<children, files, version, own>>

\* A slot that could not be placed is tried again by the next operation, as the version stays.
Migrate ==
  /\ ~version \/ Missing(files) # {}
  /\ files' = Passes(files).files
  /\ version' = (version \/ Complete(Passes(files)))
  /\ UNCHANGED <<children, array, own>>

-----------------------------------------------------------------------------
(* The owner: anything but inside a block *)

Outside(s) == {k \in 1..(Len(s) + 1) : k > Len(s) \/ s[k].kind \in {"start", "own", "comma"}}
Write == own.n < MaxOwn

Word == Token("own", own.n + 1)

OwnText ==
  /\ Write
  /\ \E k \in Outside(children) :
       /\ children' = Before(children, k, <<Word>>)
       /\ own' = [own EXCEPT !.n = @ + 1, !.children = Words(children')]
  /\ UNCHANGED <<array, files, version>>

\* an element of the owner's, with its comma
OwnProvider ==
  /\ Write
  /\ \/ Empty(array) /\ array' = <<Word>> \o array
     \/ ~Empty(array) /\ \E k \in 1..Len(array) :
          /\ array[k].kind \in {"start", "own"}
          /\ array' = Before(array, k, <<Word, Comma>>)
  /\ own' = [own EXCEPT !.n = @ + 1, !.array = Words(array')]
  /\ UNCHANGED <<children, files, version>>

\* the formatter
TrailingComma ==
  /\ ~Empty(array) /\ Write
  /\ array' = IF array[Len(array)] = Comma THEN SubSeq(array, 1, Len(array) - 1) ELSE Append(array, Comma)
  /\ own' = [own EXCEPT !.n = @ + 1]
  /\ UNCHANGED <<children, files, version>>

\* A marker is lost.
Damage ==
  /\ Write
  /\ \/ \E k \in DOMAIN children :
          /\ children[k].kind \in {"start", "end"}
          /\ children' = Cut(children, k, k) /\ UNCHANGED array
          /\ own' = [own EXCEPT !.n = @ + 1, !.damaged = @ \cup {"children"}]
     \/ \E k \in DOMAIN array :
          /\ array[k].kind \in {"start", "end"}
          /\ array' = Cut(array, k, k) /\ UNCHANGED children
          /\ own' = [own EXCEPT !.n = @ + 1, !.damaged = @ \cup {"array"}]
  /\ UNCHANGED <<files, version>>

\* A redesign: a slot goes, or is somewhere else, or is there twice.
Redesign ==
  /\ Write
  /\ \E p, q \in DOMAIN Paths : \E k \in DOMAIN files[Paths[p]] :
       LET slot == files[Paths[p]][k]
           gone == [files EXCEPT ![Paths[p]] = Cut(@, k, k)]
       IN files' \in {gone, [gone EXCEPT ![Paths[q]] = Append(@, slot)], [files EXCEPT ![Paths[q]] = Append(@, slot)]}
  /\ own' = [own EXCEPT !.n = @ + 1]
  /\ UNCHANGED <<children, array, version>>

Next ==
  \/ \E i \in Ids : Install(i) \/ Uninstall(i) \/ Wrap(i) \/ Unwrap(i)
  \/ Migrate
  \/ OwnText \/ OwnProvider \/ TrailingComma \/ Damage \/ Redesign

Spec == Init /\ [][Next]_state

-----------------------------------------------------------------------------
TypeOK ==
  /\ \A k \in DOMAIN children : children[k].kind \in {"start", "element", "end", "own"}
  /\ \A k \in DOMAIN array : array[k].kind \in {"start", "element", "end", "own", "comma"}
  /\ version \in BOOLEAN /\ own.n \in 0..MaxOwn

\* Every block is whole, and the blocks are in order.
Whole(s) ==
  /\ Paired(s)
  /\ \A i \in Ids : Has(s, i) => SubSeq(s, StartOf(s, i), EndOf(s, i)) = Block(i)
  /\ \A k, l \in DOMAIN s : k < l /\ s[k].kind = "start" /\ s[l].kind = "start" => s[k].id < s[l].id

\* Elements, with one comma between each two, and perhaps one after the last.
IsList(s) ==
  LET t == SelectSeq(s, LAMBDA x : x.kind \notin {"start", "end"})
  IN \A k \in DOMAIN t : IF k % 2 = 0 THEN t[k] = Comma ELSE IsElement(t[k])

\* The slots that can be placed: those from which neighbours lead to a slot that is declared, once in its file.
Anchored(fs) ==
  LET good(x) == Declares(fs, x) # {} /\ Number(fs[FileOf(fs, x)], x) = 1
      in[k \in 0..Len(Slots)] ==
        IF k = 0 THEN {Slots[j] : j \in {j \in DOMAIN Slots : good(Slots[j])}}
        ELSE in[k - 1] \cup {x \in Missing(fs) \ Wraps : After[x] \in in[k - 1]}
  IN in[Len(Slots)]

\* slots.ts, migrate.ts: through installs and removals in any order, whatever the owner writes between them, the
\* owner's own words stay as they are ("nothing around it"), the blocks stay whole and "sorted by integration id, so
\* the result doesn't depend on the order", and the providers stay a list; a migration adds the slots that are missing
\* and have somewhere to go, whatever order they are declared in, moves no slot that is there, and changes nothing the
\* second time.
EditsAreExact ==
  /\ Words(children) = own.children /\ Words(array) = own.array
  /\ ("children" \notin own.damaged => Whole(children)) /\ ("array" \notin own.damaged => Whole(array))
  /\ IsList(array)
  /\ LET m == Passes(files)
     IN /\ Missing(m.files) = Missing(files) \ Anchored(files)
        /\ \A p \in DOMAIN files : SelectSeq(m.files[p], LAMBDA x : x \notin Missing(files)) = files[p]
        /\ Passes(m.files).files = m.files

=============================================================================
