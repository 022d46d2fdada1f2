---------------------------- MODULE PagesProofs -----------------------------
(***************************************************************************)
(* What the pages around the editor promise, for every number of users,    *)
(* files, slots, names, requests and faults:                               *)
(*   AnAdminRemains               no request takes the last admin (Desk)   *)
(*   RowsAreAlwaysTrue            the rows of the users (Desk)             *)
(*   CodeShownIsTrue              the file that is shown (CodeReader)      *)
(*   SlotsAreAlwaysRead           the slots of the preview (SidePanels)    *)
(*   FormAlwaysSpeaksOfItsName    a GitHub name's check (InstallForm)      *)
(*   WishesAreAlwaysShown         the votes on a wish (Wishes)             *)
(* A page shows the answer to a request it sent earlier.  So the invariant *)
(* of each is about the answers under way: which of them are of the state  *)
(* as it is, and that one of those is still to come when the page is not.  *)
(***************************************************************************)
EXTENDS MCProduct, FiniteSetTheorems, TLAPS

-----------------------------------------------------------------------------
(* Desk: the admins *)

user == v1
list == v2
calls == v3
sent == v4
crossed == v5
undone == v6
behind == v7

USE DEF user, list, calls, sent, crossed, undone, behind

Summaries == [id : Users, role : {"user", "admin"}, access : {"open", "blocked"}, plan : {"free", "pro"}]

DeskRequests == [id : Nat, by : Desks, kind : {"load", "act"}, of : Users, field : {"", "role", "access", "plan"},
          value : D!Filters \cup {"user", "open", "blocked", "free", "pro"},
          at : {"sent", "admitted", "refused", "done"}, got : SUBSET Summaries]

\* An act writes one of the three fields, with a value of it.
ActFits(c) ==
  c.kind = "act" =>
     \/ c.field = "role" /\ c.value \in {"user", "admin"}
     \/ c.field = "access" /\ c.value \in {"open", "blocked"}
     \/ c.field = "plan" /\ c.value \in {"free", "pro"}

(***************************************************************************)
(* What the rows and the requests under way are: a button sends the        *)
(* opposite of what its row shows, so a page must show rows of users.      *)
(***************************************************************************)
DeskTyped ==
  /\ user \in [Users -> D!Row]
  /\ sent \in Nat
  /\ list \in [Desks -> [filter : D!Filters, rows : SUBSET Summaries, busy : SUBSET Users]]
  /\ calls \subseteq DeskRequests
  /\ \A c \in calls : ActFits(c)

LEMMA SummaryFits ==
  ASSUME user \in [Users -> D!Row], NEW u \in Users
  PROVE  D!Summary(user, u) \in Summaries
BY DEF D!Summary, Summaries, D!Row

\* update, of one field: the row stays a row, and a plan that changes leaves the role and the access alone.
LEMMA FieldWritten ==
  ASSUME NEW r \in D!Row, NEW c \in DeskRequests, c.kind = "act", ActFits(c)
  PROVE  /\ [r EXCEPT ![c.field] = c.value] \in D!Row
         /\ c.field = "plan" => /\ [r EXCEPT ![c.field] = c.value].role = r.role
                                /\ [r EXCEPT ![c.field] = c.value].access = r.access
<1>1. CASE c.field = "role" /\ c.value \in {"user", "admin"}
  BY <1>1 DEF D!Row
<1>2. CASE c.field = "access" /\ c.value \in {"open", "blocked"}
  BY <1>2 DEF D!Row
<1>3. CASE c.field = "plan" /\ c.value \in {"free", "pro"}
  BY <1>3 DEF D!Row
<1> QED BY <1>1, <1>2, <1>3 DEF ActFits

LEMMA DeskStarts ==
  ASSUME Desks \subseteq Users, D!Init
  PROVE  DeskTyped /\ D!AdminsRemain
<1>1. user \in [Users -> D!Row]
  BY DEF D!Init, D!Row, D!Blank
<1>2. \A u \in Users : D!Summary(user, u) \in Summaries
  BY <1>1, SummaryFits
<1>3. list \in [Desks -> [filter : D!Filters, rows : SUBSET Summaries, busy : SUBSET Users]]
  BY <1>2 DEF D!Init, D!Filters
<1> QED BY <1>1, <1>3 DEF D!Init, DeskTyped, D!AdminsRemain

\* A request that goes on to another place stays what it is.
LEMMA StepTyped ==
  ASSUME calls \subseteq DeskRequests, \A c \in calls : ActFits(c),
         NEW c \in calls, NEW at \in {"sent", "admitted", "refused", "done"}, D!Step(c, at)
  PROVE  calls' \subseteq DeskRequests /\ \A d \in calls' : ActFits(d)
<1>1. [c EXCEPT !.at = at] \in DeskRequests /\ ActFits([c EXCEPT !.at = at])
  BY DEF DeskRequests, ActFits
<1> QED BY <1>1 DEF D!Step

\* The requests that the buttons send.
LEMMA CallTyped ==
  ASSUME Desks \subseteq Users, sent \in Nat, NEW d \in Desks, NEW kind \in {"load", "act"}
  PROVE  D!Call(d, kind) \in DeskRequests /\ D!Call(d, kind).kind = kind
BY DEF D!Call, DeskRequests, D!Filters

LEMMA LoadSent ==
  ASSUME NEW r \in DeskRequests, r.kind = "load", NEW f \in D!Filters
  PROVE  [r EXCEPT !.value = f] \in DeskRequests /\ ActFits([r EXCEPT !.value = f])
BY DEF DeskRequests, ActFits

LEMMA ActSent ==
  ASSUME NEW r \in DeskRequests, r.kind = "act", NEW u \in Users, NEW field \in {"role", "access", "plan"},
         NEW v \in D!Filters \cup {"user", "open", "blocked", "free", "pro"},
         \/ field = "role" /\ v \in {"user", "admin"}
         \/ field = "access" /\ v \in {"open", "blocked"}
         \/ field = "plan" /\ v \in {"free", "pro"}
  PROVE  LET c == [r EXCEPT !.of = u, !.field = field, !.value = v] IN c \in DeskRequests /\ ActFits(c)
BY DEF DeskRequests, ActFits

LEMMA LoadTyped ==
  ASSUME Desks \subseteq Users, DeskTyped, NEW d \in Desks, NEW f \in D!Filters, D!Load(d, f)
  PROVE  DeskTyped'
<1> DEFINE c == [D!Call(d, "load") EXCEPT !.value = f]
<1>1. c \in DeskRequests /\ ActFits(c)
  BY CallTyped, LoadSent DEF DeskTyped
<1>2. calls' = calls \cup {c} /\ sent' \in Nat /\ UNCHANGED user
  BY DEF D!Load, D!Send, DeskTyped
<1>3. list' \in [Desks -> [filter : D!Filters, rows : SUBSET Summaries, busy : SUBSET Users]]
  BY DEF D!Load, DeskTyped
<1> QED BY <1>1, <1>2, <1>3 DEF DeskTyped

LEMMA ActTyped ==
  ASSUME Desks \subseteq Users, DeskTyped, NEW d \in Desks, NEW r \in list[d].rows,
         NEW field \in {"role", "access", "plan"}, D!Act(d, r, field)
  PROVE  DeskTyped'
<1> DEFINE c == [D!Call(d, "act") EXCEPT !.of = r.id, !.field = field, !.value = D!Opposite(r[field])]
<1>1. r \in Summaries
  BY DEF DeskTyped
<1>2. c \in DeskRequests /\ ActFits(c)
  <2> DEFINE value == D!Opposite(r[field])
  <2>2. \/ field = "role" /\ value \in {"user", "admin"}
        \/ field = "access" /\ value \in {"open", "blocked"}
        \/ field = "plan" /\ value \in {"free", "pro"}
    <3>1. field = "role" => r[field] \in {"user", "admin"}
      BY <1>1 DEF Summaries
    <3>2. field = "access" => r[field] \in {"open", "blocked"}
      BY <1>1 DEF Summaries
    <3>3. field = "plan" => r[field] \in {"free", "pro"}
      BY <1>1 DEF Summaries
    <3> QED BY <3>1, <3>2, <3>3 DEF D!Opposite
  <2> HIDE DEF value
  <2>3. r.id \in Users /\ value \in D!Filters \cup {"user", "open", "blocked", "free", "pro"}
    BY <1>1, <2>2 DEF Summaries, D!Filters
  <2> QED BY <2>2, <2>3, CallTyped, ActSent DEF DeskTyped, value
<1>3. calls' = calls \cup {c} /\ sent' \in Nat /\ UNCHANGED user
  BY DEF D!Act, D!Send, DeskTyped
<1>4. list' \in [Desks -> [filter : D!Filters, rows : SUBSET Summaries, busy : SUBSET Users]]
  BY <1>1 DEF D!Act, DeskTyped, Summaries
<1> QED BY <1>2, <1>3, <1>4 DEF DeskTyped

\* The two steps that change a row, and the answer they leave.
LEMMA UpdateTyped ==
  ASSUME DeskTyped, NEW c \in calls, D!Update(c)
  PROVE  DeskTyped'
<1>1. c \in DeskRequests /\ c.kind = "act" /\ ActFits(c)
  BY DEF DeskTyped, D!Update
<1>2. c.of \in Users /\ user[c.of] \in D!Row
  BY <1>1 DEF DeskRequests, DeskTyped
<1>3. user' \in [Users -> D!Row]
  BY <1>1, <1>2, FieldWritten DEF D!Update, DeskTyped
<1>4. D!Summary(user', c.of) \in Summaries
  BY <1>2, <1>3 DEF D!Summary, Summaries, D!Row
<1>5. LET d == [c EXCEPT !.at = "done", !.got = {D!Summary(user', c.of)}] IN d \in DeskRequests /\ ActFits(d)
  BY <1>1, <1>4 DEF DeskRequests, ActFits
<1> QED BY <1>3, <1>5 DEF D!Update, DeskTyped

LEMMA SignInTyped ==
  ASSUME DeskTyped, NEW u \in Users, D!SignIn(u)
  PROVE  DeskTyped'
BY DEF D!SignIn, DeskTyped, D!Row

LEMMA ListTyped ==
  ASSUME DeskTyped, NEW c \in calls, D!List(c)
  PROVE  DeskTyped'
<1> DEFINE got == {D!Summary(user, u) : u \in {x \in Users : D!Matches(x, c.value)}}
<1>1. got \subseteq Summaries
  BY SummaryFits DEF DeskTyped
<1>2. LET d == [c EXCEPT !.at = "done", !.got = got] IN d \in DeskRequests /\ ActFits(d)
  BY <1>1 DEF DeskRequests, ActFits, DeskTyped, D!List
<1> QED BY <1>2 DEF D!List, DeskTyped

LEMMA AnswerTyped ==
  ASSUME DeskTyped, NEW c \in calls, D!Listing(c) \/ D!Done(c) \/ D!Fails(c)
  PROVE  DeskTyped'
<1>1. c \in DeskRequests /\ c.by \in Desks
  BY DEF DeskTyped, DeskRequests
<1>2. calls' \subseteq calls /\ UNCHANGED <<user, sent>>
  BY DEF D!Listing, D!Done, D!Fails
<1>3. D!Back(c) \subseteq Summaries
  BY <1>1 DEF D!Back, DeskRequests
<1>4. list' \in [Desks -> [filter : D!Filters, rows : SUBSET Summaries, busy : SUBSET Users]]
  <2>1. CASE D!Listing(c)
    BY <1>1, <2>1 DEF D!Listing, DeskTyped, DeskRequests
  <2>2. CASE D!Done(c)
    BY <1>1, <1>3, <2>2 DEF D!Done, DeskTyped
  <2>3. CASE D!Fails(c)
    BY <1>1, <2>3 DEF D!Fails, DeskTyped
  <2> QED BY <2>1, <2>2, <2>3
<1> QED BY <1>2, <1>4 DEF DeskTyped

LEMMA StaysTyped ==
  ASSUME Desks \subseteq Users, DeskTyped, [D!Next]_(D!state)
  PROVE  DeskTyped'
<1>1. CASE UNCHANGED D!state
  BY <1>1 DEF D!state, DeskTyped
<1>2. ASSUME NEW d \in Desks, NEW f \in D!Filters, D!Load(d, f) PROVE DeskTyped'
  BY <1>2, LoadTyped
<1>3. ASSUME NEW d \in Desks, NEW r \in list[d].rows, NEW field \in {"role", "access", "plan"}, D!Act(d, r, field) PROVE DeskTyped'
  BY <1>3, ActTyped
<1>4. ASSUME NEW c \in calls, D!Guard(c) \/ D!Forbid(c) PROVE DeskTyped'
  BY <1>4, StepTyped DEF D!Guard, D!Forbid, DeskTyped
<1>5. ASSUME NEW c \in calls, D!List(c) PROVE DeskTyped'
  BY <1>5, ListTyped
<1>6. ASSUME NEW c \in calls, D!Update(c) PROVE DeskTyped'
  BY <1>6, UpdateTyped
<1>7. ASSUME NEW c \in calls, D!Listing(c) \/ D!Done(c) \/ D!Fails(c) PROVE DeskTyped'
  BY <1>7, AnswerTyped
<1>8. ASSUME NEW u \in Users, D!SignIn(u) PROVE DeskTyped'
  BY <1>8, SignInTyped
<1> QED BY <1>1, <1>2, <1>3, <1>4, <1>5, <1>6, <1>7, <1>8 DEF D!Next

-----------------------------------------------------------------------------
(* An admin remains *)

\* An act that is carried out for an admin leaves that admin one: it is about somebody else, or about a plan.
LEMMA UpdateLeavesOne ==
  ASSUME Desks \subseteq Users, DeskTyped, NEW c \in calls, D!Update(c)
  PROVE  D!AdminsRemain'
<1>1. CASE ~D!IsAdmin(c.by)
  BY <1>1 DEF D!Update, D!AdminsRemain
<1>2. CASE D!IsAdmin(c.by)
  <2>1. c \in DeskRequests /\ c.kind = "act" /\ ActFits(c) /\ c.by \in Users /\ c.of \in Users
    BY DEF DeskTyped, D!Update, DeskRequests
  <2>2. user[c.of] \in D!Row /\ user' = [user EXCEPT ![c.of] = [@ EXCEPT ![c.field] = c.value]]
    BY <2>1 DEF D!Update, DeskTyped
  <2>3. CASE c.of # c.by
    <3>1. user'[c.by] = user[c.by]
      BY <2>1, <2>2, <2>3 DEF DeskTyped
    <3> QED BY <1>2, <2>1, <3>1 DEF D!IsAdmin, D!AdminsRemain
  <2>4. CASE c.of = c.by /\ c.field = "plan"
    <3>1. user'[c.by] = [user[c.by] EXCEPT ![c.field] = c.value]
      BY <2>1, <2>2, <2>4 DEF DeskTyped
    <3>2. user'[c.by].role = user[c.by].role /\ user'[c.by].access = user[c.by].access
      BY <2>1, <2>2, <2>4, <3>1, FieldWritten
    <3> QED BY <1>2, <2>1, <3>2 DEF D!IsAdmin, D!AdminsRemain
  <2> QED BY <2>3, <2>4 DEF D!Update, D!Allowed
<1> QED BY <1>1, <1>2

\* A sign-in that takes a role from an admin is remembered; any other leaves whoever is one.
LEMMA SignInLeavesOne ==
  ASSUME DeskTyped, D!AdminsRemain, NEW u \in Users, D!SignIn(u)
  PROVE  D!AdminsRemain'
<1>1. CASE crossed \/ undone \/ user[u].role = "admin"
  BY <1>1 DEF D!SignIn, D!AdminsRemain
<1>2. CASE user[u].role # "admin" /\ ~crossed /\ ~undone
  <2>1. PICK w \in Users : D!IsAdmin(w)
    BY <1>2 DEF D!AdminsRemain
  <2>2. user'[w] = user[w]
    BY <1>2, <2>1 DEF D!IsAdmin, D!SignIn, DeskTyped
  <2> QED BY <2>1, <2>2 DEF D!IsAdmin, D!AdminsRemain
<1> QED BY <1>1, <1>2

LEMMA OneIsLeft ==
  ASSUME Desks \subseteq Users, DeskTyped, D!AdminsRemain, [D!Next]_(D!state)
  PROVE  D!AdminsRemain'
<1>1. ASSUME NEW c \in calls, D!Update(c) PROVE D!AdminsRemain'
  BY <1>1, UpdateLeavesOne
<1>2. ASSUME NEW u \in Users, D!SignIn(u) PROVE D!AdminsRemain'
  BY <1>2, SignInLeavesOne
<1>3. CASE UNCHANGED <<user, crossed, undone>>
  BY <1>3 DEF D!AdminsRemain, D!IsAdmin
<1> QED
  BY <1>1, <1>2, <1>3 DEF D!Next, D!state, D!history, D!Load, D!Act, D!Guard, D!List, D!Forbid, D!Listing, D!Done, D!Fails

LEMMA DesksGiven == Desks \subseteq Users /\ "nobody" \notin Desks
BY ProductAssumption

LEMMA DeskRun ==
  /\ StartsWith /\ which = "desk" => D!Init
  /\ [Steps]_product => which' = which /\ (which = "desk" => [D!Next]_(D!state))
BY DEF StartsWith, Steps, Copilot, Accounts, Checkout, Credentials, Integrations, Editor, Form, Wishes, Codemod, Reader, Chat, Desk, Tree, Welcome,
       Publish, Plans, Panels, product, parts, D!state, D!history

\* AdminsRemain, for any number of users, desks and requests: however admins promote, demote and block each other and
\* sign in, somebody who can still do so remains, but for an act that overtook its own rights and for the env list.
THEOREM AnAdminRemains == ProductSpec => []AdminsRemain
<1> DEFINE Inv == which = "desk" => DeskTyped /\ D!AdminsRemain
<1>1. StartsWith => Inv
  BY DeskRun, DeskStarts, DesksGiven
<1>2. Inv /\ [Steps]_product => Inv'
  BY DeskRun, StaysTyped, OneIsLeft, DesksGiven
<1>3. Inv => AdminsRemain
  BY DEF AdminsRemain
<1> HIDE DEF Inv
<1> QED BY <1>1, <1>2, <1>3, PTL DEF ProductSpec

-----------------------------------------------------------------------------
(* Desk: the rows are true *)

\* What a list of rows shows of a user.
Shows(these, u, filter) ==
  /\ \A r \in these : r.id = u => r = D!Summary(user, u)
  /\ D!Matches(u, filter) => \E r \in these : r.id = u

(***************************************************************************)
(* The inductive invariant, for a desk d and a user u who has not changed  *)
(* behind its back: a list is read once, and no act is about the user      *)
(* meanwhile; or one act at most is about a user who has a row, and until  *)
(* its answer is heard the row is as the table was before it.              *)
(***************************************************************************)
RowHolds(d, u) ==
  u \notin behind[d] =>
    /\ \A c, e \in D!Loads(d) : c = e
    /\ \A c \in D!Loads(d) : c.value = list[d].filter /\ (c.at = "done" => Shows(c.got, u, c.value))
    /\ \A c, e \in D!Acts(d, u) : c = e
    /\ D!Loads(d) # {} => D!Acts(d, u) = {}
    /\ D!Acts(d, u) # {} => \E r \in list[d].rows : r.id = u
    /\ \A c \in D!Acts(d, u) : c.at = "done" => c.got = {D!Summary(user, u)}
    /\ D!Loads(d) = {} /\ (\A c \in D!Acts(d, u) : c.at # "done") => Shows(list[d].rows, u, list[d].filter)

RowsInv ==
  /\ DeskTyped /\ behind \in [Desks -> SUBSET Users]
  /\ \A c \in calls : c.kind = "act" => \A r \in c.got : r.id = c.of
  /\ \A d \in Desks, u \in Users : RowHolds(d, u)

LEMMA RowsStart == ASSUME Desks \subseteq Users PROVE D!Init => RowsInv
<1> SUFFICES ASSUME D!Init PROVE RowsInv
  OBVIOUS
<1>1. DeskTyped /\ behind = [d \in Desks |-> {}] /\ calls = {}
  BY DeskStarts DEF D!Init
<1>2. ASSUME NEW d \in Desks, NEW u \in Users PROVE RowHolds(d, u)
  <2>1. D!Loads(d) = {} /\ D!Acts(d, u) = {}
    BY <1>1 DEF D!Loads, D!Acts
  <2>2. list[d].rows = {D!Summary(user, w) : w \in Users}
    BY DEF D!Init
  <2>3. \A w \in Users : D!Summary(user, w).id = w
    BY DEF D!Summary
  <2>4. Shows(list[d].rows, u, list[d].filter)
    BY <2>2, <2>3 DEF Shows
  <2> QED BY <2>1, <2>4 DEF RowHolds
<1> QED BY <1>1, <1>2 DEF RowsInv

\* A request goes on, and comes back from the list as the table is.
LEMMA RequestGoesOn ==
  ASSUME RowsInv, NEW c \in calls, NEW k, calls' = (calls \ {c}) \cup {k}, UNCHANGED <<user, list, behind>>,
         k.by = c.by, k.kind = c.kind, k.of = c.of, k.value = c.value,
         k.kind = "act" => c.at # "done" /\ k.at # "done",
         k.kind = "load" /\ k.at = "done" => \A u \in Users : Shows(k.got, u, k.value),
         NEW d \in Desks, NEW u \in Users
  PROVE  RowHolds(d, u)'
<1>1. \A these, f : Shows(these, u, f)' <=> Shows(these, u, f)
  BY DEF Shows, D!Summary, D!Matches
<1>2. RowHolds(d, u)
  BY DEF RowsInv
<1>3. D!Loads(d)' = IF c \in D!Loads(d) THEN (D!Loads(d) \ {c}) \cup {k} ELSE D!Loads(d)
  BY DEF D!Loads
<1>4. D!Acts(d, u)' = IF c \in D!Acts(d, u) THEN (D!Acts(d, u) \ {c}) \cup {k} ELSE D!Acts(d, u)
  BY DEF D!Acts
<1>5. (c \in D!Loads(d) => k.kind = "load") /\ (c \in D!Acts(d, u) => k.kind = "act") /\ D!Summary(user, u)' = D!Summary(user, u)
  BY DEF D!Loads, D!Acts, D!Summary
<1>6. CASE c \in D!Loads(d)
  <2>1. c \notin D!Acts(d, u)
    BY <1>6 DEF D!Loads, D!Acts
  <2>2. u \notin behind[d] => D!Loads(d)' = {k}
    BY <1>2, <1>3, <1>6 DEF RowHolds
  <2> QED BY <1>1, <1>2, <1>4, <1>5, <1>6, <2>1, <2>2 DEF RowHolds
<1>7. CASE c \in D!Acts(d, u)
  <2>1. c \notin D!Loads(d)
    BY <1>7 DEF D!Loads, D!Acts
  <2>2. u \notin behind[d] => D!Acts(d, u)' = {k} /\ D!Acts(d, u) = {c}
    BY <1>2, <1>4, <1>7 DEF RowHolds
  <2> QED BY <1>1, <1>2, <1>3, <1>5, <1>7, <2>1, <2>2 DEF RowHolds
<1>8. CASE c \notin D!Loads(d) /\ c \notin D!Acts(d, u)
  BY <1>1, <1>2, <1>3, <1>4, <1>5, <1>8 DEF RowHolds
<1> QED BY <1>6, <1>7, <1>8

\* The guard, a refusal, the list.
LEMMA ReadsKeepRows ==
  ASSUME RowsInv, NEW c \in calls, D!Guard(c) \/ D!Forbid(c) \/ D!List(c), NEW d \in Desks, NEW u \in Users
  PROVE  RowHolds(d, u)' /\ \A e \in calls' : e.kind = "act" => \A r \in e.got : r.id = e.of
<1>0. c \in DeskRequests
  BY DEF RowsInv, DeskTyped
<1>1. ASSUME NEW at \in {"admitted", "refused"}, D!Step(c, at), c.at # "done", UNCHANGED <<user, list, behind>>
      PROVE  RowHolds(d, u)' /\ \A e \in calls' : e.kind = "act" => \A r \in e.got : r.id = e.of
  <2> DEFINE k == [c EXCEPT !.at = at]
  <2>1. calls' = (calls \ {c}) \cup {k}
    BY <1>1 DEF D!Step
  <2>2. k.by = c.by /\ k.kind = c.kind /\ k.of = c.of /\ k.value = c.value /\ k.at = at /\ k.got = c.got
    BY <1>0 DEF DeskRequests
  <2> HIDE DEF k
  <2>3. RowHolds(d, u)'
    BY <1>1, <2>1, <2>2, RequestGoesOn
  <2> QED BY <2>1, <2>2, <2>3 DEF RowsInv
<1>2. CASE D!Guard(c)
  BY <1>1, <1>2 DEF D!Guard, D!history
<1>3. CASE D!Forbid(c)
  BY <1>1, <1>3 DEF D!Forbid, D!history
<1>4. CASE D!List(c)
  <2> DEFINE got == {D!Summary(user, w) : w \in {x \in Users : D!Matches(x, c.value)}}
             k == [c EXCEPT !.at = "done", !.got = got]
  <2>1. calls' = (calls \ {c}) \cup {k} /\ UNCHANGED <<user, list, behind>> /\ c.kind = "load"
    BY <1>4 DEF D!List, D!history
  <2>2. k.by = c.by /\ k.kind = c.kind /\ k.of = c.of /\ k.value = c.value /\ k.got = got
    BY <1>0 DEF DeskRequests
  <2>3. \A w \in Users : D!Summary(user, w).id = w
    BY DEF D!Summary
  <2>4. \A w \in Users : Shows(got, w, c.value)
    BY <2>3 DEF Shows
  <2> HIDE DEF k, got
  <2>5. RowHolds(d, u)'
    BY <2>1, <2>2, <2>4, RequestGoesOn
  <2> QED BY <2>1, <2>2, <2>5 DEF RowsInv
<1> QED BY <1>2, <1>3, <1>4

\* A request is sent: the list under another filter, or an act on a row.
LEMMA SendingKeepsRows ==
  ASSUME Desks \subseteq Users, RowsInv, NEW by \in Desks,
         (\E f \in D!Filters : D!Load(by, f)) \/ (\E r \in list[by].rows, field \in {"role", "access", "plan"} : D!Act(by, r, field)),
         NEW d \in Desks, NEW u \in Users
  PROVE  RowHolds(d, u)' /\ behind' \in [Desks -> SUBSET Users] /\ \A e \in calls' : e.kind = "act" => \A r \in e.got : r.id = e.of
<1>0. RowHolds(d, u) /\ behind \in [Desks -> SUBSET Users] /\ sent \in Nat
      /\ list \in [Desks -> [filter : D!Filters, rows : SUBSET Summaries, busy : SUBSET Users]]
  BY DEF RowsInv, DeskTyped
<1>1. CASE \E f \in D!Filters : D!Load(by, f)
  <2>1. PICK f \in D!Filters : D!Load(by, f)
    BY <1>1
  <2> DEFINE k == [D!Call(by, "load") EXCEPT !.value = f]
  <2>2. calls' = calls \cup {k} /\ list' = [list EXCEPT ![by].filter = f] /\ user' = user
        /\ behind' = [behind EXCEPT ![by] = IF \E c \in calls : c.by = by THEN Users ELSE {}]
    BY <2>1 DEF D!Load, D!Send
  <2>3. k.by = by /\ k.kind = "load" /\ k.value = f /\ k.at = "sent" /\ k.got = {}
    BY DEF D!Call
  <2> HIDE DEF k
  <2>4. behind' \in [Desks -> SUBSET Users]
    BY <1>0, <2>2
  <2>5. CASE d = by /\ u \notin behind'[d]
    <3>1. ~\E c \in calls : c.by = by
      BY <1>0, <2>2, <2>5
    <3>2. D!Loads(d)' = {k} /\ D!Acts(d, u)' = {}
      BY <2>2, <2>3, <2>5, <3>1 DEF D!Loads, D!Acts
    <3>3. list'[d].filter = f
      BY <1>0, <2>2, <2>5
    <3> QED BY <2>2, <2>3, <2>4, <3>2, <3>3 DEF RowHolds, RowsInv
  <2>6. CASE d # by
    <3>1. D!Loads(d)' = D!Loads(d) /\ D!Acts(d, u)' = D!Acts(d, u)
      BY <2>2, <2>3, <2>6 DEF D!Loads, D!Acts
    <3>2. list'[d] = list[d] /\ behind'[d] = behind[d]
      BY <1>0, <2>2, <2>6
    <3> QED BY <1>0, <2>2, <2>3, <2>4, <3>1, <3>2 DEF RowHolds, RowsInv, Shows, D!Summary, D!Matches
  <2>7. CASE u \in behind'[d]
    BY <2>2, <2>3, <2>4, <2>7 DEF RowHolds, RowsInv
  <2> QED BY <2>5, <2>6, <2>7
<1>2. CASE \E r \in list[by].rows, field \in {"role", "access", "plan"} : D!Act(by, r, field)
  <2>1. PICK seen \in list[by].rows, field \in {"role", "access", "plan"} : D!Act(by, seen, field)
    BY <1>2
  <2> DEFINE k == [D!Call(by, "act") EXCEPT !.of = seen.id, !.field = field, !.value = D!Opposite(seen[field])]
  <2>2. calls' = calls \cup {k} /\ list' = [list EXCEPT ![by].busy = {seen.id}] /\ user' = user
        /\ behind' = IF D!Loads(by) # {} \/ D!Acts(by, seen.id) # {} THEN [behind EXCEPT ![by] = @ \cup {seen.id}] ELSE behind
    BY <2>1 DEF D!Act, D!Send
  <2>3. k.by = by /\ k.kind = "act" /\ k.of = seen.id /\ k.at = "sent" /\ k.got = {}
    BY DEF D!Call
  <2> HIDE DEF k
  <2>4. seen.id \in Users
    BY <1>0 DEF Summaries
  <2>5. behind' \in [Desks -> SUBSET Users] /\ behind[d] \subseteq behind'[d]
    BY <1>0, <2>2, <2>4
  <2>6. list'[d].rows = list[d].rows /\ list'[d].filter = list[d].filter
    BY <1>0, <2>2
  <2>7. D!Loads(d)' = D!Loads(d)
    BY <2>2, <2>3 DEF D!Loads
  <2>8. CASE d = by /\ u = seen.id /\ u \notin behind'[d]
    <3>1. D!Loads(d) = {} /\ D!Acts(d, u) = {}
      BY <1>0, <2>2, <2>8
    <3>2. D!Acts(d, u)' = {k}
      BY <2>2, <2>3, <2>8, <3>1 DEF D!Acts
    <3> QED BY <1>0, <2>2, <2>3, <2>5, <2>6, <2>7, <2>8, <3>1, <3>2 DEF RowHolds, RowsInv, Shows, D!Summary, D!Matches
  <2>9. CASE ~(d = by /\ u = seen.id)
    <3>1. D!Acts(d, u)' = D!Acts(d, u)
      BY <2>2, <2>3, <2>9 DEF D!Acts
    <3> QED BY <1>0, <2>2, <2>3, <2>5, <2>6, <2>7, <3>1 DEF RowHolds, RowsInv, Shows, D!Summary, D!Matches
  <2>10. CASE u \in behind'[d]
    BY <2>2, <2>3, <2>5, <2>10 DEF RowHolds, RowsInv
  <2> QED BY <2>8, <2>9, <2>10
<1> QED BY <1>1, <1>2

\* The table changes: every desk but the one that asked for it is behind.
LEMMA UpdateKeepsRows ==
  ASSUME Desks \subseteq Users, RowsInv, NEW c \in calls, D!Update(c), NEW d \in Desks, NEW u \in Users
  PROVE  RowHolds(d, u)' /\ behind' \in [Desks -> SUBSET Users] /\ \A e \in calls' : e.kind = "act" => \A r \in e.got : r.id = e.of
<1> DEFINE k == [c EXCEPT !.at = "done", !.got = {D!Summary(user', c.of)}]
<1>0. c \in DeskRequests /\ c.kind = "act" /\ RowHolds(d, u) /\ behind \in [Desks -> SUBSET Users] /\ user \in [Users -> D!Row] /\ c.of \in Users
  BY DEF RowsInv, DeskTyped, D!Update, DeskRequests
<1>1. /\ calls' = (calls \ {c}) \cup {k} /\ list' = list
      /\ user' = [user EXCEPT ![c.of] = [@ EXCEPT ![c.field] = c.value]]
      /\ behind' = [e \in Desks |-> IF e # c.by \/ D!Loads(e) # {} THEN behind[e] \cup {c.of} ELSE behind[e]]
  BY DEF D!Update, D!Changes
<1>2. k.by = c.by /\ k.kind = "act" /\ k.of = c.of /\ k.at = "done" /\ k.got = {D!Summary(user', c.of)}
  BY <1>0 DEF DeskRequests
<1> HIDE DEF k
<1>3. behind' \in [Desks -> SUBSET Users] /\ behind[d] \subseteq behind'[d]
  BY <1>0, <1>1
<1>4. \A e \in calls' : e.kind = "act" => \A r \in e.got : r.id = e.of
  BY <1>1, <1>2 DEF RowsInv, D!Summary
<1>5. D!Loads(d)' = D!Loads(d)
  BY <1>0, <1>1, <1>2 DEF D!Loads
<1>6. CASE u # c.of
  <2>1. user'[u] = user[u] /\ D!Summary(user', u) = D!Summary(user, u)
    BY <1>0, <1>1, <1>6 DEF D!Summary
  <2>2. D!Acts(d, u)' = D!Acts(d, u)
    BY <1>0, <1>1, <1>2, <1>6 DEF D!Acts
  <2> QED BY <1>0, <1>1, <1>3, <1>4, <1>5, <2>1, <2>2 DEF RowHolds, Shows, D!Matches
<1>7. CASE u = c.of /\ u \notin behind'[d]
  <2>1. d = c.by /\ D!Loads(d) = {}
    BY <1>0, <1>1, <1>7
  <2>2. c \in D!Acts(d, u)
    BY <1>0, <1>7, <2>1 DEF D!Acts
  <2>3. D!Acts(d, u) = {c}
    BY <1>0, <1>3, <1>7, <2>2 DEF RowHolds
  <2>4. D!Acts(d, u)' = {k}
    BY <1>1, <1>2, <1>7, <2>1, <2>3 DEF D!Acts
  <2>5. \E r \in list[d].rows : r.id = u
    BY <1>0, <1>3, <1>7, <2>3 DEF RowHolds
  <2>6. k.got = {D!Summary(user, u)'} /\ list' = list /\ D!Loads(d)' = {}
    BY <1>1, <1>2, <1>5, <1>7, <2>1
  <2>7. RowHolds(d, u)'
    BY <1>2, <2>4, <2>5, <2>6 DEF RowHolds
  <2> QED BY <1>3, <1>4, <2>7
<1>8. CASE u \in behind'[d]
  BY <1>3, <1>4, <1>8 DEF RowHolds
<1> QED BY <1>6, <1>7, <1>8

LEMMA SignInKeepsRows ==
  ASSUME "nobody" \notin Desks, RowsInv, NEW w \in Users, D!SignIn(w), NEW d \in Desks, NEW u \in Users
  PROVE  RowHolds(d, u)' /\ behind' \in [Desks -> SUBSET Users]
<1>1. /\ behind' = [e \in Desks |-> behind[e] \cup {w}] /\ calls' = calls /\ list' = list
      /\ user' = [user EXCEPT ![w].role = IF w \in OnList THEN "admin" ELSE "user"]
  BY DEF D!SignIn, D!Changes
<1>2. user \in [Users -> D!Row] /\ RowHolds(d, u) /\ behind \in [Desks -> SUBSET Users]
  BY DEF RowsInv, DeskTyped
<1>3. behind' \in [Desks -> SUBSET Users]
  BY <1>1, <1>2
<1>4. CASE u \notin behind'[d]
  <2>1. u # w /\ u \notin behind[d]
    BY <1>1, <1>4
  <2>2. user'[u] = user[u]
    BY <1>1, <1>2, <2>1
  <2>3. D!Summary(user, u)' = D!Summary(user, u) /\ D!Loads(d)' = D!Loads(d) /\ D!Acts(d, u)' = D!Acts(d, u)
    BY <1>1, <2>2 DEF D!Summary, D!Loads, D!Acts
  <2> QED BY <1>1, <1>2, <1>3, <2>1, <2>2, <2>3 DEF RowHolds, Shows, D!Matches
<1> QED BY <1>3, <1>4 DEF RowHolds

\* The answers.
LEMMA AnswersKeepRows ==
  ASSUME RowsInv, NEW c \in calls, D!Listing(c) \/ D!Done(c) \/ D!Fails(c), NEW d \in Desks, NEW u \in Users
  PROVE  RowHolds(d, u)' /\ behind' \in [Desks -> SUBSET Users]
<1>0. /\ c \in DeskRequests /\ c.by \in Desks /\ c.of \in Users /\ c.kind \in {"load", "act"}
      /\ RowHolds(d, u) /\ behind \in [Desks -> SUBSET Users] /\ calls' = calls \ {c} /\ user' = user
      /\ list \in [Desks -> [filter : D!Filters, rows : SUBSET Summaries, busy : SUBSET Users]]
  BY DEF RowsInv, DeskTyped, DeskRequests, D!Listing, D!Done, D!Fails
<1>1. /\ D!Loads(d)' = D!Loads(d) \ {c} /\ D!Acts(d, u)' = D!Acts(d, u) \ {c}
      /\ (c \in D!Loads(d) <=> c.by = d /\ c.kind = "load") /\ (c \in D!Acts(d, u) <=> c.by = d /\ c.kind = "act" /\ c.of = u)
      /\ \A these, f : Shows(these, u, f)' <=> Shows(these, u, f)
  BY <1>0 DEF D!Loads, D!Acts, Shows, D!Summary, D!Matches
<1>2. D!Summary(user, u)' = D!Summary(user, u)
  BY <1>0
<1>3. CASE c.by # d
  <2>1. list'[d] = list[d] /\ behind'[d] = behind[d] /\ behind' \in [Desks -> SUBSET Users]
    BY <1>0, <1>3 DEF D!Listing, D!Done, D!Fails, D!history
  <2>2. D!Loads(d)' = D!Loads(d) /\ D!Acts(d, u)' = D!Acts(d, u)
    BY <1>1, <1>3
  <2> QED BY <1>0, <1>1, <1>2, <2>1, <2>2 DEF RowHolds
<1>4. CASE c.by = d /\ D!Listing(c)
  <2>1. list' = [list EXCEPT ![d].rows = c.got] /\ behind' = behind /\ c.kind = "load" /\ c.at = "done"
    BY <1>4 DEF D!Listing, D!history
  <2>2. list'[d].rows = c.got /\ list'[d].filter = list[d].filter
    BY <1>0, <2>1
  <2>3. CASE u \notin behind[d]
    <3>1. D!Loads(d) = {c} /\ D!Acts(d, u) = {} /\ Shows(c.got, u, list[d].filter)
      BY <1>0, <1>1, <1>4, <2>1, <2>3 DEF RowHolds
    <3>2. D!Loads(d)' = {} /\ D!Acts(d, u)' = {}
      BY <1>1, <3>1
    <3> QED BY <1>0, <1>1, <2>1, <2>2, <3>1, <3>2 DEF RowHolds
  <2> QED BY <1>0, <2>1, <2>3 DEF RowHolds
<1>5. CASE c.by = d /\ D!Done(c)
  <2>1. /\ list' = [list EXCEPT ![d].rows = {r \in @ : r.id # c.of} \cup D!Back(c), ![d].busy = {}]
        /\ behind' = behind /\ c.kind = "act" /\ c.at = "done"
    BY <1>5 DEF D!Done, D!history
  <2>2. list'[d].rows = {r \in list[d].rows : r.id # c.of} \cup D!Back(c) /\ list'[d].filter = list[d].filter
    BY <1>0, <2>1
  <2>3. D!Loads(d)' = D!Loads(d)
    BY <1>1, <2>1
  <2>4. CASE u \notin behind[d] /\ u = c.of
    <3>1. D!Acts(d, u) = {c} /\ D!Loads(d) = {} /\ c.got = {D!Summary(user, u)} /\ \E r \in list[d].rows : r.id = u
      BY <1>0, <1>1, <1>5, <2>1, <2>4 DEF RowHolds
    <3>2. D!Back(c) = {D!Summary(user, u)}
      BY <1>5, <2>4, <3>1 DEF D!Back
    <3>3. D!Summary(user, u).id = u
      BY DEF D!Summary
    <3>4. Shows(list'[d].rows, u, list'[d].filter)
      BY <2>2, <2>4, <3>2, <3>3 DEF Shows
    <3>5. D!Acts(d, u)' = {}
      BY <1>1, <3>1
    <3> QED BY <1>0, <1>1, <2>1, <2>3, <3>1, <3>4, <3>5 DEF RowHolds
  <2>5. CASE u # c.of
    <3>1. \A r \in D!Back(c) : r.id # u
      BY <2>1, <2>5 DEF RowsInv, D!Back
    <3>2. \A r : r.id = u => (r \in list'[d].rows <=> r \in list[d].rows)
      BY <2>2, <2>5, <3>1
    <3>3. D!Acts(d, u)' = D!Acts(d, u)
      BY <1>1, <2>5
    <3>4. \A f : Shows(list'[d].rows, u, f) <=> Shows(list[d].rows, u, f)
      BY <3>2 DEF Shows
    <3> QED BY <1>0, <1>1, <1>2, <2>1, <2>2, <2>3, <3>2, <3>3, <3>4 DEF RowHolds
  <2> QED BY <1>0, <2>1, <2>4, <2>5 DEF RowHolds
<1>6. CASE c.by = d /\ D!Fails(c)
  <2>1. list'[d].rows = list[d].rows /\ list'[d].filter = list[d].filter
    BY <1>0, <1>6 DEF D!Fails
  <2>2. behind' = IF c.at = "refused" /\ c.kind = "act" THEN behind
                  ELSE [behind EXCEPT ![d] = @ \cup IF c.kind = "act" THEN {c.of} ELSE Users]
    BY <1>6 DEF D!Fails
  <2>3. behind' \in [Desks -> SUBSET Users] /\ behind[d] \subseteq behind'[d]
    BY <1>0, <2>2
  <2>4. CASE u \notin behind'[d]
    <3>1. c.kind = "act" /\ (c.at = "refused" \/ u # c.of) /\ u \notin behind[d]
      BY <1>0, <2>2, <2>3, <2>4
    <3>2. D!Loads(d)' = D!Loads(d)
      BY <1>1, <3>1
    <3>3. CASE u = c.of
      <4>1. D!Acts(d, u) = {c} /\ D!Loads(d) = {} /\ Shows(list[d].rows, u, list[d].filter)
        BY <1>0, <1>1, <1>6, <3>1, <3>3 DEF RowHolds
      <4>2. D!Acts(d, u)' = {}
        BY <1>1, <4>1
      <4> QED BY <1>1, <2>1, <2>3, <3>2, <4>1, <4>2 DEF RowHolds
    <3>4. CASE u # c.of
      <4>1. D!Acts(d, u)' = D!Acts(d, u)
        BY <1>1, <3>4
      <4> QED BY <1>0, <1>1, <1>2, <2>1, <2>3, <3>1, <3>2, <4>1 DEF RowHolds
    <3> QED BY <3>3, <3>4
  <2> QED BY <2>3, <2>4 DEF RowHolds
<1> QED BY <1>3, <1>4, <1>5, <1>6

LEMMA RowsKept ==
  ASSUME Desks \subseteq Users, "nobody" \notin Desks, RowsInv, [D!Next]_(D!state)
  PROVE  RowsInv'
<1>1. DeskTyped'
  BY StaysTyped DEF RowsInv
<1>2. CASE UNCHANGED D!state
  BY <1>1, <1>2 DEF D!state, D!history, RowsInv, RowHolds, Shows, D!Loads, D!Acts, D!Summary, D!Matches
<1>3. CASE D!Next
  <2>1. ASSUME NEW d \in Desks, NEW u \in Users PROVE RowHolds(d, u)'
    BY <1>3, ReadsKeepRows, SendingKeepsRows, UpdateKeepsRows, SignInKeepsRows, AnswersKeepRows DEF D!Next
  <2>2. behind' \in [Desks -> SUBSET Users] /\ \A e \in calls' : e.kind = "act" => \A r \in e.got : r.id = e.of
    <3>1. CASE Desks = {}
      <4>1. calls = {} /\ calls' = {}
        BY <1>1, <3>1 DEF RowsInv, DeskTyped, DeskRequests
      <4> QED BY <1>3, <3>1, <4>1 DEF RowsInv, D!Next, D!SignIn, D!Changes
    <3>2. CASE Desks # {}
      <4>1. PICK d \in Desks : d \in Users
        BY <3>2
      <4>2. CASE \E c \in calls : D!Guard(c) \/ D!List(c) \/ D!Forbid(c)
        BY <4>1, <4>2, ReadsKeepRows DEF D!Guard, D!List, D!Forbid, D!history, RowsInv
      <4>3. CASE \E c \in calls : D!Listing(c) \/ D!Done(c) \/ D!Fails(c)
        BY <4>1, <4>3, AnswersKeepRows DEF D!Listing, D!Done, D!Fails, RowsInv
      <4>4. CASE \E u \in Users : D!SignIn(u)
        BY <4>1, <4>4, SignInKeepsRows DEF D!SignIn, RowsInv
      <4> QED BY <1>3, <4>1, <4>2, <4>3, <4>4, SendingKeepsRows, UpdateKeepsRows DEF D!Next
    <3> QED BY <3>1, <3>2
  <2> QED BY <1>1, <2>1, <2>2 DEF RowsInv
<1> QED BY <1>2, <1>3

LEMMA RowsShow == ASSUME RowsInv PROVE D!RowsAreTrue
<1> SUFFICES ASSUME RowsInv, NEW d \in Desks, \A c \in calls : c.by # d, NEW u \in Users \ behind[d]
             PROVE  /\ \A r \in list[d].rows : r.id = u => r = D!Summary(user, u)
                    /\ D!Matches(u, list[d].filter) => \E r \in list[d].rows : r.id = u
  BY DEF D!RowsAreTrue
<1>1. D!Loads(d) = {} /\ D!Acts(d, u) = {} /\ RowHolds(d, u)
  BY DEF D!Loads, D!Acts, RowsInv
<1> QED BY <1>1 DEF RowHolds, Shows

(***************************************************************************)
(* AdminUsersPage, for any number of users, desks and requests: when       *)
(* nothing is under way, a desk's rows are as the table is, and nobody     *)
(* whom the filter selects is missing, unless another desk or a sign-in    *)
(* changed the user, or answers crossed or were lost.                      *)
(***************************************************************************)
THEOREM RowsAreAlwaysTrue == D!Spec => []D!RowsAreTrue
<1>1. D!Init => RowsInv
  BY RowsStart, DesksGiven
<1>2. RowsInv /\ [D!Next]_(D!state) => RowsInv'
  BY RowsKept, DesksGiven
<1>3. RowsInv => D!RowsAreTrue
  BY RowsShow
<1> QED BY <1>1, <1>2, <1>3, PTL DEF D!Spec

HIDE DEF user, list, calls, sent, crossed, undone, behind

-----------------------------------------------------------------------------
(* CodeReader *)

disk == v1
state0 == v2
up == v3
woken == v4
jobs == v5
view == v6
asked == v7
changes == v8
readerFaults == v9
unheard == v10

USE DEF disk, state0, up, woken, jobs, view, asked, changes, readerFaults, unheard

Reasons == {"none", "notRunning", "notFound", "failed", "timeout"}
ReadJobs == [id : Nat, kind : {"file", "tree"}, path : Paths \cup {"none"}, at : {"queued", "probed", "done"},
             answer : Reasons, read : SUBSET Paths, content : Nat]
CodeViews == [live : BOOLEAN, target : Paths \cup {"none"}, file : [path : Paths \cup {"none"}, content : Nat],
              error : Reasons, loading : BOOLEAN, reading : Nat, files : SUBSET Paths, tree : Nat, asking : Nat]

JobFits(j, n) ==
  /\ j \in ReadJobs /\ 0 < j.id /\ j.id <= n
  /\ j.at # "done" => j.answer = "none"
  /\ j.kind = "file" => j.path \in Paths
  /\ j.at = "probed" => j.kind = "file"

ReaderTyped ==
  /\ disk \in [Paths -> Nat] /\ asked \in Nat /\ changes \in Nat /\ unheard \in BOOLEAN
  /\ view \in CodeViews /\ (view.loading => view.target # "none")
  /\ view.reading <= asked /\ view.tree <= asked
  /\ \A j \in jobs : JobFits(j, asked)

\* The request for the file that the page listens to, and for the tree that it sent last.
ForFile(j) == j.kind = "file" /\ j.id = view.reading
ForTree(j) == j.kind = "tree" /\ j.id = view.asking

\* What is said of the file at p, by a page or an answer.
SaysTrue(p, error, content) ==
  /\ error = "none" => p \in R!Present /\ content = disk[p]
  /\ error = "notFound" => p \notin R!Present

(***************************************************************************)
(* The inductive invariant.  A page that is live waits for the file that   *)
(* it names, or was answered; and as long as nothing was written that it   *)
(* has not heard of, answers on their way to it are as true as what it     *)
(* shows.                                                                  *)
(***************************************************************************)
Waits ==
  view.live =>
    /\ view.loading => \E j \in jobs : ForFile(j)
    /\ \A j \in jobs : ForFile(j) => j.path = view.target
    /\ ~unheard => \A j \in jobs : ForFile(j) /\ j.at = "done" => SaysTrue(j.path, j.answer, j.content)
    /\ ~unheard /\ view.target # "none" =>
         \/ \E j \in jobs : ForFile(j)
         \/ SaysTrue(view.target, view.error, view.file.content) /\ (view.error = "none" => view.file.path = view.target)

Lists ==
  view.live /\ ~unheard =>
    /\ view.tree = view.asking => view.files = R!Present
    /\ \A j \in jobs : ForTree(j) /\ j.at = "done" /\ j.answer = "none" => j.read = R!Present

ReaderInv == ReaderTyped /\ Waits /\ Lists

LEMMA ReaderStarts == R!Init => ReaderInv
<1> SUFFICES ASSUME R!Init PROVE ReaderInv
  OBVIOUS
<1>1. view = [live |-> FALSE, target |-> "none", file |-> [path |-> "none", content |-> 0], error |-> "none", loading |-> FALSE,
              reading |-> 0, files |-> {}, tree |-> 0, asking |-> 0]
  BY DEF R!Init, R!None, R!Nothing
<1>2. view \in CodeViews
  BY <1>1 DEF CodeViews, Reasons
<1>3. ~view.live /\ ~view.loading /\ view.reading = 0 /\ view.tree = 0
  BY <1>1
<1>4. disk \in [Paths -> Nat] /\ asked = 0 /\ changes \in Nat /\ unheard = FALSE /\ jobs = {}
  BY DEF R!Init
<1>5. ReaderTyped
  <2>1. unheard \in BOOLEAN
    BY <1>4
  <2>0. asked \in Nat /\ view.reading <= asked /\ view.tree <= asked
    BY <1>3, <1>4
  <2>2. \A j \in jobs : JobFits(j, asked)
    BY <1>4
  <2> QED BY <1>2, <1>3, <1>4, <2>0, <2>1, <2>2 DEF ReaderTyped
<1> QED BY <1>3, <1>5 DEF ReaderInv, Waits, Lists

\* A request goes on.
LEMMA JobGoesOn ==
  ASSUME ReaderInv, NEW j \in jobs, NEW k \in ReadJobs, jobs' = (jobs \ {j}) \cup {k},
         k.id = j.id, k.kind = j.kind, k.path = j.path, UNCHANGED <<disk, view, asked, changes, unheard>>,
         k.at # "done" => k.answer = "none", k.at = "probed" => k.kind = "file",
         k.at = "done" /\ k.kind = "file" => SaysTrue(k.path, k.answer, k.content),
         k.at = "done" /\ k.kind = "tree" /\ k.answer = "none" => k.read = R!Present
  PROVE  ReaderInv'
<1>0. R!Present' = R!Present
  BY DEF R!Present
<1>1. JobFits(k, asked)
  BY DEF ReaderInv, ReaderTyped, JobFits
<1>2. \A i \in jobs' : i \in jobs \/ i = k
  OBVIOUS
<1>3. ReaderTyped'
  BY <1>1, <1>2 DEF ReaderInv, ReaderTyped
<1>4. \A i \in jobs : ForFile(i) => \E h \in jobs' : ForFile(h)'
  BY DEF ForFile
<1>5. Waits'
  BY <1>0, <1>2, <1>4 DEF ReaderInv, Waits, ForFile, SaysTrue
<1>6. Lists'
  BY <1>0, <1>2 DEF ReaderInv, Lists, ForTree
<1> QED BY <1>3, <1>5, <1>6 DEF ReaderInv

\* WorkspaceReader.
LEMMA ReadingKeeps ==
  ASSUME ReaderInv, NEW j \in jobs, R!ReadTree(j) \/ R!Probe(j) \/ R!ReadFile(j)
  PROVE  ReaderInv'
<1>0. j \in ReadJobs /\ JobFits(j, asked) /\ UNCHANGED <<disk, view, asked, changes, unheard>>
  BY DEF ReaderInv, ReaderTyped, JobFits, R!ReadTree, R!Probe, R!ReadFile, R!NotRunning, R!counts, R!sandbox
<1>1. ASSUME NEW what \in Reasons \ {"none"}, R!Says(j, what),
             what = "notFound" => j.path \notin R!Present
      PROVE  ReaderInv'
  <2> DEFINE k == [j EXCEPT !.at = "done", !.answer = what]
  <2>1. k \in ReadJobs /\ k.id = j.id /\ k.kind = j.kind /\ k.path = j.path /\ k.answer = what /\ k.at = "done"
    BY <1>0 DEF ReadJobs
  <2>2. jobs' = (jobs \ {j}) \cup {k}
    BY <1>1 DEF R!Says, R!Becomes
  <2> HIDE DEF k
  <2> QED BY <1>0, <1>1, <2>1, <2>2, JobGoesOn DEF SaysTrue
<1>2. CASE R!NotRunning(j)
  BY <1>1, <1>2 DEF R!NotRunning, Reasons
<1>3. CASE R!ReadTree(j) /\ ~R!NotRunning(j)
  <2> DEFINE k == [j EXCEPT !.at = "done", !.read = R!Present]
  <2>1. R!Present \in SUBSET Paths /\ j.kind = "tree"
    BY <1>3 DEF R!Present, R!ReadTree
  <2>2. k \in ReadJobs /\ k.id = j.id /\ k.kind = "tree" /\ k.path = j.path /\ k.read = R!Present /\ k.at = "done"
    BY <1>0, <2>1 DEF ReadJobs
  <2>3. jobs' = (jobs \ {j}) \cup {k}
    BY <1>3 DEF R!ReadTree, R!Becomes
  <2> HIDE DEF k
  <2> QED BY <1>0, <2>1, <2>2, <2>3, JobGoesOn
<1>4. CASE R!Probe(j) /\ ~R!NotRunning(j)
  <2>1. CASE j.path \in R!Present
    <3> DEFINE k == [j EXCEPT !.at = "probed"]
    <3>1. k \in ReadJobs /\ k.id = j.id /\ k.kind = j.kind /\ k.path = j.path /\ k.at = "probed" /\ k.answer = "none"
          /\ k.kind = "file"
      BY <1>0, <1>4 DEF ReadJobs, JobFits, R!Probe
    <3>2. jobs' = (jobs \ {j}) \cup {k}
      BY <1>4, <2>1 DEF R!Probe, R!Becomes
    <3> HIDE DEF k
    <3> QED BY <1>0, <3>1, <3>2, JobGoesOn
  <2>2. CASE j.path \notin R!Present
    BY <1>1, <1>4, <2>2 DEF R!Probe, Reasons
  <2> QED BY <2>1, <2>2
<1>5. CASE R!ReadFile(j) /\ ~R!NotRunning(j)
  <2>1. CASE j.path \in R!Present
    <3> DEFINE k == [j EXCEPT !.at = "done", !.content = disk[j.path]]
    <3>1. disk[j.path] \in Nat
      BY <2>1 DEF ReaderInv, ReaderTyped, R!Present
    <3>2. j.answer = "none" /\ (j.kind = "file" \/ j.kind = "tree")
      BY <1>0, <1>5 DEF JobFits, ReadJobs, R!ReadFile
    <3>3. k \in ReadJobs /\ k.id = j.id /\ k.kind = j.kind /\ k.path = j.path /\ k.answer = j.answer /\ k.content = disk[j.path]
          /\ k.read = j.read
      BY <1>0, <3>1 DEF ReadJobs
    <3>4. jobs' = (jobs \ {j}) \cup {k}
      BY <1>5, <2>1 DEF R!ReadFile, R!Becomes
    <3>5. j.kind = "file"
      BY <1>0, <1>5 DEF JobFits, R!ReadFile
    <3> HIDE DEF k
    <3> QED BY <1>0, <2>1, <3>2, <3>3, <3>4, <3>5, JobGoesOn DEF SaysTrue
  <2>2. CASE j.path \notin R!Present
    BY <1>1, <1>5, <2>2 DEF R!ReadFile, Reasons
  <2> QED BY <2>1, <2>2
<1> QED BY <1>2, <1>3, <1>4, <1>5

\* The sandbox.
LEMMA BoxKeeps ==
  ASSUME ReaderInv, (\E p \in Paths : R!Write(p)) \/ R!BoxLost \/ R!Ensure \/ R!Started
  PROVE  ReaderInv'
<1>1. CASE \E p \in Paths : R!Write(p)
  <2>1. PICK p \in Paths : R!Write(p)
    BY <1>1
  <2>2. PICK new \in {0, changes'} : disk' = [disk EXCEPT ![p] = new]
    BY <2>1 DEF R!Write
  <2>3. changes' \in Nat /\ new \in Nat /\ unheard' = TRUE /\ UNCHANGED <<jobs, view, asked>>
    BY <2>1, <2>2 DEF R!Write, R!Change, ReaderInv, ReaderTyped
  <2>4. disk' \in [Paths -> Nat]
    BY <2>2, <2>3 DEF ReaderInv, ReaderTyped
  <2>5. ReaderTyped'
    BY <2>3, <2>4 DEF ReaderInv, ReaderTyped
  <2> QED BY <2>3, <2>5 DEF ReaderInv, Waits, Lists, ForFile
<1>2. CASE R!BoxLost \/ R!Ensure \/ (R!Started /\ UNCHANGED <<disk, unheard>>)
  <2>1. UNCHANGED <<disk, jobs, view, asked, changes, unheard>>
    BY <1>2 DEF R!BoxLost, R!Ensure, R!Started, R!counts
  <2> QED BY <2>1 DEF ReaderInv, ReaderTyped, Waits, Lists, ForFile, ForTree, SaysTrue, R!Present
<1>3. CASE R!Started /\ ~UNCHANGED <<disk, unheard>>
  <2>1. PICK p \in Paths, old \in 0..changes : disk' = [disk EXCEPT ![p] = old]
    BY <1>3 DEF R!Started
  <2>2. unheard' = TRUE /\ UNCHANGED <<jobs, view, asked, changes>>
    BY <1>3 DEF R!Started, R!counts
  <2>3. old \in Nat /\ disk' \in [Paths -> Nat]
    BY <2>1 DEF ReaderInv, ReaderTyped
  <2>4. ReaderTyped'
    BY <2>2, <2>3 DEF ReaderInv, ReaderTyped
  <2> QED BY <2>2, <2>4 DEF ReaderInv, Waits, Lists, ForFile
<1> QED BY <1>1, <1>2, <1>3

\* What the page sends is on its way, and it listens to no other.
LEMMA PageAsksKeeps ==
  ASSUME "none" \notin Paths, ReaderInv, NEW kinds \in {{"file"}, {"tree"}, {"file", "tree"}}, NEW v \in CodeViews,
         R!Asks(kinds, v), UNCHANGED disk, changes' \in Nat, unheard' \in BOOLEAN,
         v.loading => v.target # "none", v.reading = view.reading, v.tree = view.tree, v.asking = view.asking,
         "file" \notin kinds => UNCHANGED unheard /\ v.live = view.live /\ v.target = view.target /\ v.error = view.error
                               /\ v.file = view.file /\ v.loading = view.loading,
         "tree" \notin kinds => UNCHANGED unheard /\ v.live = view.live /\ v.files = view.files
  PROVE  ReaderInv'
<1> DEFINE file == "file" \in kinds /\ v.live /\ v.target # "none"
           tree == "tree" \in kinds /\ v.live
           n    == asked + (IF file THEN 1 ELSE 0)
           f    == [id |-> n, kind |-> "file", path |-> v.target, at |-> "queued", answer |-> "none", read |-> {}, content |-> 0]
           t    == [id |-> asked', kind |-> "tree", path |-> "none", at |-> "queued", answer |-> "none", read |-> {}, content |-> 0]
<1>0. asked \in Nat
  BY DEF ReaderInv, ReaderTyped
<1>1. /\ asked' = n + (IF tree THEN 1 ELSE 0)
      /\ jobs' = jobs \cup (IF file THEN {f} ELSE {}) \cup (IF tree THEN {t} ELSE {})
      /\ view' = [v EXCEPT !.reading = IF file THEN n ELSE IF "file" \in kinds THEN 0 ELSE @, !.loading = @ \/ file,
                           !.error = IF file THEN "none" ELSE @, !.asking = IF tree THEN asked' ELSE @]
  BY DEF R!Asks, R!Job, R!None
<1>2. n \in Nat /\ asked' \in Nat /\ asked <= n /\ n <= asked' /\ (file => n = asked + 1) /\ (tree => asked' = n + 1)
  BY <1>0, <1>1
<1>3. file => JobFits(f, asked')
  <2>1. v.target \in Paths \cup {"none"}
    BY DEF CodeViews
  <2>2. f \in ReadJobs
    BY <1>2, <2>1 DEF ReadJobs, Reasons
  <2>3. f.id = n /\ f.kind = "file" /\ f.path = v.target /\ f.at = "queued" /\ f.answer = "none"
    OBVIOUS
  <2> HIDE DEF f, n
  <2> QED BY <1>0, <1>2, <2>1, <2>2, <2>3 DEF JobFits
<1>4. tree => JobFits(t, asked')
  <2>1. t \in ReadJobs
    BY <1>2 DEF ReadJobs, Reasons
  <2>2. t.id = asked' /\ t.kind = "tree" /\ t.at = "queued" /\ t.answer = "none"
    OBVIOUS
  <2> HIDE DEF t, n
  <2> QED BY <1>0, <1>2, <2>1, <2>2 DEF JobFits
<1>5. view' \in CodeViews
  BY <1>1, <1>2 DEF CodeViews, Reasons
<1>6. /\ view'.live = v.live /\ view'.target = v.target /\ view'.file = v.file /\ view'.files = v.files /\ view'.tree = v.tree
      /\ view'.reading = IF file THEN n ELSE IF "file" \in kinds THEN 0 ELSE v.reading
      /\ view'.loading = (v.loading \/ file)
      /\ view'.error = IF file THEN "none" ELSE v.error
      /\ view'.asking = IF tree THEN asked' ELSE v.asking
  BY <1>1 DEF CodeViews
<1>7. /\ f.id = n /\ f.kind = "file" /\ f.path = v.target /\ f.at = "queued"
      /\ t.id = asked' /\ t.kind = "tree" /\ t.at = "queued"
  OBVIOUS
<1>8. jobs' = jobs \cup (IF file THEN {f} ELSE {}) \cup (IF tree THEN {t} ELSE {})
  BY <1>1
<1>10. \A j \in jobs : JobFits(j, asked) /\ JobFits(j, asked') /\ j.id \in Nat /\ j.id < asked + 1 /\ j.id # 0
  BY <1>0, <1>2 DEF ReaderInv, ReaderTyped, JobFits, ReadJobs
<1>11. view.reading \in Nat /\ view.reading <= asked /\ view.tree \in Nat /\ view.tree <= asked
  BY DEF ReaderInv, ReaderTyped, CodeViews
<1>12. R!Present' = R!Present
  BY DEF R!Present
<1> HIDE DEF f, t, n
<1>9. /\ \A j \in jobs' : j \in jobs \/ (file /\ j = f) \/ (tree /\ j = t)
      /\ (file => f \in jobs') /\ jobs \subseteq jobs'
  BY <1>8
<1>13. ReaderTyped'
  <2>1. \A j \in jobs' : JobFits(j, asked')
    BY <1>3, <1>4, <1>9, <1>10
  <2>2. view'.loading => view'.target # "none"
    BY <1>6
  <2>3. view'.reading <= asked' /\ view'.tree <= asked'
    BY <1>0, <1>2, <1>6, <1>11
  <2>4. disk' \in [Paths -> Nat]
    BY DEF ReaderInv, ReaderTyped
  <2> QED BY <1>2, <1>5, <2>1, <2>2, <2>3, <2>4 DEF ReaderTyped
<1>14. Waits'
  <2>1. CASE file
    <3>1. \A j \in jobs' : ForFile(j)' => j = f
      BY <1>0, <1>2, <1>6, <1>7, <1>9, <1>10, <2>1 DEF ForFile
    <3>2. \A j : j = f => ForFile(j)'
      BY <1>6, <1>7, <2>1 DEF ForFile
    <3>3. \E j \in jobs' : ForFile(j)'
      BY <1>9, <2>1, <3>2
    <3> QED BY <1>6, <1>7, <2>1, <3>1, <3>3 DEF Waits
  <2>2. CASE "file" \in kinds /\ ~file
    <3>1. \A j \in jobs' : ~ForFile(j)'
      BY <1>6, <1>7, <1>9, <1>10, <2>2 DEF ForFile
    <3> QED BY <1>6, <2>2, <3>1 DEF Waits
  <2>3. CASE "file" \notin kinds
    <3>1. \A j \in jobs' : ForFile(j)' <=> j \in jobs /\ ForFile(j)
      BY <1>6, <1>7, <1>9, <2>3 DEF ForFile
    <3>2. \A j \in jobs : ForFile(j) => ForFile(j)' /\ j \in jobs'
      BY <1>6, <1>9, <2>3 DEF ForFile
    <3>3. /\ view'.live = view.live /\ view'.target = view.target /\ view'.error = view.error /\ view'.file = view.file
          /\ view'.loading = view.loading
      BY <1>6, <2>3 DEF ReaderInv, ReaderTyped, CodeViews
    <3> QED BY <1>12, <2>3, <3>1, <3>2, <3>3 DEF ReaderInv, Waits, SaysTrue
  <2> QED BY <2>1, <2>2, <2>3
<1>15. Lists'
  <2>1. CASE tree
    <3>1. \A j \in jobs' : ForTree(j)' => j = t
      BY <1>0, <1>2, <1>6, <1>7, <1>9, <1>10, <2>1 DEF ForTree
    <3>2. view'.tree # view'.asking
      BY <1>0, <1>2, <1>6, <1>11, <2>1
    <3> QED BY <1>7, <3>1, <3>2 DEF Lists
  <2>2. CASE ~tree /\ "tree" \in kinds
    BY <1>6, <2>2 DEF Lists
  <2>3. CASE "tree" \notin kinds
    <3>1. \A j \in jobs' : ForTree(j)' => j \in jobs /\ ForTree(j)
      BY <1>6, <1>7, <1>9, <2>3 DEF ForTree
    <3> QED BY <1>6, <1>12, <2>3, <3>1 DEF ReaderInv, Lists
  <2> QED BY <2>1, <2>2, <2>3
<1> QED BY <1>13, <1>14, <1>15 DEF ReaderInv

\* The effects of CodeView that ask.
LEMMA EffectsKeep ==
  ASSUME "none" \notin Paths, ReaderInv, (\E p \in Paths : R!Open(p)) \/ R!Refresh \/ R!Revision \/ R!Poll
  PROVE  ReaderInv'
<1>0. view \in CodeViews /\ (view.loading => view.target # "none") /\ unheard \in BOOLEAN /\ changes \in Nat
  BY DEF ReaderInv, ReaderTyped
<1>1. CASE \E p \in Paths : R!Open(p)
  <2>1. PICK p \in Paths : R!Open(p)
    BY <1>1
  <2> DEFINE v == [view EXCEPT !.target = p]
  <2>2. /\ v \in CodeViews /\ v.target = p /\ v.loading = view.loading /\ v.reading = view.reading /\ v.tree = view.tree
        /\ v.asking = view.asking /\ v.live = view.live /\ v.files = view.files
    BY <1>0 DEF CodeViews
  <2>3. R!Asks({"file"}, v) /\ UNCHANGED <<disk, unheard>> /\ changes' \in Nat
    BY <1>0, <2>1 DEF R!Open, R!Change, R!sandbox
  <2> HIDE DEF v
  <2> QED BY <1>0, <2>2, <2>3, PageAsksKeeps
<1>2. CASE R!Refresh
  <2>1. R!Asks({"tree"}, view) /\ UNCHANGED <<disk, unheard>> /\ changes' \in Nat
    BY <1>0, <1>2 DEF R!Refresh, R!Change, R!sandbox
  <2> QED BY <1>0, <2>1, PageAsksKeeps
<1>3. CASE R!Revision
  <2>1. R!Asks({"file", "tree"}, view) /\ UNCHANGED <<disk, changes>> /\ unheard' \in BOOLEAN
    BY <1>3 DEF R!Revision, R!sandbox
  <2> QED BY <1>0, <2>1, PageAsksKeeps
<1>4. CASE R!Poll
  <2> DEFINE v == [view EXCEPT !.live = ~@]
  <2>1. /\ v \in CodeViews /\ v.target = view.target /\ v.loading = view.loading /\ v.reading = view.reading /\ v.tree = view.tree
        /\ v.asking = view.asking
    BY <1>0 DEF CodeViews
  <2>2. R!Asks({"file", "tree"}, v) /\ UNCHANGED <<disk, changes, unheard>>
    BY <1>4 DEF R!Poll, R!sandbox
  <2> HIDE DEF v
  <2> QED BY <1>0, <2>1, <2>2, PageAsksKeeps
<1> QED BY <1>1, <1>2, <1>3, <1>4

\* An answer, or none in 25 seconds.
LEMMA TellingKeeps ==
  ASSUME ReaderInv, NEW j \in jobs, R!Answered(j) \/ R!TimesOut(j)
  PROVE  ReaderInv'
<1>0. /\ UNCHANGED <<disk, asked, changes, unheard>> /\ R!Present' = R!Present
      /\ JobFits(j, asked) /\ j \in ReadJobs /\ view \in CodeViews /\ j.id \in Nat
  BY DEF R!Answered, R!TimesOut, R!sandbox, R!counts, R!Present, ReaderInv, ReaderTyped, JobFits, ReadJobs
<1>1. PICK answer \in Reasons : R!Tell(j, answer) /\ (answer = "timeout" \/ (answer = j.answer /\ j.at = "done"))
  <2>1. j.answer \in Reasons /\ "timeout" \in Reasons
    BY <1>0 DEF Reasons, ReadJobs
  <2>2. CASE R!Answered(j)
    BY <2>1, <2>2 DEF R!Answered
  <2>3. CASE R!TimesOut(j)
    BY <2>1, <2>3 DEF R!TimesOut
  <2> QED BY <2>2, <2>3
<1>2. jobs' = jobs \ {j}
  BY <1>1 DEF R!Tell
<1>3. CASE j.kind = "tree" /\ answer = "none"
  <2>1. view' = [view EXCEPT !.files = j.read, !.tree = j.id]
    BY <1>1, <1>3 DEF R!Tell, R!None
  <2>2. /\ view' \in CodeViews /\ view'.files = j.read /\ view'.tree = j.id /\ view'.live = view.live /\ view'.target = view.target
        /\ view'.loading = view.loading /\ view'.reading = view.reading /\ view'.asking = view.asking /\ view'.error = view.error
        /\ view'.file = view.file
    BY <1>0, <2>1 DEF CodeViews, ReadJobs
  <2>3. ReaderTyped'
    BY <1>0, <1>2, <2>2 DEF ReaderInv, ReaderTyped, JobFits
  <2>4. Waits'
    BY <1>0, <1>2, <1>3, <2>2 DEF ReaderInv, Waits, ForFile, SaysTrue
  <2>5. Lists'
    BY <1>0, <1>1, <1>2, <1>3, <2>2 DEF ReaderInv, Lists, ForTree
  <2> QED BY <2>3, <2>4, <2>5 DEF ReaderInv
<1>4. CASE j.kind = "file" /\ R!Current(j)
  <2> DEFINE shown == IF answer = "none" THEN [path |-> j.path, content |-> j.content] ELSE [path |-> "none", content |-> 0]
  <2>1. view' = [view EXCEPT !.loading = FALSE, !.error = answer, !.file = shown]
    BY <1>1, <1>4 DEF R!Tell, R!None, R!Nothing
  <2>2. shown \in [path : Paths \cup {"none"}, content : Nat]
    BY <1>0 DEF ReadJobs
  <2>3. answer = "none" => shown.path = j.path /\ shown.content = j.content
    OBVIOUS
  <2> HIDE DEF shown
  <2>4. /\ view' \in CodeViews /\ view'.files = view.files /\ view'.tree = view.tree /\ view'.live = view.live /\ view'.target = view.target
        /\ view'.loading = FALSE /\ view'.reading = view.reading /\ view'.asking = view.asking /\ view'.error = answer
        /\ view'.file = shown
    BY <1>0, <2>1, <2>2 DEF CodeViews
  <2>5. ReaderTyped'
    BY <1>0, <1>2, <2>4 DEF ReaderInv, ReaderTyped
  <2>6. ForFile(j) /\ (view.live => j.path = view.target)
    BY <1>4 DEF ForFile, R!Current, ReaderInv, Waits
  <2>7. view.live /\ ~unheard => SaysTrue(j.path, answer, j.content)
    BY <1>1, <2>6 DEF ReaderInv, Waits, SaysTrue
  <2>8. Waits'
    BY <1>0, <1>2, <2>3, <2>4, <2>6, <2>7 DEF ReaderInv, Waits, ForFile, SaysTrue
  <2>9. Lists'
    BY <1>0, <1>2, <2>4 DEF ReaderInv, Lists, ForTree
  <2> QED BY <2>5, <2>8, <2>9 DEF ReaderInv
<1>5. CASE ~(j.kind = "tree" /\ answer = "none") /\ ~(j.kind = "file" /\ R!Current(j))
  <2>1. view' = view
    BY <1>1, <1>5 DEF R!Tell, R!None
  <2>2. ~ForFile(j)
    BY <1>5 DEF ForFile, R!Current
  <2>3. ReaderTyped'
    BY <1>0, <1>2, <2>1 DEF ReaderInv, ReaderTyped
  <2>4. Waits'
    BY <1>0, <1>2, <2>1, <2>2 DEF ReaderInv, Waits, ForFile, SaysTrue
  <2>5. Lists'
    BY <1>0, <1>2, <2>1 DEF ReaderInv, Lists, ForTree
  <2> QED BY <2>3, <2>4, <2>5 DEF ReaderInv
<1> QED BY <1>3, <1>4, <1>5

LEMMA ReaderKeeps ==
  ASSUME "none" \notin Paths, ReaderInv, [R!Next]_(R!state)
  PROVE  ReaderInv'
<1>1. CASE UNCHANGED R!state
  BY <1>1 DEF R!state, R!sandbox, R!counts, ReaderInv, ReaderTyped, Waits, Lists, ForFile, ForTree, SaysTrue, R!Present
<1>2. CASE R!Next
  BY <1>2, ReadingKeeps, BoxKeeps, EffectsKeep, TellingKeeps DEF R!Next
<1> QED BY <1>1, <1>2

LEMMA ReaderShows == ASSUME "none" \notin Paths, ReaderInv PROVE R!CodeShownIsTheFile
BY DEF ReaderInv, ReaderTyped, CodeViews, Waits, Lists, SaysTrue, R!CodeShownIsTheFile, R!None, R!Present

LEMMA PathsGiven == "none" \notin Paths
BY ProductAssumption

(***************************************************************************)
(* CodeView with WorkspaceService and WorkspaceReader: a page that has     *)
(* heard of every change and waits for no answer shows the file it names   *)
(* as it is, or why it is not there, and the tree it asked for last,       *)
(* however files are opened, written and deleted while they are read,      *)
(* sandboxes lost, and answers late.                                       *)
(***************************************************************************)
THEOREM CodeShownIsTrue == R!Spec => []R!CodeShownIsTheFile
<1>1. R!Init => ReaderInv
  BY ReaderStarts, PathsGiven
<1>2. ReaderInv /\ [R!Next]_(R!state) => ReaderInv'
  BY ReaderKeeps, PathsGiven
<1>3. ReaderInv => R!CodeShownIsTheFile
  BY ReaderShows, PathsGiven
<1> QED BY <1>1, <1>2, <1>3, PTL DEF R!Spec

HIDE DEF disk, state0, up, woken, jobs, view, asked, changes, readerFaults, unheard

-----------------------------------------------------------------------------
(* SidePanels *)

code == v1
opRuns == v2
live == v3
reset == v4
side == v5
reads == v6
sideChanges == v7
sideAsked == v8
resets == v9
sideFaults == v10
floor == v11
crossedReads == v12

USE DEF code, opRuns, live, reset, side, reads, sideChanges, sideAsked, resets, sideFaults, floor, crossedReads

Readings  == Nat \cup {S!Failed}
SideStates == [slots : Readings, error : BOOLEAN, report : Readings, checking : BOOLEAN, confirming : BOOLEAN]
Sides     == [panel : S!Panels, live : BOOLEAN, working : BOOLEAN, of : SideStates]

SideCall(c) == \E kind \in {"slots", "check"}, got \in Readings : \E nr : c = [kind |-> kind, nr |-> nr, got |-> got]

SideTyped ==
  /\ code \in Nat /\ code > 0 /\ floor \in Nat /\ floor <= code
  /\ opRuns \in BOOLEAN /\ live \in BOOLEAN /\ reset \in BOOLEAN /\ crossedReads \in BOOLEAN
  /\ side \in Sides /\ \A c \in reads : SideCall(c)

(***************************************************************************)
(* The inductive invariant: an answer on its way is an error, or was read  *)
(* since the panel last asked, unless another was under way then; and as   *)
(* long as none was, there is one at most.                                 *)
(***************************************************************************)
Recent(n) == n # 0 /\ (n >= floor \/ crossedReads)

ReadSince ==
  /\ \A c \in S!Of("slots") : c.got = 0 \/ c.got = S!Failed \/ Recent(c.got)
  /\ side.panel = "slots" /\ side.live /\ S!Of("slots") = {} => side.of.error \/ Recent(side.of.slots)

\* The button is out of use for the one check there is.
OneCheck ==
  /\ \A c, d \in S!Of("check") : c = d
  /\ side.of.checking = (S!Of("check") # {})
  /\ side.panel # "slots" => reads = {}

SideInv == SideTyped /\ ReadSince /\ OneCheck

LEMMA FreshSide == S!Fresh \in SideStates /\ S!Fresh.checking = FALSE
BY DEF S!Fresh, SideStates, Readings, S!None

LEMMA SideStarts == S!Init => SideInv
<1> SUFFICES ASSUME S!Init PROVE SideInv
  OBVIOUS
<1>1. side = [panel |-> "integrations", live |-> FALSE, working |-> FALSE, of |-> S!Fresh]
  BY DEF S!Init
<1>2. side \in Sides /\ side.panel = "integrations" /\ side.of = S!Fresh
  BY <1>1, FreshSide DEF Sides, S!Panels
<1>3. code = 1 /\ floor = 1 /\ reads = {}
  BY DEF S!Init
<1>4. opRuns \in BOOLEAN /\ live \in BOOLEAN /\ reset \in BOOLEAN /\ crossedReads \in BOOLEAN
  BY DEF S!Init
<1>5. SideTyped
  BY <1>2, <1>3, <1>4 DEF SideTyped
<1>6. S!Of("check") = {} /\ S!Of("slots") = {}
  BY <1>3 DEF S!Of
<1>7. ReadSince
  BY <1>2, <1>6 DEF ReadSince
<1>8. OneCheck
  BY <1>2, <1>3, <1>6, FreshSide DEF OneCheck
<1> QED BY <1>5, <1>7, <1>8 DEF SideInv

\* The portfolio goes on: the code is not an earlier one.
LEMMA PortfolioKeeps ==
  ASSUME SideInv, S!Operate \/ S!Falls \/ S!Rises
  PROVE  SideInv'
<1>1. UNCHANGED <<side, reads, floor, crossedReads>>
  BY DEF S!Operate, S!Falls, S!Rises, S!history, S!Fault
<1>2. code' \in Nat /\ code' >= code
  BY DEF S!Operate, S!Falls, S!Rises, SideInv, SideTyped
<1>3. opRuns' \in BOOLEAN /\ live' \in BOOLEAN /\ reset' \in BOOLEAN
  BY DEF S!Operate, S!Falls, S!Rises, SideInv, SideTyped
<1>4. SideTyped'
  BY <1>1, <1>2, <1>3 DEF SideInv, SideTyped, SideCall, Readings, Sides, SideStates
<1> QED BY <1>1, <1>4 DEF SideInv, ReadSince, OneCheck, S!Of, Recent

\* An answer, or none in time.
LEMMA AnswersKeep ==
  ASSUME SideInv, NEW c \in reads, S!Answers(c) \/ S!TimesOut(c)
  PROVE  SideInv'
<1>1. UNCHANGED <<code, opRuns, live, reset, side, floor, crossedReads>>
  BY DEF S!Answers, S!TimesOut, S!sandbox, S!history
<1>2. PICK got \in {code, S!Failed} : reads' = (reads \ {c}) \cup {[c EXCEPT !.got = got]}
  <2>1. CASE S!Answers(c)
    BY <2>1 DEF S!Answers
  <2>2. CASE S!TimesOut(c)
    BY <2>2 DEF S!TimesOut
  <2> QED BY <2>1, <2>2
<1> DEFINE k == [c EXCEPT !.got = got]
<1>3. SideCall(c) /\ got \in Readings /\ c.got = 0
  BY <1>2 DEF SideInv, SideTyped, Readings, S!Answers, S!TimesOut, S!None
<1>4. SideCall(k) /\ k.kind = c.kind /\ k.got = got
  <2>1. PICK kind \in {"slots", "check"}, old \in Readings : \E nr : c = [kind |-> kind, nr |-> nr, got |-> old]
    BY <1>3 DEF SideCall
  <2>2. PICK nr : c = [kind |-> kind, nr |-> nr, got |-> old]
    BY <2>1
  <2>3. k = [kind |-> kind, nr |-> nr, got |-> got]
    BY <2>2
  <2> HIDE DEF k
  <2>4. k.kind = c.kind /\ k.got = got
    BY <2>2, <2>3
  <2> QED BY <1>3, <2>1, <2>3, <2>4 DEF SideCall
<1>5. got = S!Failed \/ Recent(got)
  BY <1>2 DEF SideInv, SideTyped, Recent
<1>6. reads' = (reads \ {c}) \cup {k}
  BY <1>2
<1> HIDE DEF k
<1>7. SideTyped'
  BY <1>1, <1>4, <1>6 DEF SideInv, SideTyped, SideCall, Readings, Sides, SideStates
<1>8. \A kind : S!Of(kind)' = IF c.kind = kind THEN (S!Of(kind) \ {c}) \cup {k} ELSE S!Of(kind)
  BY <1>4, <1>6 DEF S!Of
<1>9. ReadSince'
  <2>1. S!Of("slots")' = {} <=> S!Of("slots") = {}
    BY <1>8 DEF S!Of
  <2> QED BY <1>1, <1>4, <1>5, <1>8, <2>1 DEF SideInv, ReadSince, Recent
<1>10. OneCheck'
  <2>1. S!Of("check")' = {} <=> S!Of("check") = {}
    BY <1>8 DEF S!Of
  <2>2. c.kind = "check" => S!Of("check") = {c}
    BY DEF SideInv, OneCheck, S!Of
  <2>3. side.panel = "slots"
    BY DEF SideInv, OneCheck
  <2> QED BY <1>1, <1>8, <2>1, <2>2, <2>3 DEF SideInv, OneCheck
<1> QED BY <1>7, <1>9, <1>10 DEF SideInv

\* What the page sends.
LEMMA SideAsks ==
  ASSUME NEW kind \in {"slots", "check"}, NEW others, \A c \in others : SideCall(c), S!Asks(kind, others)
  PROVE  /\ \A c \in reads' : SideCall(c)
         /\ \E k : reads' = others \cup {k} /\ k.kind = kind /\ k.got = 0
<1> DEFINE n == CHOOSE m \in 1..PanelAsks : \A c \in others : c.nr # m
           k == [kind |-> kind, nr |-> n, got |-> 0]
<1>1. reads' = others \cup {k}
  BY DEF S!Asks, S!None
<1>2. k.kind = kind /\ k.got = 0
  OBVIOUS
<1>3. SideCall(k)
  <2> HIDE DEF n
  <2> QED BY DEF SideCall, Readings
<1> HIDE DEF k
<1> QED BY <1>1, <1>2, <1>3

\* The page learns of the preview, or turns to another panel: the slots are read when it comes to show them live.
LEMMA PageKeeps ==
  ASSUME SideInv, NEW p \in Sides, NEW others, S!Becomes(p, others), UNCHANGED S!sandbox,
         \/ others = reads /\ p.panel = side.panel /\ p.of = side.of
         \/ others = {} /\ p.panel # side.panel /\ p.of = S!Fresh
  PROVE  SideInv'
<1>0. /\ side' = p /\ \A c \in others : SideCall(c)
      /\ UNCHANGED <<code, opRuns, live, reset>> /\ code \in Nat /\ code > 0 /\ code <= code /\ others \subseteq reads
  BY DEF S!Becomes, S!sandbox, SideInv, SideTyped
<1>1. /\ \A c, d \in others : c.kind = "check" /\ d.kind = "check" => c = d
      /\ p.of.checking = (\E c \in others : c.kind = "check")
      /\ side.panel # "slots" => others = {}
  BY FreshSide DEF SideInv, OneCheck, S!Of
<1>2. \A c \in others : c.kind = "slots" => c.got = 0 \/ c.got = S!Failed \/ Recent(c.got)
  BY DEF SideInv, ReadSince, S!Of
<1>3. CASE S!Loads(side, p)
  <2>1. S!Asks("slots", others) /\ floor' = code /\ crossedReads' = (\E c \in others : c.kind = "slots")
    BY <1>3 DEF S!Becomes
  <2>2. \A c \in reads' : SideCall(c)
    BY <1>0, <2>1, SideAsks
  <2>3. PICK k : reads' = others \cup {k} /\ k.kind = "slots" /\ k.got = 0
    BY <1>0, <2>1, SideAsks
  <2>4. SideTyped'
    <3>1. crossedReads' \in BOOLEAN
      BY <2>1
    <3> QED BY <1>0, <2>1, <2>2, <3>1 DEF SideInv, SideTyped, SideCall, Readings, Sides, SideStates
  <2>5. ReadSince'
    <3>1. k \in S!Of("slots")'
      BY <2>3 DEF S!Of
    <3>2. \A c \in S!Of("slots")' : c.got = 0 \/ c.got = S!Failed' \/ Recent(c.got)'
      BY <1>2, <2>1, <2>3 DEF S!Of, Recent, S!Failed
    <3> QED BY <3>1, <3>2 DEF ReadSince
  <2>6. OneCheck'
    <3>1. p.panel = "slots"
      BY <1>3 DEF S!Loads
    <3>2. S!Of("check")' = {c \in others : c.kind = "check"}
      BY <2>3 DEF S!Of
    <3> QED BY <1>0, <1>1, <3>1, <3>2 DEF OneCheck
  <2> QED BY <2>4, <2>5, <2>6 DEF SideInv
<1>4. CASE ~S!Loads(side, p)
  <2>1. reads' = others /\ UNCHANGED <<floor, crossedReads>>
    BY <1>4 DEF S!Becomes, S!history
  <2>2. SideTyped'
    BY <1>0, <2>1 DEF SideInv, SideTyped, SideCall, Readings, Sides, SideStates
  <2>3. ReadSince'
    <3>1. \A c \in S!Of("slots")' : c.got = 0 \/ c.got = S!Failed' \/ Recent(c.got)'
      BY <1>2, <2>1 DEF S!Of, Recent, S!Failed
    <3>2. CASE p.panel = "slots" /\ p.live
      <4>1. side.panel = "slots" /\ side.live
        BY <1>4, <3>2 DEF S!Loads
      <4>2. others = reads /\ p.of = side.of
        BY <3>2, <4>1
      <4> QED BY <1>0, <2>1, <3>1, <4>1, <4>2 DEF SideInv, ReadSince, S!Of, Recent
    <3> QED BY <1>0, <3>1, <3>2 DEF ReadSince
  <2>4. OneCheck'
    <3>1. S!Of("check")' = {c \in others : c.kind = "check"}
      BY <2>1 DEF S!Of
    <3>2. p.panel # "slots" => others = {}
      BY DEF SideInv, OneCheck
    <3> QED BY <1>0, <1>1, <2>1, <3>1, <3>2 DEF OneCheck
  <2> QED BY <2>2, <2>3, <2>4 DEF SideInv
<1> QED BY <1>3, <1>4

LEMMA TurnsKeep ==
  ASSUME SideInv, S!Learns \/ \E p \in S!Panels : S!OnPanel(p)
  PROVE  SideInv'
<1>0. side \in Sides /\ live \in BOOLEAN /\ opRuns \in BOOLEAN
  BY DEF SideInv, SideTyped
<1>1. CASE S!Learns
  <2> DEFINE p == [side EXCEPT !.live = live, !.working = opRuns]
  <2>1. p \in Sides /\ p.panel = side.panel /\ p.of = side.of
    BY <1>0 DEF Sides
  <2>2. S!Becomes(p, reads) /\ UNCHANGED S!sandbox
    BY <1>1 DEF S!Learns
  <2> HIDE DEF p
  <2> QED BY <2>1, <2>2, PageKeeps
<1>2. ASSUME NEW to \in S!Panels, S!OnPanel(to) PROVE SideInv'
  <2> DEFINE p == [side EXCEPT !.panel = to, !.of = S!Fresh]
  <2>1. p \in Sides /\ p.panel = to /\ p.of = S!Fresh
    BY <1>0, FreshSide DEF Sides
  <2>2. S!Becomes(p, {}) /\ UNCHANGED S!sandbox /\ to # side.panel
    BY <1>2 DEF S!OnPanel
  <2> HIDE DEF p
  <2> QED BY <2>1, <2>2, PageKeeps
<1> QED BY <1>1, <1>2

\* An answer is heard.
LEMMA HearingKeeps ==
  ASSUME SideInv, NEW c \in reads, S!Loaded(c) \/ S!Checked(c)
  PROVE  SideInv'
<1>0. /\ reads' = reads \ {c} /\ UNCHANGED <<code, opRuns, live, reset, floor, crossedReads>>
      /\ side \in Sides /\ c.got \in Readings /\ c.got # 0 /\ side.panel = "slots"
  <2>1. SideCall(c)
    BY DEF SideInv, SideTyped
  <2>2. c.got \in Readings
    BY <2>1 DEF SideCall
  <2> QED BY <2>2 DEF S!Loaded, S!Checked, S!Hears, S!sandbox, S!history, S!None, SideInv, SideTyped, OneCheck
<1>1. CASE S!Loaded(c)
  <2>1. PICK slots \in Readings, error \in BOOLEAN :
          /\ side' = [side EXCEPT !.of = [side.of EXCEPT !.slots = slots, !.error = error]]
          /\ error \/ slots = c.got
    <3>0. side.of \in SideStates
      BY <1>0 DEF Sides
    <3>1. CASE c.got = S!Failed
      <4>1. side' = [side EXCEPT !.of = [side.of EXCEPT !.error = TRUE]]
        BY <1>1, <3>1 DEF S!Loaded, S!Hears
      <4>2. [side.of EXCEPT !.error = TRUE] = [side.of EXCEPT !.slots = side.of.slots, !.error = TRUE] /\ side.of.slots \in Readings
        BY <3>0 DEF SideStates
      <4> QED BY <4>1, <4>2
    <3>2. CASE c.got # S!Failed
      BY <1>0, <1>1, <3>2 DEF S!Loaded, S!Hears
    <3> QED BY <3>1, <3>2
  <2>2. /\ side' \in Sides /\ side'.panel = side.panel /\ side'.live = side.live /\ side'.of.slots = slots /\ side'.of.error = error
        /\ side'.of.checking = side.of.checking
    BY <1>0, <2>1 DEF Sides, SideStates
  <2>3. c.kind = "slots"
    BY <1>1 DEF S!Loaded, S!Hears
  <2>4. error \/ Recent(slots)
    <3>1. CASE c.got = S!Failed
      <4>1. side' = [side EXCEPT !.of = [side.of EXCEPT !.error = TRUE]]
        BY <1>1, <3>1 DEF S!Loaded, S!Hears
      <4>2. side'.of.error = TRUE
        BY <1>0, <4>1 DEF Sides, SideStates
      <4> QED BY <2>2, <4>2
    <3>2. CASE c.got # S!Failed
      BY <1>0, <2>1, <2>3, <3>2 DEF SideInv, ReadSince, S!Of
    <3> QED BY <3>1, <3>2
  <2>5. SideTyped'
    BY <1>0, <2>2 DEF SideInv, SideTyped, SideCall, Readings, Sides, SideStates
  <2>6. ReadSince'
    BY <1>0, <2>2, <2>4 DEF SideInv, ReadSince, S!Of, Recent, S!Failed
  <2>7. OneCheck'
    <3>1. S!Of("check")' = S!Of("check")
      BY <1>0, <2>3 DEF S!Of
    <3> QED BY <1>0, <2>2, <3>1 DEF SideInv, OneCheck
  <2> QED BY <2>5, <2>6, <2>7 DEF SideInv
<1>2. CASE S!Checked(c)
  <2>1. side' = [side EXCEPT !.of = [side.of EXCEPT !.report = c.got, !.checking = FALSE]] /\ c.kind = "check"
    BY <1>2 DEF S!Checked, S!Hears, S!Reported
  <2>2. /\ side' \in Sides /\ side'.panel = side.panel /\ side'.live = side.live /\ side'.of.slots = side.of.slots
        /\ side'.of.error = side.of.error /\ side'.of.checking = FALSE
    BY <1>0, <2>1 DEF Sides, SideStates
  <2>3. SideTyped'
    BY <1>0, <2>2 DEF SideInv, SideTyped, SideCall, Readings, Sides, SideStates
  <2>4. S!Of("slots")' = S!Of("slots")
    BY <1>0, <2>1 DEF S!Of
  <2>5. ReadSince'
    BY <1>0, <2>2, <2>4 DEF SideInv, ReadSince, Recent, S!Failed
  <2>6. S!Of("check")' = {}
    BY <1>0, <2>1 DEF SideInv, OneCheck, S!Of
  <2>7. OneCheck'
    BY <1>0, <2>2, <2>6 DEF OneCheck
  <2> QED BY <2>3, <2>5, <2>7 DEF SideInv
<1> QED BY <1>1, <1>2

\* The buttons.
LEMMA ButtonsKeep ==
  ASSUME SideInv, S!RunCheck \/ S!Reset \/ \E to \in BOOLEAN : S!Resetting(to)
  PROVE  SideInv'
<1>0. side \in Sides /\ UNCHANGED <<code, opRuns, live, floor, crossedReads>>
  BY DEF SideInv, SideTyped, S!RunCheck, S!Reset, S!Resetting, S!sandbox, S!history
<1>1. CASE S!RunCheck
  <2>1. side' = [side EXCEPT !.of.checking = TRUE] /\ S!Asks("check", reads) /\ ~side.of.checking /\ side.panel = "slots" /\ reset' = reset
    BY <1>1 DEF S!RunCheck, S!sandbox
  <2>2. /\ side' \in Sides /\ side'.panel = side.panel /\ side'.live = side.live /\ side'.of.slots = side.of.slots
        /\ side'.of.error = side.of.error /\ side'.of.checking = TRUE
    BY <1>0, <2>1 DEF Sides, SideStates
  <2>3. \A c \in reads : SideCall(c)
    BY DEF SideInv, SideTyped
  <2>4. \A c \in reads' : SideCall(c)
    BY <2>1, <2>3, SideAsks
  <2>5. PICK k : reads' = reads \cup {k} /\ k.kind = "check"
    BY <2>1, <2>3, SideAsks
  <2>6. SideTyped'
    BY <1>0, <2>1, <2>2, <2>4 DEF SideInv, SideTyped, SideCall, Readings, Sides, SideStates
  <2>7. S!Of("slots")' = S!Of("slots")
    BY <2>5 DEF S!Of
  <2>8. ReadSince'
    BY <1>0, <2>2, <2>7 DEF SideInv, ReadSince, Recent, S!Failed
  <2>9. S!Of("check") = {}
    BY <2>1 DEF SideInv, OneCheck
  <2>10. S!Of("check")' = {k}
    BY <2>5, <2>9 DEF S!Of
  <2>11. OneCheck'
    BY <2>1, <2>2, <2>10 DEF OneCheck
  <2> QED BY <2>6, <2>8, <2>11 DEF SideInv
<1>2. CASE S!Reset \/ \E to \in BOOLEAN : S!Resetting(to)
  <2>1. PICK to \in BOOLEAN : side' = [side EXCEPT !.of.confirming = to] /\ reads' = reads /\ reset' \in BOOLEAN /\ side.panel = "settings"
    <3>1. CASE S!Reset
      BY <3>1 DEF S!Reset
    <3>2. ASSUME NEW to \in BOOLEAN, S!Resetting(to)
          PROVE  side' = [side EXCEPT !.of.confirming = to] /\ reads' = reads /\ reset' \in BOOLEAN /\ side.panel = "settings"
      BY <3>2 DEF S!Resetting, S!sandbox, SideInv, SideTyped
    <3> QED BY <1>2, <3>1, <3>2
  <2>2. side' \in Sides /\ side'.panel = "settings" /\ side'.of.checking = side.of.checking
    BY <1>0, <2>1 DEF Sides, SideStates
  <2>3. reads = {}
    BY <2>1 DEF SideInv, OneCheck
  <2>4. SideTyped'
    BY <1>0, <2>1, <2>2, <2>3 DEF SideInv, SideTyped, Readings, Sides, SideStates
  <2> QED BY <2>1, <2>2, <2>3, <2>4 DEF SideInv, ReadSince, OneCheck, S!Of
<1> QED BY <1>1, <1>2

LEMMA SideKeeps == ASSUME SideInv, [S!Next]_(S!state) PROVE SideInv'
<1>1. CASE UNCHANGED S!state
  <2>1. UNCHANGED <<code, opRuns, live, reset, side, reads, floor, crossedReads>>
    BY <1>1 DEF S!state, S!sandbox, S!history
  <2>2. SideTyped'
    BY <2>1 DEF SideInv, SideTyped, SideCall, Readings, Sides, SideStates
  <2> QED BY <2>1, <2>2 DEF SideInv, ReadSince, OneCheck, S!Of, Recent, S!Failed
<1>2. CASE S!Next
  BY <1>2, PortfolioKeeps, AnswersKeep, TurnsKeep, HearingKeeps, ButtonsKeep DEF S!Next
<1> QED BY <1>1, <1>2

LEMMA SideShows == SideInv => S!SlotsAreRead
BY DEF SideInv, ReadSince, OneCheck, Recent, S!SlotsAreRead, S!None

(***************************************************************************)
(* SlotsPanel: while it is open on a preview that it takes for live, it is *)
(* reading the slots, shows what it read since it asked last, or says why  *)
(* it cannot, but for two readings that crossed; and the button of its     *)
(* check comes back when the check has ended, however it ended.            *)
(***************************************************************************)
THEOREM SlotsAreAlwaysRead == S!Spec => []S!SlotsAreRead
<1>1. S!Init => SideInv
  BY SideStarts
<1>2. SideInv /\ [S!Next]_(S!state) => SideInv'
  BY SideKeeps
<1>3. SideInv => S!SlotsAreRead
  BY SideShows
<1> QED BY <1>1, <1>2, <1>3, PTL DEF S!Spec

HIDE DEF code, opRuns, live, reset, side, reads, sideChanges, sideAsked, resets, sideFaults, floor, crossedReads

-----------------------------------------------------------------------------
(* InstallForm *)

accounts == v1
cache == v2
stored == v3
form == v4
checks == v5
install == v6
queuedNames == v7
edits == v8
formFaults == v9
basis == v10

USE DEF accounts, cache, stored, form, checks, install, queuedNames, edits, formFaults, basis

Typeds     == Names \cup {""}
Forms      == [open : BOOLEAN, value : Typeds, sequence : Nat, timer : BOOLEAN, validating : BOOLEAN, valid : BOOLEAN,
               tick : Typeds, submitting : BOOLEAN, keys : BOOLEAN]
NameChecks == [id : Nat, value : Names, answer : {"none", "found", "not_found", "unknown"}]

FormTyped ==
  /\ form \in Forms /\ (form.timer => form.open /\ form.value # "")
  /\ checks \subseteq NameChecks /\ (~form.open => checks = {})
  /\ basis \in [name : Typeds, heard : BOOLEAN]

(***************************************************************************)
(* The inductive invariant: the check that counts is of the name in the    *)
(* field, when there is one; and once it was answered so are the button    *)
(* and the tick.                                                           *)
(***************************************************************************)
LatestIsOfTheName == \A c \in checks : c.id <= form.sequence /\ (F!IsLatest(c) /\ form.value # "" => c.value = form.value)

AnsweredIsOfTheName ==
  form.value # "" /\ ~form.validating =>
    /\ form.valid => basis.name = form.value
    /\ basis.heard => form.tick \in {"", form.value}

FormInv == FormTyped /\ LatestIsOfTheName /\ AnsweredIsOfTheName

\* A form that is made anew, or closed, waits for nothing.
LEMMA FreshFits ==
  ASSUME NEW keys \in BOOLEAN
  PROVE  /\ F!Fresh(keys) \in Forms /\ F!Shut(keys) \in Forms
         /\ ~F!Fresh(keys).timer /\ ~F!Shut(keys).timer /\ ~F!Shut(keys).open
         /\ F!Fresh(keys).value = "" /\ F!Shut(keys).value = ""
<1>1. F!Fresh(keys) \in Forms
  BY DEF F!Fresh, Forms, Typeds, F!Empty
<1>2. F!Shut(keys) \in Forms
  BY <1>1 DEF F!Shut, Forms
<1>3. ~F!Fresh(keys).timer /\ F!Fresh(keys).value = ""
  BY DEF F!Fresh, F!Empty
<1>4. F!Shut(keys).timer = F!Fresh(keys).timer /\ F!Shut(keys).value = F!Fresh(keys).value /\ F!Shut(keys).open = FALSE
  BY <1>1 DEF F!Shut, Forms
<1> QED BY <1>1, <1>2, <1>3, <1>4

LEMMA FormStarts == F!Init => FormInv
<1> SUFFICES ASSUME F!Init PROVE FormInv
  OBVIOUS
<1>1. form = F!Shut(FALSE) /\ checks = {} /\ basis = [name |-> "", heard |-> TRUE]
  BY DEF F!Init, F!NoBasis, F!Empty
<1>2. basis \in [name : Typeds, heard : BOOLEAN]
  BY <1>1 DEF Typeds
<1>3. FormTyped
  BY <1>1, <1>2, FreshFits DEF FormTyped
<1> QED BY <1>1, <1>3, FreshFits DEF FormInv, LatestIsOfTheName, AnsweredIsOfTheName

\* The form is made anew, or closed.
LEMMA AnewKeeps ==
  ASSUME FormInv, (form' = F!Fresh(form.keys) /\ ~form.open /\ UNCHANGED <<checks, basis>>)
                  \/ (form' = F!Shut(form.keys) /\ checks' = {} /\ basis' = F!NoBasis)
  PROVE  FormInv'
<1>1. form.keys \in BOOLEAN
  BY DEF FormInv, FormTyped, Forms
<1>2. checks' = {} /\ form' \in Forms /\ form'.value = "" /\ ~form'.timer
  BY <1>1, FreshFits DEF FormInv, FormTyped
<1>3. basis' \in [name : Typeds, heard : BOOLEAN]
  <2>1. F!NoBasis \in [name : Typeds, heard : BOOLEAN]
    BY DEF F!NoBasis, Typeds, F!Empty
  <2> QED BY <2>1 DEF FormInv, FormTyped
<1> QED BY <1>2, <1>3 DEF FormInv, FormTyped, LatestIsOfTheName, AnsweredIsOfTheName

\* What the check is about and what it found are left alone.
LEMMA FormAsBefore ==
  ASSUME FormInv, UNCHANGED <<checks, basis>>, form' \in Forms,
         form'.open = form.open, form'.value = form.value, form'.sequence = form.sequence, form'.timer = form.timer,
         form'.validating = form.validating, form'.valid = form.valid, form'.tick = form.tick
  PROVE  FormInv'
BY DEF FormInv, FormTyped, LatestIsOfTheName, AnsweredIsOfTheName, F!IsLatest

LEMMA TypingKeeps ==
  ASSUME FormInv, NEW v \in Typeds, F!Type(v)
  PROVE  FormInv'
<1>0. UNCHANGED <<checks, basis>> /\ form \in Forms /\ form.open /\ form.sequence \in Nat
  BY DEF F!Type, FormInv, FormTyped, Forms
<1>1. CASE v = ""
  <2>1. form' = [form EXCEPT !.value = "", !.timer = FALSE, !.valid = FALSE, !.tick = ""]
    BY <1>1 DEF F!Type, F!Empty
  <2>2. form' \in Forms /\ form'.value = "" /\ ~form'.timer /\ form'.open = form.open /\ form'.sequence = form.sequence
    BY <1>0, <2>1 DEF Forms, Typeds
  <2> QED BY <1>0, <2>2 DEF FormInv, FormTyped, LatestIsOfTheName, AnsweredIsOfTheName
<1>2. CASE v # ""
  <2> DEFINE n == form.sequence + 1
  <2>1. form' = [form EXCEPT !.value = v, !.timer = TRUE, !.sequence = n, !.validating = TRUE]
    BY <1>2 DEF F!Type, F!Empty
  <2>2. n \in Nat
    BY <1>0
  <2>3. \A c \in checks : c.id <= n /\ c.id # n
    <3> SUFFICES ASSUME NEW c \in checks PROVE c.id <= n /\ c.id # n
      OBVIOUS
    <3>1. c.id \in Nat /\ c.id <= form.sequence
      BY DEF FormInv, FormTyped, LatestIsOfTheName, NameChecks
    <3> QED BY <1>0, <3>1
  <2> HIDE DEF n
  <2>4. form' \in Forms /\ form'.value = v /\ form'.open = form.open /\ form'.sequence = n /\ form'.validating
    BY <1>0, <2>1, <2>2 DEF Forms
  <2>5. FormTyped'
    BY <1>0, <1>2, <2>4 DEF FormInv, FormTyped
  <2>6. LatestIsOfTheName'
    BY <1>0, <2>3, <2>4 DEF LatestIsOfTheName, F!IsLatest
  <2> QED BY <2>4, <2>5, <2>6 DEF FormInv, AnsweredIsOfTheName
<1> QED BY <1>1, <1>2

LEMMA DebounceKeeps == ASSUME FormInv, F!Debounced PROVE FormInv'
<1> DEFINE k == [id |-> form.sequence, value |-> form.value, answer |-> "none"]
<1>1. checks' = checks \cup {k} /\ form' = [form EXCEPT !.timer = FALSE] /\ basis' = basis /\ form.timer
  BY DEF F!Debounced
<1>2. form.value # "" /\ form.open /\ form \in Forms
  BY <1>1 DEF FormInv, FormTyped
<1>3. k \in NameChecks /\ k.id = form.sequence /\ k.value = form.value
  BY <1>2 DEF NameChecks, Forms, Typeds
<1> HIDE DEF k
<1>4. form' \in Forms /\ form'.value = form.value /\ form'.open = form.open /\ form'.sequence = form.sequence /\ ~form'.timer
      /\ form'.validating = form.validating /\ form'.valid = form.valid /\ form'.tick = form.tick
  BY <1>1, <1>2 DEF Forms
<1>5. FormTyped'
  BY <1>1, <1>2, <1>3, <1>4 DEF FormInv, FormTyped
<1>6. LatestIsOfTheName'
  <2>1. form.sequence \in Nat
    BY <1>2 DEF Forms
  <2>2. form.sequence <= form.sequence
    BY <2>1
  <2> QED BY <1>1, <1>3, <1>4, <2>2 DEF FormInv, LatestIsOfTheName, F!IsLatest
<1>7. AnsweredIsOfTheName'
  BY <1>1, <1>4 DEF FormInv, AnsweredIsOfTheName
<1> QED BY <1>5, <1>6, <1>7 DEF FormInv

\* CatalogueService.validate
LEMMA ValidateKeeps == ASSUME FormInv, NEW c \in checks, F!Validate(c) PROVE FormInv'
<1>1. PICK says \in {"found", "not_found", "unknown"} : checks' = (checks \ {c}) \cup {[c EXCEPT !.answer = says]}
  BY DEF F!Validate
<1> DEFINE k == [c EXCEPT !.answer = says]
<1>2. k \in NameChecks /\ k.id = c.id /\ k.value = c.value
  BY DEF FormInv, FormTyped, NameChecks
<1>3. UNCHANGED <<form, basis>> /\ checks' = (checks \ {c}) \cup {k} /\ checks # {}
  BY <1>1 DEF F!Validate
<1> HIDE DEF k
<1>4. FormTyped'
  BY <1>2, <1>3 DEF FormInv, FormTyped
<1>5. LatestIsOfTheName'
  BY <1>2, <1>3 DEF FormInv, LatestIsOfTheName, F!IsLatest
<1>6. AnsweredIsOfTheName'
  BY <1>3 DEF FormInv, AnsweredIsOfTheName
<1> QED BY <1>4, <1>5, <1>6 DEF FormInv

\* The last check is answered, or fails; or an earlier one.
LEMMA AnswerKeeps == ASSUME FormInv, NEW c \in checks, F!Answered(c) \/ F!CheckFails(c) PROVE FormInv'
<1>0. checks' = checks \ {c} /\ form \in Forms /\ form.open /\ c \in NameChecks
  BY DEF F!Answered, F!CheckFails, FormInv, FormTyped
<1>1. CASE ~F!IsLatest(c)
  <2>1. UNCHANGED <<form, basis>>
    BY <1>1 DEF F!Answered, F!CheckFails
  <2> QED BY <1>0, <2>1 DEF FormInv, FormTyped, LatestIsOfTheName, AnsweredIsOfTheName, F!IsLatest
<1>2. CASE F!IsLatest(c)
  <2>1. PICK valid \in BOOLEAN, tick \in Typeds, heard \in BOOLEAN :
          /\ form' = [form EXCEPT !.validating = FALSE, !.valid = valid, !.tick = tick]
          /\ basis' = [name |-> c.value, heard |-> heard]
          /\ heard => tick \in {"", c.value}
    <3>1. CASE F!Answered(c)
      <4> DEFINE tick == IF c.answer = "found" THEN c.value ELSE ""
      <4>1. tick \in Typeds /\ tick \in {"", c.value}
        BY <1>0 DEF NameChecks, Typeds
      <4>2. /\ form' = [form EXCEPT !.validating = FALSE, !.valid = (c.answer # "not_found"), !.tick = tick]
            /\ basis' = [name |-> c.value, heard |-> TRUE]
        BY <1>2, <3>1 DEF F!Answered, F!Empty
      <4> HIDE DEF tick
      <4> QED BY <4>1, <4>2
    <3>2. CASE F!CheckFails(c)
      <4>1. form' = [form EXCEPT !.validating = FALSE, !.valid = TRUE] /\ basis' = [name |-> c.value, heard |-> FALSE]
        BY <1>2, <3>2 DEF F!CheckFails
      <4>2. form' = [form EXCEPT !.validating = FALSE, !.valid = TRUE, !.tick = form.tick] /\ form.tick \in Typeds
        BY <1>0, <4>1 DEF Forms
      <4> QED BY <4>1, <4>2
    <3> QED BY <3>1, <3>2
  <2>2. /\ form' \in Forms /\ form'.value = form.value /\ form'.open = form.open /\ form'.sequence = form.sequence
        /\ form'.timer = form.timer /\ form'.tick = tick
    BY <1>0, <2>1 DEF Forms
  <2>3. basis' \in [name : Typeds, heard : BOOLEAN] /\ basis'.name = c.value /\ basis'.heard = heard
    BY <1>0, <2>1 DEF NameChecks, Typeds
  <2>4. form.value # "" => c.value = form.value
    BY <1>2 DEF FormInv, LatestIsOfTheName
  <2>5. FormTyped'
    BY <1>0, <2>2, <2>3 DEF FormInv, FormTyped
  <2>6. LatestIsOfTheName'
    BY <1>0, <2>2 DEF FormInv, LatestIsOfTheName, F!IsLatest
  <2>7. AnsweredIsOfTheName'
    BY <2>1, <2>2, <2>3, <2>4 DEF AnsweredIsOfTheName
  <2> QED BY <2>5, <2>6, <2>7 DEF FormInv
<1> QED BY <1>1, <1>2

\* Keys, and the install itself.
LEMMA FormInstallKeeps ==
  ASSUME FormInv, F!SaveKeys \/ F!Disconnect \/ F!Submit \/ F!Serve \/ F!Installed
  PROVE  FormInv'
<1>0. form \in Forms
  BY DEF FormInv, FormTyped
<1>1. CASE F!Installed /\ form' = F!Shut(form.keys) /\ checks' = {} /\ basis' = F!NoBasis
  BY <1>1, AnewKeeps
<1>2. CASE form' \in {form, [form EXCEPT !.keys = TRUE], [form EXCEPT !.submitting = TRUE], [form EXCEPT !.submitting = FALSE]}
           /\ UNCHANGED <<checks, basis>>
  <2>1. /\ form' \in Forms /\ form'.open = form.open /\ form'.value = form.value /\ form'.sequence = form.sequence
        /\ form'.timer = form.timer /\ form'.validating = form.validating /\ form'.valid = form.valid /\ form'.tick = form.tick
    BY <1>0, <1>2 DEF Forms
  <2> QED BY <1>2, <2>1, FormAsBefore
<1>3. CASE F!SaveKeys
  BY <1>2, <1>3 DEF F!SaveKeys
<1>4. CASE F!Disconnect \/ F!Serve
  BY <1>2, <1>4 DEF F!Disconnect, F!Serve
<1>5. CASE F!Submit
  BY <1>2, <1>5 DEF F!Submit
<1>6. CASE F!Installed
  BY <1>1, <1>2, <1>6 DEF F!Installed, F!Told
<1> QED BY <1>3, <1>4, <1>5, <1>6

LEMMA FormKeeps == ASSUME FormInv, [F!Next]_(F!state) PROVE FormInv'
<1>1. CASE UNCHANGED F!state
  BY <1>1 DEF F!state, FormInv, FormTyped, LatestIsOfTheName, AnsweredIsOfTheName, F!IsLatest
<1>2. CASE F!Next
  <2>1. CASE \E n \in Names : F!AccountChanges(n) \/ F!Forgets(n)
    <3>1. UNCHANGED <<form, checks, basis>>
      BY <2>1 DEF F!AccountChanges, F!Forgets
    <3> QED BY <3>1 DEF FormInv, FormTyped, LatestIsOfTheName, AnsweredIsOfTheName, F!IsLatest
  <2>2. CASE F!Open \/ F!Close
    BY <2>2, AnewKeeps DEF F!Open, F!Close
  <2>3. CASE \E v \in Names \cup {F!Empty} : F!Type(v)
    BY <2>3, TypingKeeps DEF Typeds, F!Empty
  <2>4. CASE \E c \in checks : F!Validate(c) \/ F!Answered(c) \/ F!CheckFails(c)
    BY <2>4, ValidateKeeps, AnswerKeeps
  <2> QED BY <1>2, <2>1, <2>2, <2>3, <2>4, DebounceKeeps, FormInstallKeeps DEF F!Next
<1> QED BY <1>1, <1>2

LEMMA FormShows == FormInv => F!FormSpeaksOfItsName
BY DEF FormInv, AnsweredIsOfTheName, F!FormSpeaksOfItsName, F!Ready, F!Empty

(***************************************************************************)
(* InstallForm: the button that installs and the tick under a name speak   *)
(* of the name that stands in the field, however often it changes and in   *)
(* whatever order its checks are answered, lost or overtaken.              *)
(***************************************************************************)
THEOREM FormAlwaysSpeaksOfItsName == F!Spec => []F!FormSpeaksOfItsName
<1>1. F!Init => FormInv
  BY FormStarts
<1>2. FormInv /\ [F!Next]_(F!state) => FormInv'
  BY FormKeeps
<1>3. FormInv => F!FormSpeaksOfItsName
  BY FormShows
<1> QED BY <1>1, <1>2, <1>3, PTL DEF F!Spec

HIDE DEF accounts, cache, stored, form, checks, install, queuedNames, edits, formFaults, basis

-----------------------------------------------------------------------------
(* Wishes *)

catalogue == v1
votes == v2
panel == v3
wishes == v4
wished == v5
wishFaults == v6
unaware == v7

USE DEF catalogue, votes, panel, wishes, wished, wishFaults, unaware

WishPanels == [open : BOOLEAN, loaded : BOOLEAN, planned : SUBSET Planned, requested : SUBSET Planned, busy : SUBSET Planned,
               suggesting : BOOLEAN]
WishKeys   == W!Keys \cup {""}
WishRequests  == [id : Nat, page : Pages \cup {"nowhere"}, kind : {"load", "request", "withdraw", "suggest"}, key : WishKeys,
               at : {"sent", "counted", "found", "refused", "done"}, stale : BOOLEAN, planned : SUBSET Planned, requested : SUBSET Planned]

\* A request, and what of it goes with its kind.
WishFits(c) ==
  /\ c \in WishRequests /\ c.requested \subseteq c.planned
  /\ c.kind = "load" => c.at \in {"sent", "done"}
  /\ c.kind # "load" => ~c.stale /\ c.key \in W!Keys
  /\ c.at = "counted" => c.kind \in {"request", "suggest"}
  /\ c.at = "found" => c.kind = "withdraw"

\* Whoever waits for an answer is open, and shows a list if it asked about an entry of it.
Heard(c) == c.page \in Pages => panel[c.page].open /\ (c.kind # "load" => panel[c.page].loaded)

WishTyped ==
  /\ catalogue \in [Planned -> {"none", "active", "inactive"}] /\ votes \in SUBSET W!Keys
  /\ wished \in Nat /\ unaware \in SUBSET Pages
  /\ panel \in [Pages -> WishPanels] /\ \A p \in Pages : (panel[p].loaded => panel[p].open) /\ panel[p].requested \subseteq panel[p].planned
  /\ \A c \in wishes : WishFits(c) /\ Heard(c)

\* A list that was read, and nothing has changed since.
ReadsTrue ==
  \A c \in wishes : c.kind = "load" /\ c.at = "done" /\ ~c.stale =>
    c.planned = Planned \ W!Available /\ c.requested = (votes \cap Planned) \ W!Available

\* The requests of a page that were carried out and whose answers are on their way, and its lists.
DoneActs(p)  == {c \in wishes : c.page = p /\ c.kind # "load" /\ c.at = "done"}
WishLoads(p) == {c \in wishes : c.page = p /\ c.kind = "load"}

(***************************************************************************)
(* The inductive invariant, for a page that nothing happened behind: of    *)
(* its requests about one integration one at most was carried out, and     *)
(* says what the table says; and of any integration without one the page   *)
(* does, unless it waits for the list.                                     *)
(***************************************************************************)
Tells(p) ==
  p \notin unaware =>
    /\ \A c, d \in DoneActs(p) : c.key = d.key => c = d
    /\ \A c \in DoneActs(p) : c.key \in votes <=> c.kind # "withdraw"
    /\ panel[p].loaded => panel[p].planned = Planned \ W!Available
    /\ panel[p].loaded /\ WishLoads(p) = {} =>
         \A k \in panel[p].planned : (\A c \in DoneActs(p) : c.key # k) => (k \in panel[p].requested <=> k \in votes)

WishInv == WishTyped /\ ReadsTrue /\ \A p \in Pages : Tells(p)

LEMMA BlankFits ==
  /\ W!Blank \in WishPanels /\ ~W!Blank.open /\ ~W!Blank.loaded /\ W!Blank.requested = {}
  /\ LET b == [W!Blank EXCEPT !.open = TRUE] IN b \in WishPanels /\ b.open /\ ~b.loaded /\ b.requested = {}
BY DEF W!Blank, WishPanels

LEMMA WishesStart == W!Init => WishInv
<1> SUFFICES ASSUME W!Init PROVE WishInv
  OBVIOUS
<1>1. panel = [p \in Pages |-> W!Blank] /\ wishes = {}
  BY DEF W!Init
<1>2. WishTyped
  BY <1>1, BlankFits DEF W!Init, WishTyped
<1>3. ReadsTrue
  BY <1>1 DEF ReadsTrue
<1>4. ASSUME NEW p \in Pages PROVE Tells(p)
  BY <1>1, BlankFits DEF Tells, DoneActs
<1> QED BY <1>2, <1>3, <1>4 DEF WishInv

\* A page that a step does not reach.
LEMMA PageAsBefore ==
  ASSUME NEW p, Tells(p), p \notin unaware' => p \notin unaware, UNCHANGED <<votes, catalogue>>,
         panel'[p].loaded = panel[p].loaded, panel'[p].planned = panel[p].planned, panel'[p].requested = panel[p].requested,
         DoneActs(p)' = DoneActs(p), WishLoads(p)' = {} => WishLoads(p) = {}
  PROVE  Tells(p)'
BY DEF Tells, W!Available

\* What is on its way about a list becomes out of date; nothing else changes.
LEMMA OutdatedFits ==
  ASSUME NEW set, \A c \in set : WishFits(c)
  PROVE  \A e \in W!Outdated(set) : \E c \in set : /\ WishFits(e) /\ e.page = c.page /\ e.kind = c.kind /\ e.at = c.at /\ e.key = c.key
                                                  /\ (e.kind = "load" => e.stale) /\ (e.kind # "load" => e = c)
<1> SUFFICES ASSUME NEW c \in set
             PROVE  LET e == [c EXCEPT !.stale = c.stale \/ c.kind = "load"]
                    IN  /\ WishFits(e) /\ e.page = c.page /\ e.kind = c.kind /\ e.at = c.at /\ e.key = c.key
                        /\ (e.kind = "load" => e.stale) /\ (e.kind # "load" => e = c)
  BY DEF W!Outdated
<1>1. CASE c.kind = "load"
  <2> DEFINE e == [c EXCEPT !.stale = TRUE]
  <2>1. e \in WishRequests /\ e.page = c.page /\ e.kind = c.kind /\ e.at = c.at /\ e.key = c.key /\ e.stale = TRUE
        /\ e.requested = c.requested /\ e.planned = c.planned
    BY DEF WishFits, WishRequests
  <2> HIDE DEF e
  <2>2. WishFits(e)
    BY <1>1, <2>1 DEF WishFits
  <2> QED BY <1>1, <2>1, <2>2 DEF e
<1>2. CASE c.kind # "load"
  <2>1. c.stale = FALSE
    BY <1>2 DEF WishFits, WishRequests
  <2>2. [c EXCEPT !.stale = c.stale \/ c.kind = "load"] = [c EXCEPT !.stale = FALSE]
    BY <1>2, <2>1
  <2>3. [c EXCEPT !.stale = FALSE] = c
    BY <2>1 DEF WishFits, WishRequests
  <2> QED BY <1>2, <2>2, <2>3
<1> QED BY <1>1, <1>2

LEMMA OutdatedKeeps ==
  ASSUME NEW set, \A c \in set : WishFits(c), NEW c \in set
  PROVE  \E e \in W!Outdated(set) : e.page = c.page /\ e.kind = c.kind /\ (c.kind # "load" => e = c)
<1> DEFINE e == [c EXCEPT !.stale = c.stale \/ c.kind = "load"]
<1>1. e \in W!Outdated(set)
  BY DEF W!Outdated
<1>2. e.page = c.page /\ e.kind = c.kind
  BY DEF WishFits, WishRequests
<1>4. c.kind # "load" => e = c
  <2> SUFFICES ASSUME c.kind # "load" PROVE e = c
    OBVIOUS
  <2>1. c.stale = FALSE
    BY DEF WishFits, WishRequests
  <2>2. e = [c EXCEPT !.stale = FALSE]
    BY <2>1
  <2> QED BY <2>1, <2>2 DEF WishFits, WishRequests
<1> QED BY <1>1, <1>2, <1>4

-----------------------------------------------------------------------------
LEMMA Ingests ==
  ASSUME WishInv, NEW j \in Planned, W!Ingest(j) \/ W!Deactivate(j)
  PROVE  WishInv'
<1>1. /\ \E v \in {"none", "active", "inactive"} : catalogue' = [catalogue EXCEPT ![j] = v]
      /\ wishes' = W!Outdated(wishes) /\ unaware' = Pages /\ UNCHANGED <<votes, panel, wished>>
  BY DEF W!Ingest, W!Deactivate, WishInv, WishTyped
<1>2. \A c \in wishes : WishFits(c) /\ Heard(c)
  BY DEF WishInv, WishTyped
<1>3. \A e \in wishes' : WishFits(e) /\ Heard(e)' /\ (e.kind = "load" => e.stale)
  <2> SUFFICES ASSUME NEW e \in wishes' PROVE WishFits(e) /\ Heard(e)' /\ (e.kind = "load" => e.stale)
    OBVIOUS
  <2>1. PICK c \in wishes : WishFits(e) /\ e.page = c.page /\ e.kind = c.kind /\ (e.kind = "load" => e.stale)
    BY <1>1, <1>2, OutdatedFits
  <2> QED BY <1>1, <1>2, <2>1 DEF Heard
<1>4. WishTyped'
  <2>1. catalogue' \in [Planned -> {"none", "active", "inactive"}]
    BY <1>1 DEF WishInv, WishTyped
  <2> QED BY <1>1, <1>3, <2>1 DEF WishInv, WishTyped
<1>5. ReadsTrue'
  BY <1>3 DEF ReadsTrue
<1>6. \A p \in Pages : Tells(p)'
  BY <1>1 DEF Tells
<1> QED BY <1>4, <1>5, <1>6 DEF WishInv

\* What a page did, and what that says to the page itself: the others are behind.
LEMMA Votes ==
  ASSUME WishInv, "nowhere" \notin Pages, NEW c \in wishes, NEW k, WishFits(k), k.page = c.page, k.kind = c.kind, k.key = c.key,
         c.kind # "load", c.at # "done", k.at \in {"done", "refused"},
         wishes' = W!Outdated(wishes \ {c}) \cup {k}, W!Changed(c), UNCHANGED <<catalogue, panel, wished>>,
         votes' \in SUBSET W!Keys, \A i : i # c.key => (i \in votes' <=> i \in votes),
         k.at = "done" => (c.key \in votes' <=> c.kind # "withdraw"), k.at # "done" => votes' = votes
  PROVE  WishInv'
<1>1. \A d \in wishes : WishFits(d) /\ Heard(d)
  BY DEF WishInv, WishTyped
<1>2. \A e \in wishes' : WishFits(e) /\ Heard(e)' /\ (e.kind = "load" => e.stale) /\ (e.kind # "load" => e = k \/ e \in wishes \ {c})
  <2> SUFFICES ASSUME NEW e \in wishes'
               PROVE  WishFits(e) /\ Heard(e)' /\ (e.kind = "load" => e.stale) /\ (e.kind # "load" => e = k \/ e \in wishes \ {c})
    OBVIOUS
  <2>1. CASE e = k
    BY <1>1, <2>1 DEF Heard
  <2>2. CASE e # k
    <3>1. PICK d \in wishes \ {c} : /\ WishFits(e) /\ e.page = d.page /\ e.kind = d.kind /\ (e.kind = "load" => e.stale)
                                   /\ (e.kind # "load" => e = d)
      BY <1>1, <2>2, OutdatedFits
    <3> QED BY <1>1, <3>1 DEF Heard
  <2> QED BY <2>1, <2>2
<1>3. WishTyped'
  <2>1. unaware' \in SUBSET Pages
    BY DEF W!Changed, WishInv, WishTyped
  <2> QED BY <1>2, <2>1 DEF WishInv, WishTyped
<1>4. ReadsTrue'
  BY <1>2 DEF ReadsTrue
<1>5. ASSUME NEW p \in Pages, p \notin unaware' PROVE Tells(p)'
  <2>1. p \notin unaware /\ p = c.page /\ \A d \in wishes \ {c} : d.page = p /\ d.kind # "load" => d.key # c.key
    BY <1>5 DEF W!Changed, W!Others
  <2>2. /\ \A d, e \in DoneActs(p) : d.key = e.key => d = e
        /\ \A d \in DoneActs(p) : d.key \in votes <=> d.kind # "withdraw"
        /\ panel[p].loaded => panel[p].planned = Planned \ W!Available
        /\ panel[p].loaded /\ WishLoads(p) = {} =>
             \A i \in panel[p].planned : (\A d \in DoneActs(p) : d.key # i) => (i \in panel[p].requested <=> i \in votes)
    BY <2>1 DEF WishInv, Tells
  <2>3. \A d \in DoneActs(p) : d \in wishes \ {c} /\ d.key # c.key
    BY <2>1 DEF DoneActs
  <2>4. /\ \A d \in DoneActs(p)' : d \in DoneActs(p) \/ (d = k /\ k.at = "done")
        /\ k.at = "done" => k \in DoneActs(p)'
    BY <1>2, <2>1 DEF DoneActs
  <2>5. \A d \in DoneActs(p) : d \in DoneActs(p)'
    BY <1>1, <2>3, OutdatedKeeps DEF DoneActs
  <2>6. WishLoads(p)' = {} => WishLoads(p) = {}
    <3> SUFFICES ASSUME NEW d \in WishLoads(p) PROVE WishLoads(p)' # {}
      OBVIOUS
    <3>1. d \in wishes \ {c}
      BY DEF WishLoads
    <3>2. PICK e \in W!Outdated(wishes \ {c}) : e.page = d.page /\ e.kind = d.kind
      BY <1>1, <3>1, OutdatedKeeps
    <3> QED BY <3>2 DEF WishLoads
  <2>7. \A d, e \in DoneActs(p)' : d.key = e.key => d = e
    BY <2>2, <2>3, <2>4
  <2>8. \A d \in DoneActs(p)' : d.key \in votes' <=> d.kind # "withdraw"
    BY <2>2, <2>3, <2>4
  <2>9. panel'[p].loaded /\ WishLoads(p)' = {} =>
          \A i \in panel'[p].planned : (\A d \in DoneActs(p)' : d.key # i) => (i \in panel'[p].requested <=> i \in votes')
    BY <2>2, <2>4, <2>5, <2>6
  <2>10. (W!Available)' = W!Available
    BY DEF W!Available
  <2> QED BY <2>2, <2>7, <2>8, <2>9, <2>10 DEF Tells
<1>6. \A p \in Pages : Tells(p)'
  BY <1>5 DEF Tells
<1> QED BY <1>3, <1>4, <1>6 DEF WishInv

LEMMA Recording ==
  ASSUME WishInv, "nowhere" \notin Pages, NEW c \in wishes, W!RecordVote(c) \/ W!DeleteVote(c)
  PROVE  WishInv'
<1>1. WishFits(c)
  BY DEF WishInv, WishTyped
<1> DEFINE to == IF W!RecordVote(c) \/ c.key \in votes THEN "done" ELSE "refused"
           k == [c EXCEPT !.at = to]
<1>2. to \in {"done", "refused"} /\ c.kind # "load" /\ c.at \in {"counted", "found"}
  BY <1>1 DEF WishFits, W!RecordVote, W!DeleteVote
<1>3. k \in WishRequests /\ k.page = c.page /\ k.kind = c.kind /\ k.key = c.key /\ k.at = to /\ k.stale = c.stale
      /\ k.planned = c.planned /\ k.requested = c.requested
  BY <1>1, <1>2 DEF WishFits, WishRequests
<1>4. WishFits(k)
  BY <1>1, <1>2, <1>3 DEF WishFits
<1>5. wishes' = W!Outdated(wishes \ {c}) \cup {k} /\ W!Changed(c) /\ UNCHANGED <<catalogue, panel, wished>>
  BY <1>1 DEF W!RecordVote, W!DeleteVote, WishFits
<1>6. CASE W!RecordVote(c)
  <2>1. to = "done" /\ votes' = votes \cup {c.key} /\ c.kind \in {"request", "suggest"} /\ c.key \in W!Keys
    BY <1>1, <1>6 DEF W!RecordVote, WishFits
  <2>2. votes' \in SUBSET W!Keys
    BY <2>1 DEF WishInv, WishTyped
  <2> HIDE DEF to, k
  <2>3. k.at \in {"done", "refused"} /\ k.at = "done"
    BY <1>3, <2>1
  <2> QED BY <1>2, <1>3, <1>4, <1>5, <2>1, <2>2, <2>3, Votes
<1>7. CASE W!DeleteVote(c)
  <2>1. votes' = votes \ {c.key} /\ c.kind = "withdraw" /\ c.at = "found"
    BY <1>1, <1>7 DEF W!DeleteVote, WishFits
  <2>2. votes' \in SUBSET W!Keys
    BY <2>1 DEF WishInv, WishTyped
  <2>3. to # "done" => votes' = votes
    BY <2>1
  <2> HIDE DEF to, k
  <2>4. k.at \in {"done", "refused"} /\ (k.at # "done" => votes' = votes)
    BY <1>2, <1>3, <2>3
  <2> QED BY <1>2, <1>3, <1>4, <1>5, <2>1, <2>2, <2>4, Votes
<1> QED BY <1>6, <1>7

LEMMA Counting ==
  ASSUME WishInv, NEW c \in wishes, W!CountVotes(c) \/ W!FindVote(c)
  PROVE  WishInv'
<1>1. WishFits(c) /\ Heard(c)
  BY DEF WishInv, WishTyped
<1>2. PICK to : /\ to \in {"counted", "found", "refused"} /\ wishes' = (wishes \ {c}) \cup {[c EXCEPT !.at = to]}
                /\ c.kind # "load" /\ c.at = "sent" /\ (to = "counted" => c.kind \in {"request", "suggest"}) /\ (to = "found" => c.kind = "withdraw")
  <2>1. CASE W!CountVotes(c)
    <3> DEFINE b == W!Resolves(c.key) /\ (c.key \in votes \/ W!Cardinality(votes) < MaxRequests)
    <3>1. wishes' = (wishes \ {c}) \cup {[c EXCEPT !.at = IF b THEN "counted" ELSE "refused"]} /\ c.kind \in {"request", "suggest"} /\ c.at = "sent"
      BY <2>1 DEF W!CountVotes, W!Step
    <3> HIDE DEF b
    <3> QED BY <3>1
  <2>2. CASE W!FindVote(c)
    BY <2>2 DEF W!FindVote, W!Step
  <2> QED BY <2>1, <2>2
<1> DEFINE k == [c EXCEPT !.at = to]
<1>3. k \in WishRequests /\ k.page = c.page /\ k.kind = c.kind /\ k.key = c.key /\ k.at = to /\ k.stale = c.stale
      /\ k.planned = c.planned /\ k.requested = c.requested
  BY <1>1, <1>2 DEF WishFits, WishRequests
<1>4. wishes' = (wishes \ {c}) \cup {k}
  BY <1>2
<1> HIDE DEF k
<1>5. WishFits(k)
  BY <1>1, <1>2, <1>3 DEF WishFits
<1>6. UNCHANGED <<catalogue, votes, panel, wished, unaware>>
  BY DEF W!CountVotes, W!FindVote
<1>7. WishTyped'
  BY <1>1, <1>3, <1>4, <1>5, <1>6 DEF WishInv, WishTyped, Heard
<1>8. ReadsTrue'
  BY <1>2, <1>3, <1>4, <1>6 DEF WishInv, ReadsTrue, W!Available
<1>9. ASSUME NEW p \in Pages PROVE Tells(p)'
  <2>1. DoneActs(p)' = DoneActs(p) /\ WishLoads(p)' = WishLoads(p)
    BY <1>2, <1>3, <1>4 DEF DoneActs, WishLoads
  <2>2. Tells(p)
    BY DEF WishInv
  <2> QED BY <1>6, <2>1, <2>2, PageAsBefore
<1> QED BY <1>7, <1>8, <1>9 DEF WishInv

LEMMA ListIsRead ==
  ASSUME WishInv, NEW c \in wishes, W!ReadList(c)
  PROVE  WishInv'
<1>1. WishFits(c) /\ Heard(c) /\ c.kind = "load" /\ c.at = "sent"
  BY DEF WishInv, WishTyped, W!ReadList
<1> DEFINE k == [c EXCEPT !.at = "done", !.stale = FALSE,
                          !.planned = Planned \ W!Available, !.requested = (votes \cap Planned) \ W!Available]
<1>2. k \in WishRequests /\ k.page = c.page /\ k.kind = "load" /\ k.key = c.key /\ k.at = "done"
  BY <1>1 DEF WishFits, WishRequests
<1>3. k.planned = Planned \ W!Available /\ k.requested = (votes \cap Planned) \ W!Available
  BY <1>1 DEF WishFits, WishRequests
<1>4. wishes' = (wishes \ {c}) \cup {k} /\ UNCHANGED <<catalogue, votes, panel, wished, unaware>>
  BY DEF W!ReadList
<1> HIDE DEF k
<1>5. WishFits(k)
  BY <1>2, <1>3 DEF WishFits
<1>6. WishTyped'
  BY <1>1, <1>2, <1>4, <1>5 DEF WishInv, WishTyped, Heard
<1>7. ReadsTrue'
  <2>1. (W!Available)' = W!Available
    BY <1>4 DEF W!Available
  <2> QED BY <1>3, <1>4, <2>1 DEF WishInv, ReadsTrue
<1>8. ASSUME NEW p \in Pages PROVE Tells(p)'
  <2>1. DoneActs(p)' = DoneActs(p)
    BY <1>1, <1>2, <1>4 DEF DoneActs
  <2>2. WishLoads(p)' = {} => WishLoads(p) = {}
    BY <1>1, <1>2, <1>4 DEF WishLoads
  <2>3. Tells(p)
    BY DEF WishInv
  <2> QED BY <1>4, <2>1, <2>2, <2>3, PageAsBefore
<1> QED BY <1>6, <1>7, <1>8 DEF WishInv

LEMMA NewWishFits ==
  ASSUME NEW p \in Pages, wished \in Nat, NEW d \in {"load", "request", "withdraw", "suggest"}, NEW i \in WishKeys,
         d # "load" => i \in W!Keys
  PROVE  \A k : k = W!Call(p, d, i) => WishFits(k) /\ k.page = p /\ k.kind = d /\ k.at = "sent" /\ k.key = i
<1> SUFFICES ASSUME NEW k, k = W!Call(p, d, i) PROVE WishFits(k) /\ k.page = p /\ k.kind = d /\ k.at = "sent" /\ k.key = i
  OBVIOUS
<1>1. k = [id |-> wished + 1, page |-> p, kind |-> d, key |-> i, at |-> "sent", stale |-> FALSE, planned |-> {}, requested |-> {}]
  BY DEF W!Call
<1>0. wished + 1 \in Nat
  OBVIOUS
<1>2. k \in WishRequests
  BY <1>0, <1>1 DEF WishRequests
<1>3. k.page = p /\ k.kind = d /\ k.at = "sent" /\ k.key = i /\ ~k.stale /\ k.requested = {}
  BY <1>1
<1>4. WishFits(k)
  BY <1>2, <1>3 DEF WishFits
<1> QED BY <1>3, <1>4

LEMMA PanelOpens ==
  ASSUME WishInv, NEW p \in Pages, W!OpenPanel(p)
  PROVE  WishInv'
<1> DEFINE b == [W!Blank EXCEPT !.open = TRUE]
           k == W!Call(p, "load", "")
<1>1. panel' = [panel EXCEPT ![p] = b] /\ ~panel[p].open /\ wishes' = wishes \cup {k} /\ wished' = wished + 1 /\ wished \in Nat
      /\ unaware' = unaware \ {p} /\ UNCHANGED <<catalogue, votes>>
  BY DEF W!OpenPanel, W!Send, WishInv, WishTyped
<1>2. b \in WishPanels /\ b.open /\ ~b.loaded /\ b.requested = {}
  BY BlankFits
<1>3. WishFits(k) /\ k.page = p /\ k.kind = "load" /\ k.at = "sent"
  <2>1. "" \in WishKeys
    BY DEF WishKeys
  <2>2. wished \in Nat
    BY <1>1
  <2>3. PICK i, d : i = "" /\ d = "load" /\ i \in WishKeys /\ d \in {"load", "request", "withdraw", "suggest"} /\ (d # "load" => i \in W!Keys)
    BY <2>1
  <2>4. k = W!Call(p, d, i)
    BY <2>3
  <2> HIDE DEF k
  <2>5. i \in WishKeys /\ d \in {"load", "request", "withdraw", "suggest"} /\ (d # "load" => i \in W!Keys)
    BY <2>3
  <2>6. WishFits(k) /\ k.page = p /\ k.kind = d /\ k.at = "sent"
    BY <2>2, <2>4, <2>5, NewWishFits
  <2> QED BY <2>3, <2>6
<1> HIDE DEF b, k
<1>4. \A c \in wishes : WishFits(c) /\ Heard(c) /\ c.page # p
  BY <1>1 DEF WishInv, WishTyped, Heard
<1>5. panel' \in [Pages -> WishPanels] /\ panel'[p] = b /\ \A q \in Pages : q # p => panel'[q] = panel[q]
  BY <1>1, <1>2 DEF WishInv, WishTyped
<1>6. \A q \in Pages : (panel'[q].loaded => panel'[q].open) /\ panel'[q].requested \subseteq panel'[q].planned
  BY <1>2, <1>5 DEF WishInv, WishTyped
<1>7. WishTyped'
  <2>1. \A c \in wishes' : WishFits(c) /\ Heard(c)'
    BY <1>1, <1>2, <1>3, <1>4, <1>5 DEF Heard
  <2> QED BY <1>1, <1>5, <1>6, <2>1 DEF WishInv, WishTyped
<1>8. ReadsTrue'
  BY <1>1, <1>3 DEF WishInv, ReadsTrue, W!Available
<1>9. ASSUME NEW q \in Pages PROVE Tells(q)'
  <2>1. CASE q = p
    <3>1. DoneActs(q)' = {}
      BY <1>1, <1>3, <1>4, <2>1 DEF DoneActs
    <3> QED BY <1>2, <1>5, <2>1, <3>1 DEF Tells
  <2>2. CASE q # p
    <3>1. DoneActs(q)' = DoneActs(q) /\ WishLoads(q)' = WishLoads(q)
      BY <1>1, <1>3, <2>2 DEF DoneActs, WishLoads
    <3>2. Tells(q)
      BY DEF WishInv
    <3> QED BY <1>1, <1>5, <2>2, <3>1, <3>2, PageAsBefore
  <2> QED BY <2>1, <2>2
<1> QED BY <1>7, <1>8, <1>9 DEF WishInv

\* Requests that nobody waits for any longer.
LEMMA LeftFits ==
  ASSUME NEW p \in Pages, "nowhere" \notin Pages, NEW set, \A c \in set : WishFits(c)
  PROVE  /\ \A e \in W!Leaves(p, set) : WishFits(e) /\ e.page # p
         /\ \A e \in W!Leaves(p, set) : e.page # "nowhere" => e \in set
         /\ \A e \in W!Leaves(p, set) : \E c \in set : e.kind = c.kind /\ e.at = c.at /\ e.stale = c.stale /\ e.planned = c.planned /\ e.requested = c.requested
         /\ \A c \in set : c.page # p => c \in W!Leaves(p, set)
<1>1. ASSUME NEW c \in set, c.page = p
      PROVE  LET e == [c EXCEPT !.page = "nowhere"]
             IN  WishFits(e) /\ e.page = "nowhere" /\ e.kind = c.kind /\ e.at = c.at /\ e.stale = c.stale /\ e.planned = c.planned /\ e.requested = c.requested
  <2> DEFINE e == [c EXCEPT !.page = "nowhere"]
  <2>1. e \in WishRequests /\ e.page = "nowhere" /\ e.kind = c.kind /\ e.at = c.at /\ e.stale = c.stale /\ e.planned = c.planned
        /\ e.requested = c.requested /\ e.key = c.key
    BY DEF WishFits, WishRequests
  <2> HIDE DEF e
  <2>2. WishFits(e)
    BY <2>1 DEF WishFits
  <2> QED BY <2>1, <2>2 DEF e
<1>2. \A e \in W!Leaves(p, set) : \E c \in set : e = IF c.page = p THEN [c EXCEPT !.page = "nowhere"] ELSE c
  BY DEF W!Leaves, W!Nowhere
<1>3. \A e \in W!Leaves(p, set) : \E c \in set : (c.page = p /\ e = [c EXCEPT !.page = "nowhere"]) \/ (c.page # p /\ e = c)
  BY <1>2
<1>4. \A c \in set : c.page # p => c \in W!Leaves(p, set)
  BY DEF W!Leaves
<1>5. ASSUME NEW e \in W!Leaves(p, set)
      PROVE  /\ WishFits(e) /\ e.page # p /\ (e.page # "nowhere" => e \in set)
             /\ \E c \in set : e.kind = c.kind /\ e.at = c.at /\ e.stale = c.stale /\ e.planned = c.planned /\ e.requested = c.requested
  <2>1. PICK c \in set : (c.page = p /\ e = [c EXCEPT !.page = "nowhere"]) \/ (c.page # p /\ e = c)
    BY <1>3
  <2>2. CASE c.page = p /\ e = [c EXCEPT !.page = "nowhere"]
    BY <1>1, <2>2
  <2>3. CASE c.page # p /\ e = c
    BY <2>3
  <2> QED BY <2>1, <2>2, <2>3
<1> QED BY <1>4, <1>5

LEMMA PanelCloses ==
  ASSUME WishInv, "nowhere" \notin Pages, NEW p \in Pages, W!ClosePanel(p)
  PROVE  WishInv'
<1>1. panel' = [panel EXCEPT ![p] = W!Blank] /\ wishes' = W!Leaves(p, wishes) /\ UNCHANGED <<catalogue, votes, wished, unaware>>
  BY DEF W!ClosePanel
<1>2. \A c \in wishes : WishFits(c) /\ Heard(c)
  BY DEF WishInv, WishTyped
<1>3. panel' \in [Pages -> WishPanels] /\ panel'[p] = W!Blank /\ \A q \in Pages : q # p => panel'[q] = panel[q]
  BY <1>1, BlankFits DEF WishInv, WishTyped
<1>4. \A q \in Pages : (panel'[q].loaded => panel'[q].open) /\ panel'[q].requested \subseteq panel'[q].planned
  BY <1>3, BlankFits DEF WishInv, WishTyped
<1>5. \A e \in wishes' : WishFits(e) /\ Heard(e)'
  BY <1>1, <1>2, <1>3, LeftFits DEF Heard
<1>6. WishTyped'
  BY <1>1, <1>3, <1>4, <1>5 DEF WishInv, WishTyped
<1>7. ReadsTrue'
  <2> SUFFICES ASSUME NEW e \in wishes', e.kind = "load", e.at = "done", ~e.stale
               PROVE  e.planned = Planned \ W!Available /\ e.requested = (votes \cap Planned) \ W!Available
    BY <1>1 DEF ReadsTrue, W!Available
  <2>1. PICK c \in wishes : e.kind = c.kind /\ e.at = c.at /\ e.stale = c.stale /\ e.planned = c.planned /\ e.requested = c.requested
    BY <1>1, <1>2, LeftFits
  <2> QED BY <2>1 DEF WishInv, ReadsTrue
<1>8. ASSUME NEW q \in Pages PROVE Tells(q)'
  <2>1. CASE q = p
    <3>1. DoneActs(q)' = {}
      BY <1>1, <1>2, <2>1, LeftFits DEF DoneActs
    <3> QED BY <1>3, <2>1, <3>1, BlankFits DEF Tells
  <2>2. CASE q # p
    <3>1. \A e \in wishes' : e.page = q => e \in wishes
      BY <1>1, <1>2, LeftFits
    <3>2. \A e \in wishes : e.page = q => e \in wishes'
      BY <1>1, <1>2, <2>2, LeftFits
    <3>3. DoneActs(q)' = DoneActs(q) /\ WishLoads(q)' = WishLoads(q)
      BY <3>1, <3>2 DEF DoneActs, WishLoads
    <3>4. Tells(q)
      BY DEF WishInv
    <3> QED BY <1>1, <1>3, <2>2, <3>3, <3>4, PageAsBefore
  <2> QED BY <2>1, <2>2
<1> QED BY <1>6, <1>7, <1>8 DEF WishInv

LEMMA AnswerUnheard ==
  ASSUME WishInv, "nowhere" \notin Pages, NEW c \in wishes, W!Unheard(c)
  PROVE  WishInv'
<1>1. wishes' = wishes \ {c} /\ c.page = "nowhere" /\ UNCHANGED <<catalogue, votes, panel, wished, unaware>>
  BY DEF W!Unheard, W!Nowhere
<1>2. WishTyped'
  BY <1>1 DEF WishInv, WishTyped, Heard
<1>3. ReadsTrue'
  BY <1>1 DEF WishInv, ReadsTrue, W!Available
<1>4. ASSUME NEW p \in Pages PROVE Tells(p)'
  <2>1. DoneActs(p)' = DoneActs(p) /\ WishLoads(p)' = WishLoads(p)
    BY <1>1 DEF DoneActs, WishLoads
  <2>2. Tells(p)
    BY DEF WishInv
  <2> QED BY <1>1, <2>1, <2>2, PageAsBefore
<1> QED BY <1>2, <1>3, <1>4 DEF WishInv

LEMMA PageAsks ==
  ASSUME WishInv, NEW p \in Pages, NEW i \in W!Keys, W!Suggest(p, i) \/ (i \in Planned /\ W!Toggle(p, i))
  PROVE  WishInv'
<1>1. PICK d \in {"request", "withdraw", "suggest"} : wishes' = wishes \cup {W!Call(p, d, i)}
  BY DEF W!Suggest, W!Toggle, W!Send
<1>2. /\ panel[p].loaded /\ UNCHANGED <<votes, catalogue, unaware>> /\ wished' = wished + 1 /\ wished \in Nat
      /\ panel' = [panel EXCEPT ![p].suggesting = TRUE] \/ (i \in Planned /\ panel' = [panel EXCEPT ![p].busy = @ \cup {i}])
  BY DEF W!Suggest, W!Toggle, W!Send, WishInv, WishTyped
<1>3. /\ panel' \in [Pages -> WishPanels]
      /\ \A q \in Pages : /\ panel'[q].open = panel[q].open /\ panel'[q].loaded = panel[q].loaded /\ panel'[q].planned = panel[q].planned
                           /\ panel'[q].requested = panel[q].requested
  <2>1. panel \in [Pages -> WishPanels]
    BY DEF WishInv, WishTyped
  <2>2. CASE panel' = [panel EXCEPT ![p].suggesting = TRUE]
    BY <2>1, <2>2 DEF WishPanels
  <2>3. CASE i \in Planned /\ panel' = [panel EXCEPT ![p].busy = @ \cup {i}]
    BY <2>1, <2>3 DEF WishPanels
  <2> QED BY <1>2, <2>2, <2>3
<1> DEFINE k == W!Call(p, d, i)
<1>4. WishFits(k) /\ k.page = p /\ k.kind = d /\ k.at = "sent"
  <2>1. i \in WishKeys /\ wished \in Nat
    BY <1>2 DEF WishKeys
  <2> QED BY <2>1, NewWishFits
<1>5. wishes' = wishes \cup {k}
  BY <1>1
<1> HIDE DEF k
<1>6. WishTyped'
  <2>1. \A c \in wishes' : WishFits(c) /\ Heard(c)'
    <3>1. \A c \in wishes : WishFits(c) /\ Heard(c)
      BY DEF WishInv, WishTyped
    <3>2. panel[p].open
      BY <1>2 DEF WishInv, WishTyped
    <3> QED BY <1>2, <1>3, <1>4, <1>5, <3>1, <3>2 DEF Heard
  <2> QED BY <1>2, <1>3, <2>1 DEF WishInv, WishTyped
<1>7. ReadsTrue'
  BY <1>2, <1>4, <1>5 DEF WishInv, ReadsTrue, W!Available
<1>8. ASSUME NEW q \in Pages PROVE Tells(q)'
  <2>1. DoneActs(q)' = DoneActs(q) /\ WishLoads(q)' = WishLoads(q)
    BY <1>4, <1>5 DEF DoneActs, WishLoads
  <2>2. Tells(q)
    BY DEF WishInv
  <2> QED BY <1>2, <1>3, <2>1, <2>2, PageAsBefore
<1> QED BY <1>6, <1>7, <1>8 DEF WishInv

LEMMA ShownThen ==
  ASSUME NEW c, NEW set
  PROVE  /\ c.at # "done" => W!ShownAfter(c, set) = set
         /\ c.at = "done" /\ c.kind = "request" => W!ShownAfter(c, set) = set \cup {c.key}
         /\ c.at = "done" /\ c.kind = "withdraw" => W!ShownAfter(c, set) = set \ {c.key}
<1>1. c.at # "done" => W!ShownAfter(c, set) = set
  BY DEF W!ShownAfter
<1>2. ASSUME c.at = "done", c.kind = "request" PROVE W!ShownAfter(c, set) = set \cup {c.key}
  BY <1>2 DEF W!ShownAfter
<1>3. ASSUME c.at = "done", c.kind = "withdraw" PROVE W!ShownAfter(c, set) = set \ {c.key}
  BY <1>3 DEF W!ShownAfter
<1> QED BY <1>1, <1>2, <1>3

LEMMA RowIsTold ==
  ASSUME WishInv, NEW c \in wishes, W!Toggled(c)
  PROVE  WishInv'
<1> DEFINE p == c.page
           shown == W!ShownAfter(c, panel[p].requested)
<1>1. /\ wishes' = wishes \ {c} /\ c.page # "nowhere" /\ c.kind \in {"request", "withdraw"} /\ c.at \in {"done", "refused"}
      /\ panel' = [panel EXCEPT ![p].busy = @ \ {c.key}, ![p].requested = W!ShownAfter(c, @) \cap panel[p].planned]
      /\ UNCHANGED <<catalogue, votes, wished, unaware>>
  BY DEF W!Toggled, W!Nowhere
<1>2. WishFits(c) /\ p \in Pages
  BY <1>1 DEF WishInv, WishTyped, WishFits, WishRequests
<1>3. /\ c.at # "done" => shown = panel[p].requested
      /\ c.at = "done" /\ c.kind = "request" => shown = panel[p].requested \cup {c.key}
      /\ c.at = "done" /\ c.kind = "withdraw" => shown = panel[p].requested \ {c.key}
  BY ShownThen
<1>4. panel' = [panel EXCEPT ![p] = [panel[p] EXCEPT !.busy = @ \ {c.key}, !.requested = shown \cap panel[p].planned]]
  BY <1>1
<1> HIDE DEF shown
<1>5. /\ panel' \in [Pages -> WishPanels] /\ panel'[p].open = panel[p].open /\ panel'[p].loaded = panel[p].loaded
      /\ panel'[p].planned = panel[p].planned /\ panel'[p].requested = shown \cap panel[p].planned
      /\ \A q \in Pages : q # p => panel'[q] = panel[q]
  <2> DEFINE n == [panel[p] EXCEPT !.busy = @ \ {c.key}, !.requested = shown \cap panel[p].planned]
  <2>1. panel \in [Pages -> WishPanels] /\ panel[p] \in WishPanels
    BY <1>2 DEF WishInv, WishTyped
  <2>2. n \in WishPanels /\ n.open = panel[p].open /\ n.loaded = panel[p].loaded /\ n.planned = panel[p].planned /\ n.requested = shown \cap panel[p].planned
    BY <2>1 DEF WishPanels
  <2>3. panel' = [panel EXCEPT ![p] = n]
    BY <1>4
  <2> HIDE DEF n
  <2> QED BY <1>2, <2>1, <2>2, <2>3
<1> HIDE DEF p
<1>6. WishTyped'
  <2>1. \A q \in Pages : (panel'[q].loaded => panel'[q].open) /\ panel'[q].requested \subseteq panel'[q].planned
    BY <1>2, <1>5 DEF WishInv, WishTyped
  <2>2. \A d \in wishes' : WishFits(d) /\ Heard(d)'
    <3>1. \A d \in wishes : WishFits(d) /\ Heard(d)
      BY DEF WishInv, WishTyped
    <3> QED BY <1>1, <1>2, <1>5, <3>1 DEF Heard
  <2> QED BY <1>1, <1>5, <2>1, <2>2 DEF WishInv, WishTyped
<1>7. ReadsTrue'
  BY <1>1 DEF WishInv, ReadsTrue, W!Available
<1>8. ASSUME NEW q \in Pages PROVE Tells(q)'
  <2>1. Tells(q)
    BY DEF WishInv
  <2>2. WishLoads(q)' = WishLoads(q) /\ DoneActs(q)' = DoneActs(q) \ {c}
    BY <1>1 DEF WishLoads, DoneActs
  <2>3. CASE q # p
    <3>1. DoneActs(q)' = DoneActs(q)
      BY <2>2, <2>3 DEF DoneActs, p
    <3> QED BY <1>1, <1>5, <2>1, <2>2, <2>3, <3>1, PageAsBefore
  <2>4. CASE q = p /\ c.at # "done"
    <3>1. DoneActs(q)' = DoneActs(q)
      BY <2>2, <2>4 DEF DoneActs
    <3>2. panel'[q].requested = panel[q].requested
      BY <1>2, <1>3, <1>5, <2>4 DEF WishInv, WishTyped
    <3> QED BY <1>1, <1>5, <2>1, <2>2, <2>4, <3>1, <3>2, PageAsBefore
  <2>5. CASE q = p /\ c.at = "done" /\ q \notin unaware
    <3>1. c \in DoneActs(q)
      BY <1>1, <2>5 DEF DoneActs, p
    <3>2. /\ \A d, e \in DoneActs(q) : d.key = e.key => d = e
          /\ \A d \in DoneActs(q) : d.key \in votes <=> d.kind # "withdraw"
          /\ panel[q].loaded => panel[q].planned = Planned \ W!Available
          /\ panel[q].loaded /\ WishLoads(q) = {} =>
               \A i \in panel[q].planned : (\A d \in DoneActs(q) : d.key # i) => (i \in panel[q].requested <=> i \in votes)
      BY <2>1, <2>5 DEF Tells
    <3>3. (W!Available)' = W!Available
      BY <1>1 DEF W!Available
    <3>4. panel'[q].loaded /\ WishLoads(q)' = {} =>
            \A i \in panel'[q].planned : (\A d \in DoneActs(q)' : d.key # i) => (i \in panel'[q].requested <=> i \in votes')
      <4> SUFFICES ASSUME panel'[q].loaded, WishLoads(q)' = {}, NEW i \in panel'[q].planned, \A d \in DoneActs(q)' : d.key # i
                   PROVE  i \in panel'[q].requested <=> i \in votes
        BY <1>1
      <4>1. panel[q].loaded /\ WishLoads(q) = {} /\ i \in panel[q].planned
        BY <1>5, <2>2, <2>5
      <4>2. i \in panel'[q].requested <=> i \in shown
        BY <1>5, <2>5, <4>1
      <4>3. CASE i = c.key
        BY <1>1, <1>3, <2>5, <3>1, <3>2, <4>2, <4>3
      <4>4. CASE i # c.key
        <5>1. \A d \in DoneActs(q) : d.key # i
          BY <2>2, <4>4
        <5>2. i \in shown <=> i \in panel[q].requested
          BY <1>1, <1>3, <2>5, <4>4
        <5> QED BY <3>2, <4>1, <4>2, <5>1, <5>2
      <4> QED BY <4>3, <4>4
    <3>5. panel'[q].loaded = panel[q].loaded /\ panel'[q].planned = panel[q].planned
      BY <1>5, <2>5
    <3>6. \A d \in DoneActs(q)' : d \in DoneActs(q)
      BY <2>2
    <3>7. /\ \A d, e \in DoneActs(q)' : d.key = e.key => d = e
          /\ \A d \in DoneActs(q)' : d.key \in votes <=> d.kind # "withdraw"
      BY <3>2, <3>6
    <3>8. votes' = votes
      BY <1>1
    <3> QED BY <3>2, <3>3, <3>4, <3>5, <3>7, <3>8 DEF Tells
  <2>6. CASE q = p /\ q \in unaware
    BY <1>1, <2>6 DEF Tells
  <2> QED BY <2>3, <2>4, <2>5, <2>6
<1> QED BY <1>6, <1>7, <1>8 DEF WishInv

LEMMA NameIsTold ==
  ASSUME WishInv, NEW c \in wishes, W!Suggested(c)
  PROVE  WishInv'
<1> DEFINE p == c.page
           n == [panel[p] EXCEPT !.suggesting = FALSE]
           k == [W!Call(p, "load", "") EXCEPT !.id = c.id]
<1>1. /\ c.page # "nowhere" /\ c.kind = "suggest" /\ panel' = [panel EXCEPT ![p] = n]
      /\ c.at = "done" => wishes' = (wishes \ {c}) \cup {k}
      /\ c.at # "done" => wishes' = wishes \ {c}
      /\ UNCHANGED <<catalogue, votes, wished, unaware>>
  BY DEF W!Suggested, W!Nowhere
<1>2. WishFits(c) /\ p \in Pages /\ c.id \in Nat
  BY <1>1 DEF WishInv, WishTyped, WishFits, WishRequests
<1>3. k = [id |-> c.id, page |-> p, kind |-> "load", key |-> "", at |-> "sent", stale |-> FALSE, planned |-> {}, requested |-> {}]
  <2> DEFINE r == W!Call(p, "load", "")
  <2>1. r = [id |-> wished + 1, page |-> p, kind |-> "load", key |-> "", at |-> "sent", stale |-> FALSE, planned |-> {}, requested |-> {}]
    BY DEF W!Call
  <2>2. k = [r EXCEPT !.id = c.id]
    OBVIOUS
  <2> HIDE DEF k, r
  <2> QED BY <2>1, <2>2
<1> HIDE DEF k
<1>4. k \in WishRequests
  <2>1. "" \in WishKeys
    BY DEF WishKeys
  <2> QED BY <1>2, <1>3, <2>1 DEF WishRequests
<1>5. k.page = p /\ k.kind = "load" /\ k.at = "sent" /\ k.requested = {}
  BY <1>3
<1>6. WishFits(k)
  BY <1>4, <1>5 DEF WishFits
<1>7. panel \in [Pages -> WishPanels] /\ panel[p] \in WishPanels
  BY <1>2 DEF WishInv, WishTyped
<1>8. n \in WishPanels /\ n.open = panel[p].open /\ n.loaded = panel[p].loaded /\ n.planned = panel[p].planned /\ n.requested = panel[p].requested
  BY <1>7 DEF WishPanels
<1> HIDE DEF n, p
<1>9. /\ panel' \in [Pages -> WishPanels]
      /\ \A q \in Pages : /\ panel'[q].open = panel[q].open /\ panel'[q].loaded = panel[q].loaded /\ panel'[q].planned = panel[q].planned
                           /\ panel'[q].requested = panel[q].requested
  BY <1>1, <1>2, <1>7, <1>8
<1>10. \A d \in wishes' : d \in wishes \ {c} \/ (c.at = "done" /\ d = k)
  BY <1>1
<1>11. WishTyped'
  <2>1. \A d \in wishes : WishFits(d) /\ Heard(d)
    BY DEF WishInv, WishTyped
  <2>2. \A d \in wishes' : WishFits(d)
    BY <1>6, <1>10, <2>1
  <2>3. panel[p].open
    BY <1>2, <2>1 DEF Heard, p
  <2>4. \A d \in wishes' : Heard(d)'
    BY <1>2, <1>5, <1>9, <1>10, <2>1, <2>3 DEF Heard
  <2> QED BY <1>1, <1>9, <2>2, <2>4 DEF WishInv, WishTyped
<1>12. ReadsTrue'
  BY <1>1, <1>5, <1>10 DEF WishInv, ReadsTrue, W!Available
<1>13. ASSUME NEW q \in Pages PROVE Tells(q)'
  <2>1. Tells(q)
    BY DEF WishInv
  <2>2. CASE c.at # "done" \/ q # p
    <3>1. DoneActs(q)' = DoneActs(q)
      BY <1>1, <1>5, <2>2 DEF DoneActs, p
    <3>2. WishLoads(q)' = WishLoads(q)
      BY <1>1, <1>5, <2>2 DEF WishLoads, p
    <3> QED BY <1>1, <1>9, <2>1, <3>1, <3>2, PageAsBefore
  <2>3. CASE c.at = "done" /\ q = p
    <3>1. WishLoads(q)' # {}
      BY <1>1, <1>5, <2>3 DEF WishLoads
    <3>2. \A d \in DoneActs(q)' : d \in DoneActs(q)
      BY <1>1, <1>5, <2>3 DEF DoneActs
    <3>3. (W!Available)' = W!Available
      BY <1>1 DEF W!Available
    <3>4. /\ votes' = votes /\ unaware' = unaware /\ panel'[q].loaded = panel[q].loaded /\ panel'[q].planned = panel[q].planned
      BY <1>1, <1>9
    <3> QED BY <2>1, <3>1, <3>2, <3>3, <3>4 DEF Tells
  <2> QED BY <2>2, <2>3
<1> QED BY <1>11, <1>12, <1>13 DEF WishInv

LEMMA ListIsShown ==
  ASSUME WishInv, NEW c \in wishes, W!Loaded(c)
  PROVE  WishInv'
<1> DEFINE p == c.page
           n == [panel[p] EXCEPT !.loaded = TRUE, !.planned = c.planned, !.requested = c.requested]
<1>1. /\ c.page # "nowhere" /\ c.kind = "load" /\ c.at = "done" /\ wishes' = wishes \ {c}
      /\ UNCHANGED <<catalogue, votes, wished>>
  BY DEF W!Loaded, W!Nowhere
<1>0. panel' = [panel EXCEPT ![p] = n]
  BY DEF W!Loaded
<1>2. WishFits(c) /\ Heard(c) /\ p \in Pages /\ c.planned \in SUBSET Planned /\ c.requested \in SUBSET Planned /\ c.stale \in BOOLEAN
      /\ c.requested \subseteq c.planned
  BY <1>1 DEF WishInv, WishTyped, WishFits, WishRequests
<1>3. /\ c.stale => unaware' = unaware \cup {p}
      /\ ~c.stale /\ (\E o \in wishes \ {c} : o.page = p) => unaware' = unaware
      /\ ~c.stale /\ (\A o \in wishes \ {c} : o.page # p) => unaware' = unaware \ {p}
  <2> DEFINE more == \E o \in wishes \ {c} : o.page = p
  <2>1. unaware' = CASE c.stale -> unaware \cup {p} [] ~c.stale /\ more -> unaware [] OTHER -> unaware \ {p}
    BY DEF W!Loaded
  <2> HIDE DEF more
  <2>2. CASE c.stale
    BY <2>1, <2>2
  <2>3. CASE ~c.stale /\ more
    <3>1. unaware' = unaware
      BY <2>1, <2>3
    <3> QED BY <2>3, <3>1 DEF more
  <2>4. CASE ~c.stale /\ ~more
    <3>1. unaware' = unaware \ {p}
      BY <2>1, <2>4
    <3> QED BY <2>4, <3>1 DEF more
  <2> QED BY <2>2, <2>3, <2>4
<1>4. panel \in [Pages -> WishPanels] /\ panel[p] \in WishPanels
  BY <1>2 DEF WishInv, WishTyped
<1>5. n \in WishPanels /\ n.open = panel[p].open /\ n.loaded /\ n.planned = c.planned /\ n.requested = c.requested
  BY <1>2, <1>4 DEF WishPanels
<1> HIDE DEF n, p
<1>6. /\ panel' \in [Pages -> WishPanels] /\ panel'[p] = n
      /\ \A q \in Pages : q # p => panel'[q] = panel[q]
  BY <1>0, <1>2, <1>4, <1>5
<1>7. WishTyped'
  <2>1. \A d \in wishes : WishFits(d) /\ Heard(d)
    BY DEF WishInv, WishTyped
  <2>2. panel[p].open
    BY <1>2 DEF Heard, p
  <2>3. \A d \in wishes' : WishFits(d) /\ Heard(d)'
    BY <1>1, <1>2, <1>5, <1>6, <2>1, <2>2 DEF Heard
  <2>4. unaware' \in SUBSET Pages
    BY <1>2, <1>3 DEF WishInv, WishTyped
  <2>5. \A q \in Pages : (panel'[q].loaded => panel'[q].open) /\ panel'[q].requested \subseteq panel'[q].planned
    BY <1>2, <1>5, <1>6, <2>2 DEF WishInv, WishTyped
  <2> QED BY <1>1, <1>6, <2>3, <2>4, <2>5 DEF WishInv, WishTyped
<1>8. ReadsTrue'
  BY <1>1 DEF WishInv, ReadsTrue, W!Available
<1>9. ASSUME NEW q \in Pages PROVE Tells(q)'
  <2>1. DoneActs(q)' = DoneActs(q)
    BY <1>1 DEF DoneActs
  <2>2. CASE q # p
    <3>1. WishLoads(q)' = WishLoads(q)
      BY <1>1, <2>2 DEF WishLoads, p
    <3>2. Tells(q)
      BY DEF WishInv
    <3>3. q \notin unaware' => q \notin unaware
      BY <1>2, <1>3, <2>2
    <3> QED BY <1>1, <1>6, <2>1, <2>2, <3>1, <3>2, <3>3, PageAsBefore
  <2>3. CASE q = p /\ q \notin unaware'
    <3>1. ~c.stale
      BY <1>2, <1>3, <2>3
    <3>2. c.planned = Planned \ W!Available /\ c.requested = (votes \cap Planned) \ W!Available
      BY <1>1, <3>1 DEF WishInv, ReadsTrue
    <3>3. (W!Available)' = W!Available
      BY <1>1 DEF W!Available
    <3>4. \A i \in panel'[q].planned : i \in panel'[q].requested <=> i \in votes'
      BY <1>1, <1>5, <1>6, <2>3, <3>2
    <3>5. panel'[q].planned = Planned \ W!Available
      BY <1>5, <1>6, <2>3, <3>2
    <3>6. /\ \A d, e \in DoneActs(q) : d.key = e.key => d = e
          /\ \A d \in DoneActs(q) : d.key \in votes <=> d.kind # "withdraw"
      <4>1. CASE \E o \in wishes \ {c} : o.page = p
        <5>1. q \notin unaware
          BY <1>3, <2>3, <3>1, <4>1
        <5> QED BY <5>1 DEF WishInv, Tells
      <4>2. CASE \A o \in wishes \ {c} : o.page # p
        <5>1. DoneActs(q) = {}
          BY <1>1, <2>3, <4>2 DEF DoneActs
        <5> QED BY <5>1
      <4> QED BY <4>1, <4>2
    <3> QED BY <1>1, <2>1, <3>3, <3>4, <3>5, <3>6 DEF Tells
  <2>4. CASE q = p /\ q \in unaware'
    BY <2>4 DEF Tells
  <2> QED BY <2>2, <2>3, <2>4
<1> QED BY <1>7, <1>8, <1>9 DEF WishInv

LEMMA AnswerIsLost ==
  ASSUME WishInv, "nowhere" \notin Pages, NEW c \in wishes, W!Lost(c)
  PROVE  WishInv'
<1> DEFINE p == c.page
           h == [c EXCEPT !.page = "nowhere"]
<1>1. /\ c.page # "nowhere" /\ unaware' = unaware \cup {p} /\ UNCHANGED <<catalogue, votes, wished>>
      /\ c.kind = "load" => wishes' = W!Leaves(p, wishes \ {c}) /\ panel' = [panel EXCEPT ![p] = W!Blank]
      /\ c.kind # "load" => wishes' = (wishes \ {c}) \cup {h}
      /\ c.kind = "suggest" => panel' = [panel EXCEPT ![p].suggesting = FALSE]
      /\ c.kind # "load" /\ c.kind # "suggest" => panel' = [panel EXCEPT ![p].busy = @ \ {c.key}]
  BY DEF W!Lost, W!Nowhere
<1>2. WishFits(c) /\ p \in Pages /\ \A d \in wishes : WishFits(d) /\ Heard(d)
  BY <1>1 DEF WishInv, WishTyped, WishFits, WishRequests
<1>3. h \in WishRequests /\ h.page = "nowhere" /\ h.kind = c.kind /\ h.at = c.at /\ h.stale = c.stale /\ h.key = c.key
      /\ h.planned = c.planned /\ h.requested = c.requested
  BY <1>2 DEF WishFits, WishRequests
<1> HIDE DEF h
<1>4. WishFits(h)
  BY <1>2, <1>3 DEF WishFits
<1> HIDE DEF p
<1>5. panel \in [Pages -> WishPanels] /\ panel[p] \in WishPanels
  BY <1>2 DEF WishInv, WishTyped
<1>6. \E n \in WishPanels : /\ panel' = [panel EXCEPT ![p] = n] /\ n.requested \subseteq n.planned /\ (n.loaded => n.open)
                             /\ (c.kind # "load" => n.open = panel[p].open /\ n.loaded = panel[p].loaded)
  <2>1. (panel[p].loaded => panel[p].open) /\ panel[p].requested \subseteq panel[p].planned
    BY <1>2 DEF WishInv, WishTyped
  <2>2. CASE c.kind = "load"
    BY <1>1, <2>2, BlankFits
  <2>3. CASE c.kind = "suggest"
    <3> DEFINE n == [panel[p] EXCEPT !.suggesting = FALSE]
    <3>1. n \in WishPanels /\ n.open = panel[p].open /\ n.loaded = panel[p].loaded /\ n.planned = panel[p].planned /\ n.requested = panel[p].requested
      BY <1>5 DEF WishPanels
    <3>2. panel' = [panel EXCEPT ![p] = n]
      BY <1>1, <2>3
    <3> HIDE DEF n
    <3> QED BY <2>1, <3>1, <3>2
  <2>4. CASE c.kind # "load" /\ c.kind # "suggest"
    <3> DEFINE n == [panel[p] EXCEPT !.busy = @ \ {c.key}]
    <3>1. n \in WishPanels /\ n.open = panel[p].open /\ n.loaded = panel[p].loaded /\ n.planned = panel[p].planned /\ n.requested = panel[p].requested
      BY <1>5 DEF WishPanels
    <3>2. panel' = [panel EXCEPT ![p] = n]
      BY <1>1, <2>4
    <3> HIDE DEF n
    <3> QED BY <2>1, <3>1, <3>2
  <2> QED BY <2>2, <2>3, <2>4
<1>7. /\ \A d \in wishes' : /\ WishFits(d) /\ (d.page # "nowhere" => d \in wishes \ {c})
                             /\ \E e \in wishes : d.kind = e.kind /\ d.at = e.at /\ d.stale = e.stale /\ d.planned = e.planned /\ d.requested = e.requested
      /\ c.kind = "load" => \A d \in wishes' : d.page # p
      /\ \A d \in wishes : d.page # p => d \in wishes'
  <2>1. CASE c.kind = "load"
    <3>1. wishes' = W!Leaves(p, wishes \ {c}) /\ \A d \in wishes \ {c} : WishFits(d)
      BY <1>1, <1>2, <2>1
    <3>2. p \in Pages
      BY <1>2
    <3>3. /\ \A e \in wishes' : WishFits(e) /\ e.page # p
          /\ \A e \in wishes' : e.page # "nowhere" => e \in wishes \ {c}
          /\ \A e \in wishes' : \E d \in wishes \ {c} : e.kind = d.kind /\ e.at = d.at /\ e.stale = d.stale /\ e.planned = d.planned /\ e.requested = d.requested
          /\ \A d \in wishes \ {c} : d.page # p => d \in wishes'
      BY <3>1, <3>2, LeftFits
    <3>4. \A e \in wishes' : \E d \in wishes : e.kind = d.kind /\ e.at = d.at /\ e.stale = d.stale /\ e.planned = d.planned /\ e.requested = d.requested
      BY <3>3
    <3>5. \A d \in wishes : d.page # p => d \in wishes \ {c}
      BY DEF p
    <3> QED BY <3>3, <3>4, <3>5
  <2>2. CASE c.kind # "load"
    BY <1>1, <1>2, <1>3, <1>4, <2>2 DEF p
  <2> QED BY <2>1, <2>2
<1>8. PICK n \in WishPanels : /\ panel' = [panel EXCEPT ![p] = n] /\ n.requested \subseteq n.planned /\ (n.loaded => n.open)
                              /\ (c.kind # "load" => n.open = panel[p].open /\ n.loaded = panel[p].loaded)
  BY <1>6
<1>9. panel' \in [Pages -> WishPanels] /\ panel'[p] = n /\ \A q \in Pages : q # p => panel'[q] = panel[q]
  BY <1>2, <1>5, <1>8
<1>10. WishTyped'
  <2>1. \A d \in wishes' : Heard(d)'
    <3> SUFFICES ASSUME NEW d \in wishes', d.page \in Pages PROVE panel'[d.page].open /\ (d.kind # "load" => panel'[d.page].loaded)
      BY DEF Heard
    <3>1. d \in wishes /\ panel[d.page].open /\ (d.kind # "load" => panel[d.page].loaded)
      BY <1>2, <1>7 DEF Heard
    <3> QED BY <1>7, <1>8, <1>9, <3>1
  <2>2. \A q \in Pages : (panel'[q].loaded => panel'[q].open) /\ panel'[q].requested \subseteq panel'[q].planned
    BY <1>8, <1>9 DEF WishInv, WishTyped
  <2>3. unaware' \in SUBSET Pages
    BY <1>1, <1>2 DEF WishInv, WishTyped
  <2>4. \A d \in wishes' : WishFits(d)
    BY <1>7
  <2> QED BY <1>1, <1>9, <2>1, <2>2, <2>3, <2>4 DEF WishInv, WishTyped
<1>11. ReadsTrue'
  <2> SUFFICES ASSUME NEW d \in wishes', d.kind = "load", d.at = "done", ~d.stale
               PROVE  d.planned = Planned \ W!Available /\ d.requested = (votes \cap Planned) \ W!Available
    BY <1>1 DEF ReadsTrue, W!Available
  <2>1. PICK e \in wishes : d.kind = e.kind /\ d.at = e.at /\ d.stale = e.stale /\ d.planned = e.planned /\ d.requested = e.requested
    BY <1>7
  <2> QED BY <2>1 DEF WishInv, ReadsTrue
<1>12. ASSUME NEW q \in Pages PROVE Tells(q)'
  <2>1. CASE q = p
    BY <1>1, <2>1 DEF Tells
  <2>2. CASE q # p
    <3>1. \A d : d.page = q => (d \in wishes' <=> d \in wishes)
      BY <1>7, <2>2
    <3>2. DoneActs(q)' = DoneActs(q) /\ WishLoads(q)' = WishLoads(q)
      BY <3>1 DEF DoneActs, WishLoads
    <3>3. Tells(q) /\ (q \notin unaware' => q \notin unaware)
      BY <1>1 DEF WishInv
    <3> QED BY <1>1, <1>9, <2>2, <3>2, <3>3, PageAsBefore
  <2> QED BY <2>1, <2>2
<1> QED BY <1>10, <1>11, <1>12 DEF WishInv

LEMMA WishKeep ==
  ASSUME WishInv, "nowhere" \notin Pages, [W!Next]_W!state
  PROVE  WishInv'
<1>1. CASE UNCHANGED W!state
  <2>1. UNCHANGED <<catalogue, votes, panel, wishes, wished, unaware>>
    BY <1>1 DEF W!state
  <2>2. WishTyped' /\ ReadsTrue'
    BY <2>1 DEF WishInv, WishTyped, ReadsTrue, Heard, W!Available
  <2>3. ASSUME NEW p \in Pages PROVE Tells(p)'
    BY <2>1 DEF WishInv, Tells, DoneActs, WishLoads, W!Available
  <2> QED BY <2>2, <2>3 DEF WishInv
<1>2. ASSUME NEW j \in Planned, W!Ingest(j) \/ W!Deactivate(j) PROVE WishInv'
  BY <1>2, Ingests
<1>3. ASSUME NEW p \in Pages, W!OpenPanel(p) \/ W!ClosePanel(p) PROVE WishInv'
  BY <1>3, PanelOpens, PanelCloses
<1>4. ASSUME NEW p \in Pages, NEW i \in Planned, W!Toggle(p, i) PROVE WishInv'
  BY <1>4, PageAsks DEF W!Keys
<1>5. ASSUME NEW p \in Pages, NEW i \in W!Keys, W!Suggest(p, i) PROVE WishInv'
  BY <1>5, PageAsks
<1>6. ASSUME NEW c \in wishes,
             \/ W!CountVotes(c) \/ W!RecordVote(c) \/ W!FindVote(c) \/ W!DeleteVote(c) \/ W!ReadList(c)
             \/ W!Unheard(c) \/ W!Toggled(c) \/ W!Suggested(c) \/ W!Loaded(c) \/ W!Lost(c)
      PROVE  WishInv'
  BY <1>6, Counting, Recording, ListIsRead, AnswerUnheard, RowIsTold, NameIsTold, ListIsShown, AnswerIsLost
<1> QED BY <1>1, <1>2, <1>3, <1>4, <1>5, <1>6 DEF W!Next

LEMMA WishShown ==
  ASSUME WishInv
  PROVE  W!WishesAreShown
<1> SUFFICES ASSUME NEW p \in Pages, panel[p].loaded, p \notin unaware, \A c \in wishes : c.page # p
             PROVE  panel[p].planned = Planned \ W!Available /\ panel[p].requested = votes \cap panel[p].planned
  BY DEF W!WishesAreShown
<1>1. DoneActs(p) = {} /\ WishLoads(p) = {}
  BY DEF DoneActs, WishLoads
<1>2. /\ panel[p].planned = Planned \ W!Available
      /\ \A k \in panel[p].planned : k \in panel[p].requested <=> k \in votes
  BY <1>1 DEF WishInv, Tells
<1>3. panel[p].requested \subseteq panel[p].planned
  BY DEF WishInv, WishTyped
<1> QED BY <1>2, <1>3

LEMMA PagesGiven == "nowhere" \notin Pages
BY ProductAssumption

\* Whatever pages, integrations and bounds there are: when nothing is under way, the panel says of every integration
\* what the table says (PlannedRow, SuggestForm, loadCatalogue, IntegrationRequestsService).
THEOREM WishesAreAlwaysShown == W!Spec => []W!WishesAreShown
<1>1. W!Init => WishInv
  BY WishesStart, PagesGiven
<1>2. WishInv /\ [W!Next]_(W!state) => WishInv'
  BY WishKeep, PagesGiven
<1>3. WishInv => W!WishesAreShown
  BY WishShown
<1> QED BY <1>1, <1>2, <1>3, PTL DEF W!Spec

HIDE DEF catalogue, votes, panel, wishes, wished, wishFaults, unaware

=============================================================================
