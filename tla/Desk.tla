--------------------------------- MODULE Desk ---------------------------------
(***************************************************************************)
(* The admins' list of users: AdminUsersController behind SessionGuard and *)
(* RolesGuard, the sign-in that gives the role the env lists name, and the *)
(* page AdminUsersPage with its filter, its rows and its buttons.          *)
(*                                                                         *)
(* A session is the user; what consents and sign-ups need is in Accounts,  *)
(* what a plan is worth in Billing.  Of the filters, one: any role, or     *)
(* admins.  Search, paging, the totals and the export are left out.        *)
(***************************************************************************)
EXTENDS Naturals, FiniteSets

CONSTANTS
  Users,
  Listed,      \* those that ADMIN_GITHUB_LOGINS or ADMIN_EMAILS name
  Desks,       \* users that have the page open
  MaxCalls     \* requests that the pages send (bound)

VARIABLES
  user,     \* the users table: role, access (suspendedAt), plan
  page,     \* each desk: its filter, the rows it shows, the row that is busy
  calls,    \* requests under way
  sent,
  \* history, read by no action
  crossed,  \* an act was carried out for someone who was no admin any more
  undone,   \* a sign-in took a role that an admin had given
  behind    \* rows that a desk cannot know have changed, or whose answers may cross

history == <<crossed, undone, behind>>
state == <<user, page, calls, sent, history>>

Row == [role : {"user", "admin"}, access : {"open", "blocked"}, plan : {"free", "pro"}]
Blank == [role |-> "user", access |-> "open", plan |-> "free"]
Filters == {"", "admin"}

IsAdmin(u) == user[u].role = "admin" /\ user[u].access = "open"

\* toSummary, of a row of the table t
Summary(t, u) == [id |-> u, role |-> t[u].role, access |-> t[u].access, plan |-> t[u].plan]

\* Everyone signed in once; each desk's user is an admin and has the list.
Init ==
  /\ user = [u \in Users |-> IF u \in Listed \cup Desks THEN [Blank EXCEPT !.role = "admin"] ELSE Blank]
  /\ \E u \in Users : IsAdmin(u)
  /\ page = [d \in Desks |-> [filter |-> "", rows |-> {Summary(user, u) : u \in Users}, busy |-> {}]]
  /\ calls = {} /\ sent = 0
  /\ crossed = FALSE /\ undone = FALSE /\ behind = [d \in Desks |-> {}]

Call(d, kind) == [id |-> sent + 1, by |-> d, kind |-> kind, of |-> d, field |-> "", value |-> "", at |-> "sent", got |-> {}]
Send(c) == sent < MaxCalls /\ sent' = sent + 1 /\ calls' = calls \cup {c}
Step(c, at) == calls' = (calls \ {c}) \cup {[c EXCEPT !.at = at]}

-----------------------------------------------------------------------------
(* The page *)

Loads(d) == {c \in calls : c.by = d /\ c.kind = "load"}
Acts(d, u) == {c \in calls : c.by = d /\ c.kind = "act" /\ c.of = u}

\* load, when the filter is another.  Answers of two loads can cross, and so can that of an
\* act and a load.
Load(d, f) ==
  /\ f # page[d].filter
  /\ Send([Call(d, "load") EXCEPT !.value = f])
  /\ page' = [page EXCEPT ![d].filter = f]
  /\ behind' = [behind EXCEPT ![d] = IF \E c \in calls : c.by = d THEN Users ELSE {}]
  /\ UNCHANGED <<user, crossed, undone>>

Opposite(x) == CASE x = "admin" -> "user" [] x = "user" -> "admin" [] x = "free" -> "pro" [] x = "pro" -> "free"
                 [] x = "open" -> "blocked" [] x = "blocked" -> "open"

\* act: the opposite of what the row shows.  One row is busy at a time: a second act frees the first one's buttons,
\* and any answer frees them all.
Act(d, row, field) ==
  /\ row \in page[d].rows /\ row.id \notin page[d].busy
  /\ Send([Call(d, "act") EXCEPT !.of = row.id, !.field = field, !.value = Opposite(row[field])])
  /\ page' = [page EXCEPT ![d].busy = {row.id}]
  /\ behind' = IF Loads(d) # {} \/ Acts(d, row.id) # {} THEN [behind EXCEPT ![d] = @ \cup {row.id}] ELSE behind
  /\ UNCHANGED <<user, crossed, undone>>

-----------------------------------------------------------------------------
(* The api *)

\* SessionGuard, RolesGuard: the row is read once, before the handler.
Guard(c) ==
  /\ c \in calls /\ c.at = "sent"
  /\ Step(c, IF IsAdmin(c.by) THEN "admitted" ELSE "refused")
  /\ UNCHANGED <<user, page, sent, history>>

Matches(u, filter) == filter = "admin" => user[u].role = "admin"

\* list
List(c) ==
  /\ c \in calls /\ c.at = "admitted" /\ c.kind = "load"
  /\ calls' = (calls \ {c}) \cup {[c EXCEPT !.at = "done", !.got = {Summary(user, u) : u \in {x \in Users : Matches(x, c.value)}}]}
  /\ UNCHANGED <<user, page, sent, history>>

\* Mutant: anyone's role and access can be changed, one's own too.
AnyTarget(c) == TRUE

\* "You can't change your own role", "You can't block your own account": a plan one can.
Allowed(c) == c.field = "plan" \/ c.of # c.by

\* What another desk or an earlier read does not show.
Changes(u, by) == behind' = [d \in Desks |-> IF d # by \/ Loads(d) # {} THEN behind[d] \cup {u} ELSE behind[d]]

\* setPlan, setRole, suspend, update
Update(c) ==
  /\ c \in calls /\ c.at = "admitted" /\ c.kind = "act" /\ Allowed(c)
  /\ user' = [user EXCEPT ![c.of] = [@ EXCEPT ![c.field] = c.value]]
  /\ calls' = (calls \ {c}) \cup {[c EXCEPT !.at = "done", !.got = {Summary(user', c.of)}]}
  /\ crossed' = (crossed \/ ~IsAdmin(c.by))
  /\ Changes(c.of, c.by)
  /\ UNCHANGED <<page, sent, undone>>

Forbid(c) ==
  /\ c \in calls /\ c.at = "admitted" /\ c.kind = "act" /\ ~Allowed(c)
  /\ Step(c, "refused")
  /\ UNCHANGED <<user, page, sent, history>>

\* AuthService, SupabaseAuth.upsert: the env list is re-applied on every sign-in, of a blocked user too.
SignIn(u) ==
  /\ user[u].role # (IF u \in Listed THEN "admin" ELSE "user")
  /\ user' = [user EXCEPT ![u].role = IF u \in Listed THEN "admin" ELSE "user"]
  /\ undone' = (undone \/ user[u].role = "admin")
  /\ Changes(u, "nobody")
  /\ UNCHANGED <<page, calls, sent, crossed>>

-----------------------------------------------------------------------------
(* The answers *)

Listing(c) ==
  /\ c \in calls /\ c.at = "done" /\ c.kind = "load"
  /\ page' = [page EXCEPT ![c.by].rows = c.got]
  /\ calls' = calls \ {c}
  /\ UNCHANGED <<user, sent, history>>

\* Mutant: the row stays until the list is loaded again.
RowAsBefore(c) == {r \in page[c.by].rows : r.id = c.of}

\* The row that comes back, if the list has it.
Back(c) == IF \E r \in page[c.by].rows : r.id = c.of THEN c.got ELSE {}

Done(c) ==
  /\ c \in calls /\ c.at = "done" /\ c.kind = "act"
  /\ page' = [page EXCEPT ![c.by].rows = {r \in @ : r.id # c.of} \cup Back(c), ![c.by].busy = {}]
  /\ calls' = calls \ {c}
  /\ UNCHANGED <<user, sent, history>>

\* Refused, or the answer is lost: the rows stay as they were.
Fails(c) ==
  /\ c \in calls
  /\ page' = [page EXCEPT ![c.by].busy = IF c.kind = "act" THEN {} ELSE @]
  /\ calls' = calls \ {c}
  /\ behind' = IF c.at = "refused" /\ c.kind = "act" THEN behind
               ELSE [behind EXCEPT ![c.by] = @ \cup IF c.kind = "act" THEN {c.of} ELSE Users]
  /\ UNCHANGED <<user, sent, crossed, undone>>

Next ==
  \/ \E d \in Desks, f \in Filters : Load(d, f)
  \/ \E d \in Desks : \E r \in page[d].rows, field \in {"role", "access", "plan"} : Act(d, r, field)
  \/ \E c \in calls : Guard(c) \/ List(c) \/ Update(c) \/ Forbid(c) \/ Listing(c) \/ Done(c) \/ Fails(c)
  \/ \E u \in Users : SignIn(u)

Spec == Init /\ [][Next]_state

-----------------------------------------------------------------------------
(* Properties *)

TypeOK ==
  /\ user \in [Users -> Row]
  /\ \A d \in Desks : Cardinality(page[d].rows) = Cardinality({r.id : r \in page[d].rows})
  /\ \A c \in calls : c.id <= sent

\* AdminUsersController ("so an admin can't lock themselves out"): whatever admins do to each other, an admin that is
\* not blocked remains, unless an act was carried out for one whose rights had gone after the guard looked, or a
\* sign-in took the role of an admin that no env list names.
AdminsRemain == (\E u \in Users : IsAdmin(u)) \/ crossed \/ undone

\* AdminUsersPage: when nothing is under way, a row shows what the table says of the user, and every user that the
\* filter selects has one, unless another desk or a sign-in changed the user, or answers crossed or were lost.
RowsAreTrue ==
  \A d \in Desks : (\A c \in calls : c.by # d) =>
    \A u \in Users \ behind[d] :
      /\ \A r \in page[d].rows : r.id = u => r = Summary(user, u)
      /\ Matches(u, page[d].filter) => \E r \in page[d].rows : r.id = u

=============================================================================
