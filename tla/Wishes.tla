------------------------------- MODULE Wishes -------------------------------
(***************************************************************************)
(* Integrations that are not built yet and that a user asks for:           *)
(* IntegrationRequestsService, which keeps one vote per user and           *)
(* integration; CatalogueIngest, which brings integrations into the        *)
(* catalogue when a worker starts; and the "Coming soon" list of the       *)
(* panel, in the tabs of one user: PlannedRow, SuggestForm, loadCatalogue. *)
(*                                                                         *)
(* A name that is typed stands for the key that resolve and slugify make   *)
(* of it.  The notes, and the ranking that an admin reads, are left out.   *)
(***************************************************************************)
EXTENDS Naturals, FiniteSets

CONSTANTS
  Planned,      \* PLANNED_INTEGRATIONS
  Other,        \* keys of names that are not among them
  Pages,
  MaxRequests,  \* MAX_REQUESTS_PER_USER
  MaxCalls,     \* requests that the pages send (bound)
  MaxFaults     \* answers lost, packages ingested or switched off (bound)

VARIABLES
  catalogue,  \* the integrations table: "none", "active" or "inactive"
  votes,      \* the integration_requests of the user
  page,       \* what each tab shows
  calls,      \* requests under way
  sent, faults,
  behind      \* history: pages that cannot know what has changed

state == <<catalogue, votes, page, calls, sent, faults, behind>>

Keys  == Planned \cup Other
Nowhere == "nowhere"   \* the page of a request whose answer nobody waits for
Blank == [open |-> FALSE, loaded |-> FALSE, planned |-> {}, requested |-> {}, busy |-> {}, suggesting |-> FALSE]

Init ==
  /\ catalogue \in [Planned -> {"none", "active"}] /\ votes = {}
  /\ page = [p \in Pages |-> Blank] /\ calls = {}
  /\ sent = 0 /\ faults = 0 /\ behind = {}

Fault == faults < MaxFaults /\ faults' = faults + 1

\* CatalogueService.list: what can be installed
Available == {k \in Planned : catalogue[k] = "active"}

Call(p, kind, key) == [id |-> sent + 1, page |-> p, kind |-> kind, key |-> key, at |-> "sent", stale |-> FALSE,
                       planned |-> {}, requested |-> {}]
Send(c) == sent < MaxCalls /\ sent' = sent + 1 /\ calls' = calls \cup {c}
Step(c, at) == calls' = (calls \ {c}) \cup {[c EXCEPT !.at = at]}

\* What is read of a table that changes is out of date; no other page is told.
Outdated(set) == {[c EXCEPT !.stale = @ \/ c.kind = "load"] : c \in set}
Others(c) == {o \in calls \ {c} : o.page = c.page /\ o.key = c.key /\ o.kind # "load"}
Changed(c) == behind' = behind \cup {p \in Pages : p # c.page \/ Others(c) # {}}

-----------------------------------------------------------------------------
(* The catalogue *)

\* ingest: active at first, and a later deactivation is kept.  The pages are not told.
Ingest(k) ==
  /\ Fault
  /\ catalogue' = [catalogue EXCEPT ![k] = IF @ = "none" THEN "active" ELSE @]
  /\ calls' = Outdated(calls) /\ behind' = Pages
  /\ UNCHANGED <<votes, page, sent>>

\* by an admin
Deactivate(k) ==
  /\ catalogue[k] = "active" /\ Fault
  /\ catalogue' = [catalogue EXCEPT ![k] = "inactive"]
  /\ calls' = Outdated(calls) /\ behind' = Pages
  /\ UNCHANGED <<votes, page, sent>>

-----------------------------------------------------------------------------
(* IntegrationRequestsService *)

\* resolve: a key, or the key of a name; what is available can be installed, and is not asked for.
Resolves(key) == key \notin Available

\* request: the rows are counted, unless this is one of them.
CountVotes(c) ==
  /\ c \in calls /\ c.kind \in {"request", "suggest"} /\ c.at = "sent"
  /\ Step(c, IF Resolves(c.key) /\ (c.key \in votes \/ Cardinality(votes) < MaxRequests) THEN "counted" ELSE "refused")
  /\ UNCHANGED <<catalogue, votes, page, sent, faults, behind>>

\* upsert: asking again is still one vote.
RecordVote(c) ==
  /\ c \in calls /\ c.at = "counted"
  /\ votes' = votes \cup {c.key}
  /\ calls' = Outdated(calls \ {c}) \cup {[c EXCEPT !.at = "done"]} /\ Changed(c)
  /\ UNCHANGED <<catalogue, page, sent, faults>>

FindVote(c) ==
  /\ c \in calls /\ c.kind = "withdraw" /\ c.at = "sent"
  /\ Step(c, IF c.key \in votes THEN "found" ELSE "refused")
  /\ UNCHANGED <<catalogue, votes, page, sent, faults, behind>>

\* The row may be gone by now, and the delete fails.
DeleteVote(c) ==
  /\ c \in calls /\ c.at = "found"
  /\ votes' = votes \ {c.key}
  /\ calls' = Outdated(calls \ {c}) \cup {[c EXCEPT !.at = IF c.key \in votes THEN "done" ELSE "refused"]} /\ Changed(c)
  /\ UNCHANGED <<catalogue, page, sent, faults>>

\* CatalogueController.list, keysFor
ReadList(c) ==
  /\ c \in calls /\ c.kind = "load" /\ c.at = "sent"
  /\ calls' = (calls \ {c}) \cup {[c EXCEPT !.at = "done", !.stale = FALSE,
                                    !.planned = Planned \ Available, !.requested = (votes \cap Planned) \ Available]}
  /\ UNCHANGED <<catalogue, votes, page, sent, faults, behind>>

-----------------------------------------------------------------------------
(* The pages *)

OpenPanel(p) ==
  /\ ~page[p].open
  /\ page' = [page EXCEPT ![p] = [Blank EXCEPT !.open = TRUE]]
  /\ Send(Call(p, "load", "")) /\ behind' = behind \ {p}
  /\ UNCHANGED <<catalogue, votes, faults>>

\* Another panel takes its place: the requests go on, and nobody hears of them.
Leaves(p, set) == {IF c.page = p THEN [c EXCEPT !.page = Nowhere] ELSE c : c \in set}

ClosePanel(p) ==
  /\ page[p].open
  /\ page' = [page EXCEPT ![p] = Blank]
  /\ calls' = Leaves(p, calls)
  /\ UNCHANGED <<catalogue, votes, sent, faults, behind>>

Unheard(c) ==
  /\ c \in calls /\ c.page = Nowhere /\ c.at \in {"done", "refused"}
  /\ calls' = calls \ {c}
  /\ UNCHANGED <<catalogue, votes, page, sent, faults, behind>>

\* PlannedRow.toggle
Toggle(p, k) ==
  /\ page[p].loaded /\ k \in page[p].planned \ page[p].busy
  /\ page' = [page EXCEPT ![p].busy = @ \cup {k}]
  /\ Send(Call(p, IF k \in page[p].requested THEN "withdraw" ELSE "request", k))
  /\ UNCHANGED <<catalogue, votes, faults, behind>>

\* SuggestForm.submit
Suggest(p, k) ==
  /\ page[p].loaded /\ ~page[p].suggesting
  /\ page' = [page EXCEPT ![p].suggesting = TRUE]
  /\ Send(Call(p, "suggest", k))
  /\ UNCHANGED <<catalogue, votes, faults, behind>>

\* Mutant: what was asked for is shown, whatever came of it.
ShownAnyhow(c, shown) == IF c.kind = "withdraw" THEN shown \ {c.key} ELSE shown \cup {c.key}

\* setRequested: what was asked for is shown when it was done.
ShownAfter(c, shown) ==
  CASE c.at = "done" /\ c.kind = "request"  -> shown \cup {c.key}
    [] c.at = "done" /\ c.kind = "withdraw" -> shown \ {c.key}
    [] OTHER                                -> shown

Toggled(c) ==
  /\ c \in calls /\ c.page # Nowhere /\ c.kind \in {"request", "withdraw"} /\ c.at \in {"done", "refused"}
  /\ calls' = calls \ {c}
  /\ page' = [page EXCEPT ![c.page].busy = @ \ {c.key}, ![c.page].requested = ShownAfter(c, @) \cap page[c.page].planned]
  /\ UNCHANGED <<catalogue, votes, sent, faults, behind>>

\* onRequested: the list is read again, in place of the row that was never there.
Suggested(c) ==
  /\ c \in calls /\ c.page # Nowhere /\ c.kind = "suggest" /\ c.at \in {"done", "refused"}
  /\ page' = [page EXCEPT ![c.page].suggesting = FALSE]
  /\ IF c.at = "done"
     THEN calls' = (calls \ {c}) \cup {[Call(c.page, "load", "") EXCEPT !.id = c.id]}
     ELSE calls' = calls \ {c}
  /\ UNCHANGED <<catalogue, votes, sent, faults, behind>>

\* loadCatalogue
Loaded(c) ==
  /\ c \in calls /\ c.page # Nowhere /\ c.kind = "load" /\ c.at = "done"
  /\ calls' = calls \ {c}
  /\ page' = [page EXCEPT ![c.page].loaded = TRUE, ![c.page].planned = c.planned, ![c.page].requested = c.requested]
  /\ behind' = CASE c.stale -> behind \cup {c.page}
                 [] ~c.stale /\ \E o \in calls \ {c} : o.page = c.page -> behind
                 [] OTHER -> behind \ {c.page}
  /\ UNCHANGED <<catalogue, votes, sent, faults>>

\* An answer is lost.  The row and the form say so; the panel shows nothing else, until it is opened anew.
Lost(c) ==
  /\ c \in calls /\ c.page # Nowhere /\ Fault
  /\ calls' = IF c.kind = "load" THEN Leaves(c.page, calls \ {c}) ELSE (calls \ {c}) \cup {[c EXCEPT !.page = Nowhere]}
  /\ page' = CASE c.kind = "load"    -> [page EXCEPT ![c.page] = Blank]
               [] c.kind = "suggest" -> [page EXCEPT ![c.page].suggesting = FALSE]
               [] OTHER              -> [page EXCEPT ![c.page].busy = @ \ {c.key}]
  /\ behind' = behind \cup {c.page}
  /\ UNCHANGED <<catalogue, votes, sent>>

Next ==
  \/ \E k \in Planned : Ingest(k) \/ Deactivate(k)
  \/ \E p \in Pages : OpenPanel(p) \/ ClosePanel(p)
  \/ \E p \in Pages, k \in Planned : Toggle(p, k)
  \/ \E p \in Pages, k \in Keys : Suggest(p, k)
  \/ \E c \in calls :
       \/ CountVotes(c) \/ RecordVote(c) \/ FindVote(c) \/ DeleteVote(c) \/ ReadList(c)
       \/ Unheard(c) \/ Toggled(c) \/ Suggested(c) \/ Loaded(c) \/ Lost(c)

Spec == Init /\ [][Next]_state

-----------------------------------------------------------------------------
TypeOK ==
  /\ catalogue \in [Planned -> {"none", "active", "inactive"}] /\ votes \subseteq Keys
  /\ \A p \in Pages : page[p].planned \subseteq Planned /\ page[p].busy \subseteq Planned
  /\ \A c \in calls : c.page = Nowhere \/ page[c.page].open
  /\ behind \subseteq Pages

\* PlannedRow, SuggestForm: when nothing is under way, the panel says of every integration what the table says, though
\* it writes most of it itself, and reads the list again only after a name was typed, while answers come in any order.
\* Unless an answer was lost, the list was read before a change that it was shown after, two requests were about the
\* same integration, or the change was made elsewhere.
WishesAreShown ==
  \A p \in Pages :
    page[p].loaded /\ p \notin behind /\ (\A c \in calls : c.page # p) =>
      page[p].planned = Planned \ Available /\ page[p].requested = votes \cap page[p].planned

=============================================================================
