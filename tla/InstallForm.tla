---------------------------- MODULE InstallForm -----------------------------
(***************************************************************************)
(* The form that installs an integration: InstallForm, which has a name    *)
(* looked up while it is typed, AvailableRow, which opens and closes it,   *)
(* and KeysSection; CatalogueService, which looks the name up at the       *)
(* source (GitHub, LeetCode; external) and remembers what it found;        *)
(* IntegrationsService.install, which looks it up again.                   *)
(*                                                                         *)
(* One integration with one required setting and one required key.  What   *)
(* happens to a queued install is Integrations, and what connecting a key  *)
(* involves is Credentials.  A lookup is one step.                         *)
(***************************************************************************)
EXTENDS Naturals, FiniteSets

CONSTANTS
  Names,      \* what may be typed, apart from nothing
  MaxEdits,   \* times the setting is changed (bound)
  MaxFaults   \* answers lost, sources that cannot be asked (bound)

VARIABLES
  accounts,  \* the names that exist at the source
  cache,     \* liveCache: what is remembered of each name
  stored,    \* whether the key is in the vault
  form,      \* InstallForm, and the panel's keys
  checks,    \* validations under way: their number, the name, the answer when there is one
  install,   \* the install request under way
  queued,    \* names of the installs that were queued
  edits, faults,
  basis      \* history: the name whose check decided "valid", and whether that check was answered

server == <<accounts, cache, stored>>
state  == <<server, form, checks, install, queued, edits, faults, basis>>

Empty  == ""
Fresh(keys) == [open |-> TRUE, value |-> Empty, sequence |-> 0, timer |-> FALSE, validating |-> FALSE, valid |-> FALSE,
                tick |-> Empty, submitting |-> FALSE, keys |-> keys]
Shut(keys)  == [Fresh(keys) EXCEPT !.open = FALSE]
NoBasis     == [name |-> Empty, heard |-> TRUE]
NoInstall   == [value |-> Empty, answer |-> "none", here |-> FALSE]

Init ==
  /\ accounts \in SUBSET Names /\ cache = [n \in Names |-> "none"]
  /\ stored = FALSE
  /\ form = Shut(FALSE) /\ checks = {} /\ install = NoInstall /\ queued = {}
  /\ edits = 0 /\ faults = 0 /\ basis = NoBasis

Fault == faults < MaxFaults /\ faults' = faults + 1

-----------------------------------------------------------------------------
(* CatalogueService *)

\* An account is made, or renamed, or deleted.
AccountChanges(n) ==
  /\ edits < MaxEdits /\ edits' = edits + 1
  /\ accounts' = IF n \in accounts THEN accounts \ {n} ELSE accounts \cup {n}
  /\ UNCHANGED <<cache, stored, form, checks, install, queued, faults, basis>>

\* LIVE_CACHE_MS is over, or the api is another one.
Forgets(n) ==
  /\ cache[n] # "none"
  /\ cache' = [cache EXCEPT ![n] = "none"]
  /\ UNCHANGED <<accounts, stored, form, checks, install, queued, edits, faults, basis>>

\* githubUser, leetcodeUser: what the source says, when it can be asked
Source(n) == IF n \in accounts THEN "found" ELSE "not_found"

\* cached: "unknown" is not remembered.
LookUp(n, says) ==
  IF cache[n] # "none"
  THEN says = cache[n] /\ UNCHANGED <<cache, faults>>
  ELSE \/ says = Source(n) /\ cache' = [cache EXCEPT ![n] = says] /\ UNCHANGED faults
       \/ says = "unknown" /\ Fault /\ UNCHANGED cache

\* CatalogueService.validate
Validate(c) ==
  /\ c \in checks /\ c.answer = "none"
  /\ \E says \in {"found", "not_found", "unknown"} :
       /\ LookUp(c.value, says)
       /\ checks' = (checks \ {c}) \cup {[c EXCEPT !.answer = says]}
  /\ UNCHANGED <<accounts, stored, form, install, queued, edits, basis>>

-----------------------------------------------------------------------------
(* AvailableRow: the form is made anew each time it opens, and forgets the answers it waited for. *)

Open ==
  /\ ~form.open
  /\ form' = Fresh(form.keys)
  /\ UNCHANGED <<server, checks, install, queued, edits, faults, basis>>

Close ==
  /\ form.open
  /\ form' = Shut(form.keys) /\ checks' = {} /\ basis' = NoBasis
  /\ install' = [install EXCEPT !.here = FALSE]
  /\ UNCHANGED <<server, queued, edits, faults>>

-----------------------------------------------------------------------------
(* InstallForm: the check that follows the typing *)

\* Emptying the field counts no check up, and leaves "validating" as it is.
Type(v) ==
  /\ form.open /\ v # form.value /\ edits < MaxEdits
  /\ edits' = edits + 1
  /\ form' = IF v = Empty
             THEN [form EXCEPT !.value = v, !.timer = FALSE, !.valid = FALSE, !.tick = Empty]
             ELSE [form EXCEPT !.value = v, !.timer = TRUE, !.sequence = @ + 1, !.validating = TRUE]
  /\ UNCHANGED <<server, checks, install, queued, faults, basis>>

\* 450 ms without a change
Debounced ==
  /\ form.timer
  /\ form' = [form EXCEPT !.timer = FALSE]
  /\ checks' = checks \cup {[id |-> form.sequence, value |-> form.value, answer |-> "none"]}
  /\ UNCHANGED <<server, install, queued, edits, faults, basis>>

\* Mutant: whichever check is answered counts.
AnyAnswer(c) == TRUE

\* sequence: only the last check counts.
IsLatest(c) == c.id = form.sequence

Answered(c) ==
  /\ c \in checks /\ c.answer # "none"
  /\ checks' = checks \ {c}
  /\ IF IsLatest(c)
     THEN /\ form' = [form EXCEPT !.validating = FALSE, !.valid = c.answer # "not_found",
                        !.tick = IF c.answer = "found" THEN c.value ELSE Empty]
          /\ basis' = [name |-> c.value, heard |-> TRUE]
     ELSE UNCHANGED <<form, basis>>
  /\ UNCHANGED <<server, install, queued, edits, faults>>

\* "the install request validates again"; what the check before it found stays where it is.
CheckFails(c) ==
  /\ c \in checks /\ Fault
  /\ checks' = checks \ {c}
  /\ IF IsLatest(c)
     THEN form' = [form EXCEPT !.validating = FALSE, !.valid = TRUE] /\ basis' = [name |-> c.value, heard |-> FALSE]
     ELSE UNCHANGED <<form, basis>>
  /\ UNCHANGED <<server, install, queued, edits>>

-----------------------------------------------------------------------------
(* KeysSection: the panel shows a key as missing until it was told otherwise. *)

SaveKeys ==
  /\ form.open /\ ~form.keys
  /\ stored' = TRUE
  /\ \/ form' = [form EXCEPT !.keys = TRUE] /\ UNCHANGED faults
     \/ Fault /\ UNCHANGED form
  /\ UNCHANGED <<accounts, cache, checks, install, queued, edits, basis>>

\* from another tab
Disconnect ==
  /\ stored /\ Fault
  /\ stored' = FALSE
  /\ UNCHANGED <<accounts, cache, form, checks, install, queued, edits, basis>>

-----------------------------------------------------------------------------
(* Installing *)

Ready == form.open /\ form.value # Empty /\ ~form.validating /\ form.valid /\ ~form.submitting /\ form.keys

Submit ==
  /\ Ready /\ install = NoInstall
  /\ form' = [form EXCEPT !.submitting = TRUE]
  /\ install' = [value |-> form.value, answer |-> "none", here |-> TRUE]
  /\ UNCHANGED <<server, checks, queued, edits, faults, basis>>

\* IntegrationsService.install
Serve ==
  /\ install # NoInstall /\ install.answer = "none"
  /\ \E says \in {"found", "not_found", "unknown"} :
       /\ LookUp(install.value, says)
       /\ IF says # "not_found" /\ stored
          THEN install' = [install EXCEPT !.answer = "queued"] /\ queued' = queued \cup {install.value}
          ELSE install' = [install EXCEPT !.answer = "refused"] /\ UNCHANGED queued
  /\ UNCHANGED <<accounts, stored, form, checks, edits, basis>>

\* onQueued closes the form, even one opened since; a refusal is told to the form that asked, if it is still there.
Told(answer) ==
  /\ install' = NoInstall
  /\ IF answer = "queued"
     THEN form' = Shut(form.keys) /\ checks' = {} /\ basis' = NoBasis
     ELSE /\ form' = IF install.here THEN [form EXCEPT !.submitting = FALSE] ELSE form
          /\ UNCHANGED <<checks, basis>>
  /\ UNCHANGED <<server, queued, edits>>

Installed ==
  /\ install # NoInstall
  /\ \/ install.answer # "none" /\ Told(install.answer) /\ UNCHANGED faults
     \/ Fault /\ Told("lost")

Next ==
  \/ \E n \in Names : AccountChanges(n) \/ Forgets(n)
  \/ Open \/ Close
  \/ \E v \in Names \cup {Empty} : Type(v)
  \/ Debounced
  \/ \E c \in checks : Validate(c) \/ Answered(c) \/ CheckFails(c)
  \/ SaveKeys \/ Disconnect \/ Submit \/ Serve \/ Installed

Spec == Init /\ [][Next]_state

-----------------------------------------------------------------------------
TypeOK ==
  /\ accounts \subseteq Names /\ queued \subseteq Names
  /\ cache \in [Names -> {"none", "found", "not_found"}]
  /\ form.value \in Names \cup {Empty} /\ form.tick \in Names \cup {Empty} /\ form.sequence \in 0..MaxEdits
  /\ \A c \in checks : c.id \in 1..form.sequence /\ c.value \in Names

\* InstallForm: the button that installs, and the tick under a name, speak of the name that stands in the field, though
\* checks are answered in any order, some never, and the field changes under them; also while an install is being
\* answered.  Two ticks are another's: an answer that arrives when the field was just emptied marks the empty field, as
\* no new check has taken its number; and a check that fails leaves the tick of the one before.
FormSpeaksOfItsName ==
  /\ Ready => basis.name = form.value
  /\ form.value # Empty /\ ~form.validating /\ basis.heard => form.tick \in {Empty, form.value}

=============================================================================
