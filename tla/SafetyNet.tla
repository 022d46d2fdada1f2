----------------------------- MODULE SafetyNet -----------------------------
(***************************************************************************)
(* What the safety net promises the owner of a portfolio, without saying   *)
(* how: operations are worked on one at a time; the preview changes only   *)
(* by the checked change of the operation being worked on, or by undoing   *)
(* exactly that change; draft follows the preview and never runs ahead of  *)
(* it, nor loses anything; the site only ever shows a version that draft   *)
(* has.  The preview itself may be thrown away, and is then what draft is. *)
(*                                                                         *)
(* OperationRunner implements this module: see Net there.                  *)
(***************************************************************************)
EXTENDS Naturals, Sequences, SequencesExt

CONSTANTS
  Ops,           \* the operations
  Landed(_),     \* the checked change of an operation
  Undoing(_),    \* the commit that undoes it
  Outside        \* a commit somebody pushes to GitHub directly

VARIABLES
  phase,         \* each operation: "unborn", "waiting", "working" or "done"
  preview,       \* the versions the preview went through
  saved,         \* draft on GitHub
  site           \* main on GitHub

netVars == <<phase, preview, saved, site>>

Idle == \A o \in Ops : phase[o] # "working"
Move(o, from, to) == phase[o] = from /\ phase' = [phase EXCEPT ![o] = to]
CodeUnchanged == UNCHANGED <<preview, saved, site>>

NetInit ==
  /\ phase = [o \in Ops |-> "unborn"]
  /\ preview = <<>> /\ saved = <<>> /\ site = <<>>

Ask(o)      == Move(o, "unborn", "waiting") /\ CodeUnchanged
Begin(o)    == Idle /\ Move(o, "waiting", "working") /\ CodeUnchanged
Conclude(o) == Move(o, "working", "done") /\ CodeUnchanged

\* Once, and after everything the preview already shows.
Land(o) ==
  /\ phase[o] = "working"
  /\ \A i \in DOMAIN preview : preview[i] # Landed(o)
  /\ preview' = Append(preview, Landed(o))
  /\ UNCHANGED <<phase, saved, site>>

Undo(o) ==
  /\ phase[o] = "working"
  /\ preview # <<>> /\ Last(preview) = Landed(o)
  /\ preview' = Append(preview, Undoing(o))
  /\ UNCHANGED <<phase, saved, site>>

Save ==
  /\ IsPrefix(saved, preview)
  /\ saved' = preview
  /\ UNCHANGED <<phase, preview, site>>

Release(o) ==
  /\ phase[o] = "working"
  /\ \E n \in 0 .. Len(saved) : site' = SubSeq(saved, 1, n)
  /\ IsPrefix(site, site')
  /\ UNCHANGED <<phase, preview, saved>>

\* A sandbox is destroyed, what is flagged as unsaved having been saved, or a new one is built.
Reset ==
  /\ preview' \in {<<>>, saved}
  /\ saved' \in {saved, preview} /\ IsPrefix(saved, saved')
  /\ UNCHANGED <<phase, site>>

Outsider ==
  /\ \/ saved' = Append(saved, Outside) /\ UNCHANGED site
     \/ site' = Append(site, Outside) /\ UNCHANGED saved
  /\ UNCHANGED <<phase, preview>>

NetNext ==
  \/ \E o \in Ops : Ask(o) \/ Begin(o) \/ Conclude(o) \/ Land(o) \/ Undo(o) \/ Release(o)
  \/ Save \/ Reset \/ Outsider

NetSpec == NetInit /\ [][NetNext]_netVars

=============================================================================
