------------------------------ MODULE MCServices ------------------------------
(***************************************************************************)
(* The services that keep a portfolio's machines, each on its own: the     *)
(* sandbox's lifecycle, the provisioning of a portfolio, the tracking of   *)
(* its deployments, its previews in the editor.                            *)
(***************************************************************************)
EXTENDS SandboxLifecycle

\* What each of the others is given: who and what there is, and the bounds.
CONSTANTS
  Workers, SetupFaults,
  Commits, Builds, Grace, Timeout, TrackAttempts, HostTime,
  Windows, Labels, Ttl, MaxSleeps

ASSUME ServicesAssumption ==
  /\ Commits \subseteq Nat \ {0} /\ Builds \subseteq Nat \ {0}
  /\ Grace \in Nat /\ Timeout \in Nat /\ HostTime \in Nat /\ TrackAttempts \in Nat \ {0}
  /\ Ttl \in Nat /\ MaxSleeps \in Nat

VARIABLES
  which,   \* the component that runs
  v1, v2, v3, v4, v5, v6, v7, v8, v9, v10, v11, v12, v13   \* its variables, in their order; 0 when it has fewer

parts == <<which, v1, v2, v3, v4, v5, v6, v7, v8, v9, v10, v11, v12, v13>>
services == <<vars, parts>>

P == INSTANCE Provisioning WITH
  MaxFaults <- SetupFaults, status <- v1, personalise <- v2, repo <- v3, token <- v4, enqueuing <- v5, job <- v6,
  at <- v7, sandbox <- v8, opened <- v9, faults <- v10, asked <- v11, stalled <- v12

H == INSTANCE Hosting WITH
  Attempts <- TrackAttempts, MaxTime <- HostTime, now <- v1, configured <- v2, project <- v3, publish <- v4, dep <- v5,
  build <- v6, unbuilt <- v7, job <- v8, at <- v9, page <- v10, faults <- v11, excused <- v12, orphans <- v13

V == INSTANCE Previews WITH
  Tabs <- Windows, left <- v1, owner <- v2, minted <- v3, row <- v4, box <- v5, job <- v6, cache <- v7, tab <- v8,
  other <- v9, sleeps <- v10, faults <- v11

StartsWith ==
  /\ Init
  /\ \/ which = "lifecycle"
        /\ v1 = 0 /\ v2 = 0 /\ v3 = 0 /\ v4 = 0 /\ v5 = 0 /\ v6 = 0 /\ v7 = 0 /\ v8 = 0 /\ v9 = 0 /\ v10 = 0 /\ v11 = 0 /\ v12 = 0 /\ v13 = 0
     \/ which = "provisioning" /\ P!Init /\ v13 = 0
     \/ which = "hosting" /\ H!Init
     \/ which = "previews" /\ V!Init /\ v12 = 0 /\ v13 = 0
  /\ which # "lifecycle" => box[1] = Gone

Lifecycle == which = "lifecycle" /\ UNCHANGED parts
Provisioning == which = "provisioning" /\ UNCHANGED <<vars, which, v13>>
Hosting == which = "hosting" /\ UNCHANGED <<vars, which>>
Previews == which = "previews" /\ UNCHANGED <<vars, which, v12, v13>>

Steps ==
  \/ Lifecycle /\ Next
  \/ Provisioning /\ P!Next
  \/ Hosting /\ H!Next
  \/ Previews /\ V!Next

ServicesSpec == StartsWith /\ [][Steps]_services

\* The fairness of each component's specification, for the workers 1 and 2 and the window 1 that services.cfg gives.
\* As which never changes, fairness of a disjunction with one step of each component is the fairness of each of those
\* steps.
FairServices ==
  /\ ServicesSpec
  /\ WF_services((Lifecycle /\ Proceed) \/ (Provisioning /\ P!Enqueue) \/ (Hosting /\ H!PublishStep) \/ (Previews /\ V!TabStep(1)))
  /\ WF_services((Lifecycle /\ Expire) \/ (Provisioning /\ P!Recover) \/ (Hosting /\ H!Tick) \/ (Previews /\ V!OtherMints))
  /\ WF_services((Lifecycle /\ Heartbeat) \/ (Provisioning /\ P!OpenPreview) \/ (Hosting /\ H!Refresh) \/ (Previews /\ V!Work))
  /\ WF_services(\/ \E k \in Kinds : (Lifecycle /\ MarkFailed(k))
                 \/ (Provisioning /\ P!Outside) \/ (Hosting /\ H!Step(1)) \/ (Previews /\ V!JobEnds))
  /\ WF_services((Provisioning /\ P!Step(1)) \/ (Hosting /\ H!Step(2)) \/ (Previews /\ V!Tick))
  /\ WF_services((Provisioning /\ P!Step(2)))
  /\ SF_services(\/ (Lifecycle /\ Sweep)
              \/ \E w \in 1..2 : (Provisioning /\ P!Take(w)) \/ (Hosting /\ H!Look(w))
              \/ (Previews /\ V!ProxyStep(1)))
  /\ SF_services(\E k \in Kinds : (Lifecycle /\ Take(k)))

-----------------------------------------------------------------------------
(* Properties, stated where their component is modelled *)

TypesHold ==
  /\ which = "lifecycle" => TypeOK
  /\ which = "provisioning" => P!TypeOK
  /\ which = "hosting" => H!TypeOK
  /\ which = "previews" => V!TypeOK

\* fail() of a setup: a portfolio that is ready keeps its repository, unless a job stalled and ran twice.
OnlyAStallDeletesTheRepo == which = "provisioning" => P!OnlyAStallDeletesTheRepo

\* track: a publish makes two production deployments only if the host was slow or something failed.
OneBuildEach == which = "hosting" => H!OneBuildEach

\* An editor that stays open gets a preview that runs; the setup of a portfolio ends; the page learns how a publish
\* ended; a frame that is looked at comes to show the site.  See EditorGetsPreview, SetupEnds, EditorLearnsTheEnd and
\* FrameRecovers.
WaitingEnds ==
  (\/ (which = "lifecycle" /\ Waits) \/ (which = "provisioning" /\ P!Waits)
   \/ (which = "hosting" /\ H!Waits(1)) \/ (which = "previews" /\ V!Waits(1)))
  ~> (\/ (which = "lifecycle" /\ Served) \/ (which = "provisioning" /\ P!Served)
      \/ (which = "hosting" /\ H!Served(1)) \/ (which = "previews" /\ V!Served(1)))

=============================================================================
