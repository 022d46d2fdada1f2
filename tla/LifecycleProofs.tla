--------------------------- MODULE LifecycleProofs ---------------------------
(***************************************************************************)
(* What SandboxLifecycle promises for every number of sandboxes, every     *)
(* timing and any number of faults: no sandbox is lost from sight, none is *)
(* served before its start was completed, none is destroyed with the only  *)
(* copy of a commit, and the bill is no more than what ran, but for what a *)
(* fault left standing open in the row (the second half).                  *)
(***************************************************************************)
EXTENDS SandboxLifecycle, TLAPS

RowT == [status : {"starting", "running", "paused", "destroyed", "unhealthy"},
         ext : Boxes \cup {None}, token : BOOLEAN,
         started : Nat \cup {None}, expires : Nat \cup {None}, paused : Nat \cup {None},
         accessed : Nat, updated : Nat, pending : BOOLEAN, seconds : Nat]
BoxT == [state : {"gone", "running", "paused"}, started : Nat, deadline : Nat,
         ready : BOOLEAN, up : BOOLEAN, unpushed : BOOLEAN]
JobT == [state : {"none", "waiting", "active"}, failed : Nat]

Stopping == {"flush", "destroy", "stopped"}
Making   == {"create", "boot", "record"}
Using    == {"bootstrap", "extend", "extended", "resume", "resumed", "health", "recover", "restart", "clean",
             "restarted", "running", "tidy", "pause", "paused"}
OpT == [who : Kinds \cup {"sweep", None}, pc : Stopping \cup Making \cup Using \cup {"free", "dead"},
        at : Nat, seen : Nat, until : Nat, box : Boxes \cup {None},
        after : {None, "create", "drop", "throw", "done", "idle", "rotate"},
        status : {None, "destroyed", "unhealthy"}]

Typed == now \in Nat /\ row \in RowT /\ box \in [Boxes -> BoxT] /\ op \in OpT

\* The start of the row's sandbox was completed, or the sandbox was resumed half-made.
Whole == Live # "gone" => box[row.ext].ready \/ halfway

\* A row that runs or sleeps names a whole sandbox, one that is over names none; a commit that is
\* nowhere else is flagged.
RowFits ==
  /\ row.status \in {"running", "paused"} => row.ext # None /\ Whole
  /\ row.status \in {"destroyed", "unhealthy"} => row.ext = None
  /\ row.ext # None /\ box[row.ext].unpushed => row.pending
  /\ \A b \in Boxes : box[b].state = "gone" => ~box[b].unpushed

\* What each step of a handler finds: the row's sandbox, or none; what it has just made of it.
OpFits ==
  /\ op.pc \in Making => row.ext = None
  /\ op.pc \in Using \cup {"flush", "destroy"} => row.ext # None
  /\ op.pc \in Stopping => op.status \in {"destroyed", "unhealthy"}
  /\ op.pc = "destroy" => ~box[row.ext].unpushed
  /\ op.pc = "stopped" => Live = "gone"
  /\ op.pc \in {"boot", "record"} => row.status = "starting"
  /\ op.pc = "record" => op.box \in Boxes /\ ~box[op.box].unpushed
  /\ op.pc \in {"tidy", "pause", "paused"} => row.status = "running"
  /\ op.pc = "running" => row.status # "starting"
  /\ op.pc \in {"extend", "extended", "restarted"} => Whole

LInv == Typed /\ RowFits /\ OpFits /\ NothingLeaks
-----------------------------------------------------------------------------
(* The operators that actions are built from *)

LEMMA Constants ==
  /\ None \notin Boxes /\ None \notin Nat /\ None \notin Kinds
  /\ IdlePause \in Nat /\ Slack \in Nat /\ MaxRun \in Nat /\ Bootstrap \in Nat
BY LifecycleAssumption

LEMMA FreeType == Free \in OpT /\ Free.pc = "free" /\ Free.who = None /\ Free.status = None
BY DEF Free, OpT

LEMMA GoneType == Gone \in BoxT /\ Gone.state = "gone" /\ ~Gone.unpushed
BY DEF Gone, BoxT

\* The values that a handler computes are times.
LEMMA Times ==
  ASSUME Typed
  PROVE  /\ \A seen \in Nat, started \in Nat \cup {None} : Deadline(seen, started) \in Nat
         /\ \A t \in Nat : Billed(row, t) \in Nat
         /\ Least(now, Or(row.expires, now)) \in Nat
BY Constants DEF Typed, RowT, Deadline, Greatest, Least, Or, Billed

LEMMA SaveFits ==
  ASSUME now \in Nat, NEW r \in RowT, Save(r)
  PROVE  row' \in RowT /\ row'.status = r.status /\ row'.ext = r.ext /\ row'.pending = r.pending
BY DEF Save, RowT

LEMMA StoppedFits ==
  ASSUME row \in RowT, NEW status \in {"starting", "destroyed", "unhealthy"}
  PROVE  /\ Stopped(status) \in RowT /\ Stopped(status).status = status /\ Stopped(status).ext = None
         /\ Stopped(status).pending = row.pending
BY DEF Stopped, RowT

LEMMA PausedFits ==
  ASSUME row \in RowT, NEW t \in Nat
  PROVE  /\ PausedAt(t) \in RowT /\ PausedAt(t).status = "paused" /\ PausedAt(t).ext = row.ext
         /\ PausedAt(t).pending = row.pending
BY DEF PausedAt, RowT

LEMMA SetBoxFits ==
  ASSUME box \in [Boxes -> BoxT], NEW b \in Boxes, NEW v \in BoxT, SetBox(b, v)
  PROVE  /\ box' \in [Boxes -> BoxT] /\ box'[b] = v
         /\ \A x \in Boxes : x # b => box'[x] = box[x]
BY DEF SetBox

LEMMA GotoFits ==
  ASSUME op \in OpT, NEW pc \in Stopping \cup Making \cup Using, Goto(pc)
  PROVE  /\ op' \in OpT /\ op'.pc = pc /\ op'.who = op.who /\ op'.box = op.box /\ op'.status = op.status
BY DEF Goto, OpT

LEMMA BeginFits ==
  ASSUME op \in OpT, NEW pc \in Stopping \cup Making \cup Using, Begin(pc)
  PROVE  op' \in OpT /\ op'.pc = pc /\ op'.who = op.who
<1>1. \A f \in OpT : LET g == [f EXCEPT !.who = op.who, !.pc = pc] IN g \in OpT /\ g.pc = pc /\ g.who = op.who
  BY DEF OpT
<1> QED BY <1>1, FreeType DEF Begin

LEMMA EnterFits ==
  ASSUME Typed, NEW who \in Kinds \cup {"sweep"}, NEW pc \in Stopping \cup Making \cup Using,
         NEW after \in {None, "create", "drop", "throw", "done", "idle", "rotate"},
         NEW status \in {None, "destroyed", "unhealthy"}, Enter(who, pc, after, status),
         pc = "running" => row.ext \in Boxes
  PROVE  /\ op' \in OpT /\ op'.pc = pc /\ op'.who = who /\ op'.status = status
         /\ pc \in {"tidy", "pause"} => op'.at = now
         /\ pc = "running" => op'.at = box[row.ext].started /\ op'.until = box[row.ext].deadline
<1> DEFINE at == CASE pc \in {"tidy", "pause"} -> now
                   [] pc = "running"           -> box[row.ext].started
                   [] OTHER                    -> Free.at
           until == IF pc = "running" THEN box[row.ext].deadline ELSE Free.until
           seen == IF pc \in {"extend", "resume"} THEN row.accessed ELSE Free.seen
<1>1. at \in Nat /\ until \in Nat /\ seen \in Nat
  <2>1. Free.at \in Nat /\ Free.until \in Nat /\ Free.seen \in Nat /\ now \in Nat /\ row.accessed \in Nat
    BY FreeType DEF OpT, RowT, Typed
  <2>2. CASE pc = "running"
    <3>1. row.ext \in Boxes
      BY <2>2
    <3>2. box[row.ext].started \in Nat /\ box[row.ext].deadline \in Nat
      BY <3>1 DEF BoxT, Typed
    <3>3. at = box[row.ext].started /\ until = box[row.ext].deadline
      BY <2>2
    <3> QED BY <2>1, <2>2, <3>2, <3>3
  <2>3. CASE pc # "running"
    <3>1. until = Free.until /\ at \in {now, Free.at}
      BY <2>3
    <3> QED BY <2>1, <3>1
  <2> QED BY <2>2, <2>3
<1>2. op' = [Free EXCEPT !.who = who, !.pc = pc, !.after = after, !.status = status, !.at = at, !.until = until,
                         !.seen = seen]
  BY DEF Enter
<1>3. /\ pc \in {"tidy", "pause"} => at = now
      /\ pc = "running" => at = box[row.ext].started /\ until = box[row.ext].deadline
  OBVIOUS
<1> HIDE DEF at, until, seen
<1>4. op' = [who |-> who, pc |-> pc, at |-> at, seen |-> seen, until |-> until, box |-> None, after |-> after,
             status |-> status]
  BY <1>2 DEF Free
<1>5. op' \in OpT
  BY <1>1, <1>4 DEF OpT
<1>6. op'.pc = pc /\ op'.who = who /\ op'.status = status /\ op'.at = at /\ op'.until = until
  BY <1>4
<1> QED BY <1>3, <1>5, <1>6

LEMMA StopStepFits ==
  ASSUME LInv
  PROVE  /\ StopStep \in Stopping
         /\ StopStep = "stopped" => Live = "gone"
         /\ StopStep \in {"flush", "destroy"} => row.ext # None
         /\ StopStep = "destroy" => ~box[row.ext].unpushed
BY DEF StopStep, Stopping, Live, LInv, RowFits

LEMMA StopThenFits ==
  ASSUME LInv, NEW after \in {"create", "throw", "done"}, NEW status \in {"destroyed", "unhealthy"},
         StopThen(after, status)
  PROVE  op' \in OpT /\ op'.pc = StopStep /\ op'.status = status
<1>1. \A f \in OpT : LET g == [f EXCEPT !.who = op.who, !.pc = StopStep, !.after = after, !.status = status]
                     IN g \in OpT /\ g.pc = StopStep /\ g.status = status
  BY StopStepFits DEF OpT, LInv, Typed
<1> QED BY <1>1, FreeType DEF StopThen

-----------------------------------------------------------------------------
(* A step of the holder that leaves the row and the sandboxes alone *)

LEMMA Moves ==
  ASSUME LInv, UNCHANGED <<now, row, box, halfway>>, orphans \subseteq orphans', op' \in OpT, OpFits',
         op.pc = "record" => op.box \in orphans' \/ (op'.pc = "record" /\ op'.box = op.box)
  PROVE  LInv'
<1>1. Typed' /\ RowFits'
  BY DEF LInv, Typed, RowFits, Whole, Live
<1>2. NothingLeaks'
  BY DEF LInv, NothingLeaks
<1> QED BY <1>1, <1>2 DEF LInv

LEMMA Rests ==
  ASSUME LInv, UNCHANGED <<now, row, box, halfway>>, orphans \subseteq orphans', op' \in OpT,
         op'.pc \in {"free", "dead"}, op.pc = "record" => op.box \in orphans'
  PROVE  LInv'
<1>1. OpFits'
  BY DEF OpFits, Making, Using, Stopping
<1> QED BY <1>1, Moves

\* A handler that goes to its stop.
LEMMA Stops ==
  ASSUME LInv, UNCHANGED <<now, row, box, lost>>, op' \in OpT, op'.pc = StopStep,
         op'.status \in {"destroyed", "unhealthy"}, op.pc # "record"
  PROVE  LInv'
<1>1. OpFits'
  BY StopStepFits DEF OpFits, Making, Using, Stopping, Live
<1> QED BY <1>1, Moves DEF lost

-----------------------------------------------------------------------------
(* A step that changes the row's sandbox, or the row, and no more *)

LEMMA BoxMoves ==
  ASSUME LInv, op.pc # "record", UNCHANGED <<now, row, lost>>, op' \in OpT, OpFits', row.ext \in Boxes,
         NEW v \in BoxT, SetBox(row.ext, v), v.state # "gone", box[row.ext].state # "gone",
         v.ready \/ ~box[row.ext].ready, v.unpushed = box[row.ext].unpushed
  PROVE  LInv'
<1>1. /\ box' \in [Boxes -> BoxT] /\ box'[row.ext] = v
      /\ \A x \in Boxes : x # row.ext => box'[x] = box[x]
  BY SetBoxFits DEF LInv, Typed
<1>2. Typed' /\ RowFits'
  BY <1>1 DEF LInv, Typed, RowFits, Whole, Live, lost
<1>3. NothingLeaks'
  BY <1>1 DEF LInv, NothingLeaks, lost
<1> QED BY <1>2, <1>3 DEF LInv

LEMMA RowMoves ==
  ASSUME LInv, op.pc # "record", UNCHANGED <<now, box, lost>>, op' \in OpT, OpFits',
         NEW r \in RowT, Save(r), r.ext = row.ext, r.pending = row.pending,
         r.status \in {"running", "paused"} => row.ext # None /\ Whole,
         r.status \in {"destroyed", "unhealthy"} => row.ext = None
  PROVE  LInv'
<1>1. row' \in RowT /\ row'.status = r.status /\ row'.ext = row.ext /\ row'.pending = row.pending
  BY SaveFits DEF LInv, Typed
<1>2. Typed' /\ RowFits'
  BY <1>1 DEF LInv, Typed, RowFits, Whole, Live, lost
<1>3. NothingLeaks'
  BY <1>1 DEF LInv, NothingLeaks, lost
<1> QED BY <1>2, <1>3 DEF LInv

LEMMA OpUses ==
  ASSUME LInv, op.pc \in Using
  PROVE  row.ext \in Boxes /\ row.ext # None /\ box[row.ext] \in BoxT /\ Live = box[row.ext].state
BY DEF LInv, Typed, RowT, OpFits, Live

-----------------------------------------------------------------------------
(* One lemma per action *)

LEMMA TakeKeeps == ASSUME LInv, NEW k \in Kinds, Take(k) PROVE LInv'
<1>1. op.pc = "free" /\ op = Free
  BY FreeType DEF Take
<1>2. CASE Enter(k, StopStep, "create", "destroyed")
  BY <1>1, <1>2, StopStepFits, EnterFits, Stops DEF Take, LInv, Stopping
<1>3. CASE Enter(k, "create", None, None) /\ row.ext = None
  <2>1. op' \in OpT /\ op'.pc = "create"
    BY <1>3, EnterFits DEF LInv, Making
  <2>2. OpFits'
    BY <1>3, <2>1 DEF Take, OpFits, Making, Using, Stopping
  <2> QED BY <1>1, <2>1, <2>2, Moves DEF Take, lost
<1>4. CASE \E pc \in {"resume", "recover"} : Enter(k, pc, None, None) /\ row.ext # None
  <2>1. op' \in OpT /\ op'.pc \in {"resume", "recover"}
    BY <1>4, EnterFits DEF LInv, Using
  <2>2. OpFits'
    BY <1>4, <2>1 DEF Take, OpFits, Making, Using, Stopping
  <2> QED BY <1>1, <2>1, <2>2, Moves DEF Take, lost
<1>5. CASE Enter(k, "running", None, None) /\ row.ext # None /\ row.status # "starting"
  <2>1. op' \in OpT /\ op'.pc = "running"
    BY <1>5, EnterFits DEF LInv, Typed, RowT, Using
  <2>2. OpFits'
    BY <1>5, <2>1 DEF Take, OpFits, Making, Using, Stopping
  <2> QED BY <1>1, <2>1, <2>2, Moves DEF Take, lost
<1> QED BY <1>2, <1>3, <1>4, <1>5 DEF Take, Ensure, Running, Live, Kinds

LEMMA MarkFailedKeeps == ASSUME LInv, NEW k \in Kinds, MarkFailed(k) PROVE LInv'
<1>1. CASE op = Free /\ Enter(k, StopStep, "drop", "unhealthy")
  BY <1>1, FreeType, StopStepFits, EnterFits, Stops DEF MarkFailed, LInv, Stopping
<1>2. CASE UNCHANGED op
  <2>1. OpFits'
    BY <1>2 DEF MarkFailed, LInv, OpFits, Whole, Live, lost
  <2> QED BY <1>2, <2>1, Moves DEF MarkFailed, LInv, Typed, lost
<1> QED BY <1>1, <1>2 DEF MarkFailed

LEMMA FlushKeeps == ASSUME LInv, Flush PROVE LInv'
<1> USE DEF Flush, LInv
<1>1. op.pc = "flush" /\ row.ext \in Boxes /\ box[row.ext] \in BoxT /\ op.status \in {"destroyed", "unhealthy"}
  <2>1. op.pc = "flush" /\ row.ext # None /\ op.status \in {"destroyed", "unhealthy"}
    BY DEF OpFits, Stopping
  <2>2. row.ext \in Boxes
    BY <2>1 DEF Typed, RowT
  <2> QED BY <2>1, <2>2 DEF Typed
<1>2. CASE Live = "gone" /\ Goto("destroy") /\ UNCHANGED <<row, box>>
  <2>1. op' \in OpT /\ op'.pc = "destroy" /\ op'.status = op.status
    BY <1>2, GotoFits DEF Typed, Stopping
  <2>2. OpFits'
    BY <1>1, <1>2, <2>1 DEF OpFits, RowFits, Live, Making, Using, Stopping
  <2> QED BY <1>1, <1>2, <2>1, <2>2, Moves DEF lost
<1> DEFINE b == box[row.ext]
           woken == IF b.state = "paused" THEN [b EXCEPT !.state = "running", !.started = now, !.deadline = now + 1]
                    ELSE b
<1>3. woken \in BoxT /\ woken.ready = b.ready /\ woken.unpushed = b.unpushed
      /\ (b.state # "gone" => woken.state # "gone")
  <2>1. \A v \in BoxT, t \in Nat, u \in Nat :
          LET w == [v EXCEPT !.state = "running", !.started = t, !.deadline = u]
          IN w \in BoxT /\ w.ready = v.ready /\ w.unpushed = v.unpushed /\ w.state # "gone"
    BY DEF BoxT
  <2>2. now \in Nat /\ now + 1 \in Nat /\ b \in BoxT
    BY <1>1 DEF Typed
  <2> QED BY <2>1, <2>2
<1> HIDE DEF woken
<1>4. CASE Push /\ SetBox(row.ext, [woken EXCEPT !.unpushed = FALSE]) /\ Goto("destroy") /\ b.state # "gone"
  <2>1. op' \in OpT /\ op'.pc = "destroy" /\ op'.status = op.status
    BY <1>4, GotoFits DEF Typed, Stopping
  <2> DEFINE clean == [woken EXCEPT !.unpushed = FALSE]
  <2>2. clean \in BoxT /\ clean.ready = b.ready /\ ~clean.unpushed
    BY <1>3 DEF BoxT
  <2> HIDE DEF clean
  <2>3. /\ box' \in [Boxes -> BoxT] /\ box'[row.ext] = clean
        /\ \A x \in Boxes : x # row.ext => box'[x] = box[x]
    BY <1>1, <1>4, <2>2, SetBoxFits DEF Typed, clean
  <2>4. row' \in RowT /\ row'.ext = row.ext /\ row'.status = row.status
    BY <1>4 DEF Push, RowT, Typed
  <2>5. Typed' /\ RowFits'
    BY <1>1, <1>4, <2>1, <2>2, <2>3, <2>4 DEF Typed, RowFits, Whole, Live, lost
  <2>6. OpFits'
    BY <1>1, <2>1, <2>2, <2>3, <2>4 DEF OpFits, Making, Using, Stopping
  <2>7. NothingLeaks'
    BY <1>1, <2>3, <2>4 DEF NothingLeaks, lost
  <2> QED BY <2>5, <2>6, <2>7
<1>5. CASE SetBox(row.ext, woken) /\ op' = Free /\ UNCHANGED row
  <2>1. /\ box' \in [Boxes -> BoxT] /\ box'[row.ext] = woken
        /\ \A x \in Boxes : x # row.ext => box'[x] = box[x]
    BY <1>1, <1>3, <1>5, SetBoxFits DEF Typed
  <2>2. Typed' /\ OpFits'
    BY <1>5, <2>1, FreeType DEF Typed, OpFits, Making, Using, Stopping
  <2>3. RowFits'
    BY <1>1, <1>3, <1>5, <2>1 DEF RowFits, Whole, Live, lost, Flush
  <2>4. NothingLeaks'
    BY <1>1, <1>5, <2>1 DEF NothingLeaks, lost
  <2> QED BY <2>2, <2>3, <2>4
<1> QED BY <1>2, <1>4, <1>5 DEF Throw, woken

LEMMA DestroyKeeps == ASSUME LInv, Destroy PROVE LInv'
<1> USE DEF Destroy, LInv
<1>1. op.pc = "destroy" /\ row.ext \in Boxes /\ op.status \in {"destroyed", "unhealthy"}
  BY DEF Typed, OpFits, RowT, Stopping
<1>2. op' \in OpT /\ op'.pc = "stopped" /\ op'.status = op.status
  BY GotoFits DEF Typed, Stopping
<1>3. /\ box' \in [Boxes -> BoxT] /\ box'[row.ext] = Gone
      /\ \A x \in Boxes : x # row.ext => box'[x] = box[x]
  BY <1>1, SetBoxFits, GoneType DEF Typed
<1>4. Typed' /\ RowFits'
  BY <1>1, <1>2, <1>3, GoneType DEF Typed, RowFits, Whole, Live
<1>5. OpFits'
  BY <1>1, <1>2, <1>3, GoneType DEF OpFits, Live, Making, Using, Stopping
<1>6. NothingLeaks'
  BY <1>1, <1>3, GoneType DEF NothingLeaks, lost
<1> QED BY <1>4, <1>5, <1>6

LEMMA RecordStopKeeps == ASSUME LInv, RecordStop PROVE LInv'
<1> USE DEF RecordStop, LInv
<1>1. op.pc = "stopped" /\ op.status \in {"destroyed", "unhealthy"} /\ Live = "gone"
  BY DEF OpFits, Stopping
<1> DEFINE r == [Stopped(op.status) EXCEPT !.seconds = @ + Billed(row, now)]
<1>2. r \in RowT /\ r.status = op.status /\ r.ext = None
  BY <1>1, StoppedFits, Times DEF Typed, RowT
<1> HIDE DEF r
<1>3. row' \in RowT /\ row'.status = op.status /\ row'.ext = None
  BY <1>2, SaveFits DEF Typed, r
<1>4. op' \in OpT /\ op'.pc \in {"free", "create"}
  BY FreeType, BeginFits DEF Throw, Finish, Typed, Making
<1>5. Typed' /\ RowFits'
  BY <1>1, <1>3, <1>4 DEF Typed, RowFits
<1>6. OpFits'
  BY <1>3, <1>4 DEF OpFits, Making, Using, Stopping
<1>7. NothingLeaks'
  <2>1. \A b \in Boxes : b # None
    BY Constants
  <2>2. UNCHANGED <<box, orphans>>
    BY DEF lost
  <2>3. \A b \in Boxes : box[b].state = "running" => b \in orphans
    BY <1>1, <2>1 DEF NothingLeaks, Live
  <2> QED BY <2>2, <2>3 DEF NothingLeaks
<1> QED BY <1>5, <1>6, <1>7

LEMMA CreateKeeps == ASSUME LInv, Create PROVE LInv'
<1> USE DEF Create, LInv
<1>1. op.pc = "create" /\ row.ext = None
  BY DEF OpFits, Making
<1>2. row' \in RowT /\ row'.status = "starting" /\ row'.ext = None
  BY StoppedFits, SaveFits DEF Typed
<1>3. op' \in OpT /\ op'.pc = "boot"
  BY GotoFits DEF Typed, Making
<1>4. Typed' /\ RowFits'
  BY <1>2, <1>3 DEF Typed, RowFits
<1>5. OpFits'
  BY <1>2, <1>3 DEF OpFits, Making, Using, Stopping
<1>6. NothingLeaks'
  <2>1. \A b \in Boxes : b # None
    BY Constants
  <2>2. UNCHANGED <<box, orphans>>
    OBVIOUS
  <2> QED BY <1>1, <2>1, <2>2 DEF NothingLeaks
<1> QED BY <1>4, <1>5, <1>6

LEMMA BootKeeps == ASSUME LInv, Boot PROVE LInv'
<1> USE DEF LInv
<1>1. /\ op.pc = "boot" /\ row.ext = None /\ row.status = "starting"
      /\ UNCHANGED <<now, row, lost>>
  BY DEF Boot, OpFits, Making
<1>2. CASE op' = Free /\ UNCHANGED box
  BY <1>1, <1>2, FreeType, Rests DEF lost
<1>3. CASE \E b \in Boxes :
            /\ box[b].state = "gone"
            /\ SetBox(b, [Gone EXCEPT !.state = "running", !.started = now, !.deadline = now + Bootstrap])
            /\ op' = [op EXCEPT !.pc = "record", !.at = now, !.until = now + Bootstrap, !.box = b]
  <2>1. PICK b \in Boxes :
            /\ box[b].state = "gone"
            /\ SetBox(b, [Gone EXCEPT !.state = "running", !.started = now, !.deadline = now + Bootstrap])
            /\ op' = [op EXCEPT !.pc = "record", !.at = now, !.until = now + Bootstrap, !.box = b]
    BY <1>3
  <2>2. now \in Nat /\ now + Bootstrap \in Nat
    BY Constants DEF Typed
  <2>3. op' \in OpT /\ op'.pc = "record" /\ op'.box = b
    <3>1. \A f \in OpT, t \in Nat, u \in Nat :
            LET g == [f EXCEPT !.pc = "record", !.at = t, !.until = u, !.box = b]
            IN g \in OpT /\ g.pc = "record" /\ g.box = b
      BY <2>1 DEF OpT, Making
    <3> QED BY <2>1, <2>2, <3>1 DEF Typed
  <2> DEFINE v == [Gone EXCEPT !.state = "running", !.started = now, !.deadline = now + Bootstrap]
  <2>4. v \in BoxT /\ ~v.unpushed /\ v.state = "running"
    <3>1. \A w \in BoxT, t \in Nat, u \in Nat :
            LET x == [w EXCEPT !.state = "running", !.started = t, !.deadline = u]
            IN x \in BoxT /\ x.unpushed = w.unpushed /\ x.state = "running"
      BY DEF BoxT
    <3> QED BY <2>2, <3>1, GoneType
  <2> HIDE DEF v
  <2>5. box' \in [Boxes -> BoxT] /\ box'[b] = v /\ \A x \in Boxes : x # b => box'[x] = box[x]
    BY <2>1, <2>4, SetBoxFits DEF v, Typed
  <2>6. Typed' /\ RowFits'
    BY <1>1, <2>3, <2>4, <2>5 DEF Typed, RowFits
  <2>7. OpFits'
    BY <1>1, <2>3, <2>4, <2>5 DEF OpFits, Making, Using, Stopping
  <2>8. NothingLeaks'
    BY <1>1, <2>3, <2>5 DEF NothingLeaks, lost
  <2> QED BY <2>6, <2>7, <2>8
<1> QED BY <1>2, <1>3 DEF Boot

LEMMA RecordCreatedKeeps == ASSUME LInv, RecordCreated PROVE LInv'
<1> USE DEF RecordCreated, LInv
<1>1. op.pc = "record" /\ row.ext = None /\ row.status = "starting" /\ op.box \in Boxes /\ ~box[op.box].unpushed
  BY DEF OpFits, Making
<1> DEFINE r == [row EXCEPT !.ext = op.box, !.token = TRUE, !.started = op.at, !.expires = op.until]
<1>2. r \in RowT /\ r.ext = op.box /\ r.status = row.status /\ r.pending = row.pending
  BY <1>1 DEF RowT, OpT, Typed
<1> HIDE DEF r
<1>3. row' \in RowT /\ row'.ext = op.box /\ row'.status = "starting" /\ row'.pending = row.pending
  BY <1>1, <1>2, SaveFits DEF r, Typed
<1>4. op' \in OpT /\ op'.pc = "bootstrap"
  <2>1. \A f \in OpT, t \in Nat :
          LET g == [f EXCEPT !.who = op.who, !.pc = "bootstrap", !.seen = t] IN g \in OpT /\ g.pc = "bootstrap"
    BY DEF OpT, Using, Typed
  <2>2. row.accessed \in Nat
    BY DEF RowT, Typed
  <2> QED BY <2>1, <2>2, FreeType
<1>5. op.box # None
  BY <1>1, Constants
<1>6. Typed' /\ RowFits'
  BY <1>1, <1>3, <1>4, <1>5 DEF Typed, RowFits
<1>7. OpFits'
  BY <1>3, <1>4, <1>5 DEF OpFits, Making, Using, Stopping
<1>8. NothingLeaks'
  BY <1>1, <1>3, Constants DEF NothingLeaks, lost
<1> QED BY <1>6, <1>7, <1>8

LEMMA BootstrapKeeps == ASSUME LInv, BootstrapBox PROVE LInv'
<1>1. op.pc = "bootstrap" /\ UNCHANGED <<now, row, lost>>
  BY DEF BootstrapBox
<1>2. row.ext \in Boxes /\ row.ext # None /\ box[row.ext] \in BoxT /\ Live = box[row.ext].state
  BY <1>1, OpUses DEF Using
<1>3. CASE Running /\ SetBox(row.ext, Bootstrapped(box[row.ext])) /\ Goto("extend")
  <2>1. op' \in OpT /\ op'.pc = "extend"
    BY <1>3, GotoFits DEF LInv, Typed, Using
  <2> DEFINE v == Bootstrapped(box[row.ext])
  <2>2. v \in BoxT /\ v.state = box[row.ext].state /\ v.ready /\ v.unpushed = box[row.ext].unpushed
    BY <1>2 DEF Bootstrapped, BoxT
  <2> HIDE DEF v
  <2>3. box' \in [Boxes -> BoxT] /\ box'[row.ext] = v
    BY <1>2, <1>3, <2>2, SetBoxFits DEF v, LInv, Typed
  <2>4. OpFits'
    BY <1>1, <1>2, <2>1, <2>2, <2>3 DEF OpFits, Making, Using, Stopping, Whole
  <2> QED BY <1>1, <1>2, <1>3, <2>1, <2>2, <2>4, BoxMoves DEF v, Running
<1>4. CASE UNCHANGED box /\ \E after \in {"throw", "done"} : StopThen(after, "unhealthy")
  BY <1>1, <1>4, StopThenFits, Stops
<1> QED BY <1>3, <1>4 DEF BootstrapBox

LEMMA ExtendKeeps == ASSUME LInv, Extend PROVE LInv'
<1>1. op.pc = "extend" /\ UNCHANGED <<now, row, lost>>
  BY DEF Extend
<1>2. row.ext \in Boxes /\ row.ext # None /\ box[row.ext] \in BoxT /\ Live = box[row.ext].state
  BY <1>1, OpUses DEF Using
<1> DEFINE until == Deadline(op.seen, row.started)
           v == [box[row.ext] EXCEPT !.deadline = until]
<1>3. CASE Running /\ SetBox(row.ext, v) /\ op' = [op EXCEPT !.pc = "extended", !.until = until]
  <2>1. until \in Nat
    BY Times DEF LInv, Typed, OpT, RowT
  <2>2. v \in BoxT /\ v.state = box[row.ext].state /\ v.ready = box[row.ext].ready
        /\ v.unpushed = box[row.ext].unpushed
    <3> HIDE DEF until
    <3> QED BY <1>2, <2>1 DEF BoxT
  <2>3. op' \in OpT /\ op'.pc = "extended"
    <3> HIDE DEF until
    <3> QED BY <1>3, <2>1 DEF LInv, Typed, OpT, Using
  <2> HIDE DEF v
  <2>4. box' \in [Boxes -> BoxT] /\ box'[row.ext] = v
    BY <1>2, <1>3, <2>2, SetBoxFits DEF LInv, Typed
  <2>5. Whole
    BY <1>1 DEF LInv, OpFits
  <2>6. OpFits'
    BY <1>1, <1>2, <2>2, <2>3, <2>4, <2>5 DEF OpFits, Making, Using, Stopping, Whole, Live, lost
  <2> QED BY <1>1, <1>2, <1>3, <2>2, <2>3, <2>6, BoxMoves DEF Running
<1>4. CASE op' = Free /\ UNCHANGED box
  BY <1>1, <1>4, FreeType, Rests DEF lost
<1> QED BY <1>3, <1>4 DEF Extend, Throw

\* The handler writes the row and is done, or is done without a write.
LEMMA FinishFits == ASSUME Finish PROVE op' \in OpT /\ op'.pc = "free" /\ OpFits'
BY FreeType DEF Finish, OpFits, Making, Using, Stopping

LEMMA RecordExtendedKeeps == ASSUME LInv, RecordExtended PROVE LInv'
<1>1. op.pc = "extended" /\ UNCHANGED <<now, box, lost>>
  BY DEF RecordExtended
<1> DEFINE r == [row EXCEPT !.status = "running", !.expires = op.until]
<1>2. r \in RowT /\ r.status = "running" /\ r.ext = row.ext /\ r.pending = row.pending
  BY DEF LInv, Typed, RowT, OpT
<1> HIDE DEF r
<1>3. Save(r)
  BY DEF RecordExtended, r
<1>4. row.ext # None /\ Whole
  BY <1>1 DEF LInv, OpFits, Using
<1> QED BY <1>1, <1>2, <1>3, <1>4, FinishFits, RowMoves DEF RecordExtended

LEMMA ResumeKeeps == ASSUME LInv, Resume PROVE LInv'
<1>1. op.pc = "resume" /\ UNCHANGED <<now, row, lost>>
  BY DEF Resume
<1>2. row.ext \in Boxes /\ row.ext # None /\ box[row.ext] \in BoxT /\ Live = box[row.ext].state
  BY <1>1, OpUses DEF Using
<1> DEFINE until == Deadline(op.seen, now)
           v == [box[row.ext] EXCEPT !.state = "running", !.started = now, !.deadline = until]
<1>3. CASE Live # "gone" /\ SetBox(row.ext, v) /\ op' = [op EXCEPT !.pc = "resumed", !.at = now, !.until = until]
  <2>1. until \in Nat /\ now \in Nat
    BY Times DEF LInv, Typed, OpT
  <2>2. v \in BoxT /\ v.state = "running" /\ v.ready = box[row.ext].ready /\ v.unpushed = box[row.ext].unpushed
    <3> HIDE DEF until
    <3> QED BY <1>2, <2>1 DEF BoxT
  <2>3. op' \in OpT /\ op'.pc = "resumed"
    <3> HIDE DEF until
    <3> QED BY <1>3, <2>1 DEF LInv, Typed, OpT, Using
  <2> HIDE DEF v
  <2>4. OpFits'
    BY <1>1, <1>2, <2>3 DEF OpFits, Making, Using, Stopping
  <2> QED BY <1>1, <1>2, <1>3, <2>2, <2>3, <2>4, BoxMoves
<1>4. CASE op' = Free /\ UNCHANGED box
  BY <1>1, <1>4, FreeType, Rests DEF lost
<1>5. CASE StopThen("create", "destroyed") /\ UNCHANGED box
  BY <1>1, <1>5, StopThenFits, Stops
<1> QED BY <1>3, <1>4, <1>5 DEF Resume, Throw

LEMMA RecordResumedKeeps == ASSUME LInv, RecordResumed PROVE LInv'
<1>1. op.pc = "resumed" /\ UNCHANGED <<now, box, orphans>>
  BY DEF RecordResumed
<1>2. row.ext \in Boxes /\ row.ext # None
  BY <1>1, OpUses DEF Using
<1> DEFINE extra == IF row.status = "running" THEN Billed(row, op.at) ELSE 0
           r == [row EXCEPT !.status = "running", !.token = TRUE, !.paused = None, !.started = op.at,
                            !.expires = op.until, !.seconds = @ + extra]
<1>3. extra \in Nat
  BY Times DEF LInv, Typed, OpT
<1>4. r \in RowT /\ r.status = "running" /\ r.ext = row.ext /\ r.pending = row.pending
  <2> DEFINE woken == [row EXCEPT !.status = "running", !.token = TRUE, !.paused = None, !.started = op.at,
                                  !.expires = op.until]
  <2>1. woken \in RowT /\ woken.status = "running" /\ woken.ext = row.ext /\ woken.pending = row.pending
    BY DEF LInv, Typed, RowT, OpT
  <2>2. r = [woken EXCEPT !.seconds = @ + extra]
    OBVIOUS
  <2> HIDE DEF woken, extra
  <2>3. LET x == [woken EXCEPT !.seconds = @ + extra]
        IN x \in RowT /\ x.status = woken.status /\ x.ext = woken.ext /\ x.pending = woken.pending
    BY <1>3, <2>1 DEF RowT
  <2> HIDE DEF r
  <2> QED BY <2>1, <2>2, <2>3
<1>5. row' \in RowT /\ row'.status = "running" /\ row'.ext = row.ext /\ row'.pending = row.pending
  <2>1. Save(r)
    BY DEF RecordResumed
  <2> HIDE DEF r
  <2> QED BY <1>4, <2>1, SaveFits DEF LInv, Typed
<1> HIDE DEF r
<1>6. op' \in OpT /\ op'.pc \in {"free", "health"}
  BY FreeType, BeginFits DEF RecordResumed, Finish, LInv, Typed, Using
<1>7. Whole'
  <2>1. row.status = "starting" \/ Whole
    BY <1>2 DEF LInv, RowFits, Typed, RowT
  <2>2. halfway' = (halfway \/ row.status = "starting")
    BY DEF RecordResumed
  <2> QED BY <1>1, <1>5, <2>1, <2>2 DEF Whole, Live
<1>8. Typed' /\ RowFits'
  BY <1>1, <1>2, <1>5, <1>6, <1>7 DEF LInv, Typed, RowFits
<1>9. OpFits'
  BY <1>2, <1>5, <1>6 DEF OpFits, Making, Using, Stopping
<1>10. NothingLeaks'
  BY <1>1, <1>5 DEF LInv, NothingLeaks
<1> QED BY <1>8, <1>9, <1>10 DEF LInv

LEMMA HealthKeeps == ASSUME LInv, Health PROVE LInv'
<1>1. op.pc = "health" /\ UNCHANGED <<now, row, box, lost>>
  BY DEF Health
<1>2. CASE op' = Free
  BY <1>1, <1>2, FreeType, Rests DEF lost
<1>3. CASE Begin("recover")
  <2>1. op' \in OpT /\ op'.pc = "recover"
    BY <1>3, BeginFits DEF LInv, Typed, Using
  <2>2. OpFits'
    BY <1>1, <2>1, OpUses DEF OpFits, Making, Using, Stopping
  <2> QED BY <1>1, <2>1, <2>2, Moves DEF lost
<1> QED BY <1>2, <1>3 DEF Health, Throw, Finish

LEMMA RecoverKeeps == ASSUME LInv, Recover PROVE LInv'
<1>1. op.pc = "recover" /\ UNCHANGED <<now, box, lost>>
  BY DEF Recover
<1>2. row.ext # None
  BY <1>1, OpUses DEF Using
<1> DEFINE r == [row EXCEPT !.status = "starting"]
<1>3. r \in RowT /\ r.status = "starting" /\ r.ext = row.ext /\ r.pending = row.pending
  BY DEF LInv, Typed, RowT
<1> HIDE DEF r
<1>4. Save(r)
  BY DEF Recover, r
<1>5. op' \in OpT /\ op'.pc = "restart"
  BY BeginFits DEF Recover, LInv, Typed, Using
<1>6. OpFits'
  BY <1>2, <1>3, <1>4, <1>5, SaveFits DEF LInv, Typed, OpFits, Making, Using, Stopping
<1> QED BY <1>1, <1>3, <1>4, <1>5, <1>6, RowMoves

LEMMA RestartKeeps == ASSUME LInv, Restart PROVE LInv'
<1>1. op.pc \in {"restart", "clean"} /\ UNCHANGED <<now, row, lost>>
  BY DEF Restart
<1>2. row.ext \in Boxes /\ row.ext # None /\ box[row.ext] \in BoxT /\ Live = box[row.ext].state
  BY <1>1, OpUses DEF Using
<1>3. CASE Running /\ box[row.ext].ready /\ SetBox(row.ext, DevServerUp(box[row.ext])) /\ Goto("restarted")
  <2>1. op' \in OpT /\ op'.pc = "restarted"
    BY <1>3, GotoFits DEF LInv, Typed, Using
  <2> DEFINE v == DevServerUp(box[row.ext])
  <2>2. v \in BoxT /\ v.state = box[row.ext].state /\ v.ready /\ v.unpushed = box[row.ext].unpushed
    BY <1>2, <1>3 DEF DevServerUp, BoxT
  <2> HIDE DEF v
  <2>3. box' \in [Boxes -> BoxT] /\ box'[row.ext] = v
    BY <1>2, <1>3, <2>2, SetBoxFits DEF v, LInv, Typed
  <2>4. OpFits'
    BY <1>1, <1>2, <2>1, <2>2, <2>3 DEF OpFits, Making, Using, Stopping, Whole
  <2> QED BY <1>1, <1>2, <1>3, <2>1, <2>2, <2>4, BoxMoves DEF v, Running
<1>4. CASE Goto("clean") /\ UNCHANGED box
  <2>1. op' \in OpT /\ op'.pc = "clean"
    BY <1>4, GotoFits DEF LInv, Typed, Using
  <2>2. OpFits'
    BY <1>1, <1>2, <2>1 DEF OpFits, Making, Using, Stopping
  <2> QED BY <1>1, <1>4, <2>1, <2>2, Moves DEF lost
<1>5. CASE StopThen("create", "destroyed") /\ UNCHANGED box
  BY <1>1, <1>5, StopThenFits, Stops
<1> QED BY <1>3, <1>4, <1>5 DEF Restart

LEMMA RecordRestartedKeeps == ASSUME LInv, RecordRestarted PROVE LInv'
<1>1. op.pc = "restarted" /\ UNCHANGED <<now, box, lost>>
  BY DEF RecordRestarted
<1> DEFINE r == [row EXCEPT !.status = "running"]
<1>2. r \in RowT /\ r.status = "running" /\ r.ext = row.ext /\ r.pending = row.pending
  BY DEF LInv, Typed, RowT
<1> HIDE DEF r
<1>3. Save(r)
  BY DEF RecordRestarted, r
<1>4. row.ext # None /\ Whole
  BY <1>1 DEF LInv, OpFits, Using
<1> QED BY <1>1, <1>2, <1>3, <1>4, FinishFits, RowMoves DEF RecordRestarted

LEMMA MarkRunningKeeps == ASSUME LInv, MarkRunning PROVE LInv'
<1>1. op.pc = "running" /\ UNCHANGED <<now, box, lost>>
  BY DEF MarkRunning
<1>2. row.ext \in Boxes /\ row.ext # None /\ box[row.ext] \in BoxT
  BY <1>1, OpUses DEF Using
<1>3. Whole
  BY <1>1, <1>2 DEF LInv, OpFits, RowFits, Typed, RowT
<1>4. CASE UNCHANGED row
  BY <1>1, <1>4, FinishFits, Moves DEF MarkRunning, lost
<1> DEFINE started == Or(row.started, op.at)
           r == [row EXCEPT !.status = "running", !.paused = None, !.expires = op.until,
                            !.started = started]
<1>5. CASE Save(r)
  <2>1. started \in Nat /\ op.until \in Nat
    BY DEF LInv, Typed, RowT, OpT, Or
  <2>2. Save(r)
    BY <1>5
  <2>3. r \in RowT /\ r.status = "running" /\ r.ext = row.ext /\ r.pending = row.pending
    <3> HIDE DEF started
    <3> QED BY <2>1 DEF LInv, Typed, RowT
  <2> HIDE DEF r
  <2> QED BY <1>1, <1>2, <1>3, <2>2, <2>3, FinishFits, RowMoves DEF MarkRunning
<1> QED BY <1>4, <1>5 DEF MarkRunning

LEMMA FlushBeforePauseKeeps == ASSUME LInv, FlushBeforePause PROVE LInv'
<1>1. op.pc = "tidy" /\ row.status = "running" /\ UNCHANGED <<now, lost>>
  BY DEF FlushBeforePause, LInv, OpFits
<1>2. row.ext \in Boxes /\ row.ext # None /\ box[row.ext] \in BoxT /\ Live = box[row.ext].state
  BY <1>1, OpUses DEF Using
<1>3. op' \in OpT /\ op'.pc = "pause"
  BY GotoFits DEF FlushBeforePause, LInv, Typed, Using
<1>4. CASE UNCHANGED <<row, box>>
  <2>1. OpFits'
    BY <1>1, <1>2, <1>3, <1>4 DEF OpFits, Making, Using, Stopping
  <2> QED BY <1>1, <1>3, <1>4, <2>1, Moves DEF lost
<1>5. CASE Push /\ SetBox(row.ext, [box[row.ext] EXCEPT !.unpushed = FALSE])
  <2> DEFINE clean == [box[row.ext] EXCEPT !.unpushed = FALSE]
  <2>2. clean \in BoxT /\ clean.ready = box[row.ext].ready /\ ~clean.unpushed /\ clean.state = box[row.ext].state
    BY <1>2 DEF BoxT
  <2> HIDE DEF clean
  <2>3. /\ box' \in [Boxes -> BoxT] /\ box'[row.ext] = clean
        /\ \A x \in Boxes : x # row.ext => box'[x] = box[x]
    BY <1>2, <1>5, <2>2, SetBoxFits DEF LInv, Typed, clean
  <2>4. row' \in RowT /\ row'.ext = row.ext /\ row'.status = row.status
    BY <1>5 DEF Push, RowT, LInv, Typed
  <2>5. Typed' /\ RowFits'
    BY <1>1, <1>2, <1>3, <2>2, <2>3, <2>4 DEF LInv, Typed, RowFits, Whole, Live, lost
  <2>6. OpFits'
    BY <1>1, <1>2, <1>3, <2>4 DEF OpFits, Making, Using, Stopping
  <2>7. NothingLeaks'
    BY <1>1, <2>2, <2>3, <2>4 DEF LInv, NothingLeaks, lost
  <2> QED BY <2>5, <2>6, <2>7 DEF LInv
<1> QED BY <1>4, <1>5 DEF FlushBeforePause

LEMMA PauseKeeps == ASSUME LInv, Pause PROVE LInv'
<1>1. op.pc = "pause" /\ row.status = "running" /\ UNCHANGED <<now, row, lost>>
  BY DEF Pause, LInv, OpFits
<1>2. row.ext \in Boxes /\ row.ext # None /\ box[row.ext] \in BoxT /\ Live = box[row.ext].state
  BY <1>1, OpUses DEF Using
<1>3. CASE op' = Free /\ UNCHANGED box
  BY <1>1, <1>3, FreeType, Rests DEF lost
<1>4. CASE Live # "gone" /\ SetBox(row.ext, Asleep(box[row.ext])) /\ Goto("paused")
  <2>1. op' \in OpT /\ op'.pc = "paused"
    BY <1>4, GotoFits DEF LInv, Typed, Using
  <2> DEFINE v == Asleep(box[row.ext])
  <2>2. v \in BoxT /\ v.state = "paused" /\ v.ready = box[row.ext].ready /\ v.unpushed = box[row.ext].unpushed
    BY <1>2 DEF Asleep, BoxT
  <2> HIDE DEF v
  <2>3. OpFits'
    BY <1>1, <1>2, <2>1 DEF OpFits, Making, Using, Stopping
  <2> QED BY <1>1, <1>2, <1>4, <2>1, <2>2, <2>3, BoxMoves DEF v
<1> QED BY <1>3, <1>4 DEF Pause, Throw

LEMMA RecordPauseKeeps == ASSUME LInv, RecordPause PROVE LInv'
<1>1. op.pc = "paused" /\ row.status = "running" /\ UNCHANGED <<now, box, lost>>
  BY DEF RecordPause, LInv, OpFits
<1>2. row.ext # None /\ Whole
  BY <1>1 DEF LInv, RowFits
<1>3. op.at \in Nat /\ Billed(row, op.at) \in Nat
  BY Times DEF LInv, Typed, OpT
<1> DEFINE r == [PausedAt(op.at) EXCEPT !.seconds = @ + Billed(row, op.at)]
<1>4. r \in RowT /\ r.status = "paused" /\ r.ext = row.ext /\ r.pending = row.pending
  BY <1>3, PausedFits DEF LInv, Typed, RowT
<1> HIDE DEF r
<1>5. Save(r)
  BY DEF RecordPause, r
<1>6. CASE Finish
  BY <1>1, <1>2, <1>4, <1>5, <1>6, FinishFits, RowMoves
<1>7. CASE op' = [Free EXCEPT !.who = op.who, !.pc = "resume", !.seen = row.accessed]
  <2>1. op' \in OpT /\ op'.pc = "resume"
    <3>1. \A f \in OpT, t \in Nat :
            LET g == [f EXCEPT !.who = op.who, !.pc = "resume", !.seen = t] IN g \in OpT /\ g.pc = "resume"
      BY DEF OpT, Using, LInv, Typed
    <3>2. row.accessed \in Nat
      BY DEF RowT, LInv, Typed
    <3> QED BY <1>7, <3>1, <3>2, FreeType
  <2>2. row'.ext # None
    BY <1>2, <1>4, <1>5, SaveFits DEF LInv, Typed
  <2>3. OpFits'
    BY <2>1, <2>2 DEF OpFits, Making, Using, Stopping
  <2> QED BY <1>1, <1>2, <1>4, <1>5, <2>1, <2>3, RowMoves
<1> QED BY <1>6, <1>7 DEF RecordPause

LEMMA SweepKeeps == ASSUME LInv, Sweep PROVE LInv'
<1>1. op = Free /\ op.pc = "free" /\ UNCHANGED <<now, box, lost>>
  BY FreeType DEF Sweep
<1>2. CASE UNCHANGED row /\ \E status \in {"destroyed", "unhealthy"} : Enter("sweep", StopStep, "done", status)
  BY <1>1, <1>2, StopStepFits, EnterFits, Stops DEF LInv, Stopping
<1>3. CASE /\ UNCHANGED row /\ row.status = "running"
           /\ \E pc \in {"tidy", "pause", "extend"}, after \in {"idle", "rotate", None} :
                Enter("sweep", pc, after, None)
  <2>1. op' \in OpT /\ op'.pc \in {"tidy", "pause", "extend"}
    BY <1>3, EnterFits DEF LInv, Using
  <2>2. row.ext # None /\ Whole
    BY <1>3 DEF LInv, RowFits
  <2>3. OpFits'
    BY <1>1, <1>3, <2>1, <2>2 DEF OpFits, Making, Using, Stopping, Whole, Live, lost
  <2> QED BY <1>1, <1>3, <2>1, <2>3, Moves DEF lost
<1> DEFINE r == [PausedAt(Least(now, Or(row.expires, now))) EXCEPT !.seconds = @ + Billed(row, now)]
<1>4. CASE Save(r) /\ UNCHANGED op /\ row.status = "running"
  <2>1. Billed(row, now) \in Nat /\ Least(now, Or(row.expires, now)) \in Nat
    BY Times DEF LInv, Typed
  <2> DEFINE p == PausedAt(Least(now, Or(row.expires, now)))
  <2>2. p \in RowT /\ p.status = "paused" /\ p.ext = row.ext /\ p.pending = row.pending
    BY <2>1, PausedFits DEF LInv, Typed
  <2> HIDE DEF p
  <2>3. r \in RowT /\ r.status = "paused" /\ r.ext = row.ext /\ r.pending = row.pending
    <3>1. LET x == [p EXCEPT !.seconds = @ + Billed(row, now)]
          IN x \in RowT /\ x.status = p.status /\ x.ext = p.ext /\ x.pending = p.pending
      BY <2>1, <2>2 DEF RowT
    <3> QED BY <2>2, <3>1 DEF p
  <2> HIDE DEF r
  <2>4. op' \in OpT /\ OpFits'
    BY <1>1, <1>4 DEF OpFits, LInv, Typed, Making, Using, Stopping
  <2> QED BY <1>1, <1>4, <2>3, <2>4, RowMoves DEF LInv, RowFits
<1> HIDE DEF r
<1> QED BY <1>2, <1>3, <1>4 DEF Sweep, r

-----------------------------------------------------------------------------
(* The api, the provider, the clock and faults *)

\* A visit writes the time of the last access and nothing else.
LEMMA VisitKeeps ==
  ASSUME LInv, Save([row EXCEPT !.accessed = now]), UNCHANGED <<now, box, op, lost>>
  PROVE  LInv'
<1> DEFINE r == [row EXCEPT !.accessed = now]
<1>1. r \in RowT /\ r.status = row.status /\ r.ext = row.ext /\ r.pending = row.pending
  BY DEF LInv, Typed, RowT
<1> HIDE DEF r
<1>2. row' \in RowT /\ row'.status = row.status /\ row'.ext = row.ext /\ row'.pending = row.pending
  BY <1>1, SaveFits DEF r, LInv, Typed
<1>3. Typed' /\ RowFits'
  BY <1>2 DEF LInv, Typed, RowFits, Whole, Live, lost
<1>4. OpFits'
  BY <1>2 DEF LInv, OpFits, Whole, Live, lost
<1>5. NothingLeaks'
  BY <1>2 DEF LInv, NothingLeaks, lost
<1> QED BY <1>3, <1>4, <1>5 DEF LInv

LEMMA NothingMoves == ASSUME LInv, UNCHANGED <<now, row, box, op, lost>> PROVE LInv'
BY DEF LInv, Typed, RowFits, OpFits, NothingLeaks, Whole, Live, lost

LEMMA LeaveUnpushedKeeps == ASSUME LInv, LeaveUnpushed PROVE LInv'
<1>1. /\ op.pc = "free" /\ row.status = "running" /\ Running /\ UNCHANGED <<now, op, lost>>
      /\ row.ext # None /\ row.ext \in Boxes /\ box[row.ext] \in BoxT
  BY FreeType DEF LeaveUnpushed, LInv, RowFits, Typed, RowT
<1>2. row' \in RowT /\ row'.status = row.status /\ row'.ext = row.ext /\ row'.pending
  BY DEF LeaveUnpushed, LInv, Typed, RowT
<1> DEFINE v == [box[row.ext] EXCEPT !.unpushed = TRUE]
<1>3. v \in BoxT /\ v.state = box[row.ext].state /\ v.ready = box[row.ext].ready
  BY <1>1 DEF BoxT
<1> HIDE DEF v
<1>4. /\ box' \in [Boxes -> BoxT] /\ box'[row.ext] = v
      /\ \A x \in Boxes : x # row.ext => box'[x] = box[x]
  BY <1>1, <1>3, SetBoxFits DEF LeaveUnpushed, v, LInv, Typed
<1>5. Typed' /\ RowFits'
  BY <1>1, <1>2, <1>3, <1>4 DEF LInv, Typed, RowFits, Whole, Live, Running, lost
<1>6. OpFits'
  BY <1>1 DEF OpFits, Making, Using, Stopping
<1>7. NothingLeaks'
  BY <1>1, <1>2, <1>3, <1>4 DEF LInv, NothingLeaks, lost
<1> QED BY <1>5, <1>6, <1>7 DEF LInv

\* Sandboxes that only stop running, or are gone.
LEMMA FadesKeeps ==
  ASSUME LInv, UNCHANGED <<row, op, lost>>, now' \in Nat, box' \in [Boxes -> BoxT],
         \A b \in Boxes :
           \/ box'[b].state = "gone" /\ ~box'[b].unpushed
           \/ /\ box'[b].state = box[b].state \/ box[b].state = "running"
              /\ box'[b].state = "running" => box[b].state = "running"
              /\ box[b].state # "gone" /\ box'[b].state # "gone"
              /\ box'[b].ready = box[b].ready /\ box'[b].unpushed = box[b].unpushed
           \/ box'[b] = box[b]
  PROVE  LInv'
<1>1. Typed' /\ RowFits'
  BY DEF LInv, Typed, RowT, RowFits, Whole, Live, lost
<1>2. row.ext # None => row.ext \in Boxes
  BY DEF LInv, Typed, RowT
<1>3. OpFits'
  BY <1>2 DEF LInv, OpFits, Whole, Live, lost, Stopping
<1>4. NothingLeaks'
  BY DEF LInv, NothingLeaks, lost
<1> QED BY <1>1, <1>3, <1>4 DEF LInv

LEMMA TickKeeps == ASSUME LInv, Tick PROVE LInv'
<1>1. UNCHANGED <<row, op, lost>> /\ now' \in Nat
  BY DEF Tick, LInv, Typed
<1>2. \A v \in BoxT : /\ Asleep(v) \in BoxT /\ Asleep(v).state = "paused"
                      /\ Asleep(v).ready = v.ready /\ Asleep(v).unpushed = v.unpushed
  BY DEF Asleep, BoxT
<1>3. box' = [b \in Boxes |-> IF box[b].state = "running" /\ box[b].deadline <= now + 1
                               THEN Asleep(box[b]) ELSE box[b]]
  BY DEF Tick
<1>4. box' \in [Boxes -> BoxT]
  BY <1>2, <1>3 DEF LInv, Typed
<1>5. \A b \in Boxes : box'[b] = box[b] \/ (box[b].state = "running" /\ box'[b] = Asleep(box[b]))
  BY <1>3
<1>6. \A b \in Boxes : box[b] \in BoxT
  BY DEF LInv, Typed
<1> QED BY <1>1, <1>2, <1>4, <1>5, <1>6, FadesKeeps

LEMMA BreakKeeps == ASSUME LInv, Break PROVE LInv'
<1>1. UNCHANGED <<now, row, op, lost>> /\ now' \in Nat
  BY DEF Break, LInv, Typed
<1>2. PICK b \in Boxes : /\ box[b].state # "gone"
                         /\ SetBox(b, [box[b] EXCEPT !.up = FALSE]) \/ SetBox(b, Gone)
  BY DEF Break
<1>3. box[b] \in BoxT
  BY <1>2 DEF LInv, Typed
<1> DEFINE v == [box[b] EXCEPT !.up = FALSE]
<1>4. v \in BoxT /\ v.state = box[b].state /\ v.ready = box[b].ready /\ v.unpushed = box[b].unpushed
  BY <1>3 DEF BoxT
<1> HIDE DEF v
<1>5. CASE SetBox(b, v)
  <2>1. box' \in [Boxes -> BoxT] /\ box'[b] = v /\ \A x \in Boxes : x # b => box'[x] = box[x]
    BY <1>2, <1>4, <1>5, SetBoxFits DEF LInv, Typed
  <2> QED BY <1>1, <1>2, <1>4, <2>1, FadesKeeps
<1>6. CASE SetBox(b, Gone)
  <2>1. box' \in [Boxes -> BoxT] /\ box'[b] = Gone /\ \A x \in Boxes : x # b => box'[x] = box[x]
    BY <1>2, <1>6, GoneType, SetBoxFits DEF LInv, Typed
  <2> QED BY <1>1, <2>1, GoneType, FadesKeeps
<1> QED BY <1>2, <1>5, <1>6 DEF v

\* A call that fails, a crash, a lock that expires: the handler ends where it is.
LEMMA FaultKeeps == ASSUME LInv, CallFails \/ Crash PROVE LInv'
<1>1. UNCHANGED <<now, row, box, halfway>> /\ orphans \subseteq orphans'
      /\ (op.pc = "record" => op.box \in orphans')
  BY DEF CallFails, Crash
<1>2. op' \in OpT /\ op'.pc \in {"free", "dead"}
  <2>1. CASE op' = Free
    BY <2>1, FreeType
  <2>2. CASE op' = [Free EXCEPT !.pc = "dead"]
    <3>1. \A f \in OpT : LET g == [f EXCEPT !.pc = "dead"] IN g \in OpT /\ g.pc = "dead"
      BY DEF OpT
    <3> QED BY <2>2, <3>1, FreeType
  <2> QED BY <2>1, <2>2 DEF CallFails, Crash, Throw
<1> QED BY <1>1, <1>2, Rests

LEMMA ExpireKeeps == ASSUME LInv, Expire PROVE LInv'
BY FreeType, Rests DEF Expire, lost

-----------------------------------------------------------------------------
(* The invariant, and what it says of every behaviour *)

LEMMA Starts == ASSUME Init PROVE LInv
<1>1. now = 0 /\ op = Free
  BY DEF Init
<1>2. CASE /\ row = [status |-> "destroyed", ext |-> None, token |-> FALSE, started |-> None, expires |-> None,
                     paused |-> None, accessed |-> 0, updated |-> 0, pending |-> FALSE, seconds |-> 0]
           /\ box = [x \in Boxes |-> Gone]
  <2>1. Typed
    BY <1>1, <1>2, FreeType, GoneType DEF Typed, RowT
  <2>2. RowFits /\ OpFits /\ NothingLeaks
    BY <1>1, <1>2, FreeType, GoneType DEF RowFits, OpFits, NothingLeaks, Making, Using, Stopping
  <2> QED BY <2>1, <2>2 DEF LInv
<1> DEFINE up == [Gone EXCEPT !.state = "running", !.deadline = IdlePause, !.ready = TRUE, !.up = TRUE]
<1>3. up \in BoxT /\ up.ready /\ ~up.unpushed /\ up.state = "running"
  BY Constants DEF Gone, BoxT
<1> HIDE DEF up
<1>4. ASSUME NEW b \in Boxes,
             row = [status |-> "running", ext |-> b, token |-> FALSE, started |-> 0, expires |-> IdlePause,
                    paused |-> None, accessed |-> 0, updated |-> 0, pending |-> FALSE, seconds |-> 0],
             box = [x \in Boxes |-> IF x = b THEN up ELSE Gone]
      PROVE  LInv
  <2>1. Typed
    BY <1>1, <1>3, <1>4, FreeType, GoneType, Constants DEF Typed, RowT
  <2>2. row.ext = b /\ row.status = "running" /\ b # None /\ box[b] = up
    BY <1>4, Constants
  <2>3. RowFits
    BY <1>3, <1>4, <2>2, GoneType DEF RowFits, Whole
  <2>4. OpFits /\ NothingLeaks
    BY <1>1, <1>4, <2>2, FreeType, GoneType DEF OpFits, NothingLeaks, Making, Using, Stopping
  <2> QED BY <2>1, <2>3, <2>4 DEF LInv
<1>5. PICK legacy \in BOOLEAN, b \in {x \in Boxes : \A y \in Boxes : x <= y} :
        /\ row = [status |-> IF legacy THEN "running" ELSE "destroyed",
                  ext |-> IF legacy THEN b ELSE None, token |-> FALSE,
                  started |-> IF legacy THEN 0 ELSE None, expires |-> IF legacy THEN IdlePause ELSE None,
                  paused |-> None, accessed |-> 0, updated |-> 0, pending |-> FALSE, seconds |-> 0]
        /\ box = [x \in Boxes |-> IF legacy /\ x = b THEN up ELSE Gone]
  BY DEF Init, up
<1>6. CASE legacy
  BY <1>4, <1>5, <1>6
<1>7. CASE ~legacy
  BY <1>2, <1>5, <1>7
<1> QED BY <1>6, <1>7

LEMMA Keeps == ASSUME LInv, [Next]_vars PROVE LInv'
<1>1. CASE \E k \in Kinds : Take(k) \/ MarkFailed(k)
  BY <1>1, TakeKeeps, MarkFailedKeeps
<1>2. CASE Flush \/ Destroy \/ RecordStop
  BY <1>2, FlushKeeps, DestroyKeeps, RecordStopKeeps
<1>3. CASE Create \/ Boot \/ RecordCreated \/ BootstrapBox \/ Extend \/ RecordExtended
  BY <1>3, CreateKeeps, BootKeeps, RecordCreatedKeeps, BootstrapKeeps, ExtendKeeps, RecordExtendedKeeps
<1>4. CASE Resume \/ RecordResumed \/ Health \/ Recover \/ Restart \/ RecordRestarted \/ MarkRunning
  BY <1>4, ResumeKeeps, RecordResumedKeeps, HealthKeeps, RecoverKeeps, RestartKeeps, RecordRestartedKeeps,
     MarkRunningKeeps
<1>5. CASE FlushBeforePause \/ Pause \/ RecordPause \/ Sweep
  BY <1>5, FlushBeforePauseKeeps, PauseKeeps, RecordPauseKeeps, SweepKeeps
<1>6. CASE Heartbeat \/ \E k \in {"restart", "rebuild"} : Request(k)
  BY <1>6, VisitKeeps DEF Heartbeat, Request
<1>7. CASE OpenEditor \/ CloseEditor \/ Wake \/ UNCHANGED vars
  BY <1>7, NothingMoves DEF OpenEditor, CloseEditor, Wake, vars
<1>8. CASE LeaveUnpushed \/ Tick \/ Break
  BY <1>8, LeaveUnpushedKeeps, TickKeeps, BreakKeeps
<1>9. CASE CallFails \/ Crash \/ Expire
  BY <1>9, FaultKeeps, ExpireKeeps
<1> QED BY <1>1, <1>2, <1>3, <1>4, <1>5, <1>6, <1>7, <1>8, <1>9 DEF Next, Proceed

THEOREM Invariant == Spec => []LInv
BY Starts, Keeps, PTL DEF Spec

\* create, "recorded before bootstrapping": for every timing and any number of faults, what runs at the
\* provider is in the row or about to be written there, or its creator died before it could.
THEOREM NoSandboxLeaks == Spec => []NothingLeaks
<1>1. LInv => NothingLeaks
  BY DEF LInv
<1> QED BY <1>1, Invariant, PTL

\* ensureLoaded, resume, recover: what a handler leaves running was started to the end, unless an
\* interrupted start was resumed.
THEOREM RunningWasStarted == Spec => []RunningIsComplete
<1>1. LInv => RunningIsComplete
  BY DEF LInv, RowFits, Whole, Running, RunningIsComplete
<1> QED BY <1>1, Invariant, PTL

\* flushBeforeDestroy: no sandbox is destroyed with the only copy of a commit.
THEOREM CommitsOutliveSandboxes == Spec => UnpushedIsKept
<1>1. ASSUME LInv, [Next]_vars, NEW b \in Boxes, op.pc = "destroy", op'.pc = "stopped", box[b].unpushed
      PROVE  box'[b].unpushed
  <2>1. op # Free /\ op' # Free /\ op' # op
    BY <1>1, FreeType
  <2>2. ~Crash
    <3>1. [Free EXCEPT !.pc = "dead"].pc = "dead"
      BY DEF Free
    <3> QED BY <1>1, <3>1 DEF Crash
  <2>3. Destroy
    BY <1>1, <2>1, <2>2 DEF Next, Proceed, Take, MarkFailed, Flush, RecordStop, Create, Boot, RecordCreated,
       BootstrapBox, Extend, RecordExtended, Resume, RecordResumed, Health, Recover, Restart, RecordRestarted,
       MarkRunning, FlushBeforePause, Pause, RecordPause, Sweep, Heartbeat, OpenEditor, CloseEditor, Wake,
       LeaveUnpushed, Request, Tick, CallFails, Expire, Break, Throw, vars
  <2>4. row.ext \in Boxes /\ ~box[row.ext].unpushed
    BY <1>1 DEF LInv, Typed, RowT, OpFits
  <2>5. box'[b] = box[b]
    BY <1>1, <2>3, <2>4, SetBoxFits, GoneType DEF Destroy, LInv, Typed
  <2> QED BY <1>1, <2>5
<1>2. LInv /\ [Next]_vars =>
        [\A b \in Boxes : op.pc = "destroy" /\ op'.pc = "stopped" /\ box[b].unpushed => box'[b].unpushed]_vars
  BY <1>1
<1> QED BY <1>2, Invariant, PTL DEF Spec, UnpushedIsKept

-----------------------------------------------------------------------------
(***************************************************************************)
(* The bill.  That it never exceeds what was run is not inductive: a later *)
(* deadline may add to it all that lies between, so the whole of a stretch *)
(* that the provider still runs has to have been run (Run, second part);   *)
(* and a stretch that begins must begin after all that was billed before   *)
(* (Tallied).  Without a fault the stretch that the row has open is the    *)
(* one the provider runs, up to the step in which a handler changes one    *)
(* and has yet to write the other (Steady).                                *)
(***************************************************************************)
Counters == ran \in Nat /\ faults \in Nat /\ astray \in BOOLEAN

\* What was billed lies before the open stretch, and before the provider's if the row has none open.
Tallied ==
  /\ row.seconds <= now
  /\ row.started # None => row.expires # None /\ row.started <= now /\ row.seconds <= row.started
  /\ Running => box[row.ext].started <= now
  /\ Running /\ row.started = None => row.seconds <= box[row.ext].started

\* What was billed, with the open stretch as the row has it and as the provider runs it, was run.
Run ==
  ~astray =>
    /\ row.seconds + Billed(row, now) <= ran
    /\ Running /\ row.started \in {None, box[row.ext].started} => row.seconds + (now - box[row.ext].started) <= ran

\* What a handler takes for the start or the end of a stretch.
OpTimes ==
  /\ op.pc \in {"record", "resumed"} => op.at = now
  /\ op.pc = "record" => box[op.box].started <= now
  /\ op.pc \in {"tidy", "pause", "paused", "running"} => op.at <= now
  /\ op.pc = "paused" => ~Running
  /\ op.pc = "running" /\ row.started = None => row.seconds <= op.at

\* The provider's deadline is the row's, or a later one, unless the row's has passed.
Covered == row.expires <= now \/ (Running /\ box[row.ext].deadline >= row.expires)

Steady ==
  faults = 0 =>
    /\ ~astray
    /\ row.started # None /\ op.pc \notin {"extended", "paused", "stopped"} => Covered
    /\ row.started # None /\ Running /\ op.pc \notin {"destroy", "resumed"} => box[row.ext].started = row.started
    /\ row.status = "paused" /\ op.pc \notin {"destroy", "resumed"} => ~Running
    /\ op.pc \in {"extended", "resumed"} => Running /\ box[row.ext].deadline = op.until
    /\ op.pc = "resumed" => box[row.ext].started = op.at
    /\ op.pc = "record" => /\ box[op.box].state = "running" /\ box[op.box].deadline = op.until
                           /\ box[op.box].started = op.at
    /\ op.pc = "resume" /\ row.started # None => row.expires <= now
    /\ op.pc = "running" => row.status = "running"

Metered == Counters /\ Tallied /\ Run /\ OpTimes /\ Steady

-----------------------------------------------------------------------------
(* What billing computes *)

LEMMA MeterTypes ==
  ASSUME LInv
  PROVE  /\ now \in Nat /\ row.seconds \in Nat /\ op.at \in Nat /\ op.until \in Nat
         /\ row.started \in Nat \cup {None} /\ row.expires \in Nat \cup {None} /\ None \notin Nat
         /\ Running => /\ row.ext \in Boxes /\ row.ext # None /\ box[row.ext] \in BoxT
                       /\ box[row.ext].state = "running"
                       /\ box[row.ext].started \in Nat /\ box[row.ext].deadline \in Nat
<1>1. now \in Nat /\ row.seconds \in Nat /\ op.at \in Nat /\ op.until \in Nat
  BY DEF LInv, Typed, RowT, OpT
<1>2. row.started \in Nat \cup {None} /\ row.expires \in Nat \cup {None} /\ None \notin Nat
  BY Constants DEF LInv, Typed, RowT
<1>3. ASSUME Running
      PROVE  row.ext \in Boxes /\ row.ext # None /\ box[row.ext] \in BoxT /\ box[row.ext].state = "running"
  BY <1>3 DEF Running, Live, LInv, Typed, RowT
<1>4. Running => box[row.ext].started \in Nat /\ box[row.ext].deadline \in Nat
  BY <1>3 DEF BoxT
<1> QED BY <1>1, <1>2, <1>3, <1>4

\* A stretch is billed up to t or its deadline; nothing, if it begins at t or later.
LEMMA Bill ==
  ASSUME NEW r, r.started \in Nat \cup {None}, r.expires \in Nat \cup {None}, NEW t \in Nat,
         r.started # None => r.expires # None
  PROVE  /\ Billed(r, t) \in Nat
         /\ r.started = None => Billed(r, t) = 0
         /\ r.started # None /\ t <= r.started => Billed(r, t) = 0
         /\ r.started # None /\ r.started <= t => Billed(r, t) <= t - r.started
BY Constants DEF Billed, Least, Or

\* Time passes: the bill grows by it, until the deadline.
LEMMA BillGrows ==
  ASSUME NEW r, r.started \in Nat \cup {None}, r.expires \in Nat \cup {None}, NEW t \in Nat,
         r.started # None => r.expires # None
  PROVE  /\ Billed(r, t + 1) <= Billed(r, t) + 1
         /\ r.started # None /\ r.expires <= t => Billed(r, t + 1) = Billed(r, t)
         /\ \A u \in Nat : u <= t => Billed(r, u) <= Billed(r, t)
BY Constants DEF Billed, Least, Or

LEMMA BillSame ==
  ASSUME NEW r, NEW q, r.started = q.started, r.expires = q.expires, NEW t
  PROVE  Billed(r, t) = Billed(q, t)
BY DEF Billed

\* A write of the row, but for the time it was written.
LEMMA SaveMeters ==
  ASSUME NEW r \in RowT, Save(r)
  PROVE  /\ row'.started = r.started /\ row'.expires = r.expires /\ row'.seconds = r.seconds
         /\ row'.ext = r.ext /\ row'.status = r.status
BY DEF Save, RowT

\* A row with more seconds; one that has no stretch open.
LEMMA AddSeconds ==
  ASSUME NEW r \in RowT, NEW n \in Nat, NEW q, q = [r EXCEPT !.seconds = @ + n]
  PROVE  /\ q \in RowT /\ q.seconds = r.seconds + n /\ q.started = r.started /\ q.expires = r.expires
         /\ q.ext = r.ext /\ q.status = r.status
BY DEF RowT

LEMMA ClosedRows ==
  ASSUME row \in RowT, NEW status \in {"starting", "destroyed", "unhealthy"}, NEW t \in Nat
  PROVE  /\ Stopped(status) \in RowT /\ Stopped(status).started = None
         /\ Stopped(status).seconds = row.seconds
         /\ Stopped(status).ext = None /\ Stopped(status).status = status
         /\ PausedAt(t) \in RowT /\ PausedAt(t).started = None /\ PausedAt(t).seconds = row.seconds
         /\ PausedAt(t).ext = row.ext /\ PausedAt(t).status = "paused"
BY DEF Stopped, PausedAt, RowT

-----------------------------------------------------------------------------
(* What a step does to the bill *)

\* The row's stretch stays as it is, and the sandbox runs on, stops, or begins to run now.
LEMMA StretchGoesOn ==
  ASSUME LInv, Tallied, Run, Counters, UNCHANGED <<now, meter>>,
         row'.started = row.started, row'.expires = row.expires, row'.seconds = row.seconds,
         Running' => \/ Running /\ box'[row'.ext].started = box[row.ext].started
                     \/ box'[row'.ext].started = now
  PROVE  Tallied' /\ Run'
<1>1. Billed(row', now) = Billed(row, now)
  BY BillSame
<1>2. Tallied'
  BY MeterTypes DEF Tallied
<1>3. Billed(row, now) \in Nat
  BY MeterTypes, Bill DEF Tallied
<1>4. Run'
  BY <1>1, <1>3, MeterTypes DEF Run, Counters, meter
<1> QED BY <1>2, <1>4

\* The row's stretch ends, billed up to t, or left out of the bill.
LEMMA StretchEnds ==
  ASSUME LInv, Tallied, Run, Counters, UNCHANGED <<now, meter>>, NEW t \in Nat, t <= now,
         row'.started = None, row'.seconds \in {row.seconds, row.seconds + Billed(row, t)}, ~Running'
  PROVE  Tallied' /\ Run'
<1>1. Billed(row, t) \in Nat /\ Billed(row, now) \in Nat /\ Billed(row, t) <= Billed(row, now)
  BY MeterTypes, Bill, BillGrows DEF Tallied
<1>2. Billed(row', now) = 0
  BY DEF Billed
<1>3. row.seconds + Billed(row, t) <= now
  <2>1. CASE row.started = None
    BY <2>1, MeterTypes, Bill DEF Tallied
  <2>2. CASE row.started # None /\ t <= row.started
    BY <2>2, MeterTypes, Bill DEF Tallied
  <2>3. CASE row.started # None /\ row.started <= t
    <3>1. Billed(row, t) <= t - row.started
      BY <2>3, MeterTypes, Bill DEF Tallied
    <3> QED BY <1>1, <2>3, <3>1, MeterTypes DEF Tallied
  <2> QED BY <2>1, <2>2, <2>3, MeterTypes
<1>4. Tallied'
  BY <1>1, <1>3, MeterTypes DEF Tallied
<1>5. Run'
  BY <1>1, <1>2, MeterTypes DEF Run, Counters, meter
<1> QED BY <1>4, <1>5

\* A stretch begins now; the one before it, if the row has one, is billed or left out of the bill.
LEMMA StretchBegins ==
  ASSUME LInv, Tallied, Run, Counters, UNCHANGED <<now, meter>>,
         row'.started = now, row'.expires \in Nat,
         row'.seconds \in {row.seconds, row.seconds + Billed(row, now)},
         Running' => box'[row'.ext].started \in Nat /\ box'[row'.ext].started <= now
  PROVE  Tallied' /\ Run'
<1>1. Billed(row, now) \in Nat
  BY MeterTypes, Bill DEF Tallied
<1>2. Billed(row', now) = 0
  BY MeterTypes DEF Billed, Least, Or
<1>3. row.seconds + Billed(row, now) <= now
  <2>1. CASE row.started = None
    BY <2>1, MeterTypes, Bill DEF Tallied
  <2>2. CASE row.started # None
    <3>1. Billed(row, now) <= now - row.started
      BY <2>2, MeterTypes, Bill DEF Tallied
    <3> QED BY <1>1, <2>2, <3>1, MeterTypes DEF Tallied
  <2> QED BY <2>1, <2>2
<1>4. Tallied'
  BY <1>1, <1>3, MeterTypes DEF Tallied
<1>5. Run'
  BY <1>1, <1>2, MeterTypes DEF Run, Counters, meter
<1> QED BY <1>4, <1>5

\* The row is given another deadline, and is opened where the handler takes it to have begun.
LEMMA StretchIsMoved ==
  ASSUME LInv, Tallied, Run, Counters, now' = now, ran' = ran, box' = box, row'.ext = row.ext,
         NEW started \in Nat \cup {None}, started # None => started <= now /\ row.seconds <= started,
         row.started # None => started = row.started,
         row'.started = started, row'.expires \in Nat, row'.seconds = row.seconds,
         astray' = (astray \/ Astray(started)),
         Running /\ started = None => row.seconds <= box[row.ext].started
  PROVE  Tallied' /\ Run'
<1>1. Running' = Running
  BY DEF Running, Live
<1>2. Tallied'
  BY <1>1, MeterTypes DEF Tallied
<1>3. Billed(row', now) \in Nat
  BY MeterTypes, Bill
<1>4. Run'
  <2> SUFFICES ASSUME ~astray' PROVE Run'
    BY DEF Run
  <2>1. ~astray /\ ~Astray(started)
    BY DEF Counters
  <2>2. CASE started = None
    <3>1. row.started = None
      BY <2>2
    <3>2. Billed(row', now) = 0 /\ Billed(row, now) = 0
      BY <2>2, <3>1 DEF Billed
    <3> QED BY <1>1, <2>1, <2>2, <3>1, <3>2, MeterTypes DEF Run
  <2>3. CASE started # None
    <3>1. Running /\ box[row.ext].started = started
      BY <2>1, <2>3 DEF Astray
    <3>2. row.seconds + (now - started) <= ran
      BY <2>1, <3>1 DEF Run
    <3>3. Billed(row', now) <= now - started
      BY <2>3, MeterTypes, Bill
    <3> QED BY <1>1, <1>3, <2>3, <3>1, <3>2, <3>3, MeterTypes DEF Run, Counters
  <2> QED BY <2>2, <2>3
<1> QED BY <1>2, <1>4

-----------------------------------------------------------------------------
(* What a step does to the handler's times, and to the provider's *)

Timed == {"record", "resumed", "tidy", "pause", "paused", "running"}

LEMMA QuietOp == ASSUME op'.pc \notin Timed PROVE OpTimes'
BY DEF OpTimes, Timed

\* What Steady says needs no proof once something has failed.
LEMMA AfterAFault == ASSUME faults' # 0 PROVE Steady'
BY DEF Steady

LEMMA CountersKept ==
  ASSUME Counters, ran' = ran, astray' \in BOOLEAN, faults' \in {faults, faults + 1}
  PROVE  Counters' /\ (faults' = 0 => faults = 0) /\ (faults' = faults + 1 => faults' # 0)
BY DEF Counters

\* A step that leaves the row's stretch and its sandbox's alone.
LEMMA Steadily ==
  ASSUME LInv, Steady, UNCHANGED <<now, meter, faults>>,
         row'.started = row.started, row'.expires = row.expires,
         row'.status = row.status \/ row'.status # "paused",
         Running' = Running, Running => /\ box'[row'.ext].started = box[row.ext].started
                                        /\ box'[row'.ext].deadline = box[row.ext].deadline,
         op.pc \notin {"extended", "paused", "stopped", "destroy", "resumed"},
         op'.pc \notin {"extended", "resumed", "record", "resume", "running"}
  PROVE  Steady'
BY DEF Steady, Covered, meter

\* The holder goes on, without a call or a write that the bill depends on.
LEMMA Plods ==
  ASSUME LInv, Metered, UNCHANGED <<now, meter, faults>>,
         row'.started = row.started, row'.expires = row.expires, row'.seconds = row.seconds,
         row'.status = row.status \/ row'.status # "paused",
         Running' = Running, Running => /\ box'[row'.ext].started = box[row.ext].started
                                        /\ box'[row'.ext].deadline = box[row.ext].deadline,
         op.pc \notin {"extended", "paused", "stopped", "destroy", "resumed"},
         op'.pc \notin Timed \cup {"extended", "resume"}
  PROVE  Metered'
<1>1. Counters'
  BY DEF Metered, Counters, meter
<1>2. Tallied' /\ Run'
  BY StretchGoesOn DEF Metered
<1>3. OpTimes'
  BY QuietOp
<1>4. Steady'
  BY Steadily DEF Metered, Timed
<1> QED BY <1>1, <1>2, <1>3, <1>4 DEF Metered

\* Something fails on the way; the sandbox may just have been woken.
LEMMA Fails ==
  ASSUME LInv, Metered, UNCHANGED <<now, meter>>, faults' = faults + 1,
         row'.started = row.started, row'.expires = row.expires, row'.seconds = row.seconds,
         Running' => \/ Running /\ box'[row'.ext].started = box[row.ext].started
                     \/ box'[row'.ext].started = now,
         OpTimes'
  PROVE  Metered'
<1>1. Counters' /\ faults' # 0
  BY DEF Metered, Counters, meter
<1>2. Tallied' /\ Run'
  BY StretchGoesOn DEF Metered
<1>3. Steady'
  BY <1>1, AfterAFault
<1> QED BY <1>1, <1>2, <1>3 DEF Metered

\* A step of someone who does not hold the lock: the handler is where it was.
LEMMA Passes ==
  ASSUME LInv, Metered, UNCHANGED <<now, meter, op, faults>>,
         row'.started = row.started, row'.expires = row.expires, row'.seconds = row.seconds,
         row'.status = row.status, row'.ext = row.ext,
         \A b \in Boxes : /\ box'[b].state = box[b].state /\ box'[b].started = box[b].started
                          /\ box'[b].deadline = box[b].deadline
  PROVE  Metered'
<1>1. Counters'
  BY DEF Metered, Counters, meter
<1>2. /\ Running' = Running
      /\ Running => /\ box'[row'.ext].started = box[row.ext].started
                    /\ box'[row'.ext].deadline = box[row.ext].deadline
      /\ op.pc = "record" => op.box \in Boxes
  BY DEF Running, Live, LInv, Typed, RowT, OpFits
<1>3. Tallied' /\ Run'
  BY <1>2, StretchGoesOn DEF Metered
<1>4. OpTimes'
  BY <1>2 DEF Metered, OpTimes
<1>5. Steady'
  BY <1>2 DEF Metered, Steady, Covered, meter
<1> QED BY <1>1, <1>3, <1>4, <1>5 DEF Metered

\* The handler ends: it goes on to create, or it is over.
LEMMA ThrowEnds == ASSUME Throw \/ Finish PROVE op'.pc = "free"
BY FreeType DEF Throw, Finish

LEMMA StopStepIs == StopStep \in {"flush", "destroy", "stopped"}
BY DEF StopStep

LEMMA GotoIs == ASSUME LInv, NEW pc, Goto(pc) PROVE op'.pc = pc /\ op'.at = op.at /\ op'.until = op.until
BY DEF Goto, LInv, Typed, OpT

LEMMA BeginIs == ASSUME NEW pc, Begin(pc) PROVE op'.pc = pc
BY DEF Begin, Free

LEMMA StopThenIs == ASSUME NEW after, NEW status, StopThen(after, status) PROVE op'.pc \in {"flush", "destroy", "stopped"}
BY StopStepIs DEF StopThen, Free

-----------------------------------------------------------------------------
(* One lemma per action *)

LEMMA SameRunning ==
  ASSUME UNCHANGED box, row'.ext = row.ext
  PROVE  /\ Running' = Running
         /\ box'[row'.ext].started = box[row.ext].started /\ box'[row'.ext].deadline = box[row.ext].deadline
BY DEF Running, Live

LEMMA TakeMeters == ASSUME LInv, Metered, NEW k \in Kinds, Take(k) PROVE Metered'
<1>1. op.pc = "free" /\ UNCHANGED <<now, row, box, meter, faults>>
  BY FreeType DEF Take, bounds
<1>2. CASE \E pc \in {"flush", "destroy", "stopped", "create", "recover"} :
             \E after \in {None, "create"}, status \in {None, "destroyed"} : Enter(k, pc, after, status)
  <2>1. op'.pc \in {"flush", "destroy", "stopped", "create", "recover"}
    BY <1>2, EnterFits DEF LInv, Stopping, Making, Using
  <2> QED BY <1>1, <2>1, SameRunning, Plods DEF Timed
<1>3. CASE Enter(k, "resume", None, None) /\ ~Running
  <2>1. op'.pc = "resume"
    BY <1>3, EnterFits DEF LInv, Using
  <2>2. Counters' /\ OpTimes'
    BY <1>1, <2>1, QuietOp DEF Metered, Counters, meter, Timed
  <2>3. Tallied' /\ Run'
    BY <1>1, SameRunning, StretchGoesOn DEF Metered
  <2>4. Steady'
    BY <1>1, <1>3, <2>1, SameRunning DEF Metered, Steady, Covered, meter
  <2> QED BY <2>2, <2>3, <2>4 DEF Metered
<1>4. CASE Enter(k, "running", None, None) /\ row.ext # None /\ Running /\ row.status # "starting"
  <2>1. op'.pc = "running" /\ op'.at = box[row.ext].started
    BY <1>4, MeterTypes, EnterFits DEF LInv, Using
  <2>2. Counters' /\ Tallied' /\ Run'
    BY <1>1, SameRunning, StretchGoesOn DEF Metered, Counters, meter
  <2>3. OpTimes'
    BY <1>1, <1>4, <2>1 DEF OpTimes, Metered, Tallied
  <2>4. row.status \in {"running", "paused"}
    BY <1>4 DEF LInv, Typed, RowT, RowFits
  <2>5. Steady'
    BY <1>1, <1>4, <2>1, <2>4, SameRunning DEF Metered, Steady, Covered, meter
  <2> QED BY <2>2, <2>3, <2>5 DEF Metered
<1>5. StopStep \in {"flush", "destroy", "stopped"}
  BY StopStepIs
<1> QED BY <1>2, <1>3, <1>4, <1>5 DEF Take, Ensure, Running, Live, Kinds

LEMMA MarkFailedMeters == ASSUME LInv, Metered, NEW k \in Kinds, MarkFailed(k) PROVE Metered'
<1>1. UNCHANGED <<now, row, box, meter, faults>>
  BY DEF MarkFailed, bounds
<1>2. CASE op = Free /\ Enter(k, StopStep, "drop", "unhealthy")
  <2>1. op'.pc \in {"flush", "destroy", "stopped"} /\ op.pc = "free"
    BY <1>2, StopStepIs, FreeType, EnterFits DEF LInv, Stopping
  <2> QED BY <1>1, <2>1, SameRunning, Plods DEF Timed
<1>3. CASE UNCHANGED op
  BY <1>1, <1>3, Passes
<1> QED BY <1>2, <1>3 DEF MarkFailed

LEMMA DestroyMeters == ASSUME LInv, Metered, Destroy PROVE Metered'
<1>1. /\ UNCHANGED <<now, row, meter, faults>> /\ op.pc = "destroy" /\ op'.pc = "stopped"
      /\ SetBox(row.ext, Gone)
  BY GotoIs DEF Destroy, bounds
<1>2. ~Running'
  <2>1. row.ext \in Boxes
    BY <1>1 DEF LInv, OpFits, Typed, RowT
  <2> QED BY <1>1, <2>1, GoneType, SetBoxFits DEF LInv, Typed, Running, Live
<1>3. Counters' /\ Tallied' /\ Run'
  BY <1>1, <1>2, StretchGoesOn DEF Metered, Counters, meter
<1>4. OpTimes' /\ Steady'
  BY <1>1, <1>2, QuietOp DEF Timed, Metered, Steady, meter
<1> QED BY <1>3, <1>4 DEF Metered

LEMMA RecordStopMeters == ASSUME LInv, Metered, RecordStop PROVE Metered'
<1>1. UNCHANGED <<now, box, meter, faults>> /\ op.status \in {"destroyed", "unhealthy"}
  BY DEF RecordStop, bounds, LInv, OpFits, Stopping
<1> DEFINE r == [Stopped(op.status) EXCEPT !.seconds = @ + Billed(row, now)]
<1>2. /\ r \in RowT /\ r.status = op.status /\ r.ext = None /\ r.started = None
      /\ r.seconds = row.seconds + Billed(row, now)
  <2>1. Billed(row, now) \in Nat /\ row \in RowT
    BY MeterTypes, Bill DEF Metered, Tallied, LInv, Typed
  <2> HIDE DEF r
  <2>2. r = [Stopped(op.status) EXCEPT !.seconds = @ + Billed(row, now)]
    BY DEF r
  <2>3. /\ Stopped(op.status) \in RowT /\ Stopped(op.status).started = None
        /\ Stopped(op.status).seconds = row.seconds
        /\ Stopped(op.status).ext = None /\ Stopped(op.status).status = op.status
    BY <1>1, <2>1, MeterTypes, ClosedRows
  <2> QED BY <2>1, <2>2, <2>3, AddSeconds
<1> HIDE DEF r
<1>3. Save(r)
  BY DEF RecordStop, r
<1>4. /\ row'.status = op.status /\ row'.ext = None /\ row'.started = None
      /\ row'.seconds = row.seconds + Billed(row, now) /\ ~Running'
  BY <1>2, <1>3, SaveMeters DEF Running, Live
<1>5. op'.pc \in {"free", "create"}
  BY ThrowEnds, BeginIs DEF RecordStop
<1>6. Tallied' /\ Run'
  BY <1>1, <1>4, MeterTypes, StretchEnds DEF Metered
<1>7. Counters' /\ OpTimes' /\ Steady'
  BY <1>1, <1>4, <1>5, QuietOp DEF Timed, Metered, Counters, Steady, meter
<1> QED BY <1>6, <1>7 DEF Metered

LEMMA CreateMeters == ASSUME LInv, Metered, Create PROVE Metered'
<1>1. UNCHANGED <<now, box, meter, faults>> /\ op'.pc = "boot"
  BY GotoIs DEF Create, bounds
<1>2. /\ Stopped("starting") \in RowT /\ Stopped("starting").ext = None /\ Stopped("starting").started = None
      /\ Stopped("starting").seconds = row.seconds /\ Stopped("starting").status = "starting"
  BY DEF Stopped, RowT, LInv, Typed
<1>3. /\ row'.status = "starting" /\ row'.ext = None /\ row'.started = None
      /\ row'.seconds = row.seconds /\ ~Running'
  BY <1>2, SaveMeters DEF Create, Running, Live
<1>4. Tallied' /\ Run'
  BY <1>1, <1>3, MeterTypes, StretchEnds DEF Metered
<1>5. Counters' /\ OpTimes' /\ Steady'
  BY <1>1, <1>3, QuietOp DEF Timed, Metered, Counters, Steady, meter
<1> QED BY <1>4, <1>5 DEF Metered

LEMMA FlushMeters == ASSUME LInv, Metered, Flush PROVE Metered'
<1>1. op.pc = "flush" /\ row.ext \in Boxes /\ box[row.ext] \in BoxT /\ UNCHANGED <<now, meter>>
  BY DEF Flush, LInv, OpFits, Typed, RowT
<1> DEFINE b == box[row.ext]
           woken == IF b.state = "paused" THEN [b EXCEPT !.state = "running", !.started = now, !.deadline = now + 1]
                    ELSE b
           clean == [woken EXCEPT !.unpushed = FALSE]
<1>2. /\ woken \in BoxT /\ clean \in BoxT
      /\ clean.state = woken.state /\ clean.started = woken.started /\ clean.deadline = woken.deadline
      /\ b.state = "paused" => woken.state = "running" /\ woken.started = now
      /\ b.state # "paused" => woken = b
  <2>1. now \in Nat /\ now + 1 \in Nat
    BY DEF LInv, Typed
  <2>2. woken \in BoxT /\ (b.state = "paused" => woken.state = "running" /\ woken.started = now)
    <3> HIDE DEF b
    <3>1. CASE b.state = "paused"
      <4>1. woken = [b EXCEPT !.state = "running", !.started = now, !.deadline = now + 1]
        BY <3>1
      <4>2. b \in BoxT
        BY <1>1 DEF b
      <4> DEFINE w == [b EXCEPT !.state = "running", !.started = now, !.deadline = now + 1]
      <4>3. w \in BoxT /\ w.started = now /\ w.state = "running"
        BY <2>1, <4>2 DEF BoxT
      <4> HIDE DEF w
      <4>4. woken = w
        BY <4>1 DEF w
      <4> HIDE DEF woken
      <4> QED BY <4>3, <4>4
    <3>2. CASE b.state # "paused"
      BY <1>1, <3>2 DEF b
    <3> QED BY <3>1, <3>2
  <2> HIDE DEF woken
  <2>3. /\ clean \in BoxT
        /\ clean.state = woken.state /\ clean.started = woken.started /\ clean.deadline = woken.deadline
    BY <2>2 DEF BoxT
  <2> QED BY <2>2, <2>3 DEF woken
<1> HIDE DEF woken, clean
<1>3. CASE Live = "gone" /\ Goto("destroy") /\ UNCHANGED <<row, box, faults>>
  BY <1>1, <1>3, GotoIs, SameRunning, Plods DEF Timed
<1>4. ASSUME NEW v \in {woken, clean}, SetBox(row.ext, v), row'.ext = row.ext
      PROVE  /\ box'[row'.ext] = v /\ Running' = (v.state = "running")
             /\ Running' => \/ Running /\ box'[row'.ext].started = b.started
                            \/ b.state = "paused" /\ box'[row'.ext].started = now
  <2>1. box'[row.ext] = v
    BY <1>1, <1>2, <1>4, SetBoxFits DEF LInv, Typed
  <2>2. row.ext # None
    BY <1>1, Constants
  <2> QED BY <1>2, <1>4, <2>1, <2>2 DEF Running, Live
<1>5. CASE Push /\ SetBox(row.ext, clean) /\ Goto("destroy") /\ UNCHANGED faults
  <2>1. /\ row'.started = row.started /\ row'.expires = row.expires /\ row'.seconds = row.seconds
        /\ row'.ext = row.ext
    BY <1>5 DEF Push, LInv, Typed, RowT
  <2>2. op'.pc = "destroy"
    BY <1>5, GotoIs
  <2>3. Counters' /\ OpTimes'
    BY <1>1, <1>5, <2>2, QuietOp DEF Timed, Metered, Counters, meter
  <2>4. Tallied' /\ Run'
    BY <1>1, <1>4, <1>5, <2>1, StretchGoesOn DEF Metered
  <2>5. Steady'
    <3>1. box'[row.ext] = clean /\ Running' = (clean.state = "running")
      BY <1>4, <1>5, <2>1
    <3>2. b.state = "paused" => ~Running
      BY DEF Running, Live
    <3>3. b.state # "paused" => clean.deadline = b.deadline /\ (Running' <=> Running)
      BY <1>1, <1>2, <3>1, Constants DEF Running, Live
    <3>4. faults = 0 /\ row.started # None => Covered
      BY <1>1 DEF Metered, Steady
    <3>5. faults = 0 /\ row.started # None => Covered'
      BY <1>1, <2>1, <3>1, <3>2, <3>3, <3>4 DEF Covered
    <3> QED BY <1>1, <1>5, <2>1, <2>2, <3>5 DEF Metered, Steady, meter
  <2> QED BY <2>3, <2>4, <2>5 DEF Metered
<1>6. CASE faults' = faults + 1 /\ SetBox(row.ext, woken) /\ Throw /\ UNCHANGED row
  <2>1. OpTimes'
    BY <1>6, ThrowEnds, QuietOp DEF Timed
  <2> QED BY <1>1, <1>4, <1>6, <2>1, Fails
<1> QED BY <1>3, <1>5, <1>6 DEF Flush, woken, clean

LEMMA BootMeters == ASSUME LInv, Metered, Boot PROVE Metered'
<1>1. op.pc = "boot" /\ row.ext = None /\ UNCHANGED <<now, row, meter>> /\ ~Running /\ ~Running'
  BY DEF Boot, LInv, OpFits, Making, Running, Live
<1>2. CASE faults' = faults + 1 /\ op' = Free
  BY <1>1, <1>2, FreeType, QuietOp, Fails DEF Timed
<1>3. ASSUME NEW b \in Boxes, UNCHANGED faults,
             SetBox(b, [Gone EXCEPT !.state = "running", !.started = now, !.deadline = now + Bootstrap]),
             op' = [op EXCEPT !.pc = "record", !.at = now, !.until = now + Bootstrap, !.box = b]
      PROVE  Metered'
  <2>1. op'.pc = "record" /\ op'.at = now /\ op'.until = now + Bootstrap /\ op'.box = b
    BY <1>3 DEF LInv, Typed, OpT
  <2>2. box'[b].state = "running" /\ box'[b].started = now /\ box'[b].deadline = now + Bootstrap
    <3>1. box' = [box EXCEPT ![b] = [Gone EXCEPT !.state = "running", !.started = now, !.deadline = now + Bootstrap]]
      BY <1>3 DEF SetBox
    <3> QED BY <3>1 DEF Gone, LInv, Typed
  <2>3. Counters'
    BY <1>1, <1>3 DEF Metered, Counters, meter
  <2>4. Tallied' /\ Run'
    BY <1>1, StretchGoesOn DEF Metered
  <2>5. OpTimes'
    BY <1>1, <2>1, <2>2, MeterTypes DEF OpTimes
  <2>6. Steady'
    BY <1>1, <1>3, <2>1, <2>2 DEF Metered, Steady, Covered, meter
  <2> QED BY <2>3, <2>4, <2>5, <2>6 DEF Metered
<1> QED BY <1>2, <1>3 DEF Boot

LEMMA RecordCreatedMeters == ASSUME LInv, Metered, RecordCreated PROVE Metered'
<1>1. /\ op.pc = "record" /\ row.status = "starting" /\ op.box \in Boxes /\ op.at = now
      /\ box[op.box].started <= now /\ op.until \in Nat
      /\ UNCHANGED <<now, box, meter, faults>>
  BY DEF RecordCreated, LInv, OpFits, Typed, OpT, Metered, OpTimes, bounds
<1> DEFINE r == [row EXCEPT !.ext = op.box, !.token = TRUE, !.started = op.at, !.expires = op.until]
<1>2. /\ r \in RowT /\ r.ext = op.box /\ r.status = row.status /\ r.started = op.at
      /\ r.expires = op.until /\ r.seconds = row.seconds
  BY <1>1 DEF RowT, OpT, LInv, Typed
<1> HIDE DEF r
<1>3. /\ row'.ext = op.box /\ row'.status = "starting" /\ row'.started = now
      /\ row'.expires = op.until /\ row'.seconds = row.seconds
  BY <1>1, <1>2, SaveMeters DEF RecordCreated, r
<1>4. op'.pc = "bootstrap"
  BY DEF RecordCreated, Free
<1>5. box[op.box].started \in Nat /\ op.box # None
  BY <1>1, Constants DEF LInv, Typed, BoxT
<1>6. Tallied' /\ Run'
  BY <1>1, <1>3, <1>5, StretchBegins DEF Metered
<1>7. Counters' /\ OpTimes'
  BY <1>1, <1>4, QuietOp DEF Timed, Metered, Counters, meter
<1>8. Steady'
  BY <1>1, <1>3, <1>4, <1>5, Constants, MeterTypes DEF Metered, Steady, Covered, Running, Live, meter
<1> QED BY <1>6, <1>7, <1>8 DEF Metered

LEMMA NewBox ==
  ASSUME LInv, row.ext \in Boxes, NEW v, SetBox(row.ext, v), row'.ext = row.ext
  PROVE  /\ box'[row'.ext] = v /\ Running' = (v.state = "running")
         /\ Running = (box[row.ext].state = "running")
<1>1. box'[row.ext] = v
  BY DEF LInv, Typed, SetBox
<1>2. row.ext # None
  BY Constants
<1> QED BY <1>1, <1>2 DEF Running, Live

LEMMA BootstrapMeters == ASSUME LInv, Metered, BootstrapBox PROVE Metered'
<1>1. op.pc = "bootstrap" /\ UNCHANGED <<now, row, meter>>
  BY DEF BootstrapBox
<1>2. row.ext \in Boxes /\ box[row.ext] \in BoxT
  BY <1>1, OpUses DEF Using
<1>3. CASE Running /\ SetBox(row.ext, Bootstrapped(box[row.ext])) /\ Goto("extend") /\ UNCHANGED faults
  <2> DEFINE v == Bootstrapped(box[row.ext])
  <2>1. v.state = box[row.ext].state /\ v.started = box[row.ext].started /\ v.deadline = box[row.ext].deadline
    BY <1>2 DEF BoxT, Bootstrapped
  <2> HIDE DEF v
  <2>2. op'.pc = "extend"
    BY <1>3, GotoIs
  <2>3. box'[row'.ext] = v /\ Running' = Running
    BY <1>1, <1>2, <1>3, <2>1, NewBox DEF v
  <2> QED BY <1>1, <1>3, <2>1, <2>2, <2>3, Plods DEF Timed
<1>4. ASSUME NEW after \in {"throw", "done"}, StopThen(after, "unhealthy"), UNCHANGED box
      PROVE  op'.pc \notin Timed \cup {"extend", "resume"} /\ OpTimes'
  BY <1>4, StopThenIs, QuietOp DEF Timed
<1>5. CASE UNCHANGED <<box, faults>> /\ StopThen("throw", "unhealthy")
  <2>1. op'.pc \in {"flush", "destroy", "stopped"}
    BY <1>5, StopThenIs
  <2> QED BY <1>1, <1>5, <2>1, SameRunning, Plods DEF Timed
<1>6. CASE UNCHANGED box /\ faults' = faults + 1 /\ \E after \in {"throw", "done"} : StopThen(after, "unhealthy")
  BY <1>1, <1>4, <1>6, SameRunning, Fails
<1> QED BY <1>3, <1>5, <1>6 DEF BootstrapBox

LEMMA ExtendMeters == ASSUME LInv, Metered, Extend PROVE Metered'
<1>1. op.pc = "extend" /\ UNCHANGED <<now, row, meter, faults>>
  BY DEF Extend, bounds
<1>2. row.ext \in Boxes /\ box[row.ext] \in BoxT
  BY <1>1, OpUses DEF Using
<1>3. CASE Throw /\ UNCHANGED box
  BY <1>1, <1>3, ThrowEnds, SameRunning, Plods DEF Timed
<1> DEFINE until == Deadline(op.seen, row.started)
<1> HIDE DEF until
<1>4. CASE /\ Running /\ SetBox(row.ext, [box[row.ext] EXCEPT !.deadline = until])
           /\ op' = [op EXCEPT !.pc = "extended", !.until = until]
  <2>1. op'.pc = "extended" /\ op'.until = until
    BY <1>4 DEF LInv, Typed, OpT
  <2> DEFINE v == [box[row.ext] EXCEPT !.deadline = until]
  <2>2. v.state = box[row.ext].state /\ v.started = box[row.ext].started /\ v.deadline = until
    BY <1>2 DEF BoxT
  <2> HIDE DEF v
  <2>3. box'[row'.ext] = v /\ Running' = Running
    BY <1>1, <1>2, <1>4, <2>2, NewBox DEF v
  <2>4. Tallied' /\ Run'
    BY <1>1, <2>2, <2>3, StretchGoesOn DEF Metered
  <2>5. Counters' /\ OpTimes'
    BY <1>1, <2>1, QuietOp DEF Timed, Metered, Counters, meter
  <2>6. Steady'
    BY <1>1, <1>4, <2>1, <2>2, <2>3 DEF Metered, Steady, meter
  <2> QED BY <2>4, <2>5, <2>6 DEF Metered
<1> QED BY <1>3, <1>4 DEF Extend, until

LEMMA RecordExtendedMeters == ASSUME LInv, Metered, RecordExtended PROVE Metered'
<1>1. /\ op.pc = "extended" /\ UNCHANGED <<now, box, ran, faults>> /\ op.until \in Nat
      /\ astray' = (astray \/ Astray(row.started))
  BY DEF RecordExtended, bounds, LInv, Typed, OpT
<1> DEFINE r == [row EXCEPT !.status = "running", !.expires = op.until]
<1>2. /\ r \in RowT /\ r.status = "running" /\ r.ext = row.ext /\ r.started = row.started
      /\ r.expires = op.until /\ r.seconds = row.seconds
  BY <1>1 DEF LInv, Typed, RowT
<1> HIDE DEF r
<1>3. /\ row'.status = "running" /\ row'.ext = row.ext /\ row'.started = row.started
      /\ row'.expires = op.until /\ row'.seconds = row.seconds
  BY <1>2, SaveMeters DEF RecordExtended, r
<1>4. op'.pc = "free"
  BY ThrowEnds DEF RecordExtended
<1>5. Tallied' /\ Run'
  BY <1>1, <1>3, MeterTypes, StretchIsMoved DEF Metered, Tallied
<1>6. Counters' /\ OpTimes'
  BY <1>1, <1>4, QuietOp DEF Timed, Metered, Counters, Astray
<1>7. Steady'
  <2>1. Running' = Running
    BY <1>1, <1>3, SameRunning
  <2> SUFFICES ASSUME faults = 0 PROVE Steady'
    BY <1>1 DEF Steady
  <2>2. /\ ~astray /\ Running /\ box[row.ext].deadline = op.until
        /\ row.started # None => box[row.ext].started = row.started
    BY <1>1 DEF Metered, Steady
  <2>3. ~astray'
    BY <1>1, <2>2 DEF Astray
  <2>4. Covered'
    BY <1>1, <1>3, <2>1, <2>2, MeterTypes DEF Covered
  <2> QED BY <1>1, <1>3, <1>4, <2>1, <2>2, <2>3, <2>4 DEF Steady
<1> QED BY <1>5, <1>6, <1>7 DEF Metered

LEMMA ResumeMeters == ASSUME LInv, Metered, Resume PROVE Metered'
<1>1. op.pc = "resume" /\ UNCHANGED <<now, row, meter, faults>>
  BY DEF Resume, bounds
<1>2. row.ext \in Boxes /\ box[row.ext] \in BoxT
  BY <1>1, OpUses DEF Using
<1>3. CASE UNCHANGED box /\ (Throw \/ StopThen("create", "destroyed"))
  <2>1. op'.pc \in {"free", "flush", "destroy", "stopped"}
    BY <1>3, ThrowEnds, StopThenIs
  <2> QED BY <1>1, <1>3, <2>1, SameRunning, Plods DEF Timed
<1> DEFINE until == Deadline(op.seen, now)
<1> HIDE DEF until
<1>4. CASE /\ SetBox(row.ext, [box[row.ext] EXCEPT !.state = "running", !.started = now, !.deadline = until])
           /\ op' = [op EXCEPT !.pc = "resumed", !.at = now, !.until = until]
  <2>1. op'.pc = "resumed" /\ op'.at = now /\ op'.until = until
    BY <1>4 DEF LInv, Typed, OpT
  <2> DEFINE v == [box[row.ext] EXCEPT !.state = "running", !.started = now, !.deadline = until]
  <2>2. v.state = "running" /\ v.started = now /\ v.deadline = until
    BY <1>2 DEF BoxT
  <2> HIDE DEF v
  <2>3. box'[row'.ext] = v /\ Running'
    BY <1>1, <1>2, <1>4, <2>2, NewBox DEF v
  <2>4. Tallied' /\ Run'
    BY <1>1, <2>2, <2>3, StretchGoesOn DEF Metered
  <2>5. Counters' /\ OpTimes'
    BY <1>1, <2>1 DEF Metered, Counters, meter, OpTimes
  <2>6. Steady'
    BY <1>1, <1>4, <2>1, <2>2, <2>3 DEF Metered, Steady, Covered, meter
  <2> QED BY <2>4, <2>5, <2>6 DEF Metered
<1> QED BY <1>3, <1>4 DEF Resume, until

LEMMA RecordResumedMeters == ASSUME LInv, Metered, RecordResumed PROVE Metered'
<1>1. /\ op.pc = "resumed" /\ op.at = now /\ op.until \in Nat
      /\ UNCHANGED <<now, box, meter, faults>>
  BY DEF RecordResumed, LInv, Typed, OpT, Metered, OpTimes, bounds
<1> DEFINE extra == IF row.status = "running" THEN Billed(row, op.at) ELSE 0
           r == [row EXCEPT !.status = "running", !.token = TRUE, !.paused = None, !.started = op.at,
                            !.expires = op.until, !.seconds = @ + extra]
<1>2. Save(r)
  BY DEF RecordResumed
<1>3. extra \in Nat /\ extra \in {0, Billed(row, now)}
  BY <1>1, MeterTypes, Bill DEF Metered, Tallied
<1> HIDE DEF extra
<1>4. /\ r \in RowT /\ r.status = "running" /\ r.ext = row.ext /\ r.started = op.at
      /\ r.expires = op.until /\ r.seconds = row.seconds + extra
  <2> DEFINE woken == [row EXCEPT !.status = "running", !.token = TRUE, !.paused = None, !.started = op.at,
                                  !.expires = op.until]
  <2>1. /\ woken \in RowT /\ woken.status = "running" /\ woken.ext = row.ext /\ woken.started = op.at
        /\ woken.expires = op.until /\ woken.seconds = row.seconds
    BY DEF LInv, Typed, RowT, OpT
  <2>2. r = [woken EXCEPT !.seconds = @ + extra]
    OBVIOUS
  <2> HIDE DEF woken, r
  <2> QED BY <1>3, <2>1, <2>2, AddSeconds
<1> HIDE DEF r
<1>5. /\ row'.status = "running" /\ row'.ext = row.ext /\ row'.started = now
      /\ row'.expires = op.until /\ row'.seconds = row.seconds + extra
  BY <1>1, <1>2, <1>4, SaveMeters
<1>6. Running' = Running /\ box'[row'.ext].started = box[row.ext].started
  BY <1>1, <1>5, SameRunning
<1>7. op'.pc \in {"free", "health"}
  BY ThrowEnds, BeginIs DEF RecordResumed
<1>8. Tallied' /\ Run'
  BY <1>1, <1>3, <1>5, <1>6, MeterTypes, StretchBegins DEF Metered, Tallied
<1>9. Counters' /\ OpTimes'
  BY <1>1, <1>7, QuietOp DEF Timed, Metered, Counters, meter
<1>10. Steady'
  <2> SUFFICES ASSUME faults = 0 PROVE Steady'
    BY <1>1 DEF Steady
  <2>1. ~astray /\ Running /\ box[row.ext].deadline = op.until /\ box[row.ext].started = now
    BY <1>1 DEF Metered, Steady
  <2>2. Covered'
    BY <1>1, <1>5, <1>6, <2>1, MeterTypes DEF Covered
  <2> QED BY <1>1, <1>5, <1>6, <1>7, <2>1, <2>2 DEF Steady, meter
<1> QED BY <1>8, <1>9, <1>10 DEF Metered

LEMMA HealthMeters == ASSUME LInv, Metered, Health PROVE Metered'
<1>1. op.pc = "health" /\ UNCHANGED <<now, row, box, meter, faults>>
  BY DEF Health, bounds
<1>2. op'.pc \in {"free", "recover"}
  BY ThrowEnds, BeginIs DEF Health
<1> QED BY <1>1, <1>2, SameRunning, Plods DEF Timed

\* A write that only says that the sandbox starts, or runs.
LEMMA StatusMeters ==
  ASSUME LInv, Metered, NEW status \in {"starting", "running"}, Save([row EXCEPT !.status = status]),
         UNCHANGED <<now, box, meter, faults>>,
         op.pc \notin {"extended", "paused", "stopped", "destroy", "resumed"},
         op'.pc \notin Timed \cup {"extended", "resume"}
  PROVE  Metered'
<1> DEFINE r == [row EXCEPT !.status = status]
<1>1. /\ r \in RowT /\ r.status = status /\ r.ext = row.ext /\ r.started = row.started
      /\ r.expires = row.expires /\ r.seconds = row.seconds
  BY DEF LInv, Typed, RowT
<1> HIDE DEF r
<1>2. /\ row'.status = status /\ row'.ext = row.ext /\ row'.started = row.started
      /\ row'.expires = row.expires /\ row'.seconds = row.seconds
  BY <1>1, SaveMeters DEF r
<1> QED BY <1>2, SameRunning, Plods

LEMMA RecoverMeters == ASSUME LInv, Metered, Recover PROVE Metered'
<1>1. op'.pc = "restart"
  BY BeginIs DEF Recover
<1> QED BY <1>1, StatusMeters DEF Recover, Timed, bounds

LEMMA RecordRestartedMeters == ASSUME LInv, Metered, RecordRestarted PROVE Metered'
<1>1. op'.pc = "free"
  BY ThrowEnds DEF RecordRestarted
<1> QED BY <1>1, StatusMeters DEF RecordRestarted, Timed, bounds

LEMMA RestartMeters == ASSUME LInv, Metered, Restart PROVE Metered'
<1>1. op.pc \in {"restart", "clean"} /\ UNCHANGED <<now, row, meter>>
  BY DEF Restart
<1>2. row.ext \in Boxes /\ box[row.ext] \in BoxT
  BY <1>1, OpUses DEF Using
<1>3. CASE SetBox(row.ext, DevServerUp(box[row.ext])) /\ Goto("restarted") /\ UNCHANGED faults
  <2> DEFINE v == DevServerUp(box[row.ext])
  <2>1. v.state = box[row.ext].state /\ v.started = box[row.ext].started /\ v.deadline = box[row.ext].deadline
    BY <1>2 DEF BoxT, DevServerUp
  <2> HIDE DEF v
  <2>2. op'.pc = "restarted"
    BY <1>3, GotoIs
  <2>3. box'[row'.ext] = v /\ Running' = Running
    BY <1>1, <1>2, <1>3, <2>1, NewBox DEF v
  <2> QED BY <1>1, <1>3, <2>1, <2>2, <2>3, Plods DEF Timed
<1>4. CASE /\ UNCHANGED box /\ faults' \in {faults, faults + 1}
           /\ Goto("clean") \/ StopThen("create", "destroyed")
  <2>1. op'.pc \in {"clean", "flush", "destroy", "stopped"}
    BY <1>4, GotoIs, StopThenIs
  <2>2. CASE UNCHANGED faults
    BY <1>1, <1>4, <2>1, <2>2, SameRunning, Plods DEF Timed
  <2>3. CASE faults' = faults + 1
    BY <1>1, <1>4, <2>1, <2>3, SameRunning, QuietOp, Fails DEF Timed
  <2> QED BY <1>4, <2>2, <2>3
<1> QED BY <1>3, <1>4 DEF Restart

LEMMA MarkRunningMeters == ASSUME LInv, Metered, MarkRunning PROVE Metered'
<1>1. /\ op.pc = "running" /\ op'.pc = "free" /\ UNCHANGED <<now, box, ran, faults>>
      /\ op.until \in Nat /\ op.at \in Nat /\ op.at <= now
  BY ThrowEnds DEF MarkRunning, bounds, LInv, Typed, OpT, Metered, OpTimes
<1>2. CASE UNCHANGED <<row, astray>>
  BY <1>1, <1>2, SameRunning, Plods DEF Timed, meter
<1> DEFINE started == Or(row.started, op.at)
           r == [row EXCEPT !.status = "running", !.paused = None, !.expires = op.until, !.started = started]
<1>3. CASE row.status # "running" /\ Save(r) /\ astray' = (astray \/ Astray(started))
  <2>1. /\ started \in Nat /\ started <= now /\ row.seconds <= started
        /\ row.started # None => started = row.started
    BY <1>1, MeterTypes DEF Or, Metered, Tallied, OpTimes
  <2> HIDE DEF started
  <2>2. /\ r \in RowT /\ r.ext = row.ext /\ r.started = started
        /\ r.expires = op.until /\ r.seconds = row.seconds
    BY <1>1, <2>1 DEF LInv, Typed, RowT
  <2>3. Save(r) /\ astray' = (astray \/ Astray(started))
    BY <1>3
  <2> HIDE DEF r
  <2>4. /\ row'.ext = row.ext /\ row'.started = started
        /\ row'.expires = op.until /\ row'.seconds = row.seconds
    BY <2>2, <2>3, SaveMeters
  <2>5. Tallied' /\ Run'
    BY <1>1, <2>1, <2>3, <2>4, MeterTypes, StretchIsMoved DEF Metered
  <2>6. Counters' /\ OpTimes'
    BY <1>1, <2>3, QuietOp DEF Timed, Metered, Counters, Astray
  <2>7. Steady'
    BY <1>1, <1>3 DEF Metered, Steady
  <2> QED BY <2>5, <2>6, <2>7 DEF Metered
<1> QED BY <1>2, <1>3 DEF MarkRunning

LEMMA SweepMeters == ASSUME LInv, Metered, Sweep PROVE Metered'
<1>1. op = Free /\ op.pc = "free" /\ UNCHANGED <<now, box, meter, faults>>
  BY FreeType DEF Sweep, bounds
<1>2. CASE UNCHANGED row /\ \E pc \in {"flush", "destroy", "stopped", "extend"},
                               after \in {"done", None}, status \in {"destroyed", "unhealthy", None} :
                                 Enter("sweep", pc, after, status)
  <2>1. op'.pc \in {"flush", "destroy", "stopped", "extend"}
    BY <1>2, EnterFits DEF LInv, Stopping, Using
  <2> QED BY <1>1, <1>2, <2>1, SameRunning, Plods DEF Timed
<1>3. CASE UNCHANGED row /\ \E pc \in {"tidy", "pause"}, after \in {"idle", "rotate"} :
                                 Enter("sweep", pc, after, None)
  <2>1. op'.pc \in {"tidy", "pause"} /\ op'.at = now
    BY <1>3, EnterFits DEF LInv, Using
  <2>2. Counters' /\ Tallied' /\ Run'
    BY <1>1, <1>3, SameRunning, StretchGoesOn DEF Metered, Counters, meter
  <2>3. OpTimes'
    BY <1>1, <2>1, MeterTypes DEF OpTimes
  <2>4. Steady'
    BY <1>1, <1>3, <2>1, SameRunning, Steadily DEF Metered
  <2> QED BY <2>2, <2>3, <2>4 DEF Metered
<1> DEFINE t == Least(now, Or(row.expires, now))
           r == [PausedAt(t) EXCEPT !.seconds = @ + Billed(row, now)]
<1>4. CASE Save(r) /\ UNCHANGED op /\ Live = "paused"
  <2>1. t \in Nat /\ Billed(row, now) \in Nat
    BY Times, MeterTypes DEF LInv
  <2> HIDE DEF t
  <2>2. /\ PausedAt(t) \in RowT /\ PausedAt(t).started = None /\ PausedAt(t).seconds = row.seconds
        /\ PausedAt(t).ext = row.ext /\ PausedAt(t).status = "paused"
    BY <2>1, ClosedRows DEF LInv, Typed
  <2>3. Save(r) /\ r = [PausedAt(t) EXCEPT !.seconds = @ + Billed(row, now)]
    BY <1>4
  <2> HIDE DEF r
  <2>4. r \in RowT /\ r.started = None /\ r.seconds = row.seconds + Billed(row, now) /\ r.ext = row.ext
    BY <2>1, <2>2, <2>3, AddSeconds
  <2>5. row'.started = None /\ row'.seconds = row.seconds + Billed(row, now) /\ row'.ext = row.ext
    BY <2>3, <2>4, SaveMeters
  <2>6. ~Running'
    BY <1>1, <1>4, <2>5, SameRunning DEF Running
  <2>7. Counters' /\ Tallied' /\ Run'
    BY <1>1, <2>5, <2>6, MeterTypes, StretchEnds DEF Metered, Counters, meter
  <2>8. OpTimes' /\ Steady'
    BY <1>1, <1>4, <2>5, <2>6, QuietOp DEF Timed, Metered, Steady, meter
  <2> QED BY <2>7, <2>8 DEF Metered
<1> HIDE DEF r
<1>5. StopStep \in {"flush", "destroy", "stopped"}
  BY StopStepIs
<1> QED BY <1>2, <1>3, <1>4, <1>5 DEF Sweep, r, t

LEMMA FlushBeforePauseMeters == ASSUME LInv, Metered, FlushBeforePause PROVE Metered'
<1>1. /\ op.pc = "tidy" /\ op'.pc = "pause" /\ op'.at = op.at /\ op.at <= now
      /\ UNCHANGED <<now, meter>> /\ faults' \in {faults, faults + 1}
  BY GotoIs DEF FlushBeforePause, Metered, OpTimes
<1>2. row.ext \in Boxes /\ box[row.ext] \in BoxT
  BY <1>1, OpUses DEF Using
<1>3. /\ row'.ext = row.ext /\ row'.started = row.started /\ row'.status = row.status
      /\ row'.expires = row.expires /\ row'.seconds = row.seconds
  BY DEF FlushBeforePause, Push, LInv, Typed, RowT
<1>4. /\ Running' = Running /\ box'[row'.ext].started = box[row.ext].started
      /\ box'[row'.ext].deadline = box[row.ext].deadline
  <2>1. CASE UNCHANGED box
    BY <1>3, <2>1, SameRunning
  <2> DEFINE v == [box[row.ext] EXCEPT !.unpushed = FALSE]
  <2>2. CASE SetBox(row.ext, v)
    <3>1. v.state = box[row.ext].state /\ v.started = box[row.ext].started /\ v.deadline = box[row.ext].deadline
      BY <1>2 DEF BoxT
    <3>2. SetBox(row.ext, v)
      BY <2>2
    <3> HIDE DEF v
    <3> QED BY <1>2, <1>3, <3>1, <3>2, NewBox
  <2> QED BY <2>1, <2>2 DEF FlushBeforePause
<1>5. OpTimes'
  BY <1>1 DEF OpTimes
<1>6. CASE faults' = faults + 1
  BY <1>1, <1>3, <1>4, <1>5, <1>6, Fails
<1>7. CASE UNCHANGED faults
  <2>1. Counters' /\ Tallied' /\ Run'
    BY <1>1, <1>3, <1>4, <1>7, StretchGoesOn DEF Metered, Counters, meter
  <2>2. Steady'
    BY <1>1, <1>3, <1>4, <1>7, Steadily DEF Metered
  <2> QED BY <1>5, <2>1, <2>2 DEF Metered
<1> QED BY <1>1, <1>6, <1>7

LEMMA PauseMeters == ASSUME LInv, Metered, Pause PROVE Metered'
<1>1. op.pc = "pause" /\ UNCHANGED <<now, row, meter, faults>> /\ op.at <= now
  BY DEF Pause, bounds, Metered, OpTimes
<1>2. row.ext \in Boxes /\ box[row.ext] \in BoxT
  BY <1>1, OpUses DEF Using
<1>3. CASE Throw /\ UNCHANGED box
  BY <1>1, <1>3, ThrowEnds, SameRunning, Plods DEF Timed
<1>4. CASE SetBox(row.ext, Asleep(box[row.ext])) /\ Goto("paused")
  <2> DEFINE v == Asleep(box[row.ext])
  <2>1. v.state = "paused"
    BY <1>2 DEF BoxT, Asleep
  <2>2. SetBox(row.ext, v)
    BY <1>4
  <2> HIDE DEF v
  <2>3. ~Running'
    BY <1>1, <1>2, <2>1, <2>2, NewBox
  <2>4. op'.pc = "paused" /\ op'.at = op.at
    BY <1>4, GotoIs
  <2>5. Counters' /\ Tallied' /\ Run'
    BY <1>1, <2>3, StretchGoesOn DEF Metered, Counters, meter
  <2>6. OpTimes' /\ Steady'
    BY <1>1, <2>3, <2>4 DEF OpTimes, Metered, Steady, meter
  <2> QED BY <2>5, <2>6 DEF Metered
<1> QED BY <1>3, <1>4 DEF Pause

LEMMA RecordPauseMeters == ASSUME LInv, Metered, RecordPause PROVE Metered'
<1>1. /\ op.pc = "paused" /\ op.at \in Nat /\ op.at <= now /\ ~Running
      /\ UNCHANGED <<now, box, meter, faults>>
  BY MeterTypes DEF RecordPause, bounds, Metered, OpTimes
<1>2. Billed(row, op.at) \in Nat
  BY <1>1, Times DEF LInv
<1> DEFINE r == [PausedAt(op.at) EXCEPT !.seconds = @ + Billed(row, op.at)]
<1>3. Save(r) /\ r = [PausedAt(op.at) EXCEPT !.seconds = @ + Billed(row, op.at)]
  BY DEF RecordPause
<1> HIDE DEF r
<1>4. /\ PausedAt(op.at) \in RowT /\ PausedAt(op.at).started = None /\ PausedAt(op.at).seconds = row.seconds
      /\ PausedAt(op.at).ext = row.ext /\ PausedAt(op.at).status = "paused"
  BY <1>1, ClosedRows DEF LInv, Typed
<1>5. r \in RowT /\ r.started = None /\ r.seconds = row.seconds + Billed(row, op.at) /\ r.ext = row.ext
  BY <1>2, <1>3, <1>4, AddSeconds
<1>6. row'.started = None /\ row'.seconds = row.seconds + Billed(row, op.at) /\ row'.ext = row.ext
  BY <1>3, <1>5, SaveMeters
<1>7. ~Running'
  BY <1>1, <1>6, SameRunning
<1>8. op'.pc \in {"free", "resume"}
  BY ThrowEnds DEF RecordPause, Free
<1>9. Counters' /\ Tallied' /\ Run'
  BY <1>1, <1>6, <1>7, MeterTypes, StretchEnds DEF Metered, Counters, meter
<1>10. OpTimes' /\ Steady'
  BY <1>1, <1>6, <1>7, <1>8, QuietOp DEF Timed, Metered, Steady, meter
<1> QED BY <1>9, <1>10 DEF Metered

\* A visit writes the time of the last access.
LEMMA VisitMeters ==
  ASSUME LInv, Metered, Save([row EXCEPT !.accessed = now]), UNCHANGED <<now, box, op, meter, faults>>
  PROVE  Metered'
<1> DEFINE r == [row EXCEPT !.accessed = now]
<1>1. /\ r \in RowT /\ r.status = row.status /\ r.ext = row.ext /\ r.started = row.started
      /\ r.expires = row.expires /\ r.seconds = row.seconds
  BY DEF LInv, Typed, RowT
<1> HIDE DEF r
<1>2. /\ row'.status = row.status /\ row'.ext = row.ext /\ row'.started = row.started
      /\ row'.expires = row.expires /\ row'.seconds = row.seconds
  BY <1>1, SaveMeters DEF r
<1> QED BY <1>2, Passes

LEMMA LeaveUnpushedMeters == ASSUME LInv, Metered, LeaveUnpushed PROVE Metered'
<1>1. row.ext \in Boxes /\ box[row.ext] \in BoxT
  BY MeterTypes DEF LeaveUnpushed
<1> DEFINE v == [box[row.ext] EXCEPT !.unpushed = TRUE]
<1>2. v.state = box[row.ext].state /\ v.started = box[row.ext].started /\ v.deadline = box[row.ext].deadline
  BY <1>1 DEF BoxT
<1>3. SetBox(row.ext, v)
  BY DEF LeaveUnpushed
<1> HIDE DEF v
<1>4. \A b \in Boxes : /\ box'[b].state = box[b].state /\ box'[b].started = box[b].started
                       /\ box'[b].deadline = box[b].deadline
  BY <1>1, <1>2, <1>3 DEF SetBox, LInv, Typed
<1>5. /\ row'.status = row.status /\ row'.ext = row.ext /\ row'.started = row.started
      /\ row'.expires = row.expires /\ row'.seconds = row.seconds
  BY DEF LeaveUnpushed, LInv, Typed, RowT
<1> QED BY <1>4, <1>5, Passes DEF LeaveUnpushed

\* The clock: while nothing has failed a stretch that is open is one that runs, and a record is never left
\* for later.
LEMMA TickMeters == ASSUME LInv, Metered, Tick PROVE Metered'
<1>1. /\ now' = now + 1 /\ UNCHANGED <<row, op, faults, astray>> /\ op.pc \notin Records
      /\ ran' = IF Running \/ (faults > 0 /\ Open) THEN ran + 1 ELSE ran
  BY DEF Tick, bounds
<1>2. Running' => Running /\ box'[row.ext] = box[row.ext] /\ box[row.ext].deadline > now + 1
  <2> SUFFICES ASSUME Running' PROVE Running /\ box'[row.ext] = box[row.ext] /\ box[row.ext].deadline > now + 1
    OBVIOUS
  <2>1. row.ext # None /\ row.ext \in Boxes /\ box'[row.ext].state = "running"
    BY <1>1 DEF Running, Live, LInv, Typed, RowT
  <2>2. box'[row.ext] = IF box[row.ext].state = "running" /\ box[row.ext].deadline <= now + 1
                          THEN Asleep(box[row.ext]) ELSE box[row.ext]
    BY <2>1 DEF Tick
  <2>3. box[row.ext] \in BoxT /\ now \in Nat
    BY <2>1 DEF LInv, Typed
  <2>4. Asleep(box[row.ext]).state = "paused"
    BY <2>3 DEF Asleep, BoxT
  <2>5. box'[row.ext] = box[row.ext]
    BY <2>1, <2>2, <2>4
  <2>6. box[row.ext].state = "running" /\ Running
    BY <2>1, <2>5 DEF Running, Live
  <2>7. box[row.ext].deadline > now + 1
    BY <2>1, <2>2, <2>3, <2>4, <2>6 DEF BoxT
  <2> QED BY <2>5, <2>6, <2>7
<1>3. Counters'
  BY <1>1 DEF Metered, Counters
<1>4. Tallied'
  BY <1>1, <1>2, MeterTypes DEF Metered, Tallied
<1>5. Run'
  <2> SUFFICES ASSUME ~astray PROVE Run'
    BY <1>1 DEF Run
  <2>1. /\ Billed(row, now) \in Nat /\ Billed(row, now + 1) \in Nat /\ now + 1 \in Nat
        /\ Billed(row, now + 1) <= Billed(row, now) + 1
        /\ row.started = None => Billed(row, now + 1) = Billed(row, now)
        /\ row.started # None /\ row.expires <= now => Billed(row, now + 1) = Billed(row, now)
    <3>1. now \in Nat /\ now + 1 \in Nat /\ row.started \in Nat \cup {None} /\ row.expires \in Nat \cup {None}
          /\ (row.started # None => row.expires # None)
      BY MeterTypes DEF Metered, Tallied
    <3>2. Billed(row, now) \in Nat /\ Billed(row, now + 1) \in Nat
      BY <3>1, Bill
    <3>3. row.started = None => Billed(row, now + 1) = Billed(row, now)
      BY DEF Billed
    <3>4. /\ Billed(row, now + 1) <= Billed(row, now) + 1
          /\ row.started # None /\ row.expires <= now => Billed(row, now + 1) = Billed(row, now)
      BY <3>1, BillGrows
    <3> QED BY <3>1, <3>2, <3>3, <3>4
  <2>2. row.seconds + Billed(row, now) <= ran /\ ran \in Nat /\ row.seconds \in Nat
    BY MeterTypes DEF Metered, Run, Counters
  <2>3. CASE Running \/ (faults > 0 /\ Open)
    <3>1. ran' = ran + 1
      BY <1>1, <2>3
    <3>2. row.seconds + Billed(row, now + 1) <= ran'
      BY <2>1, <2>2, <3>1
    <3>3. Running' /\ row.started \in {None, box'[row.ext].started} =>
            row.seconds + (now + 1 - box'[row.ext].started) <= ran'
      BY <1>2, <2>2, <3>1, MeterTypes DEF Metered, Run
    <3>4. row.seconds + Billed(row', now') <= ran'
      BY <1>1, <3>2
    <3>5. Running' /\ row'.started \in {None, box'[row'.ext].started} =>
            row'.seconds + (now' - box'[row'.ext].started) <= ran'
      <4>1. row' = row /\ now' = now + 1
        BY <1>1
      <4> QED BY <1>2, <3>3, <4>1, MeterTypes
    <3> QED BY <1>1, <3>4, <3>5 DEF Run
  <2>4. CASE ~(Running \/ (faults > 0 /\ Open))
    <3>1. row.started = None \/ row.expires <= now
      <4>1. CASE faults > 0
        BY <2>4, <4>1, MeterTypes DEF Open, Or, Metered, Tallied
      <4>2. CASE faults = 0
        BY <1>1, <2>4, <4>2 DEF Metered, Steady, Covered, Records
      <4> QED BY <4>1, <4>2 DEF Metered, Counters
    <3>2. Billed(row, now + 1) = Billed(row, now)
      BY <2>1, <3>1
    <3>3. ran' = ran
      BY <1>1, <2>4
    <3> QED BY <1>1, <1>2, <2>2, <2>4, <3>2, <3>3 DEF Run
  <2> QED BY <2>3, <2>4
<1>6. OpTimes'
  BY <1>1, <1>2, MeterTypes DEF Metered, OpTimes, Records
<1>7. Steady'
  <2> SUFFICES ASSUME faults = 0 PROVE Steady'
    BY <1>1 DEF Steady
  <2>1. row.started # None => Covered
    BY <1>1 DEF Metered, Steady, Records
  <2>2. row.started # None => Covered'
    <3> SUFFICES ASSUME row.started # None, row.expires > now + 1 PROVE Running' /\ box'[row.ext].deadline >= row.expires
      BY <1>1, MeterTypes DEF Covered, Metered, Tallied
    <3>1. Running /\ box[row.ext].deadline >= row.expires
      BY <2>1, MeterTypes DEF Covered, Metered, Tallied
    <3>2. row.ext # None /\ row.ext \in Boxes /\ box[row.ext].deadline > now + 1
      BY <3>1, MeterTypes DEF Metered, Tallied
    <3>3. box'[row.ext] = box[row.ext]
      BY <3>1, <3>2, MeterTypes DEF Tick
    <3> QED BY <1>1, <3>1, <3>2, <3>3 DEF Running, Live
  <2> QED BY <1>1, <1>2, <2>2, MeterTypes DEF Metered, Steady, Records, Tallied
<1> QED BY <1>3, <1>4, <1>5, <1>6, <1>7 DEF Metered

LEMMA FaultMeters == ASSUME LInv, Metered, CallFails \/ Crash PROVE Metered'
<1>1. op'.pc \in {"free", "dead"}
  BY ThrowEnds DEF CallFails, Crash, Free
<1>2. UNCHANGED <<now, row, box, meter>> /\ faults' = faults + 1
  BY DEF CallFails, Crash, Fault
<1> QED BY <1>1, <1>2, SameRunning, QuietOp, Fails DEF Timed

LEMMA ExpireMeters == ASSUME LInv, Metered, Expire PROVE Metered'
BY FreeType, SameRunning, Plods DEF Expire, Timed, bounds

LEMMA BreakMeters == ASSUME LInv, Metered, Break PROVE Metered'
<1>1. UNCHANGED <<now, row, op, meter>> /\ faults' = faults + 1
  BY DEF Break, Fault
<1>2. PICK b \in Boxes : SetBox(b, [box[b] EXCEPT !.up = FALSE]) \/ SetBox(b, Gone)
  BY DEF Break
<1> DEFINE v == [box[b] EXCEPT !.up = FALSE]
<1>3. box[b] \in BoxT /\ v.state = box[b].state /\ v.started = box[b].started
  BY DEF LInv, Typed, BoxT
<1>4. Gone.state = "gone" /\ Gone.started = 0
  BY DEF Gone
<1>5. \A x \in Boxes : box'[x].started \in {0, box[x].started}
                       /\ (box'[x].state = "running" =>
                             box[x].state = "running" /\ box'[x].started = box[x].started)
  <2>1. SetBox(b, v) \/ SetBox(b, Gone)
    BY <1>2
  <2> HIDE DEF v
  <2> QED BY <1>3, <1>4, <2>1 DEF SetBox, LInv, Typed
<1>6. Running' => Running /\ box'[row'.ext].started = box[row.ext].started
  BY <1>1, <1>5 DEF Running, Live, LInv, Typed, RowT
<1>7. OpTimes'
  <2>1. op.pc = "record" => op.box \in Boxes
    BY DEF LInv, OpFits
  <2> QED BY <1>1, <1>5, <1>6, <2>1, MeterTypes DEF Metered, OpTimes
<1> QED BY <1>1, <1>6, <1>7, Fails

-----------------------------------------------------------------------------
(* What the bill says of every behaviour *)

LEMMA MeterStarts == ASSUME Init PROVE Metered
<1>1. now = 0 /\ op = Free /\ op.pc = "free" /\ faults = 0 /\ ran = 0 /\ astray = FALSE
  BY FreeType DEF Init
<1>2. Counters
  BY <1>1 DEF Counters
<1>3. PICK legacy \in BOOLEAN, b \in {x \in Boxes : \A y \in Boxes : x <= y} :
        /\ row = [status |-> IF legacy THEN "running" ELSE "destroyed",
                  ext |-> IF legacy THEN b ELSE None, token |-> FALSE,
                  started |-> IF legacy THEN 0 ELSE None, expires |-> IF legacy THEN IdlePause ELSE None,
                  paused |-> None, accessed |-> 0, updated |-> 0, pending |-> FALSE, seconds |-> 0]
        /\ box = [x \in Boxes |->
                    IF legacy /\ x = b
                      THEN [Gone EXCEPT !.state = "running", !.deadline = IdlePause, !.ready = TRUE, !.up = TRUE]
                      ELSE Gone]
  BY DEF Init
<1>4. CASE ~legacy
  <2>1. row.started = None /\ row.seconds = 0 /\ row.ext = None /\ row.status = "destroyed" /\ ~Running
    BY <1>3, <1>4 DEF Running, Live
  <2>2. Billed(row, now) = 0
    BY <2>1 DEF Billed
  <2>3. Tallied /\ Run
    BY <1>1, <2>1, <2>2 DEF Tallied, Run
  <2>4. OpTimes /\ Steady
    BY <1>1, <2>1 DEF OpTimes, Steady
  <2> QED BY <1>2, <2>3, <2>4 DEF Metered
<1>5. CASE legacy
  <2>1. /\ row.started = 0 /\ row.expires = IdlePause /\ row.seconds = 0 /\ row.ext = b
        /\ row.status = "running" /\ b \in Boxes /\ b # None
    BY <1>3, <1>5, Constants
  <2>2. box[b].state = "running" /\ box[b].started = 0 /\ box[b].deadline = IdlePause
    <3>1. box[b] = [Gone EXCEPT !.state = "running", !.deadline = IdlePause, !.ready = TRUE, !.up = TRUE]
      BY <1>3, <1>5
    <3> QED BY <3>1 DEF Gone
  <2>3. Running
    BY <2>1, <2>2 DEF Running, Live
  <2>4. Billed(row, now) = 0
    BY <1>1, <2>1, Constants DEF Billed, Least, Or
  <2>5. Tallied /\ Run
    BY <1>1, <2>1, <2>2, <2>4, Constants DEF Tallied, Run
  <2>6. OpTimes /\ Steady
    BY <1>1, <2>1, <2>2, <2>3, Constants DEF OpTimes, Steady, Covered
  <2> QED BY <1>2, <2>5, <2>6 DEF Metered
<1> QED BY <1>4, <1>5

LEMMA KeepsMeter == ASSUME LInv, Metered, [Next]_vars PROVE Metered'
<1>1. CASE \E k \in Kinds : Take(k) \/ MarkFailed(k)
  BY <1>1, TakeMeters, MarkFailedMeters
<1>2. CASE Flush \/ Destroy \/ RecordStop
  BY <1>2, FlushMeters, DestroyMeters, RecordStopMeters
<1>3. CASE Create \/ Boot \/ RecordCreated \/ BootstrapBox \/ Extend \/ RecordExtended
  BY <1>3, CreateMeters, BootMeters, RecordCreatedMeters, BootstrapMeters, ExtendMeters, RecordExtendedMeters
<1>4. CASE Resume \/ RecordResumed \/ Health \/ Recover \/ Restart \/ RecordRestarted \/ MarkRunning
  BY <1>4, ResumeMeters, RecordResumedMeters, HealthMeters, RecoverMeters, RestartMeters, RecordRestartedMeters,
     MarkRunningMeters
<1>5. CASE FlushBeforePause \/ Pause \/ RecordPause \/ Sweep
  BY <1>5, FlushBeforePauseMeters, PauseMeters, RecordPauseMeters, SweepMeters
<1>6. CASE Heartbeat \/ \E k \in {"restart", "rebuild"} : Request(k)
  BY <1>6, VisitMeters DEF Heartbeat, Request, bounds
<1>7. CASE OpenEditor \/ CloseEditor \/ Wake \/ UNCHANGED vars
  BY <1>7, Passes DEF OpenEditor, CloseEditor, Wake, vars, bounds
<1>8. CASE LeaveUnpushed \/ Tick \/ Break
  BY <1>8, LeaveUnpushedMeters, TickMeters, BreakMeters
<1>9. CASE CallFails \/ Crash \/ Expire
  BY <1>9, FaultMeters, ExpireMeters
<1> QED BY <1>1, <1>2, <1>3, <1>4, <1>5, <1>6, <1>7, <1>8, <1>9 DEF Next, Proceed

\* What the invariant says of the bill.
LEMMA MeteredBills == ASSUME LInv, Metered PROVE BilledIsRun
<1>1. astray => faults > 0
  BY DEF Metered, Steady, Counters
<1>2. CASE ~astray
  BY <1>1, <1>2 DEF Metered, Run, BilledIsRun
<1>3. CASE astray
  <2>1. CASE row.started = None
    <3>1. Billed(row, now) = 0
      BY <2>1 DEF Billed
    <3> QED BY <1>1, <1>3, <3>1, MeterTypes DEF Metered, Tallied, BilledIsRun
  <2>2. CASE row.started # None
    <3>1. row.started <= now /\ row.seconds <= row.started /\ row.expires # None
      BY <2>2 DEF Metered, Tallied
    <3>2. Billed(row, now) \in Nat /\ Billed(row, now) <= now - row.started
      BY <2>2, <3>1, MeterTypes, Bill
    <3> QED BY <1>1, <1>3, <2>2, <3>1, <3>2, MeterTypes DEF BilledIsRun
  <2> QED BY <2>1, <2>2
<1> QED BY <1>2, <1>3 DEF Metered, Counters

\* billedSeconds and everyone who adds it up: for every timing and any number of faults, the bill is
\* never longer than what ran or stood open after a fault, until a stretch that the provider had ended is
\* extended, which takes a fault; after that it is still never longer than the time since the start.
THEOREM NothingIsBilledTwice == Spec => []BilledIsRun
<1>1. Init => LInv /\ Metered
  BY Starts, MeterStarts
<1>2. LInv /\ Metered /\ [Next]_vars => (LInv /\ Metered)'
  BY Keeps, KeepsMeter
<1>3. LInv /\ Metered => BilledIsRun
  BY MeteredBills
<1> QED BY <1>1, <1>2, <1>3, PTL DEF Spec

-----------------------------------------------------------------------------
(* The types: the queue's jobs, the editor and the clock *)

\* Who holds the lock, and the jobs, which only their own steps and the queue move.
LockHeld == op.pc \notin {"free", "dead"} => op.who \in Kinds \cup {"sweep"}
JobsFit == job \in [Kinds -> JobT] /\ failing \subseteq Kinds
JobInv == LockHeld /\ JobsFit /\ editor \in BOOLEAN /\ now \in 0..MaxTime

LEMMA JobsStart == Init => JobInv
<1> SUFFICES ASSUME Init PROVE JobInv
  OBVIOUS
<1>1. NoJob \in JobT
  BY DEF NoJob, JobT
<1>2. now \in 0..MaxTime
  BY LifecycleAssumption DEF Init
<1> QED
  BY <1>1, <1>2 DEF Init, JobInv, LockHeld, JobsFit, Free

LEMMA JobFits ==
  /\ NoJob \in JobT /\ [state |-> "waiting", failed |-> 0] \in JobT
  /\ \A j \in JobT : /\ [state |-> "waiting", failed |-> j.failed + 1] \in JobT
                     /\ \A s \in {"none", "waiting", "active"} : [j EXCEPT !.state = s] \in JobT
BY DEF NoJob, JobT

LEMMA QueueFits ==
  ASSUME JobsFit, NEW k, Add(k) \/ Drop(k)
  PROVE  job' \in [Kinds -> JobT]
BY JobFits DEF JobsFit, Add, Drop

LEMMA MovedFits ==
  ASSUME JobsFit, NEW k, NEW s \in {"none", "waiting", "active"}, job' = [job EXCEPT ![k].state = s]
  PROVE  job' \in [Kinds -> JobT]
BY JobFits DEF JobsFit

LEMMA DoneFits ==
  ASSUME JobsFit, Finish
  PROVE  JobsFit' /\ op' = Free
<1>1. CASE op.who \in Kinds
  BY <1>1, QueueFits DEF Finish, JobsFit
<1>2. CASE op.who \notin Kinds
  BY <1>2 DEF Finish, JobsFit
<1> QED BY <1>1, <1>2

LEMMA ThrowFits ==
  ASSUME JobsFit, op.who \in Kinds \cup {"sweep"}, Throw
  PROVE  JobsFit' /\ op' = Free
<1>1. CASE UNCHANGED job /\ failing' \subseteq failing \cup {op.who} /\ op.who \in Kinds
  BY <1>1 DEF JobsFit, Throw
<1>2. CASE Drop(op.who) /\ UNCHANGED failing
  BY <1>2, QueueFits DEF JobsFit, Throw
<1>3. CASE op.who \in Kinds /\ UNCHANGED failing
           /\ job' = [job EXCEPT ![op.who] = [state |-> "waiting", failed |-> @.failed + 1]]
  BY <1>3, JobFits DEF JobsFit, Throw
<1>4. CASE UNCHANGED <<job, failing>>
  BY <1>4 DEF JobsFit, Throw
<1> QED
  BY <1>1, <1>2, <1>3, <1>4 DEF Throw

\* What the holder of the lock does next leaves the lock with it.
LEMMA SameHolder ==
  ASSUME op \in OpT
  PROVE  /\ \A pc : Goto(pc) \/ Begin(pc) => op'.who = op.who
         /\ \A after, status : StopThen(after, status) => op'.who = op.who
<1>1. ASSUME NEW pc, Goto(pc) PROVE op'.who = op.who
  BY <1>1 DEF Goto, OpT
<1>2. ASSUME NEW pc, Begin(pc) PROVE op'.who = op.who
  BY <1>2 DEF Begin, Free
<1>3. ASSUME NEW after, NEW status, StopThen(after, status) PROVE op'.who = op.who
  BY <1>3 DEF StopThen, Free
<1> QED BY <1>1, <1>2, <1>3

LEMMA FreeFits == ASSUME op' = Free PROVE LockHeld'
BY FreeType DEF LockHeld

LEMMA EnterHeld ==
  ASSUME NEW who \in Kinds \cup {"sweep"}, NEW pc, NEW after, NEW status, Enter(who, pc, after, status)
  PROVE  LockHeld'
BY DEF Enter, Free, LockHeld

GoesOn == UNCHANGED <<job, failing>> /\ op'.who = op.who

\* One step of the holder: it ends with its job, puts it back, or goes on.
LEMMA ProceedEnds ==
  ASSUME Typed, Proceed
  PROVE  \/ Throw \/ Finish \/ GoesOn
         \/ op' = Free /\ job' = [job EXCEPT ![op.who].state = "waiting"] /\ UNCHANGED failing
<1> DEFINE Outcome == \/ Throw \/ Finish \/ GoesOn
                      \/ op' = Free /\ job' = [job EXCEPT ![op.who].state = "waiting"] /\ UNCHANGED failing
<1>0. op \in OpT
  BY DEF Typed
<1>1. \A pc : (Goto(pc) \/ Begin(pc)) /\ UNCHANGED <<job, failing>> => GoesOn
  BY <1>0, SameHolder DEF GoesOn
<1>2. \A after, status : StopThen(after, status) /\ UNCHANGED <<job, failing>> => GoesOn
  BY <1>0, SameHolder DEF GoesOn
<1>4. CASE Flush
  BY <1>1, <1>4 DEF Flush
<1>5. CASE Destroy
  BY <1>1, <1>5 DEF Destroy
<1>6. CASE RecordStop
  BY <1>1, <1>6 DEF RecordStop
<1>7. CASE Create
  BY <1>1, <1>7 DEF Create
<1>8. CASE Boot
  <2>1. ASSUME NEW b, op' = [op EXCEPT !.pc = "record", !.at = now, !.until = now + Bootstrap, !.box = b],
               UNCHANGED <<job, failing>>
        PROVE  GoesOn
    BY <1>0, <2>1 DEF OpT, GoesOn
  <2>2. CASE op' = Free
    BY <1>8, <2>2 DEF Boot, Free, OpT
  <2>3. CASE op' # Free
    <3>1. PICK b \in Boxes : /\ op' = [op EXCEPT !.pc = "record", !.at = now, !.until = now + Bootstrap, !.box = b]
                             /\ UNCHANGED job
      BY <1>8, <2>3 DEF Boot
    <3> QED BY <1>8, <2>1, <3>1 DEF Boot
  <2> QED BY <2>2, <2>3
<1>9. CASE RecordCreated
  BY <1>9 DEF RecordCreated, GoesOn, Free
<1>10. CASE BootstrapBox
  BY <1>1, <1>2, <1>10 DEF BootstrapBox
<1>11. CASE Extend
  <2>1. CASE Running
    <3>1. op'.who = op.who
      BY <1>0, <1>11, <2>1 DEF Extend, OpT
    <3> QED BY <1>11, <2>1, <3>1 DEF Extend, GoesOn
  <2>2. CASE ~Running
    BY <1>11, <2>2 DEF Extend
  <2> QED BY <2>1, <2>2
<1>12. CASE RecordExtended
  BY <1>12 DEF RecordExtended
<1>13. CASE Resume
  <2>1. CASE Live # "gone"
    <3>1. op'.who = op.who
      BY <1>0, <1>13, <2>1 DEF Resume, OpT
    <3> QED BY <1>13, <2>1, <3>1 DEF Resume, GoesOn
  <2>2. CASE Live = "gone"
    BY <1>2, <1>13, <2>2 DEF Resume
  <2> QED BY <2>1, <2>2
<1>14. CASE RecordResumed
  BY <1>1, <1>14 DEF RecordResumed
<1>15. CASE Health
  BY <1>1, <1>15 DEF Health
<1>16. CASE Recover
  BY <1>1, <1>16 DEF Recover
<1>17. CASE Restart
  BY <1>1, <1>2, <1>17 DEF Restart
<1>18. CASE RecordRestarted \/ MarkRunning
  BY <1>18 DEF RecordRestarted, MarkRunning
<1>19. CASE FlushBeforePause
  BY <1>1, <1>19 DEF FlushBeforePause
<1>20. CASE Pause
  BY <1>1, <1>20 DEF Pause
<1>21. CASE RecordPause
  <2>1. CASE op.after = "rotate"
    <3>1. op'.who = op.who
      BY <1>21, <2>1 DEF RecordPause, Free
    <3> QED BY <1>21, <2>1, <3>1 DEF RecordPause, GoesOn
  <2>2. CASE op.after # "rotate"
    BY <1>21, <2>2 DEF RecordPause
  <2> QED BY <2>1, <2>2
<1> QED
  BY <1>4, <1>5, <1>6, <1>7, <1>8, <1>9, <1>10, <1>11, <1>12, <1>13, <1>14, <1>15, <1>16, <1>17, <1>18, <1>19,
     <1>20, <1>21 DEF Proceed

LEMMA ProceedFits ==
  ASSUME Typed, JobInv, Proceed
  PROVE  JobInv'
<1>1. op.pc \notin {"free", "dead"} /\ op.who \in Kinds \cup {"sweep"} /\ JobsFit /\ LockHeld
  <2>1. op.pc \notin {"free", "dead"}
    BY DEF Proceed, Flush, Destroy, RecordStop, Create, Boot, RecordCreated, BootstrapBox, Extend, RecordExtended, Resume,
           RecordResumed, Health, Recover, Restart, RecordRestarted, MarkRunning, FlushBeforePause, Pause, RecordPause
  <2> QED BY <2>1 DEF JobInv, LockHeld
<1>2. UNCHANGED <<now, editor>>
  BY DEF Proceed, Flush, Destroy, RecordStop, Create, Boot, RecordCreated, BootstrapBox, Extend, RecordExtended, Resume,
         RecordResumed, Health, Recover, Restart, RecordRestarted, MarkRunning, FlushBeforePause, Pause, RecordPause
<1>3. CASE Throw
  <2> QED BY <1>1, <1>2, <1>3, ThrowFits, FreeFits DEF JobInv
<1>4. CASE Finish
  <2> QED BY <1>1, <1>2, <1>4, DoneFits, FreeFits DEF JobInv
<1>5. CASE GoesOn
  BY <1>1, <1>2, <1>5 DEF JobInv, JobsFit, LockHeld, GoesOn
<1>6. CASE op' = Free /\ job' = [job EXCEPT ![op.who].state = "waiting"] /\ UNCHANGED failing
  <2>1. JobsFit'
    BY <1>1, <1>6, MovedFits DEF JobsFit
  <2> QED BY <1>2, <1>6, <2>1, FreeFits DEF JobInv
<1> QED BY <1>3, <1>4, <1>5, <1>6, ProceedEnds

LEMMA JobsKept ==
  ASSUME Typed, JobInv, [Next]_vars
  PROVE  JobInv'
<1> USE DEF JobInv
<1>1. CASE UNCHANGED vars
  BY <1>1 DEF vars, LockHeld, JobsFit
<1>2. ASSUME NEW k \in Kinds, Take(k) PROVE JobInv'
  <2>1. LockHeld'
    BY <1>2, EnterHeld DEF Take, Ensure
  <2>2. JobsFit'
    BY <1>2, MovedFits DEF Take, JobsFit
  <2> QED BY <1>2, <2>1, <2>2 DEF Take
<1>3. ASSUME NEW k \in Kinds, MarkFailed(k) PROVE JobInv'
  <2>1. LockHeld'
    BY <1>3, EnterHeld DEF MarkFailed, LockHeld
  <2>2. JobsFit'
    BY <1>3, QueueFits DEF MarkFailed, JobsFit
  <2> QED BY <1>3, <2>1, <2>2 DEF MarkFailed
<1>4. CASE Sweep
  <2>1. LockHeld' /\ UNCHANGED <<job, failing, editor, now>>
    BY <1>4, EnterHeld DEF Sweep, LockHeld
  <2> QED BY <2>1 DEF JobsFit
<1>5. ASSUME NEW k \in Kinds, Heartbeat \/ Request(k) \/ Wake PROVE JobInv'
  <2>1. UNCHANGED <<op, failing, now, editor>> /\ (UNCHANGED job \/ \E j \in Kinds : Add(j))
    BY <1>5 DEF Heartbeat, Request, Wake, Kinds
  <2>2. job' \in [Kinds -> JobT]
    BY <2>1, QueueFits DEF JobsFit
  <2> QED BY <2>1, <2>2 DEF LockHeld, JobsFit
<1>6. CASE OpenEditor \/ CloseEditor \/ LeaveUnpushed \/ Break
  BY <1>6 DEF OpenEditor, CloseEditor, LeaveUnpushed, Break, LockHeld, JobsFit
<1>7. CASE Tick
  <2>1. now' \in 0..MaxTime
    BY <1>7, LifecycleAssumption DEF Tick
  <2> QED BY <1>7, <2>1 DEF Tick, LockHeld, JobsFit
<1>8. CASE CallFails
  <2>1. op.pc \notin {"free", "dead"}
    BY <1>8 DEF CallFails, Calls, Records
  <2>2. JobsFit' /\ op' = Free
    BY <1>8, <2>1, ThrowFits DEF CallFails, LockHeld
  <2> QED BY <1>8, <2>2, FreeFits DEF CallFails
<1>9. CASE Crash
  <2>1. JobsFit'
    BY <1>9, MovedFits DEF Crash, JobsFit
  <2>2. op'.pc = "dead"
    BY <1>9 DEF Crash, Free
  <2> QED BY <1>9, <2>1, <2>2 DEF Crash, LockHeld
<1>10. CASE Expire
  BY <1>10, FreeFits DEF Expire, JobsFit
<1>11. CASE Proceed
  BY <1>11, ProceedFits
<1> QED BY <1>1, <1>2, <1>3, <1>4, <1>5, <1>6, <1>7, <1>8, <1>9, <1>10, <1>11 DEF Next, Kinds

LEMMA LifecycleTyped == ASSUME LInv, JobInv PROVE TypeOK
BY DEF LInv, Typed, RowFits, JobInv, JobsFit, JobT, RowT, BoxT, TypeOK

\* A job of each kind for a portfolio at most, the row and the provider's sandboxes as their tables have them.
THEOREM TypesHoldAlways == Spec => []TypeOK
<1>1. Init => LInv /\ JobInv
  BY Starts, JobsStart
<1>2. (LInv /\ JobInv) /\ [Next]_vars => (LInv /\ JobInv)'
  BY Keeps, JobsKept DEF LInv
<1>3. LInv /\ JobInv => TypeOK
  BY LifecycleTyped
<1> QED BY <1>1, <1>2, <1>3, PTL DEF Spec

=============================================================================
