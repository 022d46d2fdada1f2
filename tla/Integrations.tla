---------------------------- MODULE Integrations ----------------------------
(***************************************************************************)
(* Installing, moving and removing integrations: the panel and             *)
(* IntegrationsService, which answer what a user can get wrong;            *)
(* IntegrationPlanner, which decides again inside the operation; and the   *)
(* codemod engine, which edits the portfolio.  How an operation is staged, *)
(* checked, applied and pushed is OperationRunner: here, in the order of   *)
(* the queue, it is applied or comes to nothing; and one that is applied   *)
(* writes its row, or fails before it does.  Any refusal that does not     *)
(* depend on the portfolio's code or rows (an integration that was         *)
(* deactivated, keys not connected, settings that are not valid) is a      *)
(* request or an operation that comes to nothing.                          *)
(*                                                                         *)
(* A portfolio's code is its plinth.json entries, the blocks in its slots, *)
(* the file each slot is in, the managed imports and the dependencies.     *)
(* Where slots can be looked for, and the order they are added in, is      *)
(* @plinth-pages/core, which is external.                                  *)
(***************************************************************************)
EXTENDS Naturals, Sequences, FiniteSets

CONSTANTS
  Ints,         \* integrations in the catalogue
  Routes,       \* those that bring a server route
  PackageOf,    \* integration -> npm package
  Slots, Files,
  Home,         \* slot -> the file the template keeps it in
  After,        \* slot -> the slot it is added after, or None
  Allowed,      \* integration -> slots
  Clicks,       \* requests that are served at once
  MaxInstalled, \* MAX_INSTALLED_INTEGRATIONS
  MaxOps,       \* operations queued in all (bound)
  None

VARIABLES
  entry,     \* plinth.json: integration -> slot or None
  blocks,    \* <<slot, integration>>: its marked block is among the slot's children
  slotAt,    \* slot -> the file that declares it, or None
  imports,   \* <<file, package>> in the managed regions
  deps,      \* packages in package.json
  routes,    \* integrations whose route file exists
  row,       \* the installed_integrations table
  queue,     \* operations in flight, oldest first; the first may be applied, its row to come
  click,     \* the operation each request is about to queue, or None
  queued,    \* operations queued so far
  loose,     \* history: imports that a redesign left behind in a file
  unrecorded \* history: integrations whose last operation was applied, and failed before it wrote the row

code  == <<entry, blocks, slotAt, imports, deps, routes, loose>>
table == <<row, unrecorded>>
state == <<code, table, queue, click, queued>>

Op(type, i, s) == [type |-> type, int |-> i, slot |-> s, applied |-> FALSE]
Nobody == [type |-> "none", int |-> None, slot |-> None, applied |-> FALSE]

Init ==
  /\ entry = [i \in Ints |-> None] /\ row = [i \in Ints |-> None]
  /\ blocks = {} /\ imports = {} /\ deps = {} /\ routes = {} /\ loose = {} /\ unrecorded = {}
  \* A portfolio may be older than a slot.
  /\ slotAt \in {[s \in Slots |-> IF s \in old THEN Home[s] ELSE None] : old \in {Slots, {s \in Slots : After[s] = None}}}
  /\ queue = <<>> /\ queued = 0
  /\ click = [c \in Clicks |-> Nobody]

-----------------------------------------------------------------------------
(* IntegrationsService.  What the panel shows may be out of date: any request may come. *)

Installed == {i \in Ints : row[i] # None}

\* install: the row, the number of rows and the pending installs are read together
MayInstall(op) ==
  /\ row[op.int] = None /\ op.slot \in Allowed[op.int]
  /\ Cardinality(Installed) + Len(SelectSeq(queue, LAMBDA o : o.type = "install")) < MaxInstalled

\* move, uninstall: only what is installed
MayChange(op) == row[op.int] # None /\ (op.type = "move" => op.slot \in Allowed[op.int])

Ask(c, op) ==
  /\ click[c] = Nobody
  /\ IF op.type = "install" THEN MayInstall(op) ELSE MayChange(op)
  /\ click' = [click EXCEPT ![c] = op]
  /\ UNCHANGED <<code, table, queue, queued>>

\* OperationsService.enqueue
Enqueue(c) ==
  /\ click[c] # Nobody /\ queued < MaxOps
  /\ queue' = Append(queue, click[c]) /\ queued' = queued + 1
  /\ click' = [click EXCEPT ![c] = Nobody]
  /\ UNCHANGED <<code, table>>

\* No operation of the queue is under way: another kind of operation may be.
Between == queue # <<>> => ~Head(queue).applied

\* integrationFollowUps, QueuedFollowUps: what Plinth AI asks for in an answer.  Nobody counts here.
FollowUp(op) ==
  /\ Between /\ queued < MaxOps
  /\ row[op.int] = None <=> op.type = "install"
  /\ op.type # "uninstall" => op.slot \in Allowed[op.int]
  /\ queue' = Append(queue, op) /\ queued' = queued + 1
  /\ UNCHANGED <<code, table, click>>

-----------------------------------------------------------------------------
(* The codemod engine: operators on the slots' files, the blocks and the imports *)

\* migrateSlots: what is missing is added after its neighbour, in that one's file, if that one is there.
Migrated == [s \in Slots |-> IF slotAt[s] = None /\ After[s] # None THEN slotAt[After[s]] ELSE slotAt[s]]

\* addImport, removeImport: one declaration of a package in a file's managed region, whoever uses it
AddImport(is, file, pkg)    == is \cup {<<file, pkg>>}
RemoveImport(is, file, pkg) == is \ {<<file, pkg>>}

\* place: fails when no file declares the slot
Place(at, bs, is, i, s) ==
  [ok |-> at[s] # None, blocks |-> bs \cup {<<s, i>>}, imports |-> AddImport(is, at[s], PackageOf[i])]

\* Mutant: the import goes with the block, whoever else uses it.
UnplaceAlone(at, i, others) ==
  [blocks |-> blocks \ {<<entry[i], i>>}, imports |-> RemoveImport(imports, at[entry[i]], PackageOf[i])]

\* unplace: the import stays while another integration in this file uses the package
Unplace(at, i, others) ==
  LET file == at[entry[i]]
      shared == \E o \in others : PackageOf[o] = PackageOf[i] /\ at[entry[o]] = file
  IN [blocks |-> blocks \ {<<entry[i], i>>}, imports |-> IF shared THEN imports ELSE RemoveImport(imports, file, PackageOf[i])]

InCode == {i \in Ints : entry[i] # None}

InstallIntegration(i, s) ==
  LET to == Place(Migrated, blocks, imports, i, s)
  IN /\ to.ok
     /\ entry' = [entry EXCEPT ![i] = s]
     /\ blocks' = to.blocks /\ imports' = to.imports /\ slotAt' = Migrated

UninstallIntegration(i) ==
  LET left == Unplace(Migrated, i, InCode \ {i})
  IN /\ entry[i] # None
     /\ entry' = [entry EXCEPT ![i] = None]
     /\ blocks' = left.blocks /\ imports' = left.imports /\ slotAt' = Migrated

MoveIntegration(i, s) ==
  LET left == Unplace(Migrated, i, InCode \ {i})
      to == Place(Migrated, left.blocks, left.imports, i, s)
  IN /\ entry[i] \notin {None, s} /\ to.ok
     /\ entry' = [entry EXCEPT ![i] = s]
     /\ blocks' = to.blocks /\ imports' = to.imports /\ slotAt' = Migrated

-----------------------------------------------------------------------------
(* IntegrationPlanner, and the operation that applies what it planned *)

\* serverFiles: the route files it brings; a path that is taken refuses it
ServerFiles(i) == IF i \in Routes THEN {i} ELSE {}

\* setDependency, removeDependency
SetDependency(i)    == deps' = deps \cup {PackageOf[i]}
RemoveDependency(i) == deps' = deps \ {PackageOf[i]}

\* What is taken from the queue, and how it is left: applied, with the row to come, or done with.
Starts(type) == queue # <<>> /\ ~Head(queue).applied /\ Head(queue).type = type
Applied == queue' = [queue EXCEPT ![1].applied = TRUE] /\ UNCHANGED <<click, queued>>
Done == queue' = Tail(queue) /\ UNCHANGED <<click, queued>>

\* Mutant: the limit is left to the api.
InstallsAnyNumber(i) == entry[i] = None

\* The planner counts again, in the code.
Installs(i) == entry[i] = None /\ Cardinality(InCode) < MaxInstalled

Install ==
  /\ Starts("install")
  /\ LET op == Head(queue)
         i  == op.int
     IN /\ Installs(i) /\ ServerFiles(i) \cap routes = {}
        /\ InstallIntegration(i, op.slot)
        /\ SetDependency(i) /\ routes' = routes \cup ServerFiles(i)
  /\ Applied /\ UNCHANGED <<table, loose>>

\* The dependency goes with it, also when another integration has the same package; none in the catalogue does.
Uninstall ==
  /\ Starts("uninstall")
  /\ LET i == Head(queue).int
     IN UninstallIntegration(i) /\ RemoveDependency(i) /\ routes' = routes \ {i}
  /\ Applied /\ UNCHANGED <<table, loose>>

Move ==
  /\ Starts("move")
  /\ MoveIntegration(Head(queue).int, Head(queue).slot)
  /\ Applied /\ UNCHANGED <<table, deps, routes, loose>>

\* noop and reject leave everything, the new slots and the row too; so does a check that finds fault with the change,
\* and a page that does not render after it, whose commit is reverted.
Nothing ==
  /\ queue # <<>> /\ ~Head(queue).applied
  /\ Done /\ UNCHANGED <<code, table>>

\* onApplied: after the push and the health check.  A move changes the row that is there.
Record ==
  /\ queue # <<>> /\ Head(queue).applied
  /\ LET op == Head(queue)
         found == op.type # "move" \/ row[op.int] # None
     IN /\ row' = IF found THEN [row EXCEPT ![op.int] = op.slot] ELSE row
        /\ unrecorded' = IF found THEN unrecorded \ {op.int} ELSE unrecorded
  /\ Done /\ UNCHANGED code

\* A push, the health check or a statement throws after the change was applied, or the worker dies and the operation
\* is found to be applied: the change stays, and nobody writes the row.
FailsApplied ==
  /\ queue # <<>> /\ Head(queue).applied
  /\ unrecorded' = unrecorded \cup {Head(queue).int}
  /\ Done /\ UNCHANGED <<code, row>>

-----------------------------------------------------------------------------
(* What else happens to a portfolio *)

\* submitEdit: an edit of whole files moves a slot, with what is in it, to another file; the old file's imports may
\* stay behind.  (Plinth AI cannot: applyEdits keeps the lines of slots and blocks in their files.)
Redesign(s, f) ==
  /\ Between
  /\ slotAt[s] \notin {None, f} /\ \E i \in Ints : <<s, i>> \in blocks
  /\ slotAt' = [slotAt EXCEPT ![s] = f]
  /\ LET from == slotAt[s]
         moved == {PackageOf[i] : i \in {i \in Ints : <<s, i>> \in blocks}}
         kept == {PackageOf[i] : i \in {i \in Ints : \E t \in Slots \ {s} : slotAt[t] = from /\ <<t, i>> \in blocks}}
     IN /\ imports' = imports \cup {<<f, p>> : p \in moved}
        /\ loose' = loose \cup {<<from, p>> : p \in moved \ kept}
  /\ UNCHANGED <<entry, blocks, deps, routes, table, queue, click, queued>>

Next ==
  \/ \E c \in Clicks :
       \/ \E i \in Ints, s \in Slots : Ask(c, Op("install", i, s)) \/ Ask(c, Op("move", i, s))
       \/ \E i \in Ints : Ask(c, Op("uninstall", i, None))
       \/ Enqueue(c)
  \/ \E i \in Ints, s \in Slots : FollowUp(Op("install", i, s)) \/ FollowUp(Op("move", i, s))
  \/ \E i \in Ints : FollowUp(Op("uninstall", i, None))
  \/ Install \/ Uninstall \/ Move \/ Nothing \/ Record \/ FailsApplied
  \/ \E s \in Slots, f \in Files : Redesign(s, f)

Spec == Init /\ [][Next]_state

-----------------------------------------------------------------------------
\* Types.
TypeOK ==
  /\ entry \in [Ints -> Slots \cup {None}] /\ row \in [Ints -> Slots \cup {None}]
  /\ blocks \subseteq Slots \X Ints /\ slotAt \in [Slots -> Files \cup {None}]
  /\ imports \subseteq Files \X {PackageOf[i] : i \in Ints} /\ loose \subseteq Files \X {PackageOf[i] : i \in Ints}
  /\ unrecorded \subseteq Ints
  /\ deps \subseteq {PackageOf[i] : i \in Ints} /\ routes \subseteq Routes
  /\ Len(queue) <= MaxOps /\ queued \in 0..MaxOps
  /\ \A c \in Clicks : click[c] = Nobody \/ (click[c].int \in Ints /\ click[c].slot \in Slots \cup {None})

\* Every integration in plinth.json has one block, in its slot, in a file that imports its package; nothing else has
\* a block, and no import is left over but the ones a redesign left ("Removes every trace", project.ts:126); and there
\* are never more than the limit, "Enforced inside the operation, where it can't be raced" (integration-planner.ts:28).
\* The table says the same as the code, but for the integration of an operation that was applied and has not written
\* its row yet, and those whose last operation failed in between ("Keeps the installed-integrations table in step once
\* the change is applied", integration-planner.ts:57): what reverts, rejects, crosses or comes twice keeps them in step.
\* Through installs, moves and removals by several requests and by Plinth AI, in portfolios that gain slots and whose
\* slots move from file to file.
CodeIsWhole ==
  /\ blocks = {<<entry[i], i>> : i \in InCode}
  /\ \A i \in InCode : slotAt[entry[i]] # None /\ <<slotAt[entry[i]], PackageOf[i]>> \in imports
  /\ imports \subseteq loose \cup {<<slotAt[entry[i]], PackageOf[i]>> : i \in InCode}
  /\ routes = InCode \cap Routes
  /\ Cardinality(InCode) <= MaxInstalled
  /\ \A i \in Ints : row[i] # entry[i] => i \in unrecorded \/ (~Between /\ Head(queue).int = i)

=============================================================================
