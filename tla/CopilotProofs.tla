----------------------------- MODULE CopilotProofs -----------------------------
(***************************************************************************)
(* Plinth AI keeps to the plan's allowance, for any number of tabs and     *)
(* messages, any plan, any limit and any cost of an answer.                *)
(*                                                                         *)
(* A request is let through while the tokens recorded in each window are   *)
(* below its limit, and others that were let through before it have yet to *)
(* be recorded.  The invariant keeps an account of each window: once it    *)
(* has run out, what is recorded in it, what the worker can still record   *)
(* for the message it holds (Due), and the price of an answer and a repair *)
(* for every request that waits, stay below the limit plus that price for  *)
(* the requests that were under way when it ran out.                       *)
(*                                                                         *)
(* And no route is left untried: the walk over models and vendors, whose   *)
(* turns are a recursive function, has an invariant of its own, by         *)
(* induction over the turns.                                               *)
(***************************************************************************)
EXTENDS Copilot, FiniteSetTheorems, WellFoundedInduction, TLAPS

Cost  == Max(Costs)
Price == 2 * Cost    \* an answer and a repair

Busy    == {t \in Tabs : tab[t].step = "busy"}
Past    == {t \in Tabs : tab[t].step \in {"create", "enqueue"}}   \* found no operation under way
Queued  == {m \in Messages : op[m] = "queued"}
Working == IF worker = Idle THEN 0 ELSE 1
Waiting == Cardinality(Busy) + Cardinality(Past) + Cardinality(Queued)

\* The most that the worker can still record for the message it holds.
First == ~worker.repairing
Due == worker.cost + IF worker.step = "call" /\ First THEN 2 * Cost
                     ELSE IF worker.step \in {"call", "reply"} \/ (worker.step = "check" /\ First) THEN Cost
                     ELSE 0

\* What is recorded in a window, and what those under way can add to it.
Owed(w) == used[w] + Due + Price * Waiting

Asked == Picks \cup {"none"}
Texts == Messages \cup {0}
TabStates == [step : {"idle", "busy", "create", "enqueue"}, message : Texts, model : Asked]
WorkerStates ==
  [step : {"idle", "call", "reply", "check", "bill", "finish", "reject", "fail"}, message : Texts, at : Nat,
   again : BOOLEAN, repairing : BOOLEAN, cost : Nat, says : Replies \cup {"none"}]

Typed ==
  /\ tab \in [Tabs -> TabStates]
  /\ op \in [Messages -> {"none"} \cup Active \cup Ended]
  /\ model \in [Messages -> Asked]
  /\ replied \subseteq Messages
  /\ worker \in WorkerStates
  /\ used \in [Windows -> Nat] /\ faults \in Nat /\ spent \in [Windows -> Nat] /\ ranout \in [Windows -> Nat]

\* A request past its checks has a message of its own, which has no operation yet.
Requests ==
  /\ \A t \in Tabs : tab[t].step # "idle" => tab[t].model \in Picks
  /\ \A t \in Tabs : tab[t].step = "enqueue" =>
       tab[t].message \in Messages /\ op[tab[t].message] = "none" /\ model[tab[t].message] # "none"
  /\ \A t, u \in Tabs : tab[t].step = "enqueue" /\ tab[u].step = "enqueue" /\ t # u => tab[t].message # tab[u].message
  /\ \A m \in Messages : model[m] = "none" => op[m] = "none"

\* The worker has one message, the only one in progress, and a cost in hand only until it is recorded.
Holds ==
  /\ worker.step = "idle" <=> worker = Idle
  /\ worker # Idle => worker.message \in Messages
  /\ \A m \in Messages : op[m] \in Active \ {"queued"} <=> worker # Idle /\ m = worker.message
  /\ worker.cost <= Cost
  /\ worker.step \notin {"reply", "bill"} => worker.cost = 0
  /\ worker.step = "reply" => First /\ worker.says # "none"
  /\ worker.step = "bill" => worker.repairing
  /\ \A m \in replied : op[m] \notin {"none", "queued"}

Covered(w) == used[w] < TokenLimit[w] \/ Owed(w) < TokenLimit[w] + Price * ranout[w]
Balanced(w) == spent[w] = used[w] + worker.cost

Account ==
  /\ IsFiniteSet(Queued)
  /\ \A w \in Windows : Balanced(w)
  /\ \A w \in Windows : Covered(w)
  /\ Cardinality(Past) + Cardinality(Queued) + Working <= Cardinality(Tabs)

Inv == Typed /\ Requests /\ Holds /\ Account

-----------------------------------------------------------------------------
(* Numbers *)

\* The dearest answer's cost is one of the costs.
LEMMA CostIsMost == Cost \in Nat /\ Cost \in Costs /\ \A c \in Costs : c <= Cost
  <1>1. PICK most \in Costs : \A c \in Costs : c <= most BY CopilotAssumption
  <1>2. \E x \in Costs : \A y \in Costs : x >= y BY <1>1, CopilotAssumption
  <1>3. Cost \in Costs /\ \A y \in Costs : Cost >= y BY <1>2 DEF Cost, Max
  <1> QED BY <1>3, CopilotAssumption

\* The price of one request more.
LEMMA PriceOf ==
  ASSUME NEW n \in Nat
  PROVE  /\ Price \in Nat /\ Price * n \in Nat
         /\ Price * (n + 1) = Price * n + Price
         /\ \A k \in Nat : k <= n => Price * k <= Price * n
  <1>1. Price \in Nat BY CostIsMost DEF Price
  <1>2. ASSUME NEW p \in Nat, NEW k \in Nat, k <= n PROVE p * k <= p * n
    <2>1. n - k \in Nat /\ n = k + (n - k) BY <1>2
    <2>2. p * n = p * k + p * (n - k) BY <2>1
    <2>3. p * (n - k) \in Nat BY <2>1
    <2> QED BY <2>2, <2>3
  <1>3. ASSUME NEW p \in Nat PROVE p * (n + 1) = p * n + p /\ p * n \in Nat OBVIOUS
  <1> QED BY <1>1, <1>2, <1>3

\* The sets that are counted are finite.
LEMMA Finite ==
  ASSUME IsFiniteSet(Queued)
  PROVE  /\ IsFiniteSet(Busy) /\ IsFiniteSet(Past) /\ Cardinality(Tabs) \in Nat
         /\ Cardinality(Busy) \in Nat /\ Cardinality(Past) \in Nat /\ Cardinality(Queued) \in Nat
         /\ Waiting \in Nat
  <1>1. Busy \in SUBSET Tabs /\ Past \in SUBSET Tabs BY DEF Busy, Past
  <1>2. IsFiniteSet(Busy) /\ IsFiniteSet(Past) BY <1>1, CopilotAssumption, FS_Subset
  <1>3. Cardinality(Busy) \in Nat /\ Cardinality(Past) \in Nat /\ Cardinality(Queued) \in Nat
    BY <1>2, FS_CardinalityType
  <1>4. Cardinality(Tabs) \in Nat BY CopilotAssumption, FS_CardinalityType
  <1> QED BY <1>2, <1>3, <1>4 DEF Waiting

\* Requests under way are those that wait and the one that the worker holds.
LEMMA UnderWayIs == Inv => UnderWay = Waiting + Working
  <1> SUFFICES ASSUME Inv PROVE UnderWay = Waiting + Working OBVIOUS
  <1> USE DEF Inv
  <1> DEFINE Asking == {t \in Tabs : tab[t].step \in {"busy", "create", "enqueue"}}
             Open == {m \in Messages : op[m] \in Active}
             Mine == {m \in Messages : op[m] \in Active \ {"queued"}}
  <1>1. IsFiniteSet(Queued) /\ IsFiniteSet(Busy) /\ IsFiniteSet(Past)
        /\ Cardinality(Busy) \in Nat /\ Cardinality(Past) \in Nat /\ Cardinality(Queued) \in Nat
    BY Finite DEF Account
  <1>2. Cardinality(Asking) = Cardinality(Busy) + Cardinality(Past)
    <2>1. Asking = Busy \cup Past /\ Busy \cap Past = {} BY DEF Busy, Past
    <2>2. Cardinality(Busy \cup Past) = Cardinality(Busy) + Cardinality(Past) - Cardinality(Busy \cap Past)
      BY <1>1, FS_Union
    <2>3. Cardinality(Busy \cap Past) = 0 BY <2>1, FS_EmptySet
    <2> HIDE DEF Asking
    <2> QED BY <2>1, <2>2, <2>3, <1>1
  <1>3. IsFiniteSet(Mine) /\ Cardinality(Mine) = Working
    <2>1. CASE worker = Idle
      <3>1. Mine = {} BY <2>1 DEF Holds
      <3> QED BY <2>1, <3>1, FS_EmptySet DEF Working
    <2>2. CASE worker # Idle
      <3>1. Mine = {worker.message} BY <2>2 DEF Holds
      <3> QED BY <2>2, <3>1, FS_Singleton DEF Working
    <2> QED BY <2>1, <2>2
  <1>4. Cardinality(Open) = Cardinality(Queued) + Working
    <2>1. Open = Queued \cup Mine /\ Queued \cap Mine = {} BY DEF Queued, Active
    <2>2. Cardinality(Queued \cup Mine) = Cardinality(Queued) + Cardinality(Mine) - Cardinality(Queued \cap Mine)
      <3> HIDE DEF Mine
      <3> QED BY <1>1, <1>3, FS_Union
    <2>3. Working \in Nat BY DEF Working
    <2>4. Cardinality(Queued \cap Mine) = 0 BY <2>1, FS_EmptySet
    <2> HIDE DEF Open, Mine
    <2> QED BY <2>1, <2>2, <2>3, <2>4, <1>1, <1>3
  <1>5. Working \in Nat BY DEF Working
  <1>6. UnderWay = Cardinality(Asking) + Cardinality(Open) BY DEF UnderWay
  <1> HIDE DEF Asking, Open, Mine
  <1> QED BY <1>1, <1>2, <1>4, <1>5, <1>6 DEF Waiting

\* What the worker can still record is never more than the price of a request.
LEMMA DueIsBounded == Inv => Due \in Nat /\ Due <= Price /\ Due <= Price * Working /\ worker.cost <= Due
  <1> SUFFICES ASSUME Inv PROVE Due \in Nat /\ Due <= Price /\ Due <= Price * Working /\ worker.cost <= Due OBVIOUS
  <1>1. worker.cost \in Nat /\ worker.cost <= Cost /\ Cost \in Nat BY CostIsMost DEF Inv, Typed, Holds, WorkerStates
  <1>2. Due \in Nat /\ Due <= Price /\ worker.cost <= Due BY <1>1 DEF Due, First, Price, Inv, Holds
  <1>3. Working = 0 => Due = 0 BY DEF Working, Idle, Due, First
  <1>4. Price \in Nat BY CostIsMost DEF Price
  <1>5. Working = 0 \/ Working = 1 BY DEF Working
  <1>6. Price * 0 = 0 /\ Price * 1 = Price BY <1>4
  <1> QED BY <1>2, <1>3, <1>5, <1>6

-----------------------------------------------------------------------------
(* The first state *)

LEMMA Starts == Init => Inv
  <1> SUFFICES ASSUME Init PROVE Inv OBVIOUS
  <1> USE DEF Init
  <1>1. Cost \in Nat BY CostIsMost
  <1>2. Typed BY DEF Typed, TabStates, WorkerStates, Rest, Idle, Texts, Asked
  <1>3. Requests BY DEF Requests, Rest
  <1>4. Holds BY <1>1 DEF Holds, Idle, Active, First
  <1>5. Account
    <2>1. Busy = {} /\ Past = {} /\ Queued = {} BY DEF Busy, Past, Queued, Rest
    <2>2. IsFiniteSet(Queued) BY <2>1, FS_EmptySet
    <2>3. Cardinality(Busy) = 0 /\ Cardinality(Past) = 0 /\ Cardinality(Queued) = 0 BY <2>1, FS_EmptySet
    <2>4. Waiting = 0 /\ Working = 0 /\ Due = 0 BY <2>3 DEF Waiting, Working, Due, Idle, First
    <2>5. Cardinality(Tabs) \in Nat BY <2>2, Finite
    <2>6. \A w \in Windows : Balanced(w) /\ Covered(w) BY CopilotAssumption DEF Balanced, Covered, Idle
    <2> QED BY <2>2, <2>3, <2>4, <2>5, <2>6 DEF Account
  <1> QED BY <1>2, <1>3, <1>4, <1>5 DEF Inv

-----------------------------------------------------------------------------
(* Steps of the api *)

\* A tab's record goes through its steps.
LEMMA TypedSteps == Inv /\ Next => Typed'
  <1> SUFFICES ASSUME Inv, Next PROVE Typed' OBVIOUS
  <1> USE DEF Inv, Typed
  <1>1. ASSUME NEW t \in Tabs, NEW c \in Picks, NEW n \in 1..3, Send(t, c, n) PROVE Typed'
    <2>1. tab' \in [Tabs -> TabStates] BY <1>1 DEF Send, TabStates, Texts, Asked
    <2> QED BY <1>1, <2>1 DEF Send, rows, history
  <1>18. ASSUME NEW w \in Windows, Passes(w) PROVE Typed'
    <2>1. PICK n \in 1..used[w] : used' = [used EXCEPT ![w] = @ - n] /\ spent' = [spent EXCEPT ![w] = @ - n]
      BY <1>18 DEF Passes
    <2>2. used[w] \in Nat /\ spent[w] = used[w] + worker.cost /\ worker.cost \in Nat
      BY DEF Account, Balanced, WorkerStates
    <2>3. used[w] - n \in Nat /\ spent[w] - n \in Nat BY <2>2
    <2>4. used' \in [Windows -> Nat] /\ spent' \in [Windows -> Nat] BY <2>1, <2>3
    <2> QED BY <1>18, <2>4 DEF Passes
  <1>19. ASSUME Records PROVE used' \in [Windows -> Nat] /\ ranout' \in [Windows -> Nat]
    <2>1. worker.cost \in Nat BY DEF WorkerStates
    <2>2. UnderWay \in Nat BY UnderWayIs, Finite DEF Account, Working
    <2> QED BY <1>19, <2>1, <2>2 DEF Records
  <1>20. ASSUME Forgets PROVE spent' \in [Windows -> Nat]
    <2>1. worker.cost \in Nat /\ \A w \in Windows : spent[w] - worker.cost = used[w]
      BY DEF WorkerStates, Account, Balanced
    <2> QED BY <1>20, <2>1 DEF Forgets
  <1>2. ASSUME NEW t \in Tabs, CheckBusy(t) PROVE Typed'
    BY <1>2 DEF CheckBusy, TabStates, Texts, Asked, Rest, rows, history
  <1>3. ASSUME NEW t \in Tabs, CreateMessage(t) PROVE Typed'
    <2>1. PICK m \in Messages : /\ model' = [model EXCEPT ![m] = tab[t].model]
                                /\ tab' = [tab EXCEPT ![t].step = "enqueue", ![t].message = m]
      BY <1>3 DEF CreateMessage
    <2>2. tab' \in [Tabs -> TabStates] BY <2>1 DEF TabStates, Texts
    <2>3. model' \in [Messages -> Asked] BY <2>1 DEF TabStates, Asked
    <2> QED BY <1>3, <2>2, <2>3 DEF CreateMessage, rows, history
  <1>4. ASSUME NEW t \in Tabs, NoMessageLeft(t) PROVE Typed'
    BY <1>4 DEF NoMessageLeft, TabStates, Texts, Asked, Rest, rows, history
  <1>5. ASSUME NEW t \in Tabs, Enqueue(t) PROVE Typed'
    BY <1>5 DEF Enqueue, TabStates, Texts, Asked, Rest, history, Active
  <1>6. ASSUME NEW t \in Tabs, ApiDies(t) PROVE Typed'
    BY <1>6 DEF ApiDies, Fault, TabStates, Texts, Asked, Rest, rows, history
  <1>7. ASSUME NEW m \in Messages, Take(m) PROVE Typed'
    BY <1>7 DEF Take, WorkerStates, Texts, Idle, Active, history
  <1>8. ASSUME NEW c \in Costs, NEW s \in Replies \ {"sorry"}, Answers(c, s) PROVE Typed'
    <2>1. c \in Nat BY CopilotAssumption
    <2>2. worker' \in WorkerStates
      <3>1. CASE worker.repairing BY <1>8, <2>1, <3>1 DEF Answers, WorkerStates
      <3>2. CASE ~worker.repairing BY <1>8, <2>1, <3>2 DEF Answers, WorkerStates
      <3> QED BY <3>1, <3>2
    <2>3. spent' \in [Windows -> Nat] BY <1>8, <2>1 DEF Answers
    <2> QED BY <1>8, <2>2, <2>3 DEF Answers, rows
  <1>9. ASSUME NEW e \in ProviderErrors, AsksAgain(e) PROVE Typed' BY <1>9 DEF AsksAgain, WorkerStates, rows, history
  <1>10. ASSUME NEW e \in ProviderErrors, Fails(e) PROVE Typed'
    <2> DEFINE n == worker.at + 1
    <2>0. n \in Nat BY DEF WorkerStates
    <2>1. worker' = [worker EXCEPT !.at = n, !.again = FALSE] BY <1>10 DEF Fails
    <2> HIDE DEF n
    <2>2. worker' \in WorkerStates BY <2>0, <2>1 DEF WorkerStates
    <2> QED BY <1>10, <2>2 DEF Fails, rows, history
  <1>11. ASSUME GivesUp \/ Rethrows PROVE Typed'
    <2>1. worker' \in WorkerStates
      <3>1. CASE worker.repairing BY <1>11, <3>1 DEF GivesUp, Rethrows, NoAnswer, WorkerStates, Replies
      <3>2. CASE ~worker.repairing BY <1>11, <3>2 DEF GivesUp, Rethrows, NoAnswer, WorkerStates, Replies
      <3> QED BY <3>1, <3>2
    <2> QED BY <1>11, <2>1 DEF GivesUp, Rethrows, rows, history
  <1>12. ASSUME Reply PROVE Typed'
    <2>1. AfterReply \in {"fail", "reject", "finish", "check"} BY DEF AfterReply
    <2>2. worker.message \in Messages BY <1>12 DEF Reply, Holds, Idle
    <2>3. worker' \in WorkerStates BY <1>12, <2>1 DEF Reply, WorkerStates
    <2> QED BY <1>12, <1>19, <2>2, <2>3 DEF Reply
  <1>13. ASSUME Check PROVE Typed'
    <2>1. worker' \in WorkerStates
      <3>1. CASE worker' = [worker EXCEPT !.step = "finish"] BY <3>1 DEF WorkerStates
      <3>2. CASE worker' = [worker EXCEPT !.step = "reject"] BY <3>2 DEF WorkerStates
      <3>3. CASE worker' = [worker EXCEPT !.step = "call", !.at = 1, !.repairing = TRUE] BY <3>3 DEF WorkerStates
      <3> QED BY <1>13, <3>1, <3>2, <3>3 DEF Check
    <2>2. op' \in [Messages -> {"none"} \cup Active \cup Ended] BY <1>13 DEF Check, SetOp, Active
    <2> QED BY <1>13, <2>1, <2>2 DEF Check, history
  <1>14. ASSUME BillRepair PROVE Typed'
    <2>1. PICK s \in {"check", "reject"} : worker' = [worker EXCEPT !.step = s, !.cost = 0] BY <1>14 DEF BillRepair
    <2>2. worker' \in WorkerStates BY <2>1 DEF WorkerStates
    <2> QED BY <1>14, <1>19, <2>2 DEF BillRepair
  <1>15. ASSUME BillFails PROVE Typed'
    <2>1. PICK s \in {"check", "reject"} : worker' = [worker EXCEPT !.step = s, !.cost = 0] BY <1>15 DEF BillFails
    <2>2. worker' \in WorkerStates BY <2>1 DEF WorkerStates
    <2> QED BY <1>15, <1>20, <2>2 DEF BillFails, Fault, rows
  <1>16. ASSUME Finish PROVE Typed'
    <2>1. PICK s \in Ended : op' = [op EXCEPT ![worker.message] = s] BY <1>16 DEF Finish, SetOp, Ended
    <2>2. op' \in [Messages -> {"none"} \cup Active \cup Ended] BY <2>1
    <2>3. Idle \in WorkerStates BY DEF Idle, WorkerStates, Texts
    <2> QED BY <1>16, <2>2, <2>3 DEF Finish, history
  <1>17. ASSUME Crash PROVE Typed'
    <2>1. op' \in [Messages -> {"none"} \cup Active \cup Ended] BY <1>17 DEF Crash, SetOp, Ended
    <2>2. Idle \in WorkerStates BY DEF Idle, WorkerStates, Texts
    <2> QED BY <1>17, <1>20, <2>1, <2>2 DEF Crash, Fault
  <1> QED BY <1>1, <1>2, <1>3, <1>4, <1>5, <1>6, <1>7, <1>8, <1>9, <1>10, <1>11, <1>12, <1>13, <1>14, <1>15, <1>16,
             <1>17, <1>18 DEF Next

-----------------------------------------------------------------------------
(* Steps of the worker *)

GoesOn ==
  \/ \E c \in Costs, says \in Replies \ {"sorry"} : Answers(c, says)
  \/ \E e \in ProviderErrors : AsksAgain(e) \/ Fails(e)
  \/ Rethrows \/ GivesUp \/ Reply \/ Check \/ BillRepair \/ BillFails
Ends == Finish \/ Crash

\* A step of the worker concerns the message that it holds.
LEMMA OneMessage ==
  ASSUME Inv, GoesOn \/ Ends
  PROVE  /\ worker # Idle /\ worker.message \in Messages /\ op[worker.message] \in Active \ {"queued"}
         /\ tab' = tab /\ model' = model
         /\ replied' = replied \/ replied' = replied \cup {worker.message}
  <1>1. tab' = tab /\ model' = model
    BY DEF GoesOn, Ends, Answers, AsksAgain, Fails, Rethrows, GivesUp, Reply, Check, BillRepair, BillFails, Finish, Crash, history
  <1>2. worker # Idle
    <2>1. CASE Crash BY <2>1 DEF Crash
    <2>2. CASE ~Crash
      <3>1. worker.step \in {"call", "reply", "check", "bill", "finish", "reject", "fail"}
        BY <2>2 DEF GoesOn, Ends, Answers, AsksAgain, Fails, Rethrows, GivesUp, Reply, Check, BillRepair, BillFails, Finish
      <3> QED BY <3>1 DEF Inv, Holds
    <2> QED BY <2>1, <2>2
  <1>3. replied' = replied \/ replied' = replied \cup {worker.message}
    BY DEF GoesOn, Ends, Answers, AsksAgain, Fails, Rethrows, GivesUp, Reply, Check, BillRepair, BillFails, Finish, Crash, rows
  <1>4. worker.message \in Messages /\ op[worker.message] \in Active \ {"queued"} BY <1>2 DEF Inv, Holds
  <1> QED BY <1>1, <1>2, <1>3, <1>4

\* There is a window.
LEMMA ADay == "day" \in Windows
  BY DEF Windows

\* What a step makes of a window: it takes from it, or a row is added, and the window may run out.
Steady(w)   == ranout'[w] = ranout[w] /\ used'[w] <= used[w]
Recorded(w) == ranout'[w] = IF used[w] < TokenLimit[w] THEN UnderWay ELSE ranout[w]

\* While it goes on, what it records and may still record does not grow.
LEMMA GoingOn ==
  ASSUME Inv, GoesOn, NEW w \in Windows
  PROVE  /\ worker'.step # "idle" /\ worker'.message = worker.message
         /\ op' = op \/ op' = [op EXCEPT ![worker.message] = "checking"]
         /\ Steady(w) \/ Recorded(w)
         /\ used'[w] + Due' <= used[w] + Due
         /\ spent'[w] = used'[w] + worker'.cost
         /\ worker'.cost <= Cost
         /\ worker'.step \notin {"reply", "bill"} => worker'.cost = 0
         /\ worker'.step = "reply" => First' /\ worker'.says # "none"
         /\ worker'.step = "bill" => worker'.repairing
  <1> DEFINE Goal == /\ worker'.step # "idle" /\ worker'.message = worker.message
                     /\ op' = op \/ op' = [op EXCEPT ![worker.message] = "checking"]
                     /\ Steady(w) \/ Recorded(w)
                     /\ used'[w] + Due' <= used[w] + Due
                     /\ spent'[w] = used'[w] + worker'.cost
                     /\ worker'.cost <= Cost
                     /\ worker'.step \notin {"reply", "bill"} => worker'.cost = 0
                     /\ worker'.step = "reply" => First' /\ worker'.says # "none"
                     /\ worker'.step = "bill" => worker'.repairing
  <1> USE DEF Inv
  <1>1. Cost \in Nat /\ \A c \in Costs : c \in Nat /\ c <= Cost BY CostIsMost, CopilotAssumption
  <1>2. worker.cost \in Nat /\ used[w] \in Nat /\ spent[w] \in Nat /\ worker.cost <= Cost
        /\ spent[w] = used[w] + worker.cost
    BY DEF Typed, WorkerStates, Holds, Account, Balanced
  <1>a. used' = used /\ ranout' = ranout => Steady(w)
    BY <1>2 DEF Steady
  <1>b. Records => Recorded(w) /\ used'[w] = used[w] + worker.cost
    BY DEF Records, Recorded
  <1>3. ASSUME NEW c \in Costs, NEW says \in Replies \ {"sorry"}, Answers(c, says) PROVE Goal
    <2>1. worker.cost = 0 BY <1>3 DEF Answers, Holds
    <2>2. says # "none" /\ op' = op /\ used' = used /\ ranout' = ranout /\ spent'[w] = spent[w] + c BY <1>3 DEF Answers, rows, Replies
    <2>3. CASE worker.repairing
      <3>1. /\ worker'.step = "bill" /\ worker'.cost = c /\ worker'.message = worker.message
            /\ worker'.repairing = worker.repairing
        BY <1>3, <2>3 DEF Answers, Typed, WorkerStates
      <3>2. Due = Cost /\ Due' = c BY <1>1, <1>3, <2>1, <2>3, <3>1 DEF Due, First, Answers
      <3> QED BY <1>1, <1>2, <1>a, <2>1, <2>2, <2>3, <3>1, <3>2
    <2>4. CASE ~worker.repairing
      <3>1. /\ worker'.step = "reply" /\ worker'.cost = c /\ worker'.message = worker.message
            /\ worker'.repairing = worker.repairing /\ worker'.says = says
        BY <1>3, <2>4 DEF Answers, Typed, WorkerStates
      <3>2. Due = 2 * Cost /\ Due' = c + Cost BY <1>1, <1>3, <2>1, <2>4, <3>1 DEF Due, First, Answers
      <3> QED BY <1>1, <1>2, <1>a, <2>1, <2>2, <2>4, <3>1, <3>2 DEF First
    <2> QED BY <2>3, <2>4
  <1>4. ASSUME NEW e \in ProviderErrors, AsksAgain(e) \/ Fails(e) PROVE Goal
    <2>1. /\ worker'.step = worker.step /\ worker'.cost = worker.cost /\ worker'.message = worker.message
          /\ worker'.repairing = worker.repairing /\ worker.step = "call"
      BY <1>4 DEF AsksAgain, Fails, Typed, WorkerStates
    <2>2. Due' = Due BY <2>1 DEF Due, First
    <2>3. op' = op /\ used' = used /\ spent' = spent /\ ranout' = ranout
      BY <1>4 DEF AsksAgain, Fails, rows, history
    <2>4. Due \in Nat BY DueIsBounded
    <2> QED BY <1>2, <1>a, <2>1, <2>2, <2>3, <2>4 DEF Holds
  <1>5. ASSUME GivesUp \/ Rethrows PROVE Goal
    <2>1. worker.step = "call" /\ worker.cost = 0 BY <1>5 DEF GivesUp, Rethrows, Holds
    <2>2. /\ worker'.step = IF worker.repairing THEN "reject" ELSE "reply"
          /\ worker'.cost = 0 /\ worker'.message = worker.message
          /\ worker'.repairing = worker.repairing /\ worker'.says = "sorry"
      BY <1>5, <2>1 DEF GivesUp, Rethrows, NoAnswer, Typed, WorkerStates
    <2>3. op' = op /\ used' = used /\ spent' = spent /\ ranout' = ranout BY <1>5 DEF GivesUp, Rethrows, rows, history
    <2>4. Due' \in Nat /\ Due' <= Due /\ Due \in Nat BY <1>1, <2>1, <2>2 DEF Due, First
    <2>5. worker'.step \in {"reply", "reject"} /\ (worker'.step = "reply" => First') BY <2>2 DEF First
    <2>6. worker'.says # "none" BY <2>2
    <2>7. used'[w] + Due' <= used[w] + Due /\ spent'[w] = used'[w] + worker'.cost
      <3>1. \A r, d, e \in Nat : d <= e => r + d <= r + e OBVIOUS
      <3>2. used'[w] + Due' <= used[w] + Due BY <1>2, <2>3, <2>4, <3>1
      <3>3. spent'[w] = used'[w] + worker'.cost BY <1>2, <2>1, <2>2, <2>3
      <3> QED BY <3>2, <3>3
    <2> QED BY <1>1, <1>2, <1>a, <2>1, <2>2, <2>3, <2>5, <2>6, <2>7
  <1>6. ASSUME Reply PROVE Goal
    <2>1. AfterReply \in {"fail", "reject", "finish", "check"} BY DEF AfterReply
    <2>2. worker.step = "reply" /\ First BY <1>6 DEF Reply, Holds
    <2>3. /\ worker'.step = AfterReply /\ worker'.cost = 0 /\ worker'.message = worker.message
          /\ worker'.repairing = worker.repairing
      BY <1>6 DEF Reply, Typed, WorkerStates
    <2>4. op' = op /\ used'[w] = used[w] + worker.cost /\ spent' = spent /\ Recorded(w) BY <1>6, <1>b DEF Reply
    <2>5. Due = worker.cost + Cost /\ Due' \in Nat /\ Due' <= Cost BY <1>1, <2>1, <2>2, <2>3 DEF Due, First
    <2> QED BY <1>1, <1>2, <2>1, <2>2, <2>3, <2>4, <2>5
  <1>7. ASSUME Check PROVE Goal
    <2>1. worker.step = "check" /\ worker.cost = 0 BY <1>7 DEF Check, Holds
    <2>2. /\ worker'.cost = 0 /\ worker'.message = worker.message
          /\ \/ worker'.step \in {"finish", "reject"} /\ worker'.repairing = worker.repairing
             \/ worker'.step = "call" /\ worker'.repairing /\ First
      <3>1. CASE worker' = [worker EXCEPT !.step = "finish"] BY <2>1, <3>1 DEF Typed, WorkerStates
      <3>2. CASE worker' = [worker EXCEPT !.step = "reject"] BY <2>1, <3>2 DEF Typed, WorkerStates
      <3>3. CASE First /\ worker' = [worker EXCEPT !.step = "call", !.at = 1, !.repairing = TRUE]
        BY <2>1, <3>3 DEF Typed, WorkerStates
      <3> QED BY <1>7, <3>1, <3>2, <3>3 DEF Check, First
    <2>3. op' = [op EXCEPT ![worker.message] = "checking"] BY <1>7 DEF Check, SetOp
    <2>9. spent' = spent /\ ranout' = ranout BY <1>7 DEF Check, history
    <2>4. used' = used BY <1>7 DEF Check
    <2>5. worker'.step \in {"finish", "reject", "call"} BY <2>2
    <2>6. worker'.cost = 0 /\ worker'.message = worker.message BY <2>2
    <2>7. used'[w] + Due' <= used[w] + Due BY <1>1, <1>2, <2>1, <2>2, <2>4 DEF Due, First
    <2>8. spent'[w] = used'[w] + worker'.cost BY <1>2, <2>1, <2>6, <2>9, <2>4
    <2> QED BY <1>1, <1>2, <1>a, <2>1, <2>3, <2>5, <2>6, <2>7, <2>8, <2>9, <2>4
  <1>8. ASSUME BillRepair \/ BillFails PROVE Goal
    <2>1. worker.step = "bill" BY <1>8 DEF BillRepair, BillFails
    <2>2. PICK s \in {"check", "reject"} : worker' = [worker EXCEPT !.step = s, !.cost = 0]
      BY <1>8 DEF BillRepair, BillFails
    <2>3. /\ worker'.step = s /\ worker'.cost = 0 /\ worker'.message = worker.message /\ worker'.repairing
      BY <2>1, <2>2 DEF Typed, WorkerStates, Holds
    <2>4. op' = op BY <1>8 DEF BillRepair, BillFails, rows
    <2>5. Due = worker.cost /\ Due' = 0 BY <1>1, <1>2, <2>1, <2>3 DEF Due, First
    <2>6. CASE BillRepair
      <3>1. Recorded(w) /\ used'[w] = used[w] + worker.cost /\ spent' = spent BY <1>b, <2>6 DEF BillRepair
      <3> QED BY <1>1, <1>2, <2>3, <2>4, <2>5, <3>1
    <2>7. CASE BillFails
      <3>1. used' = used /\ ranout' = ranout /\ spent'[w] = spent[w] - worker.cost BY <2>7 DEF BillFails, Forgets, rows
      <3> QED BY <1>1, <1>2, <1>a, <2>3, <2>4, <2>5, <3>1
    <2> QED BY <1>8, <2>6, <2>7
  <1> QED BY <1>3, <1>4, <1>5, <1>6, <1>7, <1>8 DEF GoesOn

\* When it ends, nothing more will be recorded for its message.
LEMMA Ending ==
  ASSUME Inv, Ends, NEW w \in Windows
  PROVE  /\ worker' = Idle /\ used' = used /\ ranout' = ranout
         /\ \E s \in Ended : op' = [op EXCEPT ![worker.message] = s]
         /\ spent'[w] = used'[w] + worker'.cost
  <1> USE DEF Inv
  <1>1. worker.cost \in Nat /\ used[w] \in Nat /\ spent[w] = used[w] + worker.cost
    BY DEF Typed, WorkerStates, Account, Balanced
  <1>2. CASE Finish
    <2>1. worker.cost = 0 BY <1>2 DEF Finish, Holds
    <2>2. \E s \in Ended : op' = [op EXCEPT ![worker.message] = s] BY <1>2 DEF Finish, SetOp, Ended
    <2> QED BY <1>1, <1>2, <2>1, <2>2 DEF Finish, history, Idle
  <1>3. CASE Crash
    <2>1. \E s \in Ended : op' = [op EXCEPT ![worker.message] = s] BY <1>3 DEF Crash, SetOp, Ended
    <2>2. worker' = Idle /\ used' = used /\ ranout' = ranout /\ spent'[w] = spent[w] - worker.cost BY <1>3 DEF Crash, Forgets
    <2>3. worker'.cost = 0 BY <2>2 DEF Idle
    <2>4. spent'[w] = used'[w] + worker'.cost BY <1>1, <2>2, <2>3
    <2> QED BY <2>1, <2>2, <2>4
  <1> QED BY <1>2, <1>3 DEF Ends

-----------------------------------------------------------------------------
(* Requests and the message in hand *)

LEMMA RequestsKept == Inv /\ Next => Requests'
  <1> SUFFICES ASSUME Inv, Next PROVE Requests' OBVIOUS
  <1> USE DEF Inv
  <1>0. "none" \notin Picks
    <2>1. "none" \notin ModelIds BY OverridesAssumption DEF ModelIds, Defaults
    <2> QED BY <2>1, CopilotAssumption
  <1>1. ASSUME NEW t \in Tabs, NEW c \in Picks, NEW k \in 1..3, Send(t, c, k) PROVE Requests'
    <2>1. op' = op /\ model' = model BY <1>1 DEF Send, rows
    <2>2. \A u \in Tabs : tab'[u] = IF u = t THEN [step |-> "busy", message |-> 0, model |-> c] ELSE tab[u]
      BY <1>1 DEF Send, Typed
    <2> QED BY <2>1, <2>2 DEF Requests
  <1>2. ASSUME NEW t \in Tabs, CheckBusy(t) PROVE Requests'
    <2>1. op' = op /\ model' = model /\ tab[t].step = "busy" BY <1>2 DEF CheckBusy, rows
    <2>2. \A u \in Tabs : u # t => tab'[u] = tab[u]
      BY <1>2 DEF CheckBusy, Typed
    <2>3. tab'[t].step # "enqueue" /\ (tab'[t].step # "idle" => tab'[t].model = tab[t].model)
      <3>1. CASE tab'[t] = Rest BY <3>1 DEF Rest
      <3>2. CASE tab'[t] = [tab[t] EXCEPT !.step = "create"] BY <3>2 DEF Typed, TabStates
      <3> QED BY <1>2, <3>1, <3>2 DEF CheckBusy, Typed
    <2> QED BY <2>1, <2>2, <2>3 DEF Requests
  <1>3. ASSUME NEW t \in Tabs, CreateMessage(t) PROVE Requests'
    <2>1. PICK m \in Messages : /\ model[m] = "none" /\ model' = [model EXCEPT ![m] = tab[t].model]
                                /\ tab' = [tab EXCEPT ![t].step = "enqueue", ![t].message = m]
      BY <1>3 DEF CreateMessage
    <2>2. op' = op /\ tab[t].step = "create" BY <1>3 DEF CreateMessage, rows
    <2>3. tab[t].model \in Picks /\ tab[t].model # "none" BY <1>0, <2>2 DEF Requests
    <2>4. \A u \in Tabs : u # t => tab'[u] = tab[u] BY <2>1 DEF Typed
    <2>5. tab'[t].step = "enqueue" /\ tab'[t].message = m /\ tab'[t].model = tab[t].model
      BY <2>1 DEF Typed, TabStates
    <2>6. \A n \in Messages : model'[n] = IF n = m THEN tab[t].model ELSE model[n] BY <2>1 DEF Typed
    <2>7. op[m] = "none" BY <2>1 DEF Requests
    <2>8. \A u \in Tabs : tab'[u].step # "idle" => tab'[u].model \in Picks BY <2>2, <2>3, <2>4, <2>5 DEF Requests
    <2>9. \A u \in Tabs \ {t} : tab[u].step = "enqueue" =>
             tab[u].message \in Messages /\ tab[u].message # m /\ op[tab[u].message] = "none"
             /\ model'[tab[u].message] # "none"
      BY <2>1, <2>6 DEF Requests
    <2>10. \A u \in Tabs : tab'[u].step = "enqueue" =>
             tab'[u].message \in Messages /\ op'[tab'[u].message] = "none" /\ model'[tab'[u].message] # "none"
      <3> TAKE u \in Tabs
      <3>1. CASE u = t BY <2>2, <2>3, <2>5, <2>6, <2>7, <3>1
      <3>2. CASE u # t BY <2>2, <2>4, <2>9, <3>2
      <3> QED BY <3>1, <3>2
    <2>11. \A u, v \in Tabs : tab'[u].step = "enqueue" /\ tab'[v].step = "enqueue" /\ u # v
                               => tab'[u].message # tab'[v].message
      BY <2>4, <2>5, <2>9 DEF Requests
    <2>12. \A n \in Messages : model'[n] = "none" => op'[n] = "none" BY <2>2, <2>3, <2>6 DEF Requests
    <2> QED BY <2>8, <2>10, <2>11, <2>12 DEF Requests
  <1>4. ASSUME NEW t \in Tabs, NoMessageLeft(t) \/ ApiDies(t) PROVE Requests'
    <2>1. op' = op /\ model' = model BY <1>4 DEF NoMessageLeft, ApiDies, rows
    <2>2. \A u \in Tabs : tab'[u] = IF u = t THEN Rest ELSE tab[u] BY <1>4 DEF NoMessageLeft, ApiDies, Typed
    <2> QED BY <2>1, <2>2 DEF Requests, Rest
  <1>5. ASSUME NEW t \in Tabs, Enqueue(t) PROVE Requests'
    <2>1. model' = model /\ tab[t].step = "enqueue" BY <1>5 DEF Enqueue
    <2>2. \A u \in Tabs : tab'[u] = IF u = t THEN Rest ELSE tab[u] BY <1>5 DEF Enqueue, Typed
    <2>3. \A n \in Messages : op'[n] = IF n = tab[t].message THEN "queued" ELSE op[n] BY <1>5 DEF Enqueue, Typed
    <2> QED BY <2>1, <2>2, <2>3 DEF Requests, Rest
  <1>6. ASSUME NEW m \in Messages, Take(m) PROVE Requests'
    <2>1. tab' = tab /\ model' = model /\ op[m] = "queued" BY <1>6 DEF Take
    <2>2. \A n \in Messages : op'[n] = IF n = m THEN "staging" ELSE op[n] BY <1>6 DEF Take, Typed
    <2> QED BY <2>1, <2>2 DEF Requests
  <1>7. ASSUME GoesOn \/ Ends PROVE Requests'
    <2>1. tab' = tab /\ model' = model /\ op[worker.message] # "none" BY <1>7, OneMessage DEF Active
    <2>2. \A n \in Messages : n # worker.message => op'[n] = op[n]
      BY <1>7, ADay, GoingOn, Ending DEF Typed
    <2> QED BY <2>1, <2>2 DEF Requests
  <1>8. ASSUME NEW w \in Windows, Passes(w) PROVE Requests' BY <1>8 DEF Passes, Requests
  <1> QED BY <1>1, <1>2, <1>3, <1>4, <1>5, <1>6, <1>7, <1>8 DEF Next, GoesOn, Ends

LEMMA HoldsKept == Inv /\ Next => Holds'
  <1> SUFFICES ASSUME Inv, Next PROVE Holds' OBVIOUS
  <1> USE DEF Inv
  <1>1. ASSUME UNCHANGED <<op, replied, worker>> PROVE Holds' BY <1>1 DEF Holds, First
  <1>2. ASSUME NEW t \in Tabs, NEW c \in Picks, NEW n \in 1..3, Send(t, c, n) PROVE Holds' BY <1>1, <1>2 DEF Send, rows
  <1>8. ASSUME NEW w \in Windows, Passes(w) PROVE Holds' BY <1>1, <1>8 DEF Passes
  <1>3. ASSUME NEW t \in Tabs, CheckBusy(t) \/ CreateMessage(t) \/ NoMessageLeft(t) \/ ApiDies(t) PROVE Holds'
    BY <1>1, <1>3 DEF CheckBusy, CreateMessage, NoMessageLeft, ApiDies, rows
  <1>4. ASSUME NEW t \in Tabs, Enqueue(t) PROVE Holds'
    <2>1. worker' = worker /\ replied' = replied /\ tab[t].step = "enqueue" BY <1>4 DEF Enqueue
    <2>2. \A n \in Messages : op'[n] = IF n = tab[t].message THEN "queued" ELSE op[n] BY <1>4 DEF Enqueue, Typed
    <2>3. op[tab[t].message] = "none" /\ tab[t].message \in Messages BY <2>1 DEF Requests
    <2>4. tab[t].message \notin replied BY <2>3 DEF Holds
    <2>5. \A n \in Messages : op'[n] \in Active \ {"queued"} <=> op[n] \in Active \ {"queued"}
      BY <2>2, <2>3 DEF Active
    <2>6. \A n \in replied : op'[n] \notin {"none", "queued"} BY <2>2, <2>4 DEF Holds, Typed
    <2> QED BY <2>1, <2>5, <2>6 DEF Holds, First
  <1>5. ASSUME NEW m \in Messages, Take(m) PROVE Holds'
    <2>1. replied' = replied /\ op[m] = "queued" /\ worker = Idle BY <1>5 DEF Take
    <2>2. \A n \in Messages : op'[n] = IF n = m THEN "staging" ELSE op[n] BY <1>5 DEF Take, Typed
    <2>3. /\ worker'.step = "call" /\ worker'.message = m /\ worker'.cost = 0
      BY <1>5 DEF Take, Idle
    <2>4. worker' # Idle BY <2>3 DEF Idle
    <2>5. \A n \in Messages : op[n] \notin Active \ {"queued"} BY <2>1 DEF Holds
    <2>6. \A n \in Messages : op'[n] \in Active \ {"queued"} <=> n = m BY <2>2, <2>5 DEF Active
    <2>7. \A n \in replied : op'[n] \notin {"none", "queued"} BY <2>2 DEF Holds, Typed
    <2>8. Cost \in Nat BY CostIsMost
    <2> QED BY <2>1, <2>3, <2>4, <2>6, <2>7, <2>8 DEF Holds
  <1>6. ASSUME GoesOn PROVE Holds'
    <2>1. worker # Idle /\ worker.message \in Messages /\ op[worker.message] \in Active \ {"queued"}
          /\ (replied' = replied \/ replied' = replied \cup {worker.message})
      BY <1>6, OneMessage
    <2>2. worker'.step # "idle" /\ worker'.message = worker.message
          /\ (op' = op \/ op' = [op EXCEPT ![worker.message] = "checking"])
      BY <1>6, ADay, GoingOn
    <2>3. worker' # Idle BY <2>2 DEF Idle
    <2>4. \A n \in Messages : op'[n] = op[n] \/ (n = worker.message /\ op'[n] = "checking")
      <3>1. CASE op' = op BY <3>1
      <3>2. CASE op' = [op EXCEPT ![worker.message] = "checking"] BY <3>2 DEF Typed
      <3> QED BY <2>2, <3>1, <3>2
    <2>5. \A n \in Messages : op'[n] \in Active \ {"queued"} <=> n = worker.message
      BY <2>1, <2>4 DEF Holds, Active
    <2>6. \A n \in replied' : n \in Messages /\ op'[n] \notin {"none", "queued"}
      BY <2>1, <2>4 DEF Holds, Typed, Active
    <2> HIDE DEF Inv
    <2>7. /\ worker'.cost <= Cost
          /\ worker'.step \notin {"reply", "bill"} => worker'.cost = 0
          /\ worker'.step = "reply" => First' /\ worker'.says # "none"
          /\ worker'.step = "bill" => worker'.repairing
      BY <1>6, ADay, GoingOn
    <2>8. (worker.step = "idle" <=> worker = Idle)' BY <2>2, <2>3
    <2>9. Cost' = Cost BY DEF Cost
    <2> QED BY <2>1, <2>2, <2>3, <2>5, <2>6, <2>7, <2>8, <2>9 DEF Holds
  <1>7. ASSUME Ends PROVE Holds'
    <2>1. worker # Idle /\ worker.message \in Messages
          /\ (replied' = replied \/ replied' = replied \cup {worker.message})
      BY <1>7, OneMessage
    <2>2. worker' = Idle BY <1>7, ADay, Ending
    <2>3. PICK s \in Ended : op' = [op EXCEPT ![worker.message] = s] BY <1>7, ADay, Ending
    <2>4. \A n \in Messages : op'[n] = IF n = worker.message THEN s ELSE op[n] BY <2>3 DEF Typed
    <2>5. \A n \in Messages : op'[n] \notin Active \ {"queued"} BY <2>1, <2>4 DEF Holds, Active, Ended
    <2>6. \A n \in replied' : op'[n] \notin {"none", "queued"} BY <2>1, <2>4 DEF Holds, Typed, Ended
    <2>7. Cost \in Nat /\ Cost' = Cost BY CostIsMost DEF Cost
    <2>8. worker'.step = "idle" /\ worker'.cost = 0 BY <2>2 DEF Idle
    <2> QED BY <2>2, <2>5, <2>6, <2>7, <2>8 DEF Holds
  <1> QED BY <1>2, <1>3, <1>4, <1>5, <1>6, <1>7, <1>8 DEF Next, GoesOn, Ends

-----------------------------------------------------------------------------
(* The account *)

\* The account of a window holds when nothing that it weighs has grown.
LEMMA NothingGrows ==
  ASSUME Inv, Typed', NEW w \in Windows, Steady(w) \/ Recorded(w), Owed(w)' \in Nat, Owed(w)' <= Owed(w)
  PROVE  Covered(w)'
  <1> USE DEF Inv
  <1>1. Waiting \in Nat /\ Working \in {0, 1} BY Finite DEF Account, Working
  <1>2. UnderWay = Waiting + Working BY UnderWayIs
  <1>3. Price \in Nat /\ Price' = Price BY CostIsMost DEF Price, Cost
  <1>4. used[w] \in Nat /\ used'[w] \in Nat /\ ranout[w] \in Nat /\ TokenLimit[w] \in Nat BY CopilotAssumption DEF Typed
  <1>5. Due \in Nat /\ Due <= Price * Working BY DueIsBounded
  <1>6. Price * Waiting \in Nat /\ Price * ranout[w] \in Nat BY <1>1, <1>4, PriceOf
  <1>7. Price * UnderWay = Price * Waiting + Price * Working /\ Price * Working \in Nat
    <2>1. CASE Working = 0 BY <1>1, <1>2, <1>3, <1>6, <2>1
    <2>2. CASE Working = 1
      <3>1. Price * (Waiting + 1) = Price * Waiting + Price BY <1>1, PriceOf
      <3>2. Price * Working = Price BY <1>3, <2>2
      <3> QED BY <1>2, <1>3, <2>2, <3>1, <3>2
    <2> QED BY <1>1, <2>1, <2>2
  <1>8. Owed(w) \in Nat /\ Owed(w) <= used[w] + Price * UnderWay BY <1>4, <1>5, <1>6, <1>7 DEF Owed
  <1>9. used[w] >= TokenLimit[w] => Owed(w) < TokenLimit[w] + Price * ranout[w] BY <1>4 DEF Account, Covered
  <1> HIDE DEF Inv
  <1> SUFFICES ASSUME ~(used'[w] < TokenLimit[w]) PROVE Owed(w)' < TokenLimit[w] + Price * ranout'[w]
    BY <1>3 DEF Covered
  <1>10. CASE ranout'[w] = ranout[w] /\ used[w] >= TokenLimit[w] BY <1>4, <1>6, <1>8, <1>9, <1>10
  <1>11. CASE ranout'[w] = UnderWay /\ used[w] < TokenLimit[w] BY <1>4, <1>6, <1>7, <1>8, <1>11
  <1>12. CASE Steady(w) BY <1>4, <1>10, <1>12 DEF Steady
  <1>13. CASE Recorded(w) BY <1>4, <1>10, <1>11, <1>13 DEF Recorded
  <1> QED BY <1>12, <1>13

\* A step of a request that costs nothing.
LEMMA NothingSpent ==
  ASSUME Inv, Typed', IsFiniteSet(Queued'), Waiting' \in Nat, Waiting' <= Waiting,
         UNCHANGED <<worker, used, spent, ranout>>,
         Cardinality(Past') + Cardinality(Queued') + Working <= Cardinality(Tabs)
  PROVE  Account'
  <1>1. Waiting \in Nat BY Finite DEF Inv, Account
  <1>2. Due' = Due /\ Working' = Working BY DEF Due, First, Working
  <1>3. Due \in Nat BY DueIsBounded
  <1>4. Price * Waiting' <= Price * Waiting /\ Price * Waiting \in Nat /\ Price * Waiting' \in Nat
    BY <1>1, PriceOf
  <1>5. ASSUME NEW w \in Windows PROVE Covered(w)' /\ Balanced(w)'
    <2>1. used[w] \in Nat /\ used'[w] = used[w] /\ ranout'[w] = ranout[w] BY DEF Inv, Typed
    <2>2. Owed(w)' = used[w] + Due + Price * Waiting' BY <1>2, <2>1 DEF Owed, Price, Cost
    <2>3. Owed(w)' \in Nat /\ Owed(w)' <= Owed(w) BY <1>3, <1>4, <2>1, <2>2 DEF Owed
    <2>4. Steady(w) BY <2>1 DEF Steady
    <2>5. Covered(w)' BY <2>3, <2>4, NothingGrows
    <2>6. Balanced(w)' BY DEF Inv, Account, Balanced
    <2> QED BY <2>5, <2>6
  <1> QED BY <1>2, <1>5 DEF Account

\* send: the tokens recorded are below the limits, whatever else is under way.
LEMMA SendKept ==
  ASSUME Inv, NEW t \in Tabs, NEW c \in Picks, NEW n \in 1..3, Send(t, c, n)
  PROVE  Account'
  <1> USE DEF Inv
  <1>1. op' = op /\ worker' = worker /\ used' = used /\ spent' = spent BY DEF Send, rows, history
  <1>2. Queued' = Queued /\ Working' = Working BY <1>1 DEF Queued, Working
  <1>3. \A u \in Tabs : tab'[u] = IF u = t THEN [step |-> "busy", message |-> 0, model |-> c] ELSE tab[u]
    BY DEF Send, Typed
  <1>4. tab[t].step = "idle" /\ tab'[t].step = "busy" BY <1>3 DEF Send, Rest
  <1>5. Past' = Past BY <1>3, <1>4 DEF Past
  <1>6. \A w \in Windows : Covered(w)' BY <1>1 DEF Send, Covered
  <1>7. \A w \in Windows : Balanced(w)' BY <1>1 DEF Account, Balanced
  <1> QED BY <1>2, <1>5, <1>6, <1>7 DEF Account

\* Time passes: what leaves a window is no longer owed.
LEMMA PassesKept ==
  ASSUME Inv, Typed', NEW v \in Windows, Passes(v)
  PROVE  Account'
  <1> USE DEF Inv
  <1>1. tab' = tab /\ op' = op /\ worker' = worker /\ ranout' = ranout BY DEF Passes
  <1>2. PICK n \in 1..used[v] : used' = [used EXCEPT ![v] = @ - n] /\ spent' = [spent EXCEPT ![v] = @ - n] BY DEF Passes
  <1>3. Busy' = Busy /\ Past' = Past /\ Queued' = Queued /\ Working' = Working /\ Due' = Due
    BY <1>1 DEF Busy, Past, Queued, Working, Due, First
  <1>4. Waiting' = Waiting /\ Price' = Price BY <1>3 DEF Waiting, Price, Cost
  <1>5. Waiting \in Nat /\ Due \in Nat BY Finite, DueIsBounded DEF Account
  <1>6. Price * Waiting \in Nat BY <1>5, PriceOf
  <1>7. used[v] \in Nat /\ n \in Nat BY DEF Typed
  <1>8. ASSUME NEW w \in Windows PROVE Covered(w)' /\ Balanced(w)'
    <2>1. used[w] \in Nat /\ used'[w] \in Nat /\ used'[w] <= used[w] BY <1>2, <1>7 DEF Typed
    <2>2. Owed(w)' = used'[w] + Due + Price * Waiting BY <1>3, <1>4 DEF Owed
    <2>3. Owed(w)' \in Nat /\ Owed(w)' <= Owed(w) BY <1>5, <1>6, <2>1, <2>2 DEF Owed
    <2>4. Steady(w) BY <1>1, <2>1 DEF Steady
    <2>5. Covered(w)' BY <2>3, <2>4, NothingGrows
    <2>6. spent[w] = used[w] + worker.cost /\ worker.cost \in Nat /\ spent[w] \in Nat
      BY DEF Account, Balanced, Typed, WorkerStates
    <2>7. Balanced(w)'
      <3>1. CASE w = v BY <1>1, <1>2, <1>7, <2>6, <3>1 DEF Balanced, Typed
      <3>2. CASE w # v BY <1>1, <1>2, <2>6, <3>2 DEF Balanced, Typed
      <3> QED BY <3>1, <3>2
    <2> QED BY <2>5, <2>7
  <1> QED BY <1>3, <1>8 DEF Account

\* The steps of a request: past the check for one that is busy, and on to its operation.
LEMMA RequestKept ==
  ASSUME Inv, Typed', NEW t \in Tabs,
         CheckBusy(t) \/ CreateMessage(t) \/ NoMessageLeft(t) \/ Enqueue(t) \/ ApiDies(t)
  PROVE  Account'
  <1> USE DEF Inv
  <1>1. UNCHANGED <<worker, used, spent, ranout>>
    BY DEF CheckBusy, CreateMessage, NoMessageLeft, Enqueue, ApiDies, rows, history
  <1>2. /\ IsFiniteSet(Queued) /\ IsFiniteSet(Busy) /\ IsFiniteSet(Past) /\ Waiting \in Nat
        /\ Cardinality(Busy) \in Nat /\ Cardinality(Past) \in Nat /\ Cardinality(Queued) \in Nat
        /\ Cardinality(Tabs) \in Nat
    BY Finite DEF Account
  <1>3. CASE CheckBusy(t)
    <2>1. Queued' = Queued /\ tab[t].step = "busy" BY <1>3 DEF CheckBusy, rows, Queued
    <2>2. \A u \in Tabs : u # t => tab'[u] = tab[u] BY <1>3 DEF CheckBusy, Typed
    <2>3. Busy' = Busy \ {t} /\ t \in Busy /\ t \notin Past
      <3>1. tab'[t].step # "busy"
        <4>1. CASE tab'[t] = Rest BY <4>1 DEF Rest
        <4>2. CASE tab'[t] = [tab[t] EXCEPT !.step = "create"] BY <4>2 DEF Typed, TabStates
        <4> QED BY <1>3, <4>1, <4>2 DEF CheckBusy, Typed
      <3> QED BY <2>1, <2>2, <3>1 DEF Busy, Past
    <2>4. Cardinality(Busy') = Cardinality(Busy) - 1 /\ Cardinality(Busy') \in Nat
      <3>1. IsFiniteSet(Busy') BY <1>2, <2>3, FS_RemoveElement
      <3> QED BY <1>2, <2>3, <3>1, FS_RemoveElement, FS_CardinalityType
    <2>5. CASE \E m \in Messages : op[m] \in Active
      <3>1. tab'[t] = Rest BY <1>3, <2>5 DEF CheckBusy, Typed
      <3>2. Past' = Past BY <2>1, <2>2, <3>1 DEF Past, Rest
      <3>3. Waiting' \in Nat /\ Waiting' <= Waiting BY <1>2, <2>1, <2>4, <3>2 DEF Waiting
      <3>4. Cardinality(Past') + Cardinality(Queued') + Working <= Cardinality(Tabs) BY <2>1, <3>2 DEF Account
      <3> QED BY <1>1, <1>2, <2>1, <3>3, <3>4, NothingSpent
    <2>6. CASE ~\E m \in Messages : op[m] \in Active
      <3>1. tab'[t].step = "create" BY <1>3, <2>6 DEF CheckBusy, Typed, TabStates
      <3>2. Past' = Past \cup {t} BY <2>2, <3>1 DEF Past
      <3>3. Cardinality(Past') = Cardinality(Past) + 1 BY <1>2, <2>3, <3>2, FS_AddElement
      <3>4. Waiting' \in Nat /\ Waiting' <= Waiting BY <1>2, <2>1, <2>4, <3>3 DEF Waiting
      <3>5. Queued = {} /\ worker = Idle BY <2>6 DEF Queued, Active, Holds
      <3>6. Cardinality(Queued) = 0 /\ Working = 0 BY <3>5, FS_EmptySet DEF Working
      <3>7. Past' \in SUBSET Tabs BY <3>2 DEF Past
      <3>8. Cardinality(Past') <= Cardinality(Tabs) BY <3>7, CopilotAssumption, FS_Subset
      <3>9. Cardinality(Past') + Cardinality(Queued') + Working <= Cardinality(Tabs)
        BY <1>2, <2>1, <3>3, <3>6, <3>8
      <3> QED BY <1>1, <1>2, <2>1, <3>4, <3>9, NothingSpent
    <2> QED BY <2>5, <2>6
  <1>4. CASE CreateMessage(t)
    <2>1. PICK m \in Messages : tab' = [tab EXCEPT ![t].step = "enqueue", ![t].message = m] BY <1>4 DEF CreateMessage
    <2>2. \A u \in Tabs : u # t => tab'[u] = tab[u] BY <2>1 DEF Typed
    <2>3. tab'[t].step = "enqueue" BY <2>1 DEF Typed, TabStates
    <2>4. Busy' = Busy /\ Past' = Past /\ Queued' = Queued BY <1>4, <2>2, <2>3 DEF CreateMessage, Busy, Past, Queued, rows
    <2>5. Waiting' = Waiting BY <2>4 DEF Waiting
    <2>6. Cardinality(Past') + Cardinality(Queued') + Working <= Cardinality(Tabs) BY <2>4 DEF Account
    <2> QED BY <1>1, <1>2, <2>4, <2>5, <2>6, NothingSpent
  <1>5. CASE NoMessageLeft(t) \/ Enqueue(t) \/ ApiDies(t)
    <2>1. \A u \in Tabs : tab'[u] = IF u = t THEN Rest ELSE tab[u] BY <1>5 DEF NoMessageLeft, Enqueue, ApiDies, Typed
    <2>2. tab[t].step \in {"create", "enqueue"} BY <1>5 DEF NoMessageLeft, Enqueue, ApiDies
    <2>3. Busy' = Busy /\ Past' = Past \ {t} /\ t \in Past BY <2>1, <2>2 DEF Busy, Past, Rest
    <2>4. Cardinality(Past') = Cardinality(Past) - 1 /\ Cardinality(Past') \in Nat
      <3>1. IsFiniteSet(Past') BY <1>2, <2>3, FS_RemoveElement
      <3> QED BY <1>2, <2>3, <3>1, FS_RemoveElement, FS_CardinalityType
    <2>5. IsFiniteSet(Queued') /\ Cardinality(Queued') \in Nat /\ Cardinality(Queued') <= Cardinality(Queued) + 1
      <3>1. CASE NoMessageLeft(t) \/ ApiDies(t)
        <4>1. Queued' = Queued BY <3>1 DEF NoMessageLeft, ApiDies, rows, Queued
        <4> QED BY <1>2, <4>1
      <3>2. CASE Enqueue(t)
        <4>1. tab[t].message \in Messages BY <3>2 DEF Enqueue, Requests
        <4>2. op' = [op EXCEPT ![tab[t].message] = "queued"] BY <3>2 DEF Enqueue
        <4>3. Queued' = Queued \cup {tab[t].message} BY <4>1, <4>2 DEF Queued, Typed
        <4>4. IsFiniteSet(Queued') BY <1>2, <4>3, FS_AddElement
        <4> QED BY <1>2, <4>3, <4>4, FS_AddElement, FS_CardinalityType
      <3> QED BY <1>5, <3>1, <3>2
    <2>6. Waiting' \in Nat /\ Waiting' <= Waiting BY <1>2, <2>3, <2>4, <2>5 DEF Waiting
    <2>7. Working \in Nat BY DEF Working
    <2>8. Cardinality(Past') + Cardinality(Queued') + Working <= Cardinality(Tabs)
      BY <1>2, <2>4, <2>5, <2>7 DEF Account
    <2> QED BY <1>1, <2>5, <2>6, <2>8, NothingSpent
  <1> QED BY <1>3, <1>4, <1>5

\* drain: what a message could cost passes from those that wait to the worker.
LEMMA TakeKept ==
  ASSUME Inv, Typed', NEW m \in Messages, Take(m)
  PROVE  Account'
  <1> USE DEF Inv
  <1>1. tab' = tab /\ worker = Idle /\ op[m] = "queued" /\ UNCHANGED <<used, spent, ranout>>
    BY DEF Take, history
  <1>2. worker'.step = "call" /\ worker'.cost = 0 /\ ~worker'.repairing BY DEF Take, Idle
  <1>3. Busy' = Busy /\ Past' = Past /\ Queued' = Queued \ {m} /\ m \in Queued
    <2>1. \A n \in Messages : op'[n] = IF n = m THEN "staging" ELSE op[n] BY DEF Take, Typed
    <2> QED BY <1>1, <2>1 DEF Busy, Past, Queued
  <1>4. /\ IsFiniteSet(Queued) /\ Waiting \in Nat /\ Cardinality(Tabs) \in Nat
        /\ Cardinality(Busy) \in Nat /\ Cardinality(Past) \in Nat /\ Cardinality(Queued) \in Nat
    BY Finite DEF Account
  <1>5. IsFiniteSet(Queued') BY <1>3, <1>4, FS_RemoveElement
  <1>6. Cardinality(Queued') = Cardinality(Queued) - 1 /\ Cardinality(Queued') \in Nat
    BY <1>3, <1>4, <1>5, FS_RemoveElement, FS_CardinalityType
  <1>7. Waiting' \in Nat /\ Waiting = Waiting' + 1 BY <1>3, <1>4, <1>6 DEF Waiting
  <1>8. Working = 0 /\ Working' = 1 BY <1>1, <1>2 DEF Working, Idle
  <1>9. ASSUME NEW w \in Windows PROVE Covered(w)' /\ Balanced(w)'
    <2>1. Price \in Nat /\ Price' = Price /\ Cost \in Nat /\ Cost' = Cost BY CostIsMost DEF Price, Cost
    <2>2. Due' = Price /\ Due = 0 BY <1>1, <1>2, <2>1 DEF Due, First, Price, Idle
    <2>3. Price * Waiting = Price * Waiting' + Price /\ Price * Waiting' \in Nat BY <1>7, PriceOf
    <2>4. used[w] \in Nat /\ used'[w] = used[w] BY <1>1 DEF Typed
    <2>5. Owed(w)' = used[w] + Price + Price * Waiting' BY <2>1, <2>2, <2>4 DEF Owed
    <2>6. Owed(w) = used[w] + Price * Waiting BY <2>2, <2>3, <2>4 DEF Owed
    <2>7. Owed(w)' \in Nat /\ Owed(w)' <= Owed(w) BY <2>1, <2>3, <2>4, <2>5, <2>6
    <2>8. Steady(w) BY <1>1, <2>4 DEF Steady
    <2>9. Covered(w)' BY <2>7, <2>8, NothingGrows
    <2>10. Balanced(w)' BY <1>1, <1>2 DEF Account, Balanced, Idle
    <2> QED BY <2>9, <2>10
  <1>10. Cardinality(Past') + Cardinality(Queued') + Working' <= Cardinality(Tabs)
    BY <1>3, <1>4, <1>6, <1>8 DEF Account
  <1> QED BY <1>5, <1>9, <1>10 DEF Account

\* The worker's steps: what it records was owed.
LEMMA WorkKept ==
  ASSUME Inv, Typed', GoesOn \/ Ends
  PROVE  Account'
  <1> USE DEF Inv
  <1>1. worker # Idle /\ worker.message \in Messages /\ op[worker.message] # "queued" /\ tab' = tab
    BY OneMessage
  <1>2. Busy' = Busy /\ Past' = Past BY <1>1 DEF Busy, Past
  <1>3. Queued' = Queued
    <2>1. \A n \in Messages : op'[n] = "queued" <=> op[n] = "queued"
      <3>1. CASE op' = op BY <3>1
      <3>2. CASE \E s \in Ended \cup {"checking"} : op' = [op EXCEPT ![worker.message] = s]
        BY <1>1, <3>2 DEF Typed, Ended
      <3> QED BY <3>1, <3>2, ADay, GoingOn, Ending
    <2> QED BY <2>1 DEF Queued
  <1>4. Waiting' = Waiting /\ Waiting \in Nat BY <1>2, <1>3, Finite DEF Waiting, Account
  <1>5. Working' <= Working /\ Working' \in Nat /\ Working = 1 BY <1>1 DEF Working
  <1>6. Price * Waiting \in Nat /\ Price' = Price BY <1>4, PriceOf DEF Price, Cost
  <1>7. ASSUME NEW w \in Windows PROVE Covered(w)' /\ Balanced(w)'
    <2>1. Due' \in Nat
      <3>1. worker'.cost \in Nat /\ Cost \in Nat /\ Cost' = Cost BY CostIsMost DEF Typed, WorkerStates, Cost
      <3> QED BY <3>1 DEF Due, First
    <2>2. used[w] \in Nat /\ used'[w] \in Nat /\ Due \in Nat BY DueIsBounded DEF Typed
    <2>3. used'[w] + Due' <= used[w] + Due /\ (Steady(w) \/ Recorded(w)) /\ spent'[w] = used'[w] + worker'.cost
      <3>1. CASE GoesOn BY <3>1, GoingOn
      <3>2. CASE Ends
        <4>1. worker' = Idle /\ used' = used /\ ranout' = ranout /\ spent'[w] = used'[w] + worker'.cost BY <3>2, Ending
        <4>2. Due' = 0 BY <4>1 DEF Due, Idle
        <4>3. Steady(w) BY <2>2, <4>1 DEF Steady
        <4> QED BY <2>2, <4>1, <4>2, <4>3
      <3> QED BY <3>1, <3>2
    <2>4. Owed(w)' = used'[w] + Due' + Price * Waiting BY <1>4, <1>6 DEF Owed
    <2>5. Owed(w)' \in Nat /\ Owed(w)' <= Owed(w) BY <1>6, <2>1, <2>2, <2>3, <2>4 DEF Owed
    <2>6. Covered(w)' BY <2>3, <2>5, NothingGrows
    <2> QED BY <2>3, <2>6 DEF Balanced
  <1>9. Cardinality(Past') + Cardinality(Queued') + Working' <= Cardinality(Tabs)
    <2>1. Cardinality(Past) \in Nat /\ Cardinality(Queued) \in Nat /\ Cardinality(Tabs) \in Nat BY Finite DEF Account
    <2> QED BY <1>2, <1>3, <1>5, <2>1 DEF Account
  <1>10. IsFiniteSet(Queued') BY <1>3 DEF Account
  <1> QED BY <1>7, <1>9, <1>10 DEF Account

-----------------------------------------------------------------------------
(* The theorems *)

LEMMA Kept == Inv /\ [Next]_state => Inv'
  <1> SUFFICES ASSUME Inv, [Next]_state PROVE Inv' OBVIOUS
  <1>1. CASE UNCHANGED state
    <2> USE <1>1 DEF state, rows, history
    <2>1. Typed' BY DEF Inv, Typed
    <2>2. Requests' BY DEF Inv, Requests
    <2>3. Holds' BY DEF Inv, Holds, First
    <2>4. Busy' = Busy /\ Past' = Past /\ Queued' = Queued /\ Due' = Due /\ Working' = Working
      BY DEF Busy, Past, Queued, Due, First, Working
    <2>5. Account' BY <2>4 DEF Inv, Account, Covered, Balanced, Owed, Waiting, Price, Cost
    <2> QED BY <2>1, <2>2, <2>3, <2>5 DEF Inv
  <1>2. CASE Next
    <2>1. Typed' /\ Requests' /\ Holds' BY <1>2, TypedSteps, RequestsKept, HoldsKept
    <2>2. Account'
      BY <1>2, <2>1, SendKept, PassesKept, RequestKept, TakeKept, WorkKept DEF Next, GoesOn, Ends
    <2> QED BY <2>1, <2>2 DEF Inv
  <1> QED BY <1>1, <1>2

LEMMA InvAlways == Spec => []Inv
  BY Starts, Kept, PTL DEF Spec

\* Types: the worker has one operation in progress, and a message that was answered was taken.
THEOREM TypesAlways == Spec => []TypeOK
  <1>1. Inv => TypeOK
    <2> SUFFICES ASSUME Inv PROVE TypeOK OBVIOUS
    <2> USE DEF Inv
    <2>1. \A w \in Windows : used[w] <= spent[w] BY DEF Typed, WorkerStates, Account, Balanced
    <2>2. Cardinality({m \in Messages : op[m] \in Active \ {"queued"}}) = IF worker = Idle THEN 0 ELSE 1
      <3> DEFINE Mine == {m \in Messages : op[m] \in Active \ {"queued"}}
      <3>1. CASE worker = Idle
        <4>1. Mine = {} BY <3>1 DEF Holds
        <4> QED BY <3>1, <4>1, FS_EmptySet
      <3>2. CASE worker # Idle
        <4>1. Mine = {worker.message} BY <3>2 DEF Holds
        <4> QED BY <3>2, <4>1, FS_Singleton
      <3> QED BY <3>1, <3>2
    <2> QED BY <2>1, <2>2 DEF Typed, Holds, TypeOK
  <1> QED BY <1>1, InvAlways, PTL

\* usage, reply, repair: in neither window do the tokens of the models' answers, but for those whose row could not be
\* written, exceed the plan's allowance by more than an answer and a repair of every request that was under way when it
\* ran out; and no more than two requests for a tab ever are.
THEOREM AllowanceAlways == Spec => []AllowanceHolds
  <1>1. Inv => AllowanceHolds
    <2> SUFFICES ASSUME Inv PROVE AllowanceHolds OBVIOUS
    <2> USE DEF Inv
    <2>1. Cardinality(Busy) \in Nat /\ Cardinality(Past) \in Nat /\ Cardinality(Queued) \in Nat /\ Cardinality(Tabs) \in Nat
      BY Finite DEF Account
    <2>2. Waiting \in Nat /\ Working \in {0, 1} /\ UnderWay = Waiting + Working BY Finite, UnderWayIs DEF Account, Working
    <2>3. UnderWay <= 2 * Cardinality(Tabs)
      <3>1. Busy \in SUBSET Tabs BY DEF Busy
      <3>2. Cardinality(Busy) <= Cardinality(Tabs) BY <3>1, CopilotAssumption, FS_Subset
      <3> QED BY <2>1, <2>2, <3>2 DEF Waiting, Account
    <2>4. Price \in Nat /\ Due \in Nat /\ Due <= Price * Working /\ worker.cost <= Due /\ worker.cost \in Nat
      BY CostIsMost, DueIsBounded DEF Price, Typed, WorkerStates
    <2>5. Price * Working <= Price * UnderWay /\ Price * Working \in Nat /\ Price * UnderWay \in Nat /\ Price * Waiting \in Nat
      BY <2>2, PriceOf
    <2>6. ASSUME NEW w \in Windows PROVE spent[w] < TokenLimit[w] + Price * Admitted(w)
      <3>1. /\ used[w] \in Nat /\ TokenLimit[w] \in Nat /\ ranout[w] \in Nat /\ Price * ranout[w] \in Nat
            /\ spent[w] = used[w] + worker.cost
        BY CopilotAssumption, PriceOf DEF Typed, Account, Balanced
      <3>2. CASE used[w] < TokenLimit[w]
        <4>1. Admitted(w) = UnderWay BY <3>2 DEF Admitted
        <4>2. worker.cost <= Price * UnderWay BY <2>4, <2>5
        <4> QED BY <2>4, <2>5, <3>1, <3>2, <4>1, <4>2
      <3>3. CASE ~(used[w] < TokenLimit[w])
        <4>1. Admitted(w) = ranout[w] BY <3>3 DEF Admitted
        <4>2. Owed(w) < TokenLimit[w] + Price * ranout[w] BY <3>3 DEF Account, Covered
        <4>3. spent[w] <= Owed(w) /\ Owed(w) \in Nat BY <2>4, <2>5, <3>1 DEF Owed
        <4> QED BY <2>4, <3>1, <4>1, <4>2, <4>3
      <3> QED BY <3>2, <3>3
    <2> QED BY <2>3, <2>6 DEF AllowanceHolds, Price, Cost
  <1> QED BY <1>1, InvAlways, PTL

-----------------------------------------------------------------------------
(* No route left untried: the walk over models and vendors *)

\* A set of natural numbers has a smallest one.
LEMMA Least ==
  ASSUME NEW T \in SUBSET Nat, T # {}
  PROVE  \E x \in T : \A y \in T : ~(y < x)
<1> DEFINE R == {ss \in Nat \X Nat : ss[1] < ss[2]}
<1>1. IsWellFoundedOn(R, Nat)
  BY NatLessThanWellFounded DEF OpToRel
<1>2. T \subseteq Nat
  OBVIOUS
<1> HIDE DEF R
<1>3. \E x \in T : \A y \in T : ~ (<<y, x>> \in R)
  BY <1>1, <1>2, WFMin
<1> QED
  BY <1>3 DEF R

\* What holds at the start of a walk and is kept by its turns holds at each.
LEMMA EachTurn ==
  ASSUME NEW N \in Nat, NEW G, 0 \in G, \A n \in 1..N : n - 1 \in G => n \in G
  PROVE  \A n \in 0..N : n \in G
<1> DEFINE T == {n \in 0..N : n \notin G}
<1> SUFFICES ASSUME T # {} PROVE FALSE
  OBVIOUS
<1>1. T \in SUBSET Nat
  OBVIOUS
<1>2. PICK n \in T : \A k \in T : ~(k < n)
  BY <1>1, Least
<1>3. n \in 1..N /\ n - 1 \in 0..N /\ n - 1 < n
  OBVIOUS
<1>4. n - 1 \in G
  BY <1>2, <1>3
<1> QED
  BY <1>3, <1>4

\* A function that takes turns within U exists for any number of turns.
Takes(N, U, a, F, f) ==
  f \in [0..N -> U] /\ f[0] = a /\ \A n \in 1..N : f[n] = F[n][f[n - 1]]

LEMMA TurnsExist ==
  ASSUME NEW N \in Nat, NEW U, NEW a \in U, NEW F, \A n \in 1..N : \A x \in U : F[n][x] \in U
  PROVE  \E f : Takes(N, U, a, F, f)
<1> DEFINE Run(f, n) == f[0] = a /\ \A k \in 1..n : f[k] = F[k][f[k - 1]]
           G == {n \in 0..N : \E f \in [0..n -> U] : Run(f, n)}
<1>1. 0 \in G
  <2> DEFINE f == [n \in 0..0 |-> a]
  <2>1. f \in [0..0 -> U] /\ Run(f, 0)
    OBVIOUS
  <2> HIDE DEF f, Run
  <2> QED
    BY <2>1
<1>2. ASSUME NEW n \in 1..N, n - 1 \in G PROVE n \in G
  <2>1. PICK g \in [0..n-1 -> U] : Run(g, n - 1)
    BY <1>2
  <2> DEFINE f == [k \in 0..n |-> IF k = n THEN F[n][g[n - 1]] ELSE g[k]]
  <2>2. g[n - 1] \in U
    OBVIOUS
  <2>3. f \in [0..n -> U]
    BY <2>2
  <2>4. ASSUME NEW k \in 1..n PROVE f[k] = F[k][f[k - 1]]
    <3>1. f[k - 1] = g[k - 1]
      OBVIOUS
    <3>2. CASE k = n
      BY <3>1, <3>2
    <3>3. CASE k # n
      <4>1. k \in 1..n-1 /\ f[k] = g[k]
        BY <3>3
      <4> QED
        BY <2>1, <3>1, <4>1
    <3> QED
      BY <3>2, <3>3
  <2>5. f[0] = a
    BY <2>1
  <2>6. Run(f, n)
    BY <2>4, <2>5
  <2> HIDE DEF f, Run
  <2> QED
    BY <2>3, <2>6
<1> HIDE DEF G
<1>3. N \in G
  BY <1>1, <1>2, EachTurn
<1> QED
  BY <1>3 DEF G, Takes

\* The members of a sequence.
LEMMA MembersOf ==
  ASSUME NEW S, NEW s \in Seq(S)
  PROVE  /\ ToSet(s) \subseteq S
         /\ \A x : Contains(s, x) <=> x \in ToSet(s)
         /\ \A t \in Seq(S) : s \o t \in Seq(S) /\ ToSet(s \o t) = ToSet(s) \cup ToSet(t)
         /\ \A e \in S : Append(s, e) \in Seq(S) /\ ToSet(Append(s, e)) = ToSet(s) \cup {e}
         /\ s # <<>> => /\ Head(s) \in S /\ Tail(s) \in Seq(S)
                        /\ Len(s) = Len(Tail(s)) + 1 /\ ToSet(s) = {Head(s)} \cup ToSet(Tail(s))
<1>1. ToSet(s) \subseteq S
  BY DEF ToSet
<1>2. \A x : Contains(s, x) <=> x \in ToSet(s)
  BY DEF ToSet, Contains
<1>3. ASSUME NEW t \in Seq(S) PROVE s \o t \in Seq(S) /\ ToSet(s \o t) = ToSet(s) \cup ToSet(t)
  <2>1. /\ s \o t \in Seq(S) /\ Len(s \o t) = Len(s) + Len(t)
        /\ \A i \in 1..Len(s) + Len(t) : (s \o t)[i] = IF i <= Len(s) THEN s[i] ELSE t[i - Len(s)]
    OBVIOUS
  <2>2. ToSet(s \o t) \subseteq ToSet(s) \cup ToSet(t)
    BY <2>1 DEF ToSet
  <2>3. ASSUME NEW i \in 1..Len(s) PROVE s[i] \in ToSet(s \o t)
    BY <2>1 DEF ToSet
  <2>4. ASSUME NEW i \in 1..Len(t) PROVE t[i] \in ToSet(s \o t)
    <3>1. i + Len(s) \in 1..Len(s) + Len(t) /\ (s \o t)[i + Len(s)] = t[i]
      BY <2>1
    <3>2. DOMAIN (s \o t) = 1..Len(s) + Len(t)
      BY <2>1
    <3> QED
      BY <3>1, <3>2, Zenon DEF ToSet
  <2>5. ToSet(s) = {s[i] : i \in 1..Len(s)} /\ ToSet(t) = {t[i] : i \in 1..Len(t)}
    BY DEF ToSet
  <2> QED
    BY <2>1, <2>2, <2>3, <2>4, <2>5
<1>4. ASSUME NEW e \in S PROVE Append(s, e) \in Seq(S) /\ ToSet(Append(s, e)) = ToSet(s) \cup {e}
  <2>1. /\ Append(s, e) \in Seq(S) /\ Len(Append(s, e)) = Len(s) + 1
        /\ \A i \in 1..Len(s) + 1 : Append(s, e)[i] = IF i <= Len(s) THEN s[i] ELSE e
    OBVIOUS
  <2>2. ToSet(Append(s, e)) \subseteq ToSet(s) \cup {e}
    BY <2>1 DEF ToSet
  <2>3. ASSUME NEW i \in 1..Len(s) PROVE s[i] \in ToSet(Append(s, e))
    BY <2>1 DEF ToSet
  <2>4. e \in ToSet(Append(s, e))
    <3>1. Len(s) + 1 \in 1..Len(s) + 1 /\ Append(s, e)[Len(s) + 1] = e
      BY <2>1
    <3> QED
      BY <2>1, <3>1 DEF ToSet
  <2> QED
    BY <2>1, <2>2, <2>3, <2>4 DEF ToSet
<1>5. ASSUME s # <<>> PROVE /\ Head(s) \in S /\ Tail(s) \in Seq(S)
                            /\ Len(s) = Len(Tail(s)) + 1 /\ ToSet(s) = {Head(s)} \cup ToSet(Tail(s))
  <2>1. /\ Head(s) \in S /\ Head(s) = s[1] /\ Tail(s) \in Seq(S) /\ Len(s) = Len(Tail(s)) + 1
        /\ \A i \in 1..Len(Tail(s)) : Tail(s)[i] = s[i + 1]
    BY <1>5
  <2>2. ToSet(s) \subseteq {Head(s)} \cup ToSet(Tail(s))
    <3>1. ASSUME NEW i \in 1..Len(s), i # 1 PROVE s[i] \in ToSet(Tail(s))
      <4>1. i - 1 \in 1..Len(Tail(s)) /\ Tail(s)[i - 1] = s[i]
        BY <2>1, <3>1
      <4> QED
        BY <2>1, <4>1 DEF ToSet
    <3> QED
      BY <2>1, <3>1 DEF ToSet
  <2>3. {Head(s)} \cup ToSet(Tail(s)) \subseteq ToSet(s)
    BY <2>1 DEF ToSet
  <2> QED
    BY <2>1, <2>2, <2>3
<1> QED
  BY <1>1, <1>2, <1>3, <1>4, <1>5

\* Among keeps the members that are in the set, and no others.
LEMMA AmongIs ==
  ASSUME NEW V, NEW s \in Seq(V), NEW S
  PROVE  Among(s, S) \in Seq(V) /\ Len(Among(s, S)) <= Len(s) /\ ToSet(Among(s, S)) = ToSet(s) \cap S
<1> DEFINE Is(h) == h = [n \in 0..Len(s) |-> IF n = 0 THEN <<>> ELSE IF s[n] \in S THEN Append(h[n - 1], s[n]) ELSE h[n - 1]]
           among == CHOOSE h : Is(h)
           F == [n \in 1..Len(s) |-> [x \in Seq(V) |-> IF s[n] \in S THEN Append(x, s[n]) ELSE x]]
<1>1. Among(s, S) = among[Len(s)]
  BY Zenon DEF Among
<1>2. \A n \in 1..Len(s) : \A x \in Seq(V) : F[n][x] \in Seq(V)
  OBVIOUS
<1>3. PICK f : Takes(Len(s), Seq(V), <<>>, F, f)
  <2>1. <<>> \in Seq(V) /\ Len(s) \in Nat
    OBVIOUS
  <2> HIDE DEF F
  <2> QED
    BY <1>2, <2>1, TurnsExist
<1>4. ASSUME NEW n \in 1..Len(s) PROVE f[n] = IF s[n] \in S THEN Append(f[n - 1], s[n]) ELSE f[n - 1]
  <2>1. f[n - 1] \in Seq(V)
    <3>1. n - 1 \in 0..Len(s)
      OBVIOUS
    <3> HIDE DEF F
    <3> QED
      BY <1>3, <3>1 DEF Takes
  <2>2. f[n] = F[n][f[n - 1]]
    <3> HIDE DEF F
    <3> QED
      BY <1>3 DEF Takes
  <2> QED
    BY <2>1, <2>2
<1> HIDE DEF F
<1>5. Is(f)
  <2>1. f \in [0..Len(s) -> Seq(V)] /\ f[0] = <<>>
    BY <1>3 DEF Takes
  <2>2. \A n \in 0..Len(s) : f[n] = IF n = 0 THEN <<>> ELSE IF s[n] \in S THEN Append(f[n - 1], s[n]) ELSE f[n - 1]
    <3> TAKE n \in 0..Len(s)
    <3>1. CASE n = 0
      BY <2>1, <3>1
    <3>2. CASE n # 0
      <4>1. n \in 1..Len(s)
        BY <3>2
      <4>2. f[n] = IF s[n] \in S THEN Append(f[n - 1], s[n]) ELSE f[n - 1]
        BY <1>4, <4>1
      <4> QED
        BY <3>2, <4>2, Zenon
    <3> QED
      BY <3>1, <3>2
  <2> QED
    BY <2>1, <2>2
<1>6. Is(among)
  <2> HIDE DEF Is
  <2> QED
    BY <1>5, Zenon
<1> HIDE DEF among
<1>7. /\ among[0] = <<>>
      /\ \A n \in 1..Len(s) : among[n] = IF s[n] \in S THEN Append(among[n - 1], s[n]) ELSE among[n - 1]
  <2>1. ASSUME NEW n \in 0..Len(s)
        PROVE  among[n] = IF n = 0 THEN <<>> ELSE IF s[n] \in S THEN Append(among[n - 1], s[n]) ELSE among[n - 1]
    BY <1>6, <2>1, Zenon
  <2>2. 0 \in 0..Len(s) /\ \A n \in 1..Len(s) : n \in 0..Len(s) /\ n # 0
    OBVIOUS
  <2> QED
    BY <2>1, <2>2, Zenon
<1> HIDE DEF Is
<1> DEFINE Upto(n) == {s[i] : i \in 1..n} \cap S
           Good(n) == among[n] \in Seq(V) /\ Len(among[n]) <= n /\ ToSet(among[n]) = Upto(n)
           G == {n \in 0..Len(s) : Good(n)}
<1>8. 0 \in G
  <2>1. among[0] = <<>> /\ 0 \in 0..Len(s)
    BY <1>7
  <2>2. Good(0)
    BY <2>1 DEF ToSet
  <2> QED
    BY <2>1, <2>2
<1>9. ASSUME NEW n \in 1..Len(s), n - 1 \in G PROVE n \in G
  <2>1. among[n - 1] \in Seq(V) /\ Len(among[n - 1]) <= n - 1 /\ ToSet(among[n - 1]) = Upto(n - 1) /\ s[n] \in V
    BY <1>9
  <2>2. Upto(n) = Upto(n - 1) \cup ({s[n]} \cap S)
    OBVIOUS
  <2>3. CASE s[n] \in S
    <3>1. among[n] = Append(among[n - 1], s[n])
      BY <1>7, <2>3
    <3>2. among[n] \in Seq(V) /\ ToSet(among[n]) = ToSet(among[n - 1]) \cup {s[n]}
      BY <2>1, <3>1, MembersOf
    <3>3. Len(among[n]) = Len(among[n - 1]) + 1
      BY <2>1, <3>1
    <3>4. Len(among[n]) <= n
      BY <2>1, <3>3
    <3>5. ToSet(among[n]) = Upto(n)
      BY <2>1, <2>2, <2>3, <3>2
    <3> QED
      BY <3>2, <3>4, <3>5
  <2>4. CASE s[n] \notin S
    <3>1. among[n] = among[n - 1]
      BY <1>7, <2>4
    <3>2. Upto(n) = Upto(n - 1)
      BY <2>2, <2>4
    <3> QED
      BY <2>1, <3>1, <3>2
  <2> QED
    BY <2>3, <2>4
<1>10. Len(s) \in G
  <2> DEFINE N == Len(s)
  <2>1. N \in Nat
    OBVIOUS
  <2>2. \A n \in 1..N : n - 1 \in G => n \in G
    BY <1>9
  <2> HIDE DEF G, N
  <2>3. \A n \in 0..N : n \in G
    BY <1>8, <2>1, <2>2, EachTurn
  <2>4. N \in G
    BY <2>1, <2>3
  <2> QED
    BY <2>4 DEF N
<1>11. Upto(Len(s)) = ToSet(s) \cap S
  BY DEF ToSet
<1> QED
  BY <1>1, <1>10, <1>11

After(m) == ToSet(Registry[m].fallbacks) \cap ModelIds   \* the models to try after m

\* A sequence is one of its members.
LEMMA SeqOfMembers ==
  ASSUME NEW V, NEW M, NEW s \in Seq(V), ToSet(s) \subseteq M
  PROVE  s \in Seq(M)
<1>1. \A i \in 1..Len(s) : s[i] \in M
  BY DEF ToSet
<1>2. Len(s) \in Nat /\ s = [i \in 1..Len(s) |-> s[i]]
  OBVIOUS
<1> QED
  BY <1>1, <1>2

\* The names of models and of providers.
Names == STRING \cup DOMAIN Defaults
      \cup {"groq", "nvidia", "anthropic", "openai", "openrouter", "agentrouter", "bedrock", "gemini"}

\* What AI_MODELS leaves of a model's fallbacks and of its vendors are sequences, and the former is short.
LEMMA RegistryIs ==
  ASSUME NEW m \in ModelIds
  PROVE  /\ Registry[m].fallbacks \in Seq(Names) /\ Len(Registry[m].fallbacks) <= MaxFallbacks
         /\ RoutesOf(m) \in Seq(Names)
<1> DEFINE given(f) == m \in DOMAIN Overrides /\ f \in DOMAIN Overrides[m]
           old == m \in DOMAIN Defaults
           Short(s) == s \in Seq(Names) /\ Len(s) <= MaxFallbacks
<1>1. ASSUME NEW f \in Fields, given(f) PROVE Registry[m][f] = Overrides[m][f]
  BY <1>1 DEF Registry
<1>2. ASSUME NEW f \in Fields, ~given(f), old PROVE Registry[m][f] = Defaults[m][f]
  BY <1>2 DEF Registry
<1>3. ASSUME ~old
      PROVE  /\ given("provider")
             /\ ~given("alternates") => Registry[m].alternates = <<>>
             /\ ~given("fallbacks") => Registry[m].fallbacks = (IF Overrides[m].tier = "pro" THEN <<"free">> ELSE <<>>)
  <2>1. m \in DOMAIN Overrides /\ {"tier", "provider"} \subseteq DOMAIN Overrides[m]
    BY <1>3, OverridesAssumption DEF ModelIds
  <2> QED
    BY <1>3, <2>1 DEF Registry, Fields
<1>4. /\ given("fallbacks") => Short(Overrides[m].fallbacks)
      /\ given("alternates") => Overrides[m].alternates \in Seq(Names)
      /\ given("provider") => Overrides[m].provider \in Names
  <2>1. ASSUME NEW s \in Seq(STRING) PROVE s \in Seq(Names)
    <3>1. ToSet(s) \subseteq STRING
      BY MembersOf
    <3>2. ToSet(s) \subseteq Names
      BY <3>1 DEF Names
    <3> QED
      BY <3>2, SeqOfMembers
  <2>2. given("fallbacks") => Overrides[m].fallbacks \in Seq(STRING) /\ Len(Overrides[m].fallbacks) <= MaxFallbacks
    BY OverridesAssumption
  <2>3. given("alternates") => Overrides[m].alternates \in Seq(STRING)
    BY OverridesAssumption
  <2>4. given("provider") => Overrides[m].provider \in STRING
    BY OverridesAssumption
  <2> QED
    BY <2>1, <2>2, <2>3, <2>4 DEF Names
<1>5. /\ DOMAIN Defaults = {"free", "nvidia", "sonnet", "gpt4o", "deepseek", "sol", "opus", "opus48", "haiku", "gemini"}
      /\ DOMAIN Defaults \subseteq Names
  BY DEF Defaults, Names
<1>6. Short(<<>>) /\ Short(<<"free">>)
  BY <1>5 DEF MaxFallbacks
<1>7. old => Short(Defaults[m].fallbacks)
  <2>1. Short(<<"nvidia">>) /\ Short(<<"opus", "free">>) /\ Short(<<"gpt4o", "free">>)
    BY <1>5 DEF MaxFallbacks
  <2>2. Short(<<"opus", "gpt4o", "sol", "deepseek", "free">>)
    BY <1>5 DEF MaxFallbacks
  <2>3. Short(<<"sonnet", "sol", "deepseek", "free">>) /\ Short(<<"opus", "sonnet", "deepseek", "free">>)
    BY <1>5 DEF MaxFallbacks
  <2> HIDE DEF Short
  <2> QED
    BY <1>5, <1>6, <2>1, <2>2, <2>3 DEF Defaults
<1>8. old => Defaults[m].alternates \in Seq(Names)
  <2> DEFINE Ok(r) == r \in Seq(Names)
  <2>1. Ok(<<>>) /\ Ok(<<"openrouter">>) /\ Ok(<<"agentrouter">>)
    BY DEF Names
  <2> HIDE DEF Ok
  <2>2. old => Ok(Defaults[m].alternates)
    BY <1>5, <2>1 DEF Defaults
  <2> QED
    BY <2>2 DEF Ok
<1>9. old => Defaults[m].provider \in Names
  BY <1>5 DEF Defaults, Names
<1> HIDE DEF Short, given, old
<1>10. "provider" \in Fields /\ "alternates" \in Fields /\ "fallbacks" \in Fields
  BY DEF Fields
<1>11. Short(Registry[m].fallbacks)
  BY <1>1, <1>2, <1>3, <1>4, <1>6, <1>7, <1>10
<1>12. Registry[m].alternates \in Seq(Names)
  <2>1. <<>> \in Seq(Names)
    OBVIOUS
  <2> QED
    BY <1>1, <1>2, <1>3, <1>4, <1>8, <1>10, <2>1
<1>13. Registry[m].provider \in Names
  BY <1>1, <1>2, <1>3, <1>4, <1>9, <1>10
<1>14. RoutesOf(m) \in Seq(Names)
  <2>1. <<Registry[m].provider>> \in Seq(Names)
    BY <1>13
  <2> QED
    BY <1>12, <2>1 DEF RoutesOf
<1> QED
  BY <1>11, <1>14 DEF Short

Walks == [chain : Seq(ModelIds), queue : Seq(ModelIds)]

Stopped(w) == w.queue = <<>> \/ Len(w.chain) >= MaxChain

(***************************************************************************)
(* After n turns from m: the chain is no longer than it may be, m and what *)
(* comes after a model of it are in it or wait in the queue, and unless it *)
(* stopped, each turn but one used up one of the few fallbacks of a model  *)
(* in the chain.                                                           *)
(***************************************************************************)
WalkHolds(m, n, w) ==
  LET in == ToSet(w.chain)
      to == in \cup ToSet(w.queue)
  IN  /\ w \in Walks
      /\ Len(w.chain) <= MaxChain
      /\ m \in to
      /\ \A id \in in : After(id) \subseteq to
      /\ Stopped(w) \/ n + Len(w.queue) <= 1 + MaxFallbacks * Len(w.chain)

LEMMA WalkBegins ==
  ASSUME NEW m \in ModelIds
  PROVE  WalkHolds(m, 0, [chain |-> <<>>, queue |-> <<m>>])
<1> DEFINE w == [chain |-> <<>>, queue |-> <<m>>]
<1>1. w \in Walks /\ w.chain = <<>> /\ w.queue = <<m>> /\ Len(w.chain) = 0 /\ Len(w.queue) = 1
  BY DEF Walks
<1>2. ToSet(w.chain) = {} /\ ToSet(w.queue) = {m}
  BY <1>1 DEF ToSet
<1>4. Len(w.chain) <= MaxChain
  BY <1>1 DEF MaxChain
<1>5. 0 + Len(w.queue) <= 1 + MaxFallbacks * Len(w.chain)
  BY <1>1 DEF MaxFallbacks
<1> HIDE DEF w
<1>6. m \in ToSet(w.chain) \cup ToSet(w.queue)
  BY <1>2
<1>7. \A id \in ToSet(w.chain) : After(id) \subseteq ToSet(w.chain) \cup ToSet(w.queue)
  BY <1>2
<1>8. w \in Walks
  BY <1>1
<1>9. WalkHolds(m, 0, w)
  BY <1>4, <1>5, <1>6, <1>7, <1>8, Zenon DEF WalkHolds
<1> QED
  BY <1>9 DEF w

LEMMA WalkGoesOn ==
  ASSUME NEW m \in ModelIds, NEW n \in Nat, NEW w, WalkHolds(m, n, w)
  PROVE  WalkHolds(m, n + 1, Follow(w)) /\ Follow(w) \in Walks
<1> DEFINE in == ToSet(w.chain)
           to == in \cup ToSet(w.queue)
<1>1. /\ w \in Walks
      /\ Len(w.chain) <= MaxChain
      /\ m \in to
      /\ \A id \in in : After(id) \subseteq to
      /\ Stopped(w) \/ n + Len(w.queue) <= 1 + MaxFallbacks * Len(w.chain)
  BY DEF WalkHolds
<1>2. /\ w.chain \in Seq(ModelIds) /\ w.queue \in Seq(ModelIds)
      /\ Len(w.chain) \in Nat /\ Len(w.queue) \in Nat
  BY <1>1 DEF Walks
<1>3. CASE Stopped(w)
  <2>1. Follow(w) = w
    BY <1>3, Zenon DEF Follow, Stopped
  <2> QED
    BY <1>1, <1>3, <2>1 DEF WalkHolds
<1>4. CASE ~Stopped(w)
  <2> DEFINE h == Head(w.queue)
             t == Tail(w.queue)
             v == Follow(w)
  <2>1. /\ h \in ModelIds /\ t \in Seq(ModelIds) /\ Len(t) \in Nat
        /\ Len(w.queue) = Len(t) + 1 /\ ToSet(w.queue) = {h} \cup ToSet(t)
    BY <1>2, <1>4, MembersOf DEF Stopped
  <2>2. n + Len(w.queue) <= 1 + MaxFallbacks * Len(w.chain)
    BY <1>1, <1>4
  <2>3. Contains(w.chain, h) <=> h \in in
    BY <1>2, MembersOf
  <2>4. CASE h \in in
    <3>1. v = [w EXCEPT !.queue = t]
      BY <1>4, <2>3, <2>4, Zenon DEF Follow, Stopped
    <3>2. v \in Walks /\ v.chain = w.chain /\ v.queue = t
      BY <1>1, <2>1, <3>1 DEF Walks
    <3>3. ToSet(v.chain) = in /\ ToSet(v.chain) \cup ToSet(v.queue) = to
      BY <2>1, <2>4, <3>2
    <3> HIDE DEF v, t, h, in, to
    <3>4. (n + 1) + Len(v.queue) <= 1 + MaxFallbacks * Len(v.chain)
      <4>1. \A k, c, l, q \in Nat : q = l + 1 /\ k + q <= 1 + MaxFallbacks * c => (k + 1) + l <= 1 + MaxFallbacks * c
        BY DEF MaxFallbacks
      <4>2. Len(v.queue) = Len(t) /\ Len(v.chain) = Len(w.chain)
        BY <3>2
      <4> QED
        BY <1>2, <2>1, <2>2, <4>1, <4>2
    <3>5. WalkHolds(m, n + 1, v)
      BY <1>1, <3>2, <3>3, <3>4 DEF WalkHolds
    <3> QED
      BY <3>2, <3>5 DEF v
  <2>5. CASE h \notin in
    <3> DEFINE fs    == Registry[h].fallbacks
               fresh == ModelIds \ (in \cup {h})
               more  == Among(fs, fresh)
    <3>1. v = [chain |-> Append(w.chain, h), queue |-> t \o more]
      BY <1>4, <2>3, <2>5, Zenon DEF Follow, Stopped
    <3>2. fs \in Seq(Names) /\ Len(fs) <= MaxFallbacks /\ Len(fs) \in Nat
      BY <2>1, RegistryIs
    <3>3. more \in Seq(ModelIds) /\ Len(more) <= Len(fs) /\ ToSet(more) = ToSet(fs) \cap fresh /\ Len(more) \in Nat
      <4>0. fresh \subseteq ModelIds
        OBVIOUS
      <4> HIDE DEF fs, fresh
      <4>1. more \in Seq(Names) /\ Len(more) <= Len(fs) /\ ToSet(more) = ToSet(fs) \cap fresh
        BY <3>2, AmongIs
      <4>2. ToSet(more) \subseteq ModelIds
        BY <4>0, <4>1
      <4> HIDE DEF more
      <4>3. more \in Seq(ModelIds)
        BY <4>1, <4>2, SeqOfMembers
      <4> QED
        BY <4>1, <4>3
    <3> HIDE DEF more, fs, h, t
    <3>4. /\ Append(w.chain, h) \in Seq(ModelIds) /\ t \o more \in Seq(ModelIds)
          /\ ToSet(Append(w.chain, h)) = in \cup {h} /\ ToSet(t \o more) = ToSet(t) \cup ToSet(more)
          /\ Len(Append(w.chain, h)) = Len(w.chain) + 1 /\ Len(t \o more) = Len(t) + Len(more)
      BY <1>2, <2>1, <3>3, MembersOf
    <3>5. /\ v \in Walks /\ v.chain = Append(w.chain, h) /\ v.queue = t \o more
      BY <3>1, <3>4 DEF Walks
    <3> HIDE DEF v
    <3>6. ToSet(v.chain) = in \cup {h} /\ ToSet(v.chain) \cup ToSet(v.queue) = to \cup After(h)
      <4>1. ToSet(fs) \cap ModelIds = After(h)
        BY DEF fs, After
      <4>2. ToSet(more) \cup in \cup {h} = (ToSet(fs) \cap ModelIds) \cup in \cup {h}
        <5>1. in \subseteq ModelIds
          BY <1>2, MembersOf
        <5> QED
          BY <2>1, <3>3, <5>1
      <4> QED
        BY <2>1, <3>4, <3>5, <4>1, <4>2
    <3>7. (n + 1) + Len(v.queue) <= 1 + MaxFallbacks * Len(v.chain)
      <4>1. \A k, c, l, q, x \in Nat : q = l + 1 /\ x <= MaxFallbacks /\ k + q <= 1 + MaxFallbacks * c
                                        => (k + 1) + (l + x) <= 1 + MaxFallbacks * (c + 1)
        BY DEF MaxFallbacks
      <4>2. Len(more) <= MaxFallbacks
        BY <3>2, <3>3 DEF MaxFallbacks
      <4> QED
        BY <1>2, <2>1, <2>2, <3>3, <3>4, <3>5, <4>1, <4>2
    <3>8. Len(v.chain) <= MaxChain
      BY <1>2, <1>4, <3>4, <3>5 DEF Stopped, MaxChain
    <3>9. h \in to
      BY <2>1
    <3>10. WalkHolds(m, n + 1, v)
      <4>1. \A id \in in \cup {h} : After(id) \subseteq to \cup After(h)
        BY <1>1
      <4>2. m \in to \cup After(h)
        BY <1>1, <3>9
      <4> HIDE DEF in, to
      <4> QED
        BY <3>4, <3>5, <3>6, <3>7, <3>8, <4>1, <4>2 DEF WalkHolds
    <3> QED
      BY <3>5, <3>10 DEF v
  <2> QED
    BY <2>4, <2>5
<1> QED
  BY <1>3, <1>4

\* A walk that has gone on for all its turns is as long as it may be, or has reached whatever it leads to.
LEMMA WalkEnds ==
  ASSUME NEW m \in ModelIds, NEW w, WalkHolds(m, 1 + MaxChain * MaxFallbacks, w)
  PROVE  /\ w.chain \in Seq(ModelIds)
         /\ \/ Len(w.chain) = MaxChain
            \/ m \in ToSet(w.chain) /\ \A id \in ToSet(w.chain) : After(id) \subseteq ToSet(w.chain)
<1> DEFINE in == ToSet(w.chain)
           to == in \cup ToSet(w.queue)
<1>1. /\ w \in Walks
      /\ Len(w.chain) <= MaxChain
      /\ m \in to
      /\ \A id \in in : After(id) \subseteq to
      /\ Stopped(w) \/ 41 + Len(w.queue) <= 1 + 5 * Len(w.chain)
  BY DEF WalkHolds, MaxChain, MaxFallbacks
<1>2. w.chain \in Seq(ModelIds) /\ Len(w.chain) \in Nat /\ w.queue \in Seq(ModelIds) /\ Len(w.queue) \in Nat
  BY <1>1 DEF Walks
<1>3. CASE w.queue = <<>>
  <2>1. ToSet(w.queue) = {}
    BY <1>3 DEF ToSet
  <2> QED
    BY <1>1, <1>2, <2>1
<1>4. CASE w.queue # <<>>
  <2>1. Len(w.queue) > 0
    BY <1>2, <1>4
  <2>2. Len(w.chain) <= 8 /\ (Len(w.chain) >= 8 \/ 41 + Len(w.queue) <= 1 + 5 * Len(w.chain))
    BY <1>1, <1>4 DEF Stopped, MaxChain
  <2>3. \A c, q \in Nat : q > 0 /\ c <= 8 /\ (c >= 8 \/ 41 + q <= 1 + 5 * c) => c = 8
    OBVIOUS
  <2>4. Len(w.chain) = 8
    BY <1>2, <2>1, <2>2, <2>3
  <2> QED
    BY <1>2, <2>4 DEF MaxChain
<1> QED
  BY <1>3, <1>4

\* The chain of a model is as long as one may be, or closed: whatever a model of it falls back to is in it as well.
LEMMA ChainIs ==
  ASSUME NEW m \in ModelIds
  PROVE  /\ Chain(m) \in Seq(ModelIds)
         /\ \/ Len(Chain(m)) = MaxChain
            \/ m \in ToSet(Chain(m)) /\ \A id \in ToSet(Chain(m)) : After(id) \subseteq ToSet(Chain(m))
<1> DEFINE N    == 1 + MaxChain * MaxFallbacks
           a    == [chain |-> <<>>, queue |-> <<m>>]
           Is(h) == h = [n \in 0..N |-> IF n = 0 THEN a ELSE Follow(h[n - 1])]
           walk == CHOOSE h : Is(h)
           U    == {w \in Walks : \E n \in Nat : WalkHolds(m, n, w)}
           F    == [n \in 1..N |-> [w \in U |-> Follow(w)]]
<1>1. Chain(m) = walk[N].chain
  BY Zenon DEF Chain
<1>2. N \in Nat
  BY DEF MaxChain, MaxFallbacks
<1>3. a \in U /\ WalkHolds(m, 0, a)
  BY WalkBegins DEF WalkHolds
<1>4. ASSUME NEW w \in U PROVE Follow(w) \in U
  BY <1>4, WalkGoesOn
<1>5. \A n \in 1..N : \A w \in U : F[n][w] = Follow(w)
  BY Zenon
<1>6. \A n \in 1..N : \A w \in U : F[n][w] \in U
  BY <1>4, <1>5
<1> HIDE DEF N, a, U, F
<1>7. PICK f : Takes(N, U, a, F, f)
  BY <1>2, <1>3, <1>6, TurnsExist
<1>8. f \in [0..N -> U] /\ f[0] = a /\ \A n \in 1..N : f[n] = F[n][f[n - 1]]
  BY <1>7 DEF Takes
<1>9. ASSUME NEW n \in 1..N PROVE f[n] = Follow(f[n - 1])
  <2>1. n - 1 \in 0..N
    BY <1>2
  <2>2. f[n - 1] \in U
    BY <1>8, <2>1
  <2> QED
    BY <1>5, <1>8, <2>2
<1>10. Is(f)
  <2>1. ASSUME NEW n \in 0..N PROVE f[n] = IF n = 0 THEN a ELSE Follow(f[n - 1])
    <3>1. CASE n = 0
      BY <1>8, <3>1
    <3>2. CASE n # 0
      <4>1. n \in 1..N
        BY <1>2, <3>2
      <4> QED
        BY <1>9, <3>2, <4>1
    <3> QED
      BY <3>1, <3>2
  <2> QED
    BY <1>8, <2>1
<1>11. Is(walk)
  <2> HIDE DEF Is
  <2> QED
    BY <1>10, Zenon
<1> HIDE DEF walk
<1>12. walk[0] = a /\ \A n \in 1..N : walk[n] = Follow(walk[n - 1])
  <2>1. ASSUME NEW n \in 0..N PROVE walk[n] = IF n = 0 THEN a ELSE Follow(walk[n - 1])
    BY <1>11, <2>1, Zenon
  <2>2. 0 \in 0..N /\ \A n \in 1..N : n \in 0..N /\ n # 0
    BY <1>2
  <2> QED
    BY <2>1, <2>2, Zenon
<1> HIDE DEF Is
<1> DEFINE G == {n \in 0..N : WalkHolds(m, n, walk[n])}
<1>13. 0 \in G
  BY <1>2, <1>3, <1>12
<1>14. ASSUME NEW n \in 1..N, n - 1 \in G PROVE n \in G
  <2>1. n - 1 \in Nat /\ (n - 1) + 1 = n /\ n \in 0..N
    BY <1>2
  <2>2. WalkHolds(m, n - 1, walk[n - 1])
    BY <1>14
  <2>3. WalkHolds(m, (n - 1) + 1, Follow(walk[n - 1]))
    BY <2>1, <2>2, WalkGoesOn
  <2> QED
    BY <1>12, <2>1, <2>3
<1>15. WalkHolds(m, N, walk[N])
  <2>1. \A n \in 1..N : n - 1 \in G => n \in G
    BY <1>14
  <2> HIDE DEF G
  <2>2. \A n \in 0..N : n \in G
    BY <1>2, <1>13, <2>1, EachTurn
  <2>3. N \in G
    BY <1>2, <2>2
  <2> QED
    BY <2>3 DEF G
<1> QED
  BY <1>1, <1>15, WalkEnds DEF N

\* What a model's fallbacks lead to lies in every set that has it and is closed.
LEMMA ReachableIs ==
  ASSUME NEW m \in ModelIds, NEW C, m \in C, \A id \in C : After(id) \subseteq C
  PROVE  Reachable(m) \subseteq C
<1> DEFINE N     == Cardinality(ModelIds)
           Step(S) == S \cup UNION {ToSet(Registry[id].fallbacks) \cap ModelIds : id \in S}
           Is(h) == h = [n \in 0..N |-> IF n = 0 THEN {m} ELSE Step(h[n - 1])]
           reach == CHOOSE h : Is(h)
           U     == SUBSET C
           a     == {m}
           F     == [n \in 1..N |-> [S \in U |-> Step(S)]]
<1>1. Reachable(m) = reach[N]
  BY Zenon DEF Reachable
<1>2. N \in Nat
  <2>1. DOMAIN Defaults = (((((((({"free"} \cup {"nvidia"}) \cup {"sonnet"}) \cup {"gpt4o"}) \cup {"deepseek"}) \cup {"sol"})
                            \cup {"opus"}) \cup {"opus48"}) \cup {"haiku"}) \cup {"gemini"}
    BY DEF Defaults
  <2>2. \A S : \A x : IsFiniteSet(S) => IsFiniteSet(S \cup {x})
    BY FS_AddElement
  <2>3. IsFiniteSet({"free"})
    BY FS_Singleton
  <2>4. IsFiniteSet((({"free"} \cup {"nvidia"}) \cup {"sonnet"}) \cup {"gpt4o"})
    BY <2>2, <2>3, Zenon
  <2>5. IsFiniteSet((((({"free"} \cup {"nvidia"}) \cup {"sonnet"}) \cup {"gpt4o"}) \cup {"deepseek"}) \cup {"sol"})
    BY <2>2, <2>4, Zenon
  <2>6. IsFiniteSet((((((({"free"} \cup {"nvidia"}) \cup {"sonnet"}) \cup {"gpt4o"}) \cup {"deepseek"}) \cup {"sol"})
                     \cup {"opus"}) \cup {"opus48"})
    BY <2>2, <2>5, Zenon
  <2>7. IsFiniteSet((((((((({"free"} \cup {"nvidia"}) \cup {"sonnet"}) \cup {"gpt4o"}) \cup {"deepseek"}) \cup {"sol"})
                     \cup {"opus"}) \cup {"opus48"}) \cup {"haiku"}) \cup {"gemini"})
    BY <2>2, <2>6, Zenon
  <2>8. IsFiniteSet(DOMAIN Defaults)
    BY <2>1, <2>2, <2>7
  <2> QED
    BY <2>8, OverridesAssumption, FS_Union, FS_CardinalityType DEF ModelIds
<1>3. a \in U
  OBVIOUS
<1>4. \A S \in U : Step(S) \in U
  BY DEF After
<1> HIDE DEF Step
<1>5. \A n \in 1..N : \A S \in U : F[n][S] = Step(S)
  BY Zenon
<1>6. \A n \in 1..N : \A S \in U : F[n][S] \in U
  BY <1>4, <1>5
<1> HIDE DEF N, U, F, a
<1>7. PICK f : Takes(N, U, a, F, f)
  BY <1>2, <1>3, <1>6, TurnsExist
<1>8. f \in [0..N -> U] /\ f[0] = {m} /\ \A n \in 1..N : f[n] = F[n][f[n - 1]]
  BY <1>7 DEF Takes, a
<1>9. ASSUME NEW n \in 1..N PROVE f[n] = Step(f[n - 1])
  <2>1. n - 1 \in 0..N
    BY <1>2
  <2>2. f[n - 1] \in U
    BY <1>8, <2>1
  <2> QED
    BY <1>5, <1>8, <2>2
<1>10. Is(f)
  <2>1. ASSUME NEW n \in 0..N PROVE f[n] = IF n = 0 THEN {m} ELSE Step(f[n - 1])
    <3>1. CASE n = 0
      BY <1>8, <3>1
    <3>2. CASE n # 0
      <4>1. n \in 1..N
        BY <1>2, <3>2
      <4> QED
        BY <1>9, <3>2, <4>1
    <3> QED
      BY <3>1, <3>2
  <2> QED
    BY <1>8, <2>1
<1>11. Is(reach)
  <2> HIDE DEF Is
  <2> QED
    BY <1>10, Zenon
<1> HIDE DEF reach
<1>12. reach[0] = a /\ \A n \in 1..N : reach[n] = Step(reach[n - 1])
  <2>1. ASSUME NEW n \in 0..N PROVE reach[n] = IF n = 0 THEN {m} ELSE Step(reach[n - 1])
    BY <1>11, <2>1, Zenon
  <2>2. 0 \in 0..N /\ \A n \in 1..N : n \in 0..N /\ n # 0
    BY <1>2
  <2> QED
    BY <2>1, <2>2, Zenon DEF a
<1> HIDE DEF Is
<1> DEFINE G == {n \in 0..N : reach[n] \in U}
<1>13. 0 \in G
  BY <1>2, <1>3, <1>12
<1>14. \A n \in 1..N : n - 1 \in G => n \in G
  BY <1>2, <1>4, <1>12
<1>15. reach[N] \in U
  <2> HIDE DEF G
  <2>2. \A n \in 0..N : n \in G
    BY <1>2, <1>13, <1>14, EachTurn
  <2>3. N \in G
    BY <1>2, <2>2
  <2> QED
    BY <2>3 DEF G
<1> QED
  BY <1>1, <1>15 DEF U

\* All calls of a chain are made, or as many as one request may make.
LEMMA CallsCover ==
  ASSUME NEW m \in ModelIds
  PROVE  \/ Len(Calls[m]) = MaxCalls
         \/ \A id \in ToSet(Chain(m)) : \A p \in ToSet(RoutesOf(id)) \cap Configured : <<id, p>> \in ToSet(Calls[m])
<1> DEFINE chain == Chain(m)
           N     == Len(chain)
           routes(id) == Among(RoutesOf(id), Configured)
           turn(n) == [j \in 1..Len(routes(chain[n])) |-> <<chain[n], routes(chain[n])[j]>>]
           Is(h) == h = [n \in 0..N |-> IF n = 0 THEN <<>> ELSE h[n - 1] \o turn(n)]
           calls == CHOOSE h : Is(h)
           all   == calls[N]
           Pairs == ModelIds \X Names
           U     == Seq(Pairs)
           a     == <<>>
           F     == [n \in 1..N |-> [s \in U |-> s \o turn(n)]]
<1>1. Calls[m] = SubSeq(all, 1, Min({MaxCalls, Len(all)}))
  BY Zenon DEF Calls
<1>2. chain \in Seq(ModelIds) /\ N \in Nat
  BY ChainIs
<1>3. ASSUME NEW id \in ModelIds
      PROVE  routes(id) \in Seq(Names) /\ ToSet(routes(id)) = ToSet(RoutesOf(id)) \cap Configured
  BY <1>3, RegistryIs, AmongIs
<1> HIDE DEF chain, routes
<1>4. ASSUME NEW n \in 1..N
      PROVE  turn(n) \in U /\ ToSet(turn(n)) = {<<chain[n], p>> : p \in ToSet(routes(chain[n]))}
  <2> DEFINE r == routes(chain[n])
  <2>1. chain[n] \in ModelIds
    BY <1>2
  <2>2. r \in Seq(Names) /\ Len(r) \in Nat
    BY <1>3, <2>1
  <2> HIDE DEF r
  <2>3. turn(n) = [j \in 1..Len(r) |-> <<chain[n], r[j]>>]
    BY DEF r
  <2>4. turn(n) \in U /\ Len(turn(n)) = Len(r)
    BY <2>1, <2>2, <2>3
  <2>5. ToSet(turn(n)) = {<<chain[n], p>> : p \in ToSet(r)}
    BY <2>2, <2>3 DEF ToSet
  <2> QED
    BY <2>4, <2>5 DEF r
<1> HIDE DEF turn
<1>5. a \in U
  OBVIOUS
<1>6. \A n \in 1..N : \A s \in U : F[n][s] = s \o turn(n)
  BY Zenon
<1>7. \A n \in 1..N : \A s \in U : s \o turn(n) \in U
  BY <1>4
<1>8. \A n \in 1..N : \A s \in U : F[n][s] \in U
  BY <1>6, <1>7
<1> HIDE DEF N, U, F, a
<1>9. PICK f : Takes(N, U, a, F, f)
  BY <1>2, <1>5, <1>8, TurnsExist
<1>10. f \in [0..N -> U] /\ f[0] = <<>> /\ \A n \in 1..N : f[n] = F[n][f[n - 1]]
  BY <1>9 DEF Takes, a
<1>11. ASSUME NEW n \in 1..N PROVE f[n] = f[n - 1] \o turn(n)
  <2>1. n - 1 \in 0..N
    BY <1>2
  <2>2. f[n - 1] \in U
    BY <1>10, <2>1
  <2> QED
    BY <1>6, <1>10, <2>2
<1>12. Is(f)
  <2>1. ASSUME NEW n \in 0..N PROVE f[n] = IF n = 0 THEN <<>> ELSE f[n - 1] \o turn(n)
    <3>1. CASE n = 0
      BY <1>10, <3>1
    <3>2. CASE n # 0
      <4>1. n \in 1..N
        BY <1>2, <3>2
      <4> QED
        BY <1>11, <3>2, <4>1
    <3> QED
      BY <3>1, <3>2
  <2> QED
    BY <1>10, <2>1
<1>13. Is(calls)
  <2> HIDE DEF Is
  <2> QED
    BY <1>12, Zenon
<1> HIDE DEF calls
<1>14. calls[0] = <<>> /\ \A n \in 1..N : calls[n] = calls[n - 1] \o turn(n)
  <2>1. ASSUME NEW n \in 0..N PROVE calls[n] = IF n = 0 THEN <<>> ELSE calls[n - 1] \o turn(n)
    BY <1>13, <2>1, Zenon
  <2>2. 0 \in 0..N /\ \A n \in 1..N : n \in 0..N /\ n # 0
    BY <1>2
  <2> QED
    BY <2>1, <2>2, Zenon
<1> HIDE DEF Is
<1> DEFINE Upto(n) == UNION {{<<chain[i], p>> : p \in ToSet(routes(chain[i]))} : i \in 1..n}
           G == {n \in 0..N : calls[n] \in U /\ Upto(n) \subseteq ToSet(calls[n])}
<1>15. 0 \in G
  <2>1. 0 \in 0..N /\ Upto(0) = {}
    BY <1>2
  <2> HIDE DEF Upto
  <2> QED
    BY <1>5, <1>14, <2>1 DEF a
<1>16. ASSUME NEW n \in 1..N, n - 1 \in G PROVE n \in G
  <2>1. n \in 0..N /\ calls[n - 1] \in U /\ Upto(n - 1) \subseteq ToSet(calls[n - 1])
    BY <1>2, <1>16
  <2>2. calls[n] = calls[n - 1] \o turn(n) /\ turn(n) \in U
    BY <1>4, <1>14
  <2>3. calls[n] \in U /\ ToSet(calls[n]) = ToSet(calls[n - 1]) \cup ToSet(turn(n))
    BY <2>1, <2>2, MembersOf DEF U
  <2>4. Upto(n) \subseteq Upto(n - 1) \cup ToSet(turn(n))
    <3>1. \A i \in 1..n : i \in 1..n-1 \/ i = n
      BY <1>2
    <3> QED
      BY <1>4, <3>1
  <2> HIDE DEF Upto
  <2> QED
    BY <2>1, <2>3, <2>4
<1>17. all \in U /\ Upto(N) \subseteq ToSet(all)
  <2>1. \A n \in 1..N : n - 1 \in G => n \in G
    BY <1>16
  <2> HIDE DEF G
  <2>2. \A n \in 0..N : n \in G
    BY <1>2, <1>15, <2>1, EachTurn
  <2>3. N \in G
    BY <1>2, <2>2
  <2> QED
    BY <2>3 DEF G
<1> HIDE DEF all
<1>18. ASSUME NEW id \in ToSet(chain), NEW p \in ToSet(RoutesOf(id)) \cap Configured PROVE <<id, p>> \in ToSet(all)
  <2>1. PICK i \in 1..N : chain[i] = id
    BY <1>2 DEF ToSet, N
  <2>2. id \in ModelIds
    BY <1>2, <2>1 DEF N
  <2>3. p \in ToSet(routes(chain[i]))
    BY <1>3, <2>1, <2>2
  <2>4. <<chain[i], p>> \in Upto(N)
    BY <2>3
  <2> HIDE DEF Upto
  <2> QED
    BY <1>17, <2>1, <2>4
<1> DEFINE k == Min({MaxCalls, Len(all)})
<1>19. Len(all) \in Nat
  BY <1>17 DEF U
<1>20. (k = MaxCalls /\ MaxCalls <= Len(all)) \/ k = Len(all)
  <2>1. \E x \in {MaxCalls, Len(all)} : \A y \in {MaxCalls, Len(all)} : x <= y
    BY <1>19 DEF MaxCalls
  <2>2. k \in {MaxCalls, Len(all)} /\ \A y \in {MaxCalls, Len(all)} : k <= y
    BY <2>1 DEF Min
  <2> HIDE DEF k
  <2> QED
    BY <2>2
<1>21. CASE k = MaxCalls /\ MaxCalls <= Len(all)
  <2>1. Len(SubSeq(all, 1, MaxCalls)) = MaxCalls
    BY <1>17, <1>19, <1>21 DEF U, MaxCalls
  <2> QED
    BY <1>1, <1>21, <2>1
<1>22. CASE k = Len(all)
  <2>1. SubSeq(all, 1, Len(all)) = all
    BY <1>17 DEF U
  <2>2. Calls[m] = all
    BY <1>1, <1>22, <2>1
  <2> QED
    BY <1>18, <2>2 DEF chain
<1> QED
  BY <1>20, <1>21, <1>22

\* generate: whatever the model, the keys configured, AI_MODELS and the limits, when a request is given up for want of
\* another vendor to ask, it has used up the calls it may make, or every configured vendor of every model in its chain
\* was tried; and the chain is as long as one may be, or has every model that the fallbacks lead to.
THEOREM NoneLeftUntried == Spec => []NoRouteLeftUntried
<1>1. Inv => NoRouteLeftUntried
  <2> SUFFICES ASSUME Inv, worker.step = "call" PROVE NoRouteLeftUntried
    BY DEF NoRouteLeftUntried
  <2> DEFINE m == worker.message
             id0 == model[m]
             C == ToSet(Chain(id0))
  <2>1. m \in Messages /\ op[m] \in Active \ {"queued"}
    BY DEF Inv, Holds
  <2>2. model[m] # "none"
    BY <2>1 DEF Inv, Requests, Active
  <2>3. id0 \in ModelIds
    BY <2>1, <2>2, CopilotAssumption DEF Inv, Typed, Asked
  <2>4. Len(Calls[id0]) = MaxCalls \/ \A id \in C : \A p \in ToSet(RoutesOf(id)) \cap Configured : <<id, p>> \in ToSet(Calls[id0])
    BY <2>3, CallsCover
  <2>5. Len(Chain(id0)) = MaxChain \/ Reachable(id0) \subseteq C
    <3>1. Len(Chain(id0)) = MaxChain \/ (id0 \in C /\ \A id \in C : After(id) \subseteq C)
      BY <2>3, ChainIs
    <3> HIDE DEF C
    <3> QED
      BY <2>3, <3>1, ReachableIs
  <2> QED
    BY <2>4, <2>5 DEF NoRouteLeftUntried, Route
<1> QED
  BY <1>1, InvAlways, PTL

=============================================================================
