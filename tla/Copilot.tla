------------------------------- MODULE Copilot -------------------------------
(***************************************************************************)
(* Plinth AI: the api that admits a request (CopilotService), the worker   *)
(* that asks a model for a change and, once, for a repair (CopilotPlanner, *)
(* called by OperationRunner), and the walk over models and vendors that   *)
(* gets an answer (AiService).  What an operation does to the site is in   *)
(* OperationRunner; here it is a status, and what is said and counted.     *)
(*                                                                         *)
(* One user and one portfolio, in several tabs.  An answer is what the     *)
(* worker can tell of it, and what it cost in tokens.                      *)
(***************************************************************************)
EXTENDS Naturals, Sequences, FiniteSets, FiniteSetsExt, SequencesExt

CONSTANTS
  Tabs,         \* requests of the user's being admitted at once
  Messages,     \* the user's messages, numbered as they are sent (bound)
  Plan,         \* "free" or "pro"
  Picks,        \* the models the user picks from
  Configured,   \* the providers that have a key
  Overrides,    \* AI_MODELS: what it changes of a model, and the models it adds
  TokenLimit,   \* the tokens the plan allows in a day and in a month
  Costs,        \* what an answer can cost
  MaxFaults     \* processes that die, writes that fail (bound)

VARIABLES
  tab,       \* each tab: the step of its request, its message and its model
  op,        \* the operation of each message
  model,     \* the model each was sent with
  replied,   \* messages with an assistant's row
  used,      \* the tokens on those rows, of the last 24 hours and of the last 30 days
  worker,    \* the one that holds the portfolio's lock
  faults,
  \* history, read by no action
  spent,     \* tokens of the answers models gave in each window, but those whose row could not be written
  ranout       \* requests that were under way when the allowance of a window ran out

rows    == <<op, replied, used>>
history == <<spent, ranout>>
state   == <<tab, model, rows, worker, faults, history>>

Active  == {"queued", "staging", "checking", "applying"}
Ended   == {"ended"}     \* applied, rejected or failed, which nobody here tells apart
Replies == {"sorry",     \* no model answered
            "unusable",   \* the answer is not valid, or its edits do not apply
            "nothing",   \* a refusal, or an answer without files
            "change"}

Rest == [step |-> "idle", message |-> 0, model |-> "none"]
Idle == [step |-> "idle", message |-> 0, at |-> 0, again |-> FALSE, repairing |-> FALSE, cost |-> 0, says |-> "none"]

-----------------------------------------------------------------------------
(* Models and vendors *)

Windows == {"day", "month"}

\* buildModels: a model's tier, the provider that serves it, its alternates in order, and the models to try after it.
Defaults ==
  LET Model(tier, hidden, provider, alternates, fallbacks) ==
        [tier |-> tier, hidden |-> hidden, provider |-> provider, alternates |-> alternates, fallbacks |-> fallbacks]
      Pro(provider, alternates, fallbacks) == Model("pro", FALSE, provider, alternates, fallbacks)
  IN [ free     |-> Model("free", FALSE, "groq", <<>>, <<"nvidia">>),
       nvidia   |-> Model("free", TRUE, "nvidia", <<>>, <<>>),
       sonnet   |-> Pro("anthropic", <<>>, <<"opus", "gpt4o", "sol", "deepseek", "free">>),
       gpt4o    |-> Pro("openai", <<"openrouter">>, <<"sonnet", "sol", "deepseek", "free">>),
       deepseek |-> Pro("agentrouter", <<>>, <<"opus", "free">>),
       sol      |-> Pro("agentrouter", <<>>, <<"gpt4o", "free">>),
       opus     |-> Pro("anthropic", <<"agentrouter">>, <<"sonnet", "sol", "deepseek", "free">>),
       opus48   |-> Pro("anthropic", <<"agentrouter">>, <<"opus", "sonnet", "deepseek", "free">>),
       haiku    |-> Model("free", TRUE, "bedrock", <<>>, <<>>),
       gemini   |-> Model("free", TRUE, "gemini", <<>>, <<>>) ]

Fields   == {"tier", "hidden", "provider", "alternates", "fallbacks"}
ModelIds == DOMAIN Defaults \cup DOMAIN Overrides

\* applyModelOverrides: an entry changes the fields it gives; a new one has a tier and a provider.
Registry ==
  [id \in ModelIds |->
     LET added(f) == CASE f = "hidden"     -> FALSE
                       [] f = "alternates" -> <<>>
                       [] f = "fallbacks"  -> IF Overrides[id].tier = "pro" THEN <<"free">> ELSE <<>>
                       [] OTHER            -> Overrides[id][f]
     IN [f \in Fields |-> IF id \in DOMAIN Overrides /\ f \in DOMAIN Overrides[id] THEN Overrides[id][f]
                          ELSE IF id \in DOMAIN Defaults THEN Defaults[id][f] ELSE added(f)]]

\* routesOf: the providers of a model, in the order they are tried
RoutesOf(id) == <<Registry[id].provider>> \o Registry[id].alternates

MaxFallbacks == 5    \* bound on an entry of AI_MODELS

ASSUME CopilotAssumption ==
  /\ IsFiniteSet(Tabs)
  /\ Picks \subseteq ModelIds
  /\ TokenLimit \in [Windows -> Nat \ {0}]
  /\ Costs \subseteq Nat /\ \E most \in Costs : \A c \in Costs : c <= most

ASSUME OverridesAssumption ==
  /\ IsFiniteSet(DOMAIN Overrides) /\ "none" \notin DOMAIN Overrides
  /\ \A id \in DOMAIN Overrides :
       /\ DOMAIN Overrides[id] \subseteq Fields
       /\ "provider" \in DOMAIN Overrides[id] => Overrides[id].provider \in STRING
       /\ "alternates" \in DOMAIN Overrides[id] => Overrides[id].alternates \in Seq(STRING)
       /\ "fallbacks" \in DOMAIN Overrides[id] => Overrides[id].fallbacks \in Seq(STRING) /\ Len(Overrides[id].fallbacks) <= MaxFallbacks
       /\ id \notin DOMAIN Defaults => {"tier", "provider"} \subseteq DOMAIN Overrides[id]

MaxCalls == 5    \* MAX_CALLS
MaxChain == 8    \* MAX_CHAIN

\* The members of s that are in S, in their order.
Among(s, S) ==
  LET among[n \in 0..Len(s)] ==
        IF n = 0 THEN <<>> ELSE IF s[n] \in S THEN Append(among[n - 1], s[n]) ELSE among[n - 1]
  IN among[Len(s)]

\* Mutant: only the requested model's own fallbacks join the queue.
FollowFirst(walk) ==
  IF walk.queue = <<>> \/ Len(walk.chain) >= MaxChain THEN walk
  ELSE LET m == Head(walk.queue)
           next == IF walk.chain = <<>> THEN Registry[m].fallbacks ELSE <<>>
       IN IF Contains(walk.chain, m) THEN [walk EXCEPT !.queue = Tail(@)]
          ELSE [chain |-> Append(walk.chain, m), queue |-> Tail(walk.queue) \o next]

\* One turn of generate's loop: the model at the head of the queue, then its fallbacks behind it.
Follow(walk) ==
  IF walk.queue = <<>> \/ Len(walk.chain) >= MaxChain THEN walk
  ELSE LET m == Head(walk.queue)
           fresh == ModelIds \ (ToSet(walk.chain) \cup {m})
       IN IF Contains(walk.chain, m) THEN [walk EXCEPT !.queue = Tail(@)]
          ELSE [chain |-> Append(walk.chain, m), queue |-> Tail(walk.queue) \o Among(Registry[m].fallbacks, fresh)]

\* A turn either takes a model that is in the chain off the queue, or adds one to the chain.
Chain(m) ==
  LET turns == 1 + MaxChain * MaxFallbacks
      walk[n \in 0..turns] == IF n = 0 THEN [chain |-> <<>>, queue |-> <<m>>] ELSE Follow(walk[n - 1])
  IN walk[turns].chain

\* The calls generate makes for a model until one answers: each is a route of some model.
Calls ==
  [m \in ModelIds |->
     LET chain == Chain(m)
         routes(id) == Among(RoutesOf(id), Configured)
         calls[n \in 0..Len(chain)] ==
           IF n = 0 THEN <<>>
           ELSE calls[n - 1] \o [j \in 1..Len(routes(chain[n])) |-> <<chain[n], routes(chain[n])[j]>>]
         all == calls[Len(chain)]
     IN SubSeq(all, 1, Min({MaxCalls, Len(all)}))]

Served(m) == \E p \in ToSet(RoutesOf(m)) : p \in Configured

\* catalogue, findModel: what send lets through
Offered(m) ==
  /\ ~Registry[m].hidden
  /\ Registry[m].tier = "pro" => Plan = "pro"
  /\ Served(m)

\* PLANS: the longest request of each plan, of lengths 1 to 3; MAX_REQUEST_CHARS is the longer.
MaxRequestChars == [free |-> 1, pro |-> 2]

-----------------------------------------------------------------------------
(* The api *)

Init ==
  /\ tab = [t \in Tabs |-> Rest]
  /\ op = [m \in Messages |-> "none"]
  /\ model = [m \in Messages |-> "none"]
  /\ replied = {} /\ used = [w \in Windows |-> 0]
  /\ worker = Idle
  /\ faults = 0 /\ spent = used /\ ranout = used

Fault == faults < MaxFaults /\ faults' = faults + 1

\* Requests that passed the allowance and have not ended.
UnderWay == Cardinality({t \in Tabs : tab[t].step \in {"busy", "create", "enqueue"}})
          + Cardinality({m \in Messages : op[m] \in Active})

\* send, up to the allowance: what the request is, and the tokens of the answers in either window.
Send(t, choice, length) ==
  /\ tab[t] = Rest
  /\ Offered(choice)
  /\ length <= MaxRequestChars[Plan]
  /\ \A w \in Windows : used[w] < TokenLimit[w]
  /\ tab' = [tab EXCEPT ![t] = [step |-> "busy", message |-> 0, model |-> choice]]
  /\ UNCHANGED <<model, rows, worker, faults, history>>

\* Rows get older than a window: those older than a month are older than a day.
Passes(w) ==
  /\ \E tokens \in 1..used[w] :
       /\ w = "month" => used["month"] - tokens >= used["day"]
       /\ used' = [used EXCEPT ![w] = @ - tokens]
       /\ spent' = [spent EXCEPT ![w] = @ - tokens]
  /\ UNCHANGED <<tab, model, op, replied, worker, faults, ranout>>

\* Mutant: what waits in the queue is not counted.
CheckAtWork(t) ==
  /\ tab[t].step = "busy"
  /\ tab' = [tab EXCEPT ![t] = IF \E m \in Messages : op[m] \in Active \ {"queued"} THEN Rest ELSE [@ EXCEPT !.step = "create"]]
  /\ UNCHANGED <<model, rows, worker, faults, history>>

\* One request at a time: counted, not held.
CheckBusy(t) ==
  /\ tab[t].step = "busy"
  /\ tab' = [tab EXCEPT ![t] = IF \E m \in Messages : op[m] \in Active THEN Rest ELSE [@ EXCEPT !.step = "create"]]
  /\ UNCHANGED <<model, rows, worker, faults, history>>

CreateMessage(t) ==
  /\ tab[t].step = "create"
  /\ \E m \in Messages :
       /\ model[m] = "none" /\ \A n \in Messages : n < m => model[n] # "none"
       /\ model' = [model EXCEPT ![m] = tab[t].model]
       /\ tab' = [tab EXCEPT ![t].step = "enqueue", ![t].message = m]
  /\ UNCHANGED <<rows, worker, faults, history>>

\* Bound: every message was sent.
NoMessageLeft(t) ==
  /\ tab[t].step = "create"
  /\ \A m \in Messages : model[m] # "none"
  /\ tab' = [tab EXCEPT ![t] = Rest]
  /\ UNCHANGED <<model, rows, worker, faults, history>>

\* The operation; that the message then names it is left out.
Enqueue(t) ==
  /\ tab[t].step = "enqueue"
  /\ op' = [op EXCEPT ![tab[t].message] = "queued"]
  /\ tab' = [tab EXCEPT ![t] = Rest]
  /\ UNCHANGED <<model, replied, used, worker, faults, history>>

\* The message stays without its operation.
ApiDies(t) ==
  /\ tab[t].step = "enqueue"
  /\ Fault
  /\ tab' = [tab EXCEPT ![t] = Rest]
  /\ UNCHANGED <<model, rows, worker, history>>

-----------------------------------------------------------------------------
(* The worker *)

SetOp(s) == op' = [op EXCEPT ![worker.message] = s]

\* drain takes the oldest; the tree that holds the context is staged.
Take(m) ==
  /\ worker = Idle
  /\ op[m] = "queued" /\ \A n \in Messages : n < m => op[n] # "queued"
  /\ op' = [op EXCEPT ![m] = "staging"]
  /\ worker' = [Idle EXCEPT !.step = "call", !.message = m, !.at = 1]
  /\ UNCHANGED <<tab, model, replied, used, faults, history>>

Route == Calls[model[worker.message]]

\* A vendor answers.  copilotOutputSchema, refused and applyEdits can say any of these of a plan.
Answers(cost, says) ==
  /\ worker.step = "call" /\ worker.at <= Len(Route)
  /\ spent' = [w \in Windows |-> spent[w] + cost]
  /\ worker' = IF worker.repairing
                 THEN [worker EXCEPT !.step = "bill", !.cost = cost, !.again = FALSE]
                 ELSE [worker EXCEPT !.step = "reply", !.says = says, !.cost = cost, !.again = FALSE]
  /\ UNCHANGED <<tab, model, rows, faults, ranout>>

\* What is asked again for less, and all that a provider says is an error
AskedAgain     == {"tooLarge", "truncatedAnswer", "noToolCall", "affordableTokens"}
ProviderErrors == AskedAgain \cup {"other"}

\* call: once more
AsksAgain(error) ==
  /\ worker.step = "call" /\ worker.at <= Len(Route)
  /\ error \in AskedAgain /\ ~worker.again
  /\ worker' = [worker EXCEPT !.again = TRUE]
  /\ UNCHANGED <<tab, model, rows, faults, history>>

\* A vendor fails, and says so: generate turns to the next route.
Fails(error) ==
  /\ worker.step = "call" /\ worker.at <= Len(Route)
  /\ error \in AskedAgain => worker.again
  /\ worker' = [worker EXCEPT !.at = @ + 1, !.again = FALSE]
  /\ UNCHANGED <<tab, model, rows, faults, history>>

NoAnswer == [worker EXCEPT !.step = IF worker.repairing THEN "reject" ELSE "reply", !.says = "sorry", !.again = FALSE]

\* Anything but an AiProviderError is thrown on at once, whatever routes are left.
Rethrows ==
  /\ worker.step = "call" /\ worker.at <= Len(Route)
  /\ worker' = NoAnswer
  /\ UNCHANGED <<tab, model, rows, faults, history>>

\* Every route failed: plan says so and aborts, repair lets the rejection stand.
GivesUp ==
  /\ worker.step = "call" /\ worker.at > Len(Route)
  /\ worker' = NoAnswer
  /\ UNCHANGED <<tab, model, rows, faults, history>>

AfterReply == CASE worker.says = "sorry"    -> "fail"
                [] worker.says = "unusable" -> "reject"
                [] worker.says = "nothing"  -> "finish"
                [] OTHER                    -> "check"

\* What was used is on a row; of the requests under way then, each window remembers how many ran out with it.
Records ==
  /\ used' = [w \in Windows |-> used[w] + worker.cost]
  /\ ranout' = [w \in Windows |-> IF used[w] < TokenLimit[w] THEN UnderWay ELSE ranout[w]]

\* reply: the assistant's row with what was used, before the change is checked.
Reply ==
  /\ worker.step = "reply"
  /\ replied' = replied \cup {worker.message}
  /\ Records
  /\ worker' = [worker EXCEPT !.step = AfterReply, !.cost = 0, !.says = "none"]
  /\ UNCHANGED <<tab, model, op, faults, spent>>

\* The safety net's checks.  What the model slipped on is repaired once.
Check ==
  /\ worker.step = "check"
  /\ SetOp("checking")
  /\ worker' \in {[worker EXCEPT !.step = "finish"], [worker EXCEPT !.step = "reject"]}
             \cup IF worker.repairing THEN {} ELSE {[worker EXCEPT !.step = "call", !.at = 1, !.repairing = TRUE]}
  /\ UNCHANGED <<tab, model, replied, used, faults, history>>

\* repair: the user is charged for the second call whether or not it works.
BillRepair ==
  /\ worker.step = "bill"
  /\ Records
  /\ worker' \in {[worker EXCEPT !.step = s, !.cost = 0] : s \in {"check", "reject"}}
  /\ UNCHANGED <<tab, model, op, replied, faults, spent>>

\* What no row will ever say.
Forgets == spent' = [w \in Windows |-> spent[w] - worker.cost]

\* ... unless that update fails, which repair swallows.
BillFails ==
  /\ worker.step = "bill"
  /\ Fault
  /\ Forgets
  /\ worker' \in {[worker EXCEPT !.step = s, !.cost = 0] : s \in {"check", "reject"}}
  /\ UNCHANGED <<tab, model, rows, ranout>>

\* The operation is applied, rejected or failed.
Finish ==
  /\ worker.step \in {"finish", "reject", "fail"}
  /\ SetOp("ended")
  /\ worker' = Idle
  /\ UNCHANGED <<tab, model, replied, used, faults, history>>

\* Mutant: nobody looks for what a dead worker had in progress.
CrashUnseen ==
  /\ worker # Idle
  /\ Fault
  /\ Forgets
  /\ worker' = Idle
  /\ UNCHANGED <<tab, model, rows, ranout>>

\* The worker dies, or a statement of it fails: what is in progress is recorded as failed, by the next holder of the lock.
Crash ==
  /\ worker # Idle
  /\ Fault
  /\ SetOp("ended")
  /\ Forgets
  /\ worker' = Idle
  /\ UNCHANGED <<tab, model, replied, used, ranout>>

Next ==
  \/ \E t \in Tabs : \/ \E c \in Picks, length \in 1..3 : Send(t, c, length)
                     \/ CheckBusy(t) \/ CreateMessage(t) \/ NoMessageLeft(t) \/ Enqueue(t) \/ ApiDies(t)
  \/ \E w \in Windows : Passes(w)
  \/ \E m \in Messages : Take(m)
  \/ \E c \in Costs, says \in Replies \ {"sorry"} : Answers(c, says)
  \/ \E e \in ProviderErrors : AsksAgain(e) \/ Fails(e)
  \/ Rethrows \/ GivesUp \/ Reply \/ Check \/ BillRepair \/ BillFails \/ Finish \/ Crash

Spec == Init /\ [][Next]_state

-----------------------------------------------------------------------------
(* Properties *)

TypeOK ==
  /\ op \in [Messages -> {"none"} \cup Active \cup Ended]
  /\ \A m \in replied : op[m] \notin {"none", "queued"}
  /\ \A w \in Windows : used[w] <= spent[w]
  /\ Cardinality({m \in Messages : op[m] \in Active \ {"queued"}}) = IF worker = Idle THEN 0 ELSE 1

\* Those that may still be admitted on what is left, or that were when it ran out.
Admitted(w) == IF used[w] < TokenLimit[w] THEN UnderWay ELSE ranout[w]

\* usage, reply, repair: in no window do the tokens of the models' answers exceed what the plan allows by more than
\* the requests that were under way when it ran out could cost, each an answer and a repair; and no more of them are
\* under way than every tab's last request and the one it is waiting to send.
AllowanceHolds ==
  /\ \A w \in Windows : spent[w] < TokenLimit[w] + 2 * Max(Costs) * Admitted(w)
  /\ UnderWay <= 2 * Cardinality(Tabs)

\* The models that a model's fallbacks lead to
Reachable(m) ==
  LET step(S) == S \cup UNION {ToSet(Registry[id].fallbacks) \cap ModelIds : id \in S}
      reach[n \in 0..Cardinality(ModelIds)] == IF n = 0 THEN {m} ELSE step(reach[n - 1])
  IN reach[Cardinality(ModelIds)]

\* generate: when a request is given up for want of another vendor to ask, the calls one request may make are used, or
\* every configured vendor has failed of every model that is in its chain; and the chain is as long as one may be, or
\* has every model that the fallbacks lead to, whatever AI_MODELS makes of them.  (An error that is not a vendor's
\* gives it up before that.)
NoRouteLeftUntried ==
  worker.step = "call" /\ worker.at > Len(Route) =>
    LET chain == Chain(model[worker.message])
    IN /\ \/ Len(Route) = MaxCalls
          \/ \A id \in ToSet(chain) : \A p \in ToSet(RoutesOf(id)) \cap Configured : <<id, p>> \in ToSet(Route)
       /\ Len(chain) = MaxChain \/ Reachable(model[worker.message]) \subseteq ToSet(chain)

=============================================================================
