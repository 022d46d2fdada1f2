--------------------------------- MODULE Chat ---------------------------------
(***************************************************************************)
(* The chat of Plinth AI in the editor: CopilotChat with its draft, its    *)
(* request under way and the list of messages it loads; the api that       *)
(* records a message, queues its operation and links the two, and lists    *)
(* them with what was used; and a worker that replies and moves on.  How   *)
(* requests are admitted against each other and answered is in Copilot,    *)
(* how the page hears of operations in Editor: here the page learns the    *)
(* statuses, whenever it does.                                             *)
(*                                                                         *)
(* One tab.  A text is a number, the last one typed being the greatest; a  *)
(* reply costs one token.  A repair is paid while the change is checked,    *)
(* which Copilot has; here it is left out.                                 *)
(***************************************************************************)
EXTENDS Naturals, Sequences, FiniteSets, SequencesExt

CONSTANTS
  MaxTexts,   \* texts the person types (bound)
  MaxRows,    \* messages stored (bound)
  MaxLoads,   \* requests for the list under way at once (bound)
  Limit,      \* the tokens of the plan's allowance
  MaxFaults   \* lost answers, failed requests, answers that are overtaken (bound)

VARIABLES
  rows,     \* the user's messages: their text, the operation, whether they name it, and the reply
  used,     \* the tokens of the allowance that are used
  known,    \* the statuses that the page was told, by message
  loads,    \* requests for the list under way, oldest first
  chat,     \* what the page shows: the messages, the tokens, the draft, the text going out
  request,  \* the request that carries it
  faults,
  \* history, read by no action
  typed,    \* the texts typed so far
  behind,   \* the last request for the list failed, or an earlier one's answer took its place
  over,     \* texts that the person typed over
  cut,      \* texts whose answer was lost
  refilled  \* tokens came back

history == <<typed, behind, over, cut, refilled>>
state == <<rows, used, known, loads, chat, request, faults, history>>

Active == {"queued", "staging"}   \* staging, checking or applying
Ended  == {"ended"}
NoRequest == [at |-> "none", text |-> 0, row |-> 0]
Unloaded  == <<[row |-> 0, status |-> "none", replied |-> FALSE]>>

Init ==
  /\ rows = <<>> /\ used = 0 /\ known = <<>> /\ loads = <<>>
  /\ chat = [list |-> Unloaded, used |-> 0, draft |-> 0, outgoing |-> 0]
  /\ request = NoRequest
  /\ faults = 0 /\ typed = 0 /\ behind = FALSE /\ over = {} /\ cut = {} /\ refilled = FALSE

Fault == faults < MaxFaults /\ faults' = faults + 1

Statuses == [i \in DOMAIN rows |-> rows[i].status]
Shown(i) == \E j \in DOMAIN chat.list : chat.list[j].row = i
Entry(i) == chat.list[CHOOSE j \in DOMAIN chat.list : chat.list[j].row = i]

\* busy, outOfMessages
Busy == chat.outgoing # 0 \/ \E i \in DOMAIN known : known[i] \in Active
Out  == chat.used >= Limit

\* pending: a message of an operation that goes on, without its reply
Pending == \E j \in DOMAIN chat.list : chat.list[j].status \in Active /\ ~chat.list[j].replied

-----------------------------------------------------------------------------
(* The person *)

\* A text is typed into the box, in the place of what it holds; a request from Home arrives like this too.
Type ==
  /\ ~Out /\ typed < MaxTexts
  /\ typed' = typed + 1
  /\ chat' = [chat EXCEPT !.draft = typed + 1]
  /\ over' = over \cup ({chat.draft} \ {0})
  /\ UNCHANGED <<rows, used, known, loads, request, faults, behind, cut, refilled>>

\* send
Send ==
  /\ chat.draft # 0 /\ ~Busy /\ ~Out
  /\ chat' = [chat EXCEPT !.outgoing = chat.draft, !.draft = 0]
  /\ request' = [at |-> "asked", text |-> chat.draft, row |-> 0]
  /\ UNCHANGED <<rows, used, known, loads, faults, history>>

-----------------------------------------------------------------------------
(* CopilotService.send *)

Refuses == used >= Limit \/ \E i \in DOMAIN rows : rows[i].status \in Active

Store ==
  /\ request.at = "asked"
  /\ IF Refuses \/ Len(rows) = MaxRows
       THEN request' = [request EXCEPT !.at = "refused"] /\ UNCHANGED rows
       ELSE /\ rows' = Append(rows, [text |-> request.text, status |-> "none", linked |-> FALSE, replied |-> FALSE])
            /\ request' = [request EXCEPT !.at = "stored", !.row = Len(rows) + 1]
  /\ UNCHANGED <<used, known, loads, chat, faults, history>>

Enqueue ==
  /\ request.at = "stored"
  /\ rows' = [rows EXCEPT ![request.row].status = "queued"]
  /\ request' = [request EXCEPT !.at = "queued"]
  /\ UNCHANGED <<used, known, loads, chat, faults, history>>

Link ==
  /\ request.at = "queued"
  /\ rows' = [rows EXCEPT ![request.row].linked = TRUE]
  /\ request' = [request EXCEPT !.at = "done"]
  /\ UNCHANGED <<used, known, loads, chat, faults, history>>

-----------------------------------------------------------------------------
(* The worker *)

Set(i, status) == rows' = [rows EXCEPT ![i].status = status]

\* CopilotPlanner.reply, while the operation is staging
Reply(i) ==
  /\ rows[i].status = "staging" /\ ~rows[i].replied
  /\ rows' = [rows EXCEPT ![i].replied = TRUE] /\ used' = used + 1
  /\ UNCHANGED <<known, loads, chat, request, faults, history>>

\* OperationRunner.run: it takes the operation, and after the reply ends it.
Move(i) ==
  /\ \/ rows[i].status = "queued" /\ Set(i, "staging")
     \/ rows[i].status = "staging" /\ rows[i].replied /\ Set(i, "ended")
  /\ UNCHANGED <<used, known, loads, chat, request, faults, history>>

\* The window of usage moves on.
Refill ==
  /\ used > 0 /\ Fault
  /\ used' = 0 /\ refilled' = TRUE
  /\ UNCHANGED <<rows, known, loads, chat, request, typed, behind, over, cut>>

-----------------------------------------------------------------------------
(* The list *)

Load == [at |-> "asked", list |-> <<>>, used |-> 0, overtaken |-> FALSE]
Without(l) == [j \in 1..(Len(loads) - 1) |-> IF j < l THEN [loads[j] EXCEPT !.overtaken = TRUE] ELSE loads[j + 1]]

\* Mutant: only an operation that comes or goes counts as news.
SignatureOfActive(statuses) == {i \in DOMAIN statuses : statuses[i] \in Active}

\* copilotSignature
Signature(statuses) == {<<i, statuses[i]>> : i \in {r \in DOMAIN statuses : statuses[r] # "none"}}

Open ==
  /\ chat.list = Unloaded /\ loads = <<>> /\ ~behind
  /\ loads' = <<Load>>
  /\ UNCHANGED <<rows, used, known, chat, request, faults, history>>

\* The page's list of operations arrives, and the chat loads when it says anything new of its own.
Learn ==
  /\ known # Statuses
  /\ known' = Statuses
  /\ IF Signature(known) = Signature(Statuses) THEN UNCHANGED loads
     ELSE Len(loads) < MaxLoads /\ loads' = Append(loads, Load)
  /\ UNCHANGED <<rows, used, chat, request, faults, history>>

\* CopilotService.list: the messages with the operations they name, and the tokens.  Read together, as nothing that is
\* read twice can go back.
Listed(i) == [row |-> i, status |-> IF rows[i].linked THEN rows[i].status ELSE "none", replied |-> rows[i].replied]

ReadList(l) ==
  /\ loads[l].at = "asked"
  /\ loads' = [loads EXCEPT ![l].at = "done", ![l].used = used, ![l].list = [i \in DOMAIN rows |-> Listed(i)]]
  /\ UNCHANGED <<rows, used, known, chat, request, faults, history>>

\* load: whichever answer comes last is what the chat shows.
Loaded(l) ==
  /\ loads[l].at = "done"
  /\ IF l = 1 THEN UNCHANGED faults ELSE Fault
  /\ chat' = [chat EXCEPT !.list = loads[l].list, !.used = loads[l].used]
  /\ loads' = Without(l)
  /\ behind' = loads[l].overtaken
  /\ UNCHANGED <<rows, used, known, request, typed, over, cut, refilled>>

LoadFails(l) ==
  /\ Fault
  /\ chat' = [chat EXCEPT !.list = IF @ = Unloaded THEN <<>> ELSE @]
  /\ loads' = Without(l)
  /\ behind' = TRUE
  /\ UNCHANGED <<rows, used, known, request, typed, over, cut, refilled>>

-----------------------------------------------------------------------------
(* The answer to a message *)

\* The message joins the list, unless a load has brought it already.
Added(list) ==
  IF \E j \in DOMAIN list : list[j].row = request.row THEN list
  ELSE Append(IF list = Unloaded THEN <<>> ELSE list, [row |-> request.row, status |-> "queued", replied |-> FALSE])

Answered ==
  /\ request.at = "done"
  /\ chat' = [chat EXCEPT !.list = Added(@), !.outgoing = 0]
  /\ request' = NoRequest
  /\ UNCHANGED <<rows, used, known, loads, faults, history>>

\* Mutant: a refused text is not given back.
DropsDraft == [chat EXCEPT !.outgoing = 0]

\* "Nothing was sent: give the text back", unless something else has been typed meanwhile.
GivesBack == [chat EXCEPT !.outgoing = 0, !.draft = IF @ = 0 THEN chat.outgoing ELSE @]

Overwritten == over' = IF chat.draft = 0 THEN over ELSE over \cup {chat.outgoing}

Refused ==
  /\ request.at = "refused"
  /\ chat' = GivesBack /\ Overwritten
  /\ request' = NoRequest
  /\ UNCHANGED <<rows, used, known, loads, faults, typed, behind, cut, refilled>>

\* The api dies before it has done everything, or its answer is lost.
Lost ==
  /\ request.at \in {"asked", "stored", "queued", "done"}
  /\ Fault
  /\ chat' = GivesBack /\ Overwritten
  /\ cut' = IF request.at = "asked" THEN cut ELSE cut \cup {request.text}
  /\ request' = NoRequest
  /\ UNCHANGED <<rows, used, known, loads, typed, behind, refilled>>

Next ==
  \/ Type \/ Send \/ Store \/ Enqueue \/ Link \/ Refill \/ Open \/ Learn \/ Answered \/ Refused \/ Lost
  \/ \E i \in DOMAIN rows : Reply(i) \/ Move(i)
  \/ \E l \in DOMAIN loads : ReadList(l) \/ Loaded(l) \/ LoadFails(l)

Spec == Init /\ [][Next]_state

-----------------------------------------------------------------------------
(* Properties *)

TypeOK ==
  /\ chat.outgoing = 0 <=> request = NoRequest
  /\ Len(loads) <= MaxLoads /\ Len(rows) <= MaxRows
  /\ \A i \in DOMAIN chat.list : chat.list[i].row \in 0..Len(rows)

Quiet == loads = <<>> /\ request = NoRequest /\ known = Statuses /\ chat.list # Unloaded /\ ~behind

\* CopilotChat, CopilotService.send, list, CopilotPlanner.reply: once nothing is under way the chat shows every
\* message whose change was queued, with its status, its reply and the allowance left, though a reply is
\* no event and the chat loads at changes of status only; and a message that waits for its reply is seen waiting,
\* unless it was listed before it named its operation.  Answers that crossed or failed excepted.
ConversationIsShown ==
  Quiet => \A i \in {r \in DOMAIN rows : rows[r].status # "none"} :
    /\ Shown(i)
    /\ Entry(i).status \in {"none", rows[i].status}
    /\ rows[i].status \in Ended => Entry(i).replied = rows[i].replied
    /\ rows[i].status \in Active /\ ~rows[i].replied => Pending \/ Entry(i).status = "none"
    /\ (\A r \in DOMAIN rows : rows[r].status \notin Active) => chat.used = used \/ refilled

\* CopilotChat.send: a text that was sent is recorded, or is the draft again, unless something else was typed while it
\* was on its way; and it is recorded twice only when the answer to it was lost.
TextIsKept ==
  /\ \A t \in 1..typed : t \in {chat.draft, chat.outgoing} \cup over \cup {rows[i].text : i \in DOMAIN rows}
  /\ \A i, j \in DOMAIN rows : i # j /\ rows[i].text = rows[j].text => rows[i].text \in cut

=============================================================================
