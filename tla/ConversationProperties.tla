----------------------- MODULE ConversationProperties -----------------------
(* What the turns of a session promise the customer and the operators.     *)
EXTENDS Conversation

TypeOK ==
    /\ status \in {"active", "expired", "escalated", "closed"}
    /\ customer \in Customers \cup {None} /\ inherited \in Starts
    /\ ToSet(meta.stack) \subseteq Asks
    /\ \A i \in DOMAIN messages : messages[i].turn \in Turns
                               /\ messages[i].role \in {"customer", "agent"}
    /\ \A i \in DOMAIN tickets : tickets[i].turn \in Turns
    /\ traces \subseteq Turns
    /\ \A t \in Turns : loc[t].rounds \in 0..MaxIterations /\ loc[t].calls \in 0..MaxCalls
    /\ faults \in 0..MaxFaults /\ outages \in 0..MaxOutages

Asked(t)    == \E i \in DOMAIN messages : messages[i].turn = t /\ messages[i].role = "customer"
Answered(t) == \E i \in DOMAIN messages : messages[i].turn = t /\ messages[i].role = "agent"
AtRest      == \A t \in Turns : ~Busy(t)

-----------------------------------------------------------------------------
(* Whatever runs at the same time and whatever fails *)

\* Every reply in the transcript comes after the customer message of its turn
\* and under the same turn index, and a turn replies at most once.
ReplyFollowsQuestion ==
    \A i \in DOMAIN messages : messages[i].role = "agent" =>
        /\ \E j \in 1..(i - 1) : /\ messages[j].role = "customer"
                                /\ messages[j].turn = messages[i].turn
                                /\ messages[j].index = messages[i].index
        /\ \A j \in DOMAIN messages :
               messages[j].role = "agent" /\ messages[j].turn = messages[i].turn => j = i

\* The customer's message is persisted before the agent acts on it: whoever
\* opened a ticket, the transcript shows what was asked, even after a crash.
ActsOnTranscript == \A i \in DOMAIN tickets : Asked(tickets[i].turn)

\* The topics a session would come back to stay consistent although every
\* turn writes them from its own snapshot: no topic waits twice and none waits
\* while no topic is current; and once a turn has written them, the current one
\* does not wait behind itself, as it may when the session has just claimed them.
TopicsSound ==
    /\ WaitOnce(meta.topics)
    /\ meta.topics # inherited.topics => SoundTopics(meta.topics)

\* The turns implement the bounded agent, whatever overlaps or fails: the
\* model gets at most MaxIterations rounds of tool calls, no step waits for
\* another turn, every failure has a way out, and the turn ends.
Agent == INSTANCE BoundedAgent WITH
             Agents <- Turns,
             Budget <- MaxIterations,
             phase  <- [t \in Turns |-> IF Busy(t) THEN "working" ELSE "resting"],
             rounds <- [t \in Turns |-> loc[t].rounds]

TurnsAreBounded == Agent!FairSpec

-----------------------------------------------------------------------------
(* What a reply tells the customer *)

\* A reply that reports a ticket or a handoff is the reply of a turn that
\* opened the ticket, and after a handoff the session takes no more messages.
ClaimsAreTrue ==
    \A t \in Turns : pc[t] = "say" =>
        /\ loc[t].claim # "none" => \E i \in DOMAIN tickets :
               /\ tickets[i].turn = t
               /\ tickets[i].tool = IF loc[t].claim = "handoff" THEN "escalate" ELSE "create"
        /\ loc[t].claim = "handoff" => status # "active"

\* A message that asks for a person is answered by the handoff, unless it was
\* taken for an answer to an approval: then that approval is still there to be
\* answered, and the turn that asked for a person has cost the customer nothing.
PersonOnRequest ==
    \A t \in Turns :
        pc[t] = "say" /\ "human" \in loc[t].msg.is =>
            \/ loc[t].claim = "handoff"
            \/ meta.stack # <<>> /\ meta.stack = loc[t].meta.stack

\* A turn whose reply is in the transcript fails its request only in the gauge:
\* errors of the memory and of the trace are logged, and a crash is a crash.
TailIsBestEffort ==
    [][\A t \in Turns : Answered(t) /\ Busy(t) /\ pc'[t] = "failed" => pc[t] = "gauge"]_vars

-----------------------------------------------------------------------------
(* Approvals *)

Declines(t) == pc[t] = "cancel" /\ pc'[t] = "say"

\* An approval leaves the stack only because it was on top and was declined
\* or carried out, because it was asked again, or because the session was
\* handed to a person.
ApprovalsConserved ==
    [][\A a \in ToSet(meta.stack) \ ToSet(meta'.stack) :
          \/ status = "escalated"
          \/ \E b \in ToSet(meta'.stack) : SameApproval(a, b)
          \/ /\ a = Head(meta.stack)
             /\ \/ \E t \in Turns : Declines(t)
                \/ \E i \in DOMAIN tickets : tickets[i].action = a]_vars

\* What a yes performs is the action on top of the stack.
YesPerformsTop ==
    [][\A t \in Turns : pc[t] = "open" /\ tickets' # tickets =>
          LET a == tickets'[Len(tickets')].action
          IN  a # None => meta.stack # <<>> /\ SameApproval(Head(meta.stack), a)]_vars

\* No approval is carried out twice.
OncePerApproval ==
    \A i, j \in DOMAIN tickets :
        tickets[i].action # None /\ tickets[i].action = tickets[j].action => i = j

\* The approval the agent named last in the first n lines; before it has named
\* any, the one on top when the session was opened.  Offers of a person for which
\* no approval was queued name none: a yes to such an offer means an earlier one.
LastAsk(n) ==
    LET asks == {i \in 1..n : messages[i].offer \notin {None, Unbacked}}
    IN  IF asks = {} THEN Top(inherited.stack) ELSE messages[Max(asks)].offer

\* Between turns a yes would perform the approval the agent named last.
YesMeansLastAsk ==
    AtRest /\ meta.stack # <<>> => Head(meta.stack) = LastAsk(Len(messages))

\* A yes has carried out what the agent had named last when the customer wrote
\* it, whatever was queued, declined, repeated or handed over since that was
\* first asked for - in this session or an earlier one.
PerformsLastAsk ==
    \A i \in DOMAIN tickets :
        tickets[i].action # None =>
            \E j \in DOMAIN messages :
                /\ messages[j].turn = tickets[i].turn /\ messages[j].role = "customer"
                /\ tickets[i].action = LastAsk(j)

-----------------------------------------------------------------------------
(* The session and its rows *)

\* Once a session was handed to a person the agent answers nothing more: the
\* only reply is the one that announces the handoff.
HandoffEndsChat ==
    [][status = "escalated" /\ messages' # messages =>
          LET new == messages'[Len(messages')]
          IN  new.role = "agent" => new.claim = "handoff"]_vars

\* Between turns the customer's memory holds the session's open work: its
\* approvals, its topics and the account's tickets.
MemoryIsCurrent ==
    AtRest /\ memory # None /\ memory.customer = customer =>
        memory = Work(meta, customer, TicketsOf(customer))
=============================================================================
