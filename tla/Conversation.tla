---------------------------- MODULE Conversation ----------------------------
(***************************************************************************)
(* One session and the turns POST /sessions/{id}/messages runs on it.     *)
(* handle_message is a coroutine: between two awaits it runs alone, and   *)
(* every await on the database or the model lets the other turns run.  A  *)
(* turn is therefore a program counter whose steps are the awaits that    *)
(* read or write shared rows, plus the locals carried from one to the     *)
(* next, above all the session snapshot of its admission.                 *)
(*                                                                        *)
(* Not represented, because no decision reads it: the conversation title, *)
(* the miss counter, the contact fields merged beside an identity, the    *)
(* memory summary and the copy of the tasks echoed into the metadata.     *)
(* Time is SessionLifecycle's: here a session may expire at any moment.   *)
(***************************************************************************)
EXTENDS Integers, FiniteSets, Approvals

CONSTANTS
    Turns,            \* turn slots, each used once
    Messages,         \* what a customer may write, see MessageType
    Customers,        \* accounts a lookup can find
    None,             \* NULL, or nothing
    Earlier,          \* tasks left by a customer's earlier sessions
    Starts,           \* what a session may start with, see StartType
    ModelConfigured,  \* an OpenAI key is set
    ModelTools,       \* tools the model may call: a subset of ToolNames
    MaxIterations,    \* settings.agent_max_iterations
    MaxCalls,         \* bound on the tool calls of one model response
    FailureThreshold, \* settings.escalation_tool_failure_threshold
    MayEnd,           \* the session may be closed or expire meanwhile
    MaxInFlight,      \* bound on the turns running at the same time
    MaxFaults,        \* bound on database errors and process crashes
    MaxOutages        \* bound on model provider errors

ToolNames == {"read", "lookup", "create", "escalate"}
Flags == {"unsafe", "vague", "short", "status", "human", "authority", "ticket",
          "slack", "account", "statement", "fact", "followup", "unclear"}

\* A message by what the classifiers of conversation.py say of it: the answer
\* it is to an approval, the topic it names, whether it reports a fix, the
\* intents it matches, the article retrieval finds, the account it names.
MessageType ==
    [says : {"yes", "no", "other"}, topic : STRING, done : BOOLEAN,
     is : SUBSET Flags, finds : {"nothing", "article", "export"},
     who : Customers \cup {None, "stranger"}]

\* What waits for the yes of a customer: the message it is about, the topic it
\* belongs to and the turn that put it on the stack, or the task of an earlier
\* session it came with.
TopicNames == {m.topic : m \in Messages} \cup {"export"}
Asks == [type : {"escalate", "create_ticket"}, about : Messages,
         origin : TopicNames \cup {NoTopic}, from : Turns \cup Earlier]

\* A session starts as a guest's, with nothing, or with a customer and the open
\* work of the customer's memory.  Two sessions may have left the same approval,
\* or the same topic: of the topics only those behind the first are freed of
\* repetitions, so that the current one may wait as well.
StartType ==
    {s \in [customer : Customers \cup {None}, stack : Seq(Asks),
            topics : [current : TopicNames \cup {NoTopic}, parked : Seq(TopicNames)]] :
        /\ IsInjective(s.stack) /\ \A a \in ToSet(s.stack) : a.from \in Earlier
        /\ WaitOnce(s.topics) /\ NoTopic \notin ToSet(s.topics.parked)
        /\ s.customer = None => s.stack = <<>> /\ s.topics.current = NoTopic}

ASSUME ConversationAssumption ==
    /\ Messages \subseteq MessageType
    /\ None \notin Customers /\ None \notin Asks /\ Turns \cap Earlier = {}
    /\ \A s \in Starts : s \in StartType
    /\ ModelConfigured \in BOOLEAN /\ MayEnd \in BOOLEAN
    /\ ModelTools \subseteq ToolNames
    /\ MaxIterations \in Nat \ {0} /\ MaxCalls \in Nat \ {0}
    /\ FailureThreshold \in Nat /\ MaxInFlight \in Nat \ {0}
    /\ MaxFaults \in Nat /\ MaxOutages \in Nat

VARIABLES
    status,    \* sessions.status
    customer,  \* sessions.customer_id
    meta,      \* sessions.metadata: [stack, topics, lookup, failures]
    messages,  \* the messages table, in order of insertion
    tickets,   \* the tickets table, in order of its sequence
    memory,    \* the session's customer_session_memories row
    traces,    \* turns whose agent_traces row was saved
    pc,        \* where each turn is
    loc,       \* its locals
    inherited, \* history: what the session started with
    faults, outages

rows == <<status, customer, meta, messages, tickets, memory, traces>>
env  == <<inherited, faults, outages>>
vars == <<rows, pc, loc, env>>

Over == {"idle", "done", "failed", "rejected", "crashed"}
Busy(t) == pc[t] \notin Over

NoMeta == [stack |-> <<>>, topics |-> [current |-> NoTopic, parked |-> <<>>],
           lookup |-> FALSE, failures |-> 0]
NoJob  == [tool |-> "none", by |-> "none", action |-> None]
NoLoc  == [msg |-> None, index |-> 0, customer |-> None, meta |-> NoMeta,
           job |-> NoJob, calls |-> 0, rounds |-> 0, found |-> None,
           claim |-> "none", offer |-> None, tasks |-> None]

\* The open work of a session with metadata md, as a memory row keeps it.
Work(md, c, ids) ==
    [stack |-> md.stack, topics |-> OpenTopics(md.topics), customer |-> c, open |-> ids]

\* create_session, once it has returned: for a customer it has merged the claimed
\* work into the metadata and stored it as the session's memory row.
Init ==
    /\ inherited \in Starts
    /\ status = "active"
    /\ customer = inherited.customer
    /\ meta = [NoMeta EXCEPT !.stack = inherited.stack, !.topics = inherited.topics]
    /\ messages = <<>> /\ tickets = <<>>
    /\ memory = IF customer = None THEN None ELSE Work(meta, customer, {})
    /\ traces = {}
    /\ pc = [t \in Turns |-> "idle"]
    /\ loc = [t \in Turns |-> NoLoc]
    /\ faults = 0 /\ outages = 0

-----------------------------------------------------------------------------
(* Control of a turn *)

Goto(t, label) == pc' = [pc EXCEPT ![t] = label]

\* Continue at the label and set some locals.
Go(t, label, l) == Goto(t, label) /\ loc' = [loc EXCEPT ![t] = l]

\* The turn is over: its locals are gone.
End(t, how) == Go(t, how, NoLoc)

\* An offer for which no approval is put on the stack.
Unbacked == [type |-> "unbacked"]

\* A reply is decided: what it claims was done and what it offers to do.
Say(t, claim, offer) ==
    Go(t, "say", [loc[t] EXCEPT !.claim = claim, !.offer = offer])

SayPlain(t) == Say(t, "none", None)

Top(stack) == IF stack = <<>> THEN None ELSE Head(stack)

Approval(type, m, topic, t) ==
    [type |-> type, about |-> m, origin |-> topic, from |-> t]

Job(tool, by, action) == [tool |-> tool, by |-> by, action |-> action]

-----------------------------------------------------------------------------
(* Admission, transcript, topics *)

AdmitAnyStatus(t, m) ==                                                \* mutant
    /\ pc[t] = "idle"
    /\ Cardinality({u \in Turns : Busy(u)}) < MaxInFlight
    /\ Go(t, "index", [NoLoc EXCEPT !.msg = m, !.customer = customer, !.meta = meta])
    /\ UNCHANGED <<rows, env>>

\* get_active_session: the row, judged at once but for its age.
Admit(t, m) ==
    /\ pc[t] = "idle"
    /\ Cardinality({u \in Turns : Busy(u)}) < MaxInFlight
    /\ IF status = "active"
       THEN Go(t, "index", [NoLoc EXCEPT !.msg = m, !.customer = customer, !.meta = meta])
       ELSE Goto(t, "rejected") /\ UNCHANGED loc
    /\ UNCHANGED <<rows, env>>

NextIndex ==
    IF messages = <<>> THEN 0
    ELSE 1 + Max({messages[i].index : i \in DOMAIN messages})

ReadIndex(t) ==
    /\ pc[t] = "index"
    /\ Go(t, "ask", [loc[t] EXCEPT !.index = NextIndex])
    /\ UNCHANGED <<rows, env>>

Entry(t, role) == [turn |-> t, index |-> loc[t].index, role |-> role,
                   claim |-> loc[t].claim, offer |-> loc[t].offer]

Ask(t) ==
    /\ pc[t] = "ask"
    /\ messages' = Append(messages, Entry(t, "customer"))
    /\ Goto(t, "touch")
    /\ UNCHANGED <<status, customer, meta, tickets, memory, traces, loc, env>>

\* The topic state after the message, and whether the code writes it.
Topics(m, topics) ==
    IF m.done /\ topics.current # NoTopic THEN Resume(topics)
    ELSE IF m.topic # NoTopic THEN Shift(topics, m.topic) ELSE topics
Finishes(m, topics) == m.done /\ topics.current # NoTopic
WritesTopics(m, topics) == Finishes(m, topics) \/ m.topic # NoTopic

Identity(m, c) == IF m.who # None THEN m.who ELSE c

\* mutant: every short message is taken for a confirmation attempt
BranchShortFirst(m, md, c) ==
    LET waiting == md.stack # <<>>
    IN  IF "vague" \in m.is THEN "plain"
        ELSE IF waiting /\ m.says = "no" THEN "cancel"
        ELSE IF waiting /\ m.says = "yes" THEN "approve"
        ELSE IF "short" \in m.is /\ {"authority", "ticket"} \cap m.is = {} THEN "plain"
        ELSE IF "human" \in m.is THEN "handoff"
        ELSE IF "authority" \in m.is THEN "offer"
        ELSE IF "ticket" \in m.is THEN "file" ELSE "recall"

\* _answer's decision list, evaluated against the turn's own view md of the
\* metadata and the customer c of its snapshot.
Branch(m, md, c) ==
    LET waiting == md.stack # <<>>
        known   == Identity(m, c) # None
    IN  IF "vague" \in m.is THEN "plain"
        ELSE IF waiting /\ m.says = "no" THEN "cancel"
        ELSE IF waiting /\ m.says = "yes" THEN "approve"
        ELSE IF waiting /\ "short" \in m.is /\ {"authority", "ticket"} \cap m.is = {}
        THEN "plain"
        ELSE IF "status" \in m.is THEN "plain"
        ELSE IF "human" \in m.is THEN "handoff"
        ELSE IF "authority" \in m.is THEN "offer"
        ELSE IF "ticket" \in m.is THEN "file"
        ELSE IF "slack" \in m.is /\ known THEN "lookup"
        ELSE IF \/ m.who # None /\ (md.lookup \/ {"account", "statement"} \cap m.is # {})
                \/ "account" \in m.is /\ known
        THEN "lookup"
        ELSE IF "account" \in m.is THEN "wantid"
        ELSE "recall"

\* Where the turn goes once _answer holds the metadata md.
Route(t, md) ==
    LET m == loc[t].msg
        l == [loc[t] EXCEPT !.meta = md]
        do(tool, by, action) == Go(t, "open", [l EXCEPT !.job = Job(tool, by, action)])
        b == Branch(m, md, l.customer)
    IN  CASE b = "plain"   -> Go(t, "say", l)
          [] b = "approve" ->
                do(IF Head(md.stack).type = "escalate" THEN "escalate" ELSE "create",
                   "approval", Head(md.stack))
          [] b = "handoff" -> do("escalate", "customer", None)
          [] b = "file"    -> do("create", "customer", None)
          [] OTHER         -> Go(t, b, l)

\* screen_input refuses the message.
Blocked(m) == "unsafe" \in m.is

\* record_activity, then screen_input and the start of _answer.
Touch(t) ==
    /\ pc[t] = "touch"
    /\ IF Blocked(loc[t].msg) THEN SayPlain(t)
       ELSE IF WritesTopics(loc[t].msg, loc[t].meta.topics)
       THEN Goto(t, "topic") /\ UNCHANGED loc
       ELSE Route(t, loc[t].meta)
    /\ UNCHANGED <<rows, env>>

\* _update_topic_state merges its own view of the topics and gets the merged
\* row back; a finished topic with another behind it ends the turn there.
WriteTopics(t) ==
    LET m   == loc[t].msg
        old == loc[t].meta.topics
    IN  /\ pc[t] = "topic"
        /\ meta' = [meta EXCEPT !.topics = Topics(m, old)]
        /\ IF Finishes(m, old) /\ old.parked # <<>>
           THEN Go(t, "say", [loc[t] EXCEPT !.meta = meta'])
           ELSE Route(t, meta')
        /\ UNCHANGED <<status, customer, messages, tickets, memory, traces, env>>

-----------------------------------------------------------------------------
(* Approvals and the write tools *)

CancelAll(t) ==                                                        \* mutant
    /\ pc[t] = "cancel"
    /\ meta' = [meta EXCEPT !.stack = <<>>]
    /\ Say(t, "none", None)
    /\ UNCHANGED <<status, customer, messages, tickets, memory, traces, env>>

\* A "no" drops the top of the stack as the turn saw it and names the next.
Cancel(t) ==
    LET rest == Rest(loc[t].meta.stack)
    IN  /\ pc[t] = "cancel"
        /\ meta' = [meta EXCEPT !.stack = rest]
        /\ Say(t, "none", Top(rest))
        /\ UNCHANGED <<status, customer, messages, tickets, memory, traces, env>>

\* Push an approval on the stack the turn saw, and ask for it.
Push(t, a) ==
    /\ meta' = [meta EXCEPT !.stack = Queue(loc[t].meta.stack, a)]
    /\ Say(t, "none", a)
    /\ UNCHANGED <<status, customer, messages, tickets, memory, traces, env>>

\* Authority is needed: ask before handing off.
OfferHandoff(t) ==
    /\ pc[t] = "offer"
    /\ Push(t, Approval("escalate", loc[t].msg, NoTopic, t))

\* tickets.create, for the customer the turn's snapshot knows.
Ticket(t) == [turn |-> t, tool |-> loc[t].job.tool, by |-> loc[t].job.by,
              action |-> loc[t].job.action, customer |-> loc[t].customer]

\* The model's loop goes on with its next call, or asks the model again.
NextCall(t) ==
    Go(t, IF loc[t].calls > 1 THEN "call" ELSE "think",
       [loc[t] EXCEPT !.calls = @ - 1, !.job = NoJob])

\* What follows a create_ticket that returned, successfully or not: consuming
\* the approval, the reply, or the model's next call.
AfterCreate(t) ==
    CASE loc[t].job.by = "approval" -> Goto(t, "latest") /\ UNCHANGED loc
      [] loc[t].job.by = "customer" -> Say(t, "ticket", None)
      [] loc[t].job.by = "model"    -> NextCall(t)

OpenTicket(t) ==
    /\ pc[t] = "open"
    /\ tickets' = Append(tickets, Ticket(t))
    /\ IF loc[t].job.tool = "escalate" THEN Goto(t, "flip") /\ UNCHANGED loc
       ELSE AfterCreate(t)
    /\ UNCHANGED <<status, customer, meta, messages, memory, traces, env>>

FlipForgotten(t) ==                                                    \* mutant
    /\ pc[t] = "flip"
    /\ Goto(t, "clear")
    /\ UNCHANGED <<rows, loc, env>>

\* set_status("escalated"), whatever the status was.
Flip(t) ==
    /\ pc[t] = "flip"
    /\ status' = "escalated"
    /\ Goto(t, "clear")
    /\ UNCHANGED <<customer, meta, messages, tickets, memory, traces, loc, env>>

\* A handoff clears every approval.
ClearStack(t) ==
    /\ pc[t] = "clear"
    /\ meta' = [meta EXCEPT !.stack = <<>>]
    /\ Say(t, "handoff", None)
    /\ UNCHANGED <<status, customer, messages, tickets, memory, traces, env>>

\* Consuming an approval: read the row afresh...
ReadLatest(t) ==
    /\ pc[t] = "latest"
    /\ Go(t, "settle", [loc[t] EXCEPT !.meta = meta])
    /\ UNCHANGED <<rows, env>>

SettleKeepsTop(t) ==                                                   \* mutant
    /\ pc[t] = "settle"
    /\ Say(t, "ticket", Top(loc[t].meta.stack))
    /\ UNCHANGED <<rows, env>>

\* ...and write its stack without the top, resuming the parked topic if the
\* approval belonged to the current one.
Settle(t) ==
    LET md     == loc[t].meta
        origin == loc[t].job.action.origin
        ended  == origin # NoTopic /\ md.topics.current = origin
    IN  /\ pc[t] = "settle"
        /\ meta' = [meta EXCEPT !.stack = Rest(md.stack),
                                !.topics = IF ended THEN Resume(md.topics) ELSE @]
        /\ Say(t, "ticket", Top(Rest(md.stack)))
        /\ UNCHANGED <<status, customer, messages, tickets, memory, traces, env>>

-----------------------------------------------------------------------------
(* Identity and retrieval *)

\* lookup_customer is a read; only a known account changes anything.
Lookup(t) ==
    LET found == Identity(loc[t].msg, loc[t].customer)
    IN  /\ pc[t] = "lookup"
        /\ IF found \in Customers THEN Go(t, "attach", [loc[t] EXCEPT !.found = found])
           ELSE SayPlain(t)
        /\ UNCHANGED <<rows, env>>

\* attach_customer; the turn's own snapshot keeps the customer it had.
AttachFound(t) ==
    /\ pc[t] = "attach"
    /\ customer' = loc[t].found
    /\ IF loc[t].job.by = "model" THEN NextCall(t)
       ELSE Goto(t, IF "slack" \in loc[t].msg.is THEN "slack" ELSE "known")
            /\ UNCHANGED loc
    /\ UNCHANGED <<status, meta, messages, tickets, memory, traces, env>>

\* The pending question for the account is answered.
MergeKnown(t) ==
    /\ pc[t] = "known"
    /\ meta' = [meta EXCEPT !.lookup = FALSE]
    /\ SayPlain(t)
    /\ UNCHANGED <<status, customer, messages, tickets, memory, traces, env>>

AskIdentity(t) ==
    /\ pc[t] = "wantid"
    /\ meta' = [meta EXCEPT !.lookup = TRUE]
    /\ SayPlain(t)
    /\ UNCHANGED <<status, customer, messages, tickets, memory, traces, env>>

\* The plan-gated Slack answer: without an article it offers a person, but
\* queues no approval for it.
SearchSlack(t) ==
    /\ pc[t] = "slack"
    /\ IF loc[t].msg.finds = "nothing" THEN Say(t, "none", Unbacked) ELSE SayPlain(t)
    /\ UNCHANGED <<rows, env>>

\* list_for_session, and the branches that depend on the transcript.
Recall(t) ==
    /\ pc[t] = "recall"
    /\ IF "fact" \in loc[t].msg.is THEN SayPlain(t)
       ELSE IF "followup" \in loc[t].msg.is /\ Len(messages) > 1
       THEN Goto(t, "think") /\ UNCHANGED loc
       ELSE IF "unclear" \in loc[t].msg.is THEN SayPlain(t)
       ELSE Goto(t, "search") /\ UNCHANGED loc
    /\ UNCHANGED <<rows, env>>

Search(t) ==
    /\ pc[t] = "search"
    /\ CASE loc[t].msg.finds = "article" -> SayPlain(t)
         [] loc[t].msg.finds = "export"  -> Goto(t, "suggest") /\ UNCHANGED loc
         [] loc[t].msg.finds = "nothing" -> Goto(t, "think") /\ UNCHANGED loc
    /\ UNCHANGED <<rows, env>>

\* The known export issue: offer a ticket tied to the current topic.
OfferTicket(t) ==
    LET current == loc[t].meta.topics.current
    IN  /\ pc[t] = "suggest"
        /\ Push(t, Approval("create_ticket", loc[t].msg,
                            IF current = NoTopic THEN "export" ELSE current, t))

-----------------------------------------------------------------------------
(* _model_answer: a bounded loop of model calls and the tools they ask for. *)

Unconfigured(t) ==
    /\ pc[t] = "think" /\ ~ModelConfigured
    /\ SayPlain(t)
    /\ UNCHANGED <<rows, env>>

Thinks(t) == pc[t] = "think" /\ ModelConfigured

ThinkOnceMore(t) ==                                                    \* mutant
    /\ Thinks(t)
    /\ loc[t].rounds <= MaxIterations
    /\ \/ SayPlain(t)
       \/ \E n \in 1..MaxCalls :
              Go(t, "call", [loc[t] EXCEPT !.rounds = @ + 1, !.calls = n])
    /\ UNCHANGED <<rows, env>>

\* One response within the budget: an answer, or some tool calls.
Think(t) ==
    /\ Thinks(t)
    /\ loc[t].rounds < MaxIterations
    /\ \/ SayPlain(t)
       \/ \E n \in 1..MaxCalls :
              Go(t, "call", [loc[t] EXCEPT !.rounds = @ + 1, !.calls = n])
    /\ UNCHANGED <<rows, env>>

\* The budget is spent: offer a person, without queueing the approval.
GiveUp(t) ==
    /\ Thinks(t)
    /\ loc[t].rounds = MaxIterations
    /\ Say(t, "none", Unbacked)
    /\ UNCHANGED <<rows, env>>

\* The calls of a response run one after the other.  A read, an unknown tool
\* and a lookup that finds nobody change nothing; a tool that raises, over its
\* arguments for instance, ends the loop in the except branch.
Call(t) ==
    /\ pc[t] = "call"
    /\ \/ "read" \in ModelTools /\ NextCall(t)
       \/ /\ "lookup" \in ModelTools
          /\ \E c \in Customers :
                Go(t, "attach", [loc[t] EXCEPT !.found = c, !.job = Job("lookup", "model", None)])
       \/ \E tool \in ModelTools \cap {"create", "escalate"} :
              Go(t, "open", [loc[t] EXCEPT !.job = Job(tool, "model", None)])
       \/ ModelTools # {} /\ Goto(t, "relapse") /\ UNCHANGED loc
    /\ UNCHANGED <<rows, env>>

\* The provider fails.
Outage(t) ==
    /\ Thinks(t)
    /\ loc[t].rounds < MaxIterations
    /\ outages < MaxOutages
    /\ outages' = outages + 1
    /\ Goto(t, "relapse")
    /\ UNCHANGED <<rows, loc, inherited, faults>>

\* The except branch: read the row afresh, then count the failure and, from
\* the threshold on, queue a handoff.
ReadFailures(t) ==
    /\ pc[t] = "relapse"
    /\ Go(t, "blame", [loc[t] EXCEPT !.meta = meta])
    /\ UNCHANGED <<rows, env>>

CountFailureUnasked(t) ==                                              \* mutant
    /\ pc[t] = "blame"
    /\ meta' = [meta EXCEPT !.failures = @ + 1,
                            !.stack = IF meta.failures + 1 < FailureThreshold THEN @
                                      ELSE Queue(@, Approval("escalate", loc[t].msg, NoTopic, t))]
    /\ SayPlain(t)
    /\ UNCHANGED <<status, customer, messages, tickets, memory, traces, env>>

CountFailure(t) ==
    LET failures == loc[t].meta.failures + 1
        handoff  == Approval("escalate", loc[t].msg, NoTopic, t)
    IN  /\ pc[t] = "blame"
        /\ IF failures >= FailureThreshold
           THEN /\ meta' = [meta EXCEPT !.failures = failures,
                                        !.stack = Queue(loc[t].meta.stack, handoff)]
                /\ Say(t, "none", handoff)
           ELSE /\ meta' = [meta EXCEPT !.failures = failures]
                /\ SayPlain(t)
        /\ UNCHANGED <<status, customer, messages, tickets, memory, traces, env>>

-----------------------------------------------------------------------------
(* The reply, the memory, the trace, the metrics *)

ReplyReindexed(t) ==                                                   \* mutant
    /\ pc[t] = "say"
    /\ messages' = Append(messages, [Entry(t, "agent") EXCEPT !.index = NextIndex - 1])
    /\ Goto(t, "refresh")
    /\ UNCHANGED <<status, customer, meta, tickets, memory, traces, loc, env>>

Reply(t) ==
    /\ pc[t] = "say"
    /\ messages' = Append(messages, Entry(t, "agent"))
    /\ Goto(t, "refresh")
    /\ UNCHANGED <<status, customer, meta, tickets, memory, traces, loc, env>>

TicketsOf(c) == {i \in DOMAIN tickets : tickets[i].customer = c}

\* customer_memory.refresh: the row, then the account's tickets, then the copy.
ReadWork(t) ==
    /\ pc[t] = "refresh"
    /\ IF customer = None THEN Goto(t, "trace") /\ UNCHANGED loc
       ELSE Go(t, "gather", [loc[t] EXCEPT !.tasks = Work(meta, customer, {})])
    /\ UNCHANGED <<rows, env>>

ReadTickets(t) ==
    /\ pc[t] = "gather"
    /\ Go(t, "store", [loc[t] EXCEPT !.tasks.open = TicketsOf(loc[t].tasks.customer)])
    /\ UNCHANGED <<rows, env>>

StoreFirst(t) ==                                                       \* mutant
    /\ pc[t] = "store"
    /\ memory' = IF memory = None THEN loc[t].tasks ELSE memory
    /\ Goto(t, "trace")
    /\ UNCHANGED <<status, customer, meta, messages, tickets, traces, loc, env>>

\* upsert: an existing row keeps the customer it was inserted for.
StoreWork(t) ==
    /\ pc[t] = "store"
    /\ memory' = IF memory = None THEN loc[t].tasks
                 ELSE [loc[t].tasks EXCEPT !.customer = memory.customer]
    /\ Goto(t, "trace")
    /\ UNCHANGED <<status, customer, meta, messages, tickets, traces, loc, env>>

SaveTrace(t) ==
    /\ pc[t] = "trace"
    /\ traces' = traces \cup {t}
    /\ Goto(t, "gauge")
    /\ UNCHANGED <<status, customer, meta, messages, tickets, memory, loc, env>>

\* send_message counts the active sessions for its gauge, then answers.
Gauge(t) ==
    /\ pc[t] = "gauge"
    /\ End(t, "done")
    /\ UNCHANGED <<rows, env>>

-----------------------------------------------------------------------------
(* Failures and the world outside the turn *)

RaiseLogsAsk(t) ==                                                     \* mutant
    IF pc[t] = "ask" THEN Goto(t, "touch") /\ UNCHANGED loc ELSE End(t, "failed")

\* mutant: the memory is refreshed inside the turn
RaiseKeepsNothing(t) ==
    IF pc[t] = "trace" THEN Goto(t, "gauge") /\ UNCHANGED loc ELSE End(t, "failed")

\* Who sees a database error raised at a label: a tool turns it into a result,
\* the model's loop into a failure, the best-effort tail logs it, and anywhere
\* else the request fails.
Raise(t) ==
    LET job == loc[t].job
    IN  CASE pc[t] \in {"lookup"} -> SayPlain(t)
          [] pc[t] = "slack" -> Say(t, "none", Unbacked)
          [] pc[t] = "search" -> Goto(t, "think") /\ UNCHANGED loc
          [] pc[t] \in {"open", "flip"} /\ job.by = "model" -> NextCall(t)
          [] pc[t] \in {"open", "flip"} /\ job.by # "model" /\ job.tool = "escalate" ->
                Goto(t, "clear") /\ UNCHANGED loc
          [] pc[t] = "open" /\ job.by # "model" /\ job.tool = "create" -> AfterCreate(t)
          [] pc[t] \in {"attach", "clear"} /\ job.by = "model" ->
                Goto(t, "relapse") /\ UNCHANGED loc
          [] pc[t] \in {"refresh", "gather", "store"} -> Goto(t, "trace") /\ UNCHANGED loc
          [] pc[t] = "trace" -> Goto(t, "gauge") /\ UNCHANGED loc
          [] OTHER -> End(t, "failed")

\* The labels whose step is no database access.
Local == {"think", "call"}

\* A statement that fails, for want of a connection or by an error, wrote nothing.
Fault(t) ==
    /\ Busy(t) /\ pc[t] \notin Local
    /\ faults < MaxFaults
    /\ faults' = faults + 1
    /\ Raise(t)
    /\ UNCHANGED <<rows, inherited, outages>>

\* The process dies and with it every turn in flight; the rows stay.
Crash ==
    /\ \E t \in Turns : Busy(t)
    /\ faults < MaxFaults
    /\ faults' = faults + 1
    /\ pc' = [t \in Turns |-> IF Busy(t) THEN "crashed" ELSE pc[t]]
    /\ loc' = [t \in Turns |-> NoLoc]
    /\ UNCHANGED <<rows, inherited, outages>>

\* The close route, and expiry by the sweep or a lazy check.
EndSession ==
    /\ MayEnd
    /\ \/ status # "closed" /\ status' = "closed"
       \/ status = "active" /\ status' = "expired"
    /\ UNCHANGED <<customer, meta, messages, tickets, memory, traces, pc, loc, env>>

\* The statements of one turn, in no order but their labels'.
Step(t) ==
    \/ ReadIndex(t) \/ Ask(t) \/ Touch(t) \/ WriteTopics(t)
    \/ Cancel(t) \/ OfferHandoff(t) \/ OpenTicket(t) \/ Flip(t) \/ ClearStack(t)
    \/ ReadLatest(t) \/ Settle(t)
    \/ Lookup(t) \/ AttachFound(t) \/ MergeKnown(t) \/ AskIdentity(t) \/ SearchSlack(t)
    \/ Recall(t) \/ Search(t) \/ OfferTicket(t)
    \/ Unconfigured(t) \/ Think(t) \/ GiveUp(t) \/ Call(t)
    \/ ReadFailures(t) \/ CountFailure(t)
    \/ Reply(t) \/ ReadWork(t) \/ ReadTickets(t) \/ StoreWork(t) \/ SaveTrace(t) \/ Gauge(t)

Next ==
    \/ \E t \in Turns : \/ \E m \in Messages : Admit(t, m)
                        \/ Step(t) \/ Outage(t) \/ Fault(t)
    \/ Crash \/ EndSession

Spec == Init /\ [][Next]_vars

\* A coroutine whose await returned is resumed: every turn in flight keeps
\* stepping.  Nothing makes customers write, providers fail or sessions end.
FairSpec == Spec /\ \A t \in Turns : WF_vars(Step(t))
=============================================================================
