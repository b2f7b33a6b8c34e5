----------------------------- MODULE TurnProofs -----------------------------
(* Proofs about the turns of a session while nothing fails: what a reply    *)
(* claims, and, of turns that run one at a time, what they do with the      *)
(* approvals, the memory and the session.                                   *)
EXTENDS ConversationProofs

(* What the proofs need of a turn whose reply is not decided *)

Undecided == {"index", "ask"} \cup (Acting \ {"say"})

\* Labels between the ticket and the reply.
Performing == {"flip", "clear", "latest", "settle"}

\* Labels at which a turn decides what to do and leaves approvals, tickets and
\* the status alone.
Reading == {"touch", "topic", "lookup", "attach", "known", "wantid", "slack", "recall",
            "search", "think", "call", "relapse", "blame"}

\* A turn claims and offers nothing before its reply is decided.
NothingSaid ==
    \A t \in Turns : pc[t] \in Undecided => loc[t].claim = "none" /\ loc[t].offer = None

\* What a turn is to carry out: for an approval, the top of its stack.
Intends(l) == IF l.job.by = "approval"
              THEN l.meta.stack # <<>> /\ Head(l.meta.stack) = l.job.action
              ELSE l.job.action = None

\* A step that reads, or writes nothing the approvals depend on.
GoesOn(t) ==
    /\ pc[t] \in Reading
    /\ pc'[t] \in Acting \ Performing
    /\ loc'[t].msg = loc[t].msg
    /\ loc'[t].claim = "none" /\ loc'[t].offer \in {None, Unbacked}
    /\ pc'[t] # "say" => /\ loc'[t].offer = None
                         /\ \/ loc'[t].meta = meta'
                            \/ loc'[t].meta = loc[t].meta /\ meta' = meta
    /\ pc'[t] = "open" => Intends(loc'[t])
    /\ meta'.stack = meta.stack
    /\ UNCHANGED <<status, messages, tickets, memory, traces>>

\* A step that queues an approval and asks for it.
Pushes(t, a) ==
    /\ pc[t] \in {"offer", "suggest", "blame"}
    /\ a \in Asks /\ a.from = t
    /\ meta'.stack = Queue(loc[t].meta.stack, a)
    /\ pc'[t] = "say" /\ loc'[t].claim = "none" /\ loc'[t].offer = a
    /\ UNCHANGED <<status, messages, tickets, memory, traces>>

\* A step without a fault.
LEMMA FaultlessIs ==
    ASSUME Types, [Next]_vars, faults' = 0
    PROVE  /\ faults = 0
           /\ \/ \E t \in Turns : (\E m \in Messages : Admit(t, m)) \/ Step(t) \/ Outage(t)
              \/ EndSession \/ UNCHANGED vars
<1>1. faults \in Nat
  BY ConversationAssumption DEF ConversationAssumption, Types, EnvTypes
<1>2. ASSUME NEW t \in Turns, Fault(t) PROVE FALSE
  BY <1>1, <1>2 DEF Fault
<1>3. CASE Crash
  BY <1>1, <1>3 DEF Crash
<1>4. ASSUME NEW t \in Turns, (\E m \in Messages : Admit(t, m)) \/ Step(t) \/ Outage(t)
      PROVE  faults' = faults
  <2>1. CASE \E m \in Messages : Admit(t, m)
    BY <2>1 DEF Admit, env
  <2>2. CASE Outage(t)
    BY <2>2 DEF Outage
  <2>3. CASE Step(t)
    BY <2>3 DEF Step, env, ReadIndex, Ask, Touch, WriteTopics, Cancel, OfferHandoff, OpenTicket,
           Flip, ClearStack, ReadLatest, Settle, Lookup, AttachFound, MergeKnown, AskIdentity,
           SearchSlack, Recall, Search, OfferTicket, Push, Unconfigured, Think, GiveUp, Call,
           ReadFailures, CountFailure, Reply, ReadWork, ReadTickets, StoreWork, SaveTrace, Gauge
  <2> QED
    BY <1>4, <2>1, <2>2, <2>3
<1>5. CASE EndSession \/ UNCHANGED vars
  BY <1>5 DEF EndSession, vars, env
<1> QED
  BY <1>2, <1>3, <1>4, <1>5 DEF Next

-----------------------------------------------------------------------------
(* Where a step leaves its turn *)

LEMMA GoHere ==
    ASSUME TurnTypes, NEW t \in Turns, NEW label, NEW l, Go(t, label, l)
    PROVE  pc'[t] = label /\ loc'[t] = l
  BY DEF Go, Goto, TurnTypes

LEMMA StayHere ==
    ASSUME TurnTypes, NEW t \in Turns, NEW label, Goto(t, label)
    PROVE  pc'[t] = label
  BY DEF Goto, TurnTypes

LEMMA SayHere ==
    ASSUME TurnTypes, NEW t \in Turns, NEW claim, NEW offer, Say(t, claim, offer)
    PROVE  /\ pc'[t] = "say" /\ loc'[t].claim = claim /\ loc'[t].offer = offer
           /\ loc'[t].msg = loc[t].msg /\ loc'[t].meta = loc[t].meta
<1> DEFINE l == [loc[t] EXCEPT !.claim = claim, !.offer = offer]
<1>1. l.claim = claim /\ l.offer = offer /\ l.msg = loc[t].msg /\ l.meta = loc[t].meta
  BY LocalParts DEF Locals
<1>2. Go(t, "say", l)
  BY DEF Say
<1> HIDE DEF l
<1> QED
  BY <1>1, <1>2, GoHere

\* Deciding a reply that reports nothing done and offers nothing queued.
LEMMA SaysOn ==
    ASSUME TurnTypes, NEW t \in Turns, pc[t] \in Reading, NEW offer \in {None, Unbacked},
           Say(t, "none", offer), meta'.stack = meta.stack,
           UNCHANGED <<status, messages, tickets, memory, traces>>
    PROVE  GoesOn(t)
  BY SayHere DEF GoesOn, Acting, Performing

LEMMA SaysPlainly ==
    ASSUME TurnTypes, NEW t \in Turns, pc[t] \in Reading, SayPlain(t), meta'.stack = meta.stack,
           UNCHANGED <<status, messages, tickets, memory, traces>>
    PROVE  GoesOn(t)
  BY SaysOn DEF SayPlain

\* Labels a turn may go to with locals that bear no decision.
Onward == Acting \ (Performing \cup {"open", "say"})

LEMMA ReadingIsUndecided ==
    Reading \subseteq Undecided /\ Onward \subseteq Acting /\ Onward \cap Performing = {}
  BY DEF Reading, Undecided, Acting, Onward

LEMMA GoesTo ==
    ASSUME TurnTypes, NothingSaid, NEW t \in Turns, pc[t] \in Reading, NEW label \in Onward,
           NEW l, Go(t, label, l), l.msg = loc[t].msg, l.claim = loc[t].claim,
           l.offer = loc[t].offer,
           l.meta = meta' \/ (l.meta = loc[t].meta /\ meta' = meta),
           meta'.stack = meta.stack, UNCHANGED <<status, messages, tickets, memory, traces>>
    PROVE  GoesOn(t)
<1>1. loc[t].claim = "none" /\ loc[t].offer = None
  BY ReadingIsUndecided DEF NothingSaid
<1>2. pc'[t] = label /\ loc'[t] = l
  BY GoHere
<1>3. label \in Acting \ Performing /\ label # "say" /\ label # "open"
  BY DEF Onward
<1> QED
  BY <1>1, <1>2, <1>3 DEF GoesOn

LEMMA StaysOn ==
    ASSUME TurnTypes, NothingSaid, NEW t \in Turns, pc[t] \in Reading, NEW label \in Onward,
           Goto(t, label), UNCHANGED <<loc, meta, status, messages, tickets, memory, traces>>
    PROVE  GoesOn(t)
<1>1. loc' = [loc EXCEPT ![t] = loc[t]]
  BY DEF TurnTypes
<1>2. Go(t, label, loc[t])
  BY <1>1 DEF Go
<1> QED
  BY <1>2, GoesTo

-----------------------------------------------------------------------------
(* The steps that read *)

LEMMA RouteGoesOn ==
    ASSUME TurnTypes, NothingSaid, NEW t \in Turns, pc[t] \in {"touch", "topic"},
           NEW md \in Metas, Route(t, md), md = meta' \/ (md = loc[t].meta /\ meta' = meta),
           meta'.stack = meta.stack, UNCHANGED <<status, messages, tickets, memory, traces>>
    PROVE  GoesOn(t)
<1> DEFINE l == [loc[t] EXCEPT !.meta = md]
           b == Branch(loc[t].msg, md, l.customer)
           j(tool, by, action) == [l EXCEPT !.job = Job(tool, by, action)]
<1>0. pc[t] \in Reading /\ pc[t] \in Undecided
  BY DEF Reading, Undecided, Acting
<1>1. /\ l.msg = loc[t].msg /\ l.claim = loc[t].claim /\ l.offer = loc[t].offer /\ l.meta = md
      /\ l \in Locals
  BY LocalParts DEF Locals
<1>2. loc[t].claim = "none" /\ loc[t].offer = None
  BY <1>0 DEF NothingSaid
<1>3. ASSUME NEW tool, NEW by, NEW action, Go(t, "open", j(tool, by, action)),
             IF by = "approval" THEN md.stack # <<>> /\ Head(md.stack) = action
             ELSE action = None
      PROVE  GoesOn(t)
  <2> DEFINE k == j(tool, by, action)
  <2>1. /\ k.msg = l.msg /\ k.claim = l.claim /\ k.offer = l.offer /\ k.meta = md
        /\ k.job.by = by /\ k.job.action = action
    <3> HIDE DEF l
    <3> QED
      BY <1>1 DEF Locals, Job
  <2>2. pc'[t] = "open" /\ loc'[t] = k
    BY <1>3, GoHere
  <2> HIDE DEF k, l
  <2>3. Intends(loc'[t])
    BY <1>3, <2>1, <2>2 DEF Intends
  <2>4. "open" \in Acting \ Performing
    BY DEF Acting, Performing
  <2> QED
    BY <1>0, <1>1, <1>2, <2>1, <2>2, <2>3, <2>4 DEF GoesOn
<1>4. /\ b \in {"plain", "cancel", "approve", "handoff", "offer", "file", "lookup",
                "wantid", "recall"}
      /\ b = "approve" => md.stack # <<>>
  BY BranchIs
<1>5. /\ b = "plain" => Go(t, "say", l)
      /\ b = "approve" => Go(t, "open", j(IF Head(md.stack).type = "escalate" THEN "escalate"
                                          ELSE "create", "approval", Head(md.stack)))
      /\ b = "handoff" => Go(t, "open", j("escalate", "customer", None))
      /\ b = "file" => Go(t, "open", j("create", "customer", None))
      /\ b \in {"cancel", "offer", "lookup", "wantid", "recall"} => Go(t, b, l)
  <2> HIDE DEF l
  <2>1. Route(t, md) = LET m == loc[t].msg
                           k == l
                       IN  CASE b = "plain"   -> Go(t, "say", k)
                             [] b = "approve" ->
                                   Go(t, "open", j(IF Head(md.stack).type = "escalate"
                                                   THEN "escalate" ELSE "create",
                                                   "approval", Head(md.stack)))
                             [] b = "handoff" -> Go(t, "open", j("escalate", "customer", None))
                             [] b = "file"    -> Go(t, "open", j("create", "customer", None))
                             [] OTHER         -> Go(t, b, k)
    BY Zenon DEF Route, l
  <2> HIDE DEF b, j
  <2> QED
    BY <2>1, <1>4
<1> HIDE DEF l, b, j
<1>6. CASE b \in {"approve", "handoff", "file"}
  BY <1>3, <1>4, <1>5, <1>6
<1>7. CASE b = "plain"
  <2>1. pc'[t] = "say" /\ loc'[t] = l
    BY <1>5, <1>7, GoHere
  <2>2. "say" \in Acting \ Performing
    BY DEF Acting, Performing
  <2> QED
    BY <1>0, <1>1, <1>2, <2>1, <2>2 DEF GoesOn
<1>8. CASE b \in {"cancel", "offer", "lookup", "wantid", "recall"}
  <2>1. b \in Onward
    BY <1>8 DEF Onward, Acting, Performing
  <2> QED
    BY <1>0, <1>1, <1>5, <1>8, <2>1, GoesTo
<1> QED
  BY <1>4, <1>6, <1>7, <1>8

LEMMA TouchGoesOn ==
    ASSUME Types, NothingSaid, NEW t \in Turns, Touch(t) PROVE GoesOn(t)
<1>1. /\ pc[t] \in {"touch", "topic"} /\ pc[t] \in Reading /\ TurnTypes /\ loc[t].meta \in Metas
      /\ UNCHANGED <<meta, status, messages, tickets, memory, traces>>
  BY LocalParts DEF Touch, Reading, Types, rows
<1>2. CASE Blocked(loc[t].msg)
  BY <1>1, <1>2, SaysPlainly DEF Touch
<1>3. CASE ~Blocked(loc[t].msg) /\ WritesTopics(loc[t].msg, loc[t].meta.topics)
  BY <1>1, <1>3, StaysOn DEF Touch, Onward, Acting, Performing
<1>4. CASE ~Blocked(loc[t].msg) /\ ~WritesTopics(loc[t].msg, loc[t].meta.topics)
  BY <1>1, <1>4, RouteGoesOn DEF Touch
<1> QED
  BY <1>2, <1>3, <1>4

LEMMA WriteTopicsGoesOn ==
    ASSUME Types, NothingSaid, NEW t \in Turns, WriteTopics(t) PROVE GoesOn(t)
<1> DEFINE m == loc[t].msg  old == loc[t].meta.topics
<1>1. /\ pc[t] \in {"touch", "topic"} /\ pc[t] \in Reading /\ TurnTypes /\ meta \in Metas
      /\ UNCHANGED <<status, messages, tickets, memory, traces>>
  BY DEF WriteTopics, Reading, Types, RowTypes
<1>0. meta' \in Metas
  BY WriteTopicsActs DEF Acts
<1>2. meta'.stack = meta.stack
  BY <1>1 DEF WriteTopics, Metas
<1>3. CASE Finishes(m, old) /\ old.parked # <<>>
  <2> DEFINE l == [loc[t] EXCEPT !.meta = meta']
  <2>1. /\ l.msg = loc[t].msg /\ l.claim = loc[t].claim /\ l.offer = loc[t].offer
    BY <1>1, LocalParts DEF Locals
  <2>2. Go(t, "say", l)
    BY <1>3 DEF WriteTopics
  <2> HIDE DEF l
  <2>3. pc'[t] = "say" /\ loc'[t] = l
    BY <1>1, <2>2, GoHere
  <2>4. loc[t].claim = "none" /\ loc[t].offer = None
    BY <1>1, ReadingIsUndecided DEF NothingSaid
  <2>5. "say" \in Acting \ Performing
    BY DEF Acting, Performing
  <2> QED
    BY <1>1, <1>2, <2>1, <2>3, <2>4, <2>5 DEF GoesOn
<1>4. CASE ~(Finishes(m, old) /\ old.parked # <<>>)
  <2>1. Route(t, meta')
    BY <1>4 DEF WriteTopics
  <2> QED
    BY <1>0, <1>1, <1>2, <2>1, RouteGoesOn
<1> QED
  BY <1>3, <1>4

\* Going on with the model's next call.
LEMMA NextCallGoesOn ==
    ASSUME Types, NothingSaid, NEW t \in Turns, pc[t] \in Reading, NextCall(t), meta' = meta,
           UNCHANGED <<status, messages, tickets, memory, traces>>
    PROVE  GoesOn(t)
<1> DEFINE l == [loc[t] EXCEPT !.calls = @ - 1, !.job = NoJob]
           label == IF loc[t].calls > 1 THEN "call" ELSE "think"
<1>1. /\ l.msg = loc[t].msg /\ l.claim = loc[t].claim /\ l.offer = loc[t].offer
      /\ l.meta = loc[t].meta /\ TurnTypes
  BY LocalParts DEF Locals, Types
<1>2. Go(t, label, l)
  BY DEF NextCall
<1>3. label \in Onward
  BY DEF Onward, Acting, Performing
<1> HIDE DEF l, label
<1> QED
  BY <1>1, <1>2, <1>3, GoesTo

LEMMA IdentityGoesOn ==
    ASSUME Types, NothingSaid, NEW t \in Turns,
           Lookup(t) \/ AttachFound(t) \/ MergeKnown(t) \/ AskIdentity(t) \/ SearchSlack(t)
    PROVE  GoesOn(t)
<1>1. TurnTypes /\ meta \in Metas
  BY DEF Types, RowTypes
<1>2. CASE Lookup(t)
  <2>1. /\ pc[t] \in Reading
        /\ UNCHANGED <<meta, status, messages, tickets, memory, traces>>
    BY <1>2 DEF Lookup, Reading, rows
  <2>2. CASE SayPlain(t)
    BY <1>1, <2>1, <2>2, SaysPlainly
  <2>3. CASE Go(t, "attach", [loc[t] EXCEPT !.found = Identity(loc[t].msg, loc[t].customer)])
    <3> DEFINE l == [loc[t] EXCEPT !.found = Identity(loc[t].msg, loc[t].customer)]
    <3>1. /\ l.msg = loc[t].msg /\ l.claim = loc[t].claim /\ l.offer = loc[t].offer
          /\ l.meta = loc[t].meta
      BY <1>1, LocalParts DEF Locals
    <3>2. "attach" \in Onward
      BY DEF Onward, Acting, Performing
    <3> HIDE DEF l
    <3> QED
      BY <1>1, <2>1, <2>3, <3>1, <3>2, GoesTo DEF l
  <2> QED
    BY <1>2, <2>2, <2>3 DEF Lookup
<1>3. CASE AttachFound(t)
  <2>1. /\ pc[t] \in Reading
        /\ UNCHANGED <<meta, status, messages, tickets, memory, traces>>
    BY <1>3 DEF AttachFound, Reading
  <2>2. CASE NextCall(t)
    BY <2>1, <2>2, NextCallGoesOn
  <2>3. CASE ~NextCall(t)
    <3>1. PICK label \in {"slack", "known"} : Goto(t, label) /\ UNCHANGED loc
      BY <1>3, <2>3 DEF AttachFound
    <3>2. label \in Onward
      BY DEF Onward, Acting, Performing
    <3> QED
      BY <1>1, <2>1, <3>1, <3>2, StaysOn
  <2> QED
    BY <2>2, <2>3
<1>4. CASE MergeKnown(t) \/ AskIdentity(t)
  <2>1. /\ pc[t] \in Reading /\ meta'.stack = meta.stack /\ SayPlain(t)
        /\ UNCHANGED <<status, messages, tickets, memory, traces>>
    BY <1>1, <1>4 DEF MergeKnown, AskIdentity, Reading, Metas
  <2> QED
    BY <1>1, <2>1, SaysPlainly
<1>5. CASE SearchSlack(t)
  <2>1. /\ pc[t] \in Reading /\ (SayPlain(t) \/ Say(t, "none", Unbacked))
        /\ UNCHANGED <<meta, status, messages, tickets, memory, traces>>
    BY <1>5 DEF SearchSlack, Reading, rows
  <2> QED
    BY <1>1, <2>1, SaysPlainly, SaysOn
<1> QED
  BY <1>2, <1>3, <1>4, <1>5

LEMMA RetrievalGoesOn ==
    ASSUME Types, NothingSaid, NEW t \in Turns, Recall(t) \/ Search(t) PROVE GoesOn(t)
<1>1. /\ pc[t] \in Reading /\ TurnTypes /\ Busy(t)
      /\ UNCHANGED <<meta, status, messages, tickets, memory, traces>>
  BY DEF Recall, Search, Reading, rows, Types, Busy, Over
<1>2. SayPlain(t) \/ \E label \in {"search", "suggest", "think"} : Goto(t, label) /\ UNCHANGED loc
  <2>1. CASE Recall(t)
    BY <2>1, Zenon DEF Recall
  <2>2. CASE Search(t)
    <3>1. loc[t].msg.finds \in {"article", "export", "nothing"}
      BY <1>1, LocalParts, ConversationAssumption DEF ConversationAssumption, MessageType
    <3> QED
      BY <2>2, <3>1 DEF Search
  <2> QED
    BY <2>1, <2>2
<1>3. {"search", "suggest", "think"} \subseteq Onward
  BY DEF Onward, Acting, Performing
<1> QED
  BY <1>1, <1>2, <1>3, SaysPlainly, StaysOn

LEMMA ModelGoesOn ==
    ASSUME Types, NothingSaid, NEW t \in Turns,
           Unconfigured(t) \/ Think(t) \/ GiveUp(t) \/ Call(t) \/ Outage(t) \/ ReadFailures(t)
    PROVE  GoesOn(t)
<1>1. /\ pc[t] \in Reading /\ TurnTypes
      /\ UNCHANGED <<meta, status, messages, tickets, memory, traces>>
  BY DEF Unconfigured, Think, Thinks, GiveUp, Call, Outage, ReadFailures, Reading, rows, Types
<1>2. CASE SayPlain(t) \/ Say(t, "none", Unbacked)
  BY <1>1, <1>2, SaysPlainly, SaysOn
<1>3. CASE NextCall(t)
  BY <1>1, <1>3, NextCallGoesOn
<1>4. CASE Goto(t, "relapse") /\ UNCHANGED loc
  <2>2. "relapse" \in Onward
    BY DEF Onward, Acting, Performing
  <2> QED
    BY <1>1, <1>4, <2>2, StaysOn
<1>5. CASE ReadFailures(t)
  <2> DEFINE l == [loc[t] EXCEPT !.meta = meta]
  <2>1. /\ l.msg = loc[t].msg /\ l.claim = loc[t].claim /\ l.offer = loc[t].offer
        /\ l.meta = meta
    BY <1>1, LocalParts DEF Locals
  <2>2. Go(t, "blame", l)
    BY <1>5 DEF ReadFailures
  <2>3. "blame" \in Onward
    BY DEF Onward, Acting, Performing
  <2> HIDE DEF l
  <2> QED
    BY <1>1, <2>1, <2>2, <2>3, GoesTo
<1>6. ASSUME NEW n \in 1..MaxCalls,
             Go(t, "call", [loc[t] EXCEPT !.rounds = @ + 1, !.calls = n])
      PROVE  GoesOn(t)
  <2> DEFINE l == [loc[t] EXCEPT !.rounds = @ + 1, !.calls = n]
  <2>1. /\ l.msg = loc[t].msg /\ l.claim = loc[t].claim /\ l.offer = loc[t].offer
        /\ l.meta = loc[t].meta
    BY <1>1, LocalParts DEF Locals
  <2>2. "call" \in Onward
    BY DEF Onward, Acting, Performing
  <2> HIDE DEF l
  <2> QED
    BY <1>1, <1>6, <2>1, <2>2, GoesTo DEF l
<1>7. ASSUME NEW c \in Customers,
             Go(t, "attach", [loc[t] EXCEPT !.found = c, !.job = Job("lookup", "model", None)])
      PROVE  GoesOn(t)
  <2> DEFINE l == [loc[t] EXCEPT !.found = c, !.job = Job("lookup", "model", None)]
  <2>1. /\ l.msg = loc[t].msg /\ l.claim = loc[t].claim /\ l.offer = loc[t].offer
        /\ l.meta = loc[t].meta
    BY <1>1, LocalParts DEF Locals
  <2>2. "attach" \in Onward
    BY DEF Onward, Acting, Performing
  <2> HIDE DEF l
  <2> QED
    BY <1>1, <1>7, <2>1, <2>2, GoesTo DEF l
<1>8. ASSUME NEW tool \in ModelTools \cap {"create", "escalate"},
             Go(t, "open", [loc[t] EXCEPT !.job = Job(tool, "model", None)])
      PROVE  GoesOn(t)
  <2> DEFINE l == [loc[t] EXCEPT !.job = Job(tool, "model", None)]
  <2>1. /\ l.msg = loc[t].msg /\ l.claim = loc[t].claim /\ l.offer = loc[t].offer
        /\ l.meta = loc[t].meta /\ l.job.by = "model" /\ l.job.action = None
    BY <1>1, LocalParts DEF Locals, Job
  <2>2. "open" \in Acting \ Performing
    BY DEF Acting, Performing
  <2> HIDE DEF l
  <2>3. pc'[t] = "open" /\ loc'[t] = l
    BY <1>1, <1>8, GoHere DEF l
  <2>4. loc[t].claim = "none" /\ loc[t].offer = None
    BY <1>1, ReadingIsUndecided DEF NothingSaid
  <2>5. Intends(loc'[t])
    BY <2>1, <2>3 DEF Intends
  <2> QED
    BY <1>1, <2>1, <2>2, <2>3, <2>4, <2>5 DEF GoesOn
<1> QED
  BY <1>2, <1>3, <1>4, <1>5, <1>6, <1>7, <1>8 DEF Unconfigured, Think, GiveUp, Call, Outage

-----------------------------------------------------------------------------
(* The steps that write approvals, tickets or the status *)

LEMMA PushPushes ==
    ASSUME Types, NEW t \in Turns, pc[t] \in {"offer", "suggest", "blame"}, NEW a \in Asks,
           a.from = t, meta'.stack = Queue(loc[t].meta.stack, a), Say(t, "none", a),
           UNCHANGED <<status, messages, tickets, memory, traces>>
    PROVE  Pushes(t, a)
  BY SayHere DEF Types, Pushes

LEMMA OfferPushes ==
    ASSUME Types, NEW t \in Turns, OfferHandoff(t) \/ OfferTicket(t)
    PROVE  \E a \in Asks : Pushes(t, a)
<1>1. /\ pc[t] \in {"offer", "suggest", "blame"} /\ TurnTypes /\ meta \in Metas
      /\ UNCHANGED <<status, messages, tickets, memory, traces>>
  BY DEF OfferHandoff, OfferTicket, Push, Types, RowTypes
<1>2. loc[t].msg \in Messages /\ loc[t].meta.topics.current \in TopicNames \cup {NoTopic}
  BY <1>1, LocalParts, MetaParts DEF Busy, Over
<1>3. PICK type \in {"escalate", "create_ticket"}, topic \in TopicNames \cup {NoTopic} :
         Push(t, Approval(type, loc[t].msg, topic, t))
  <2>1. CASE OfferHandoff(t)
    BY <2>1 DEF OfferHandoff
  <2>2. CASE OfferTicket(t)
    <3> DEFINE current == loc[t].meta.topics.current
               topic == IF current = NoTopic THEN "export" ELSE current
    <3>1. topic \in TopicNames \cup {NoTopic}
      BY <1>2 DEF TopicNames
    <3>2. Push(t, Approval("create_ticket", loc[t].msg, topic, t))
      BY <2>2 DEF OfferTicket
    <3> QED
      BY <3>1, <3>2
  <2> QED
    BY <2>1, <2>2
<1>4. PICK a \in Asks : a = Approval(type, loc[t].msg, topic, t) /\ a.from = t
  <2>1. Approval(type, loc[t].msg, topic, t).from = t
    BY DEF Approval
  <2> QED
    BY <1>2, <2>1, ApprovalAsks
<1>5. meta' = [meta EXCEPT !.stack = Queue(loc[t].meta.stack, a)] /\ Say(t, "none", a)
  BY <1>3, <1>4 DEF Push
<1>6. meta'.stack = Queue(loc[t].meta.stack, a)
  BY <1>1, <1>5 DEF Metas
<1> QED
  BY <1>1, <1>4, <1>5, <1>6, PushPushes

LEMMA CountFailurePushes ==
    ASSUME Types, NEW t \in Turns, CountFailure(t)
    PROVE  GoesOn(t) \/ \E a \in Asks : Pushes(t, a)
<1> DEFINE failures == loc[t].meta.failures + 1
           handoff == Approval("escalate", loc[t].msg, NoTopic, t)
           stack == Queue(loc[t].meta.stack, handoff)
<1>1. /\ pc[t] = "blame" /\ TurnTypes /\ meta \in Metas /\ loc[t].msg \in Messages
      /\ UNCHANGED <<status, messages, tickets, memory, traces>>
  BY LocalParts DEF CountFailure, Types, RowTypes, Busy, Over
<1>2. handoff \in Asks /\ handoff.from = t
  BY <1>1, ApprovalAsks DEF Approval
<1>3. \/ /\ meta' = [meta EXCEPT !.failures = failures, !.stack = stack]
         /\ Say(t, "none", handoff)
      \/ /\ meta' = [meta EXCEPT !.failures = failures]
         /\ SayPlain(t)
  BY Zenon DEF CountFailure
<1> HIDE DEF failures, handoff, stack
<1>4. CASE meta' = [meta EXCEPT !.failures = failures, !.stack = stack] /\ Say(t, "none", handoff)
  <2>1. meta'.stack = Queue(loc[t].meta.stack, handoff)
    BY <1>1, <1>4 DEF Metas, stack
  <2>2. Pushes(t, handoff)
    BY <1>1, <1>2, <1>4, <2>1, PushPushes
  <2> QED
    BY <1>2, <2>2
<1>5. CASE meta' = [meta EXCEPT !.failures = failures] /\ SayPlain(t)
  <2>1. meta'.stack = meta.stack
    BY <1>1, <1>5 DEF Metas
  <2>2. pc[t] \in Reading
    BY <1>1 DEF Reading
  <2> QED
    BY <1>1, <1>5, <2>1, <2>2, SaysPlainly
<1> QED
  BY <1>3, <1>4, <1>5

\* An approval leaves the stack by a no, or because it was carried out.
Pops(t) ==
    /\ pc[t] \in {"cancel", "settle"}
    /\ meta'.stack = Rest(loc[t].meta.stack)
    /\ pc'[t] = "say" /\ loc'[t].claim = (IF pc[t] = "cancel" THEN "none" ELSE "ticket")
    /\ loc'[t].offer = Top(Rest(loc[t].meta.stack))
    /\ UNCHANGED <<status, messages, tickets, memory, traces>>

LEMMA PopsIs ==
    ASSUME Types, NEW t \in Turns, Cancel(t) \/ Settle(t) PROVE Pops(t)
<1>1. TurnTypes /\ meta \in Metas /\ pc[t] \in {"cancel", "settle"}
      /\ UNCHANGED <<status, messages, tickets, memory, traces>>
  BY DEF Types, RowTypes, Cancel, Settle
<1>2. meta'.stack = Rest(loc[t].meta.stack)
  BY <1>1 DEF Cancel, Settle, Metas
<1>3. Say(t, IF pc[t] = "cancel" THEN "none" ELSE "ticket", Top(Rest(loc[t].meta.stack)))
  BY DEF Cancel, Settle
<1> QED
  BY <1>1, <1>2, <1>3, SayHere DEF Pops

\* The ticket is opened: then the status or the stack follows, or the reply, or
\* the model's next call.
Opens(t) ==
    /\ pc[t] = "open"
    /\ tickets' = Append(tickets, Ticket(t))
    /\ \/ /\ pc'[t] = (IF loc[t].job.tool = "escalate" THEN "flip" ELSE "latest")
          /\ loc'[t] = loc[t]
          /\ pc'[t] = "latest" => loc[t].job.by = "approval"
       \/ /\ loc[t].job.by = "customer" /\ loc[t].job.tool = "create"
          /\ pc'[t] = "say" /\ loc'[t].msg = loc[t].msg
          /\ loc'[t].claim = "ticket" /\ loc'[t].offer = None
       \/ /\ loc[t].job.by = "model"
          /\ pc'[t] \in {"call", "think"} /\ loc'[t].msg = loc[t].msg
          /\ loc'[t].claim = loc[t].claim /\ loc'[t].offer = loc[t].offer
          /\ loc'[t].meta = loc[t].meta
    /\ UNCHANGED <<status, meta, messages, memory, traces>>

LEMMA OpensIs == ASSUME Types, NEW t \in Turns, OpenTicket(t) PROVE Opens(t)
<1>1. /\ TurnTypes /\ pc[t] = "open" /\ tickets' = Append(tickets, Ticket(t))
      /\ loc[t].job.tool \in Tools /\ loc[t].job.by \in {"approval", "customer", "model"}
      /\ UNCHANGED <<status, meta, messages, memory, traces>>
  BY LocalParts DEF Types, OpenTicket, Fits, Jobs
<1>2. CASE loc[t].job.tool = "escalate"
  BY <1>1, <1>2, StayHere DEF Opens, OpenTicket
<1>3. CASE loc[t].job.tool # "escalate"
  <2>1. AfterCreate(t) /\ loc[t].job.tool = "create"
    BY <1>1, <1>3 DEF OpenTicket, Tools
  <2>2. CASE loc[t].job.by = "approval"
    <3>1. Goto(t, "latest") /\ UNCHANGED loc
      BY <2>1, <2>2 DEF AfterCreate
    <3> QED
      BY <1>1, <1>3, <2>2, <3>1, StayHere DEF Opens
  <2>3. CASE loc[t].job.by = "customer"
    <3>1. Say(t, "ticket", None)
      BY <2>1, <2>3 DEF AfterCreate
    <3> QED
      BY <1>1, <2>1, <2>3, <3>1, SayHere DEF Opens
  <2>4. CASE loc[t].job.by = "model"
    <3> DEFINE l == [loc[t] EXCEPT !.calls = @ - 1, !.job = NoJob]
               label == IF loc[t].calls > 1 THEN "call" ELSE "think"
    <3>1. /\ l.msg = loc[t].msg /\ l.claim = loc[t].claim /\ l.offer = loc[t].offer
          /\ l.meta = loc[t].meta /\ label \in {"call", "think"}
      BY <1>1, LocalParts DEF Locals
    <3>2. Go(t, label, l)
      BY <2>1, <2>4 DEF AfterCreate, NextCall
    <3> HIDE DEF l, label
    <3>3. pc'[t] = label /\ loc'[t] = l
      BY <1>1, <3>2, GoHere
    <3> QED
      BY <1>1, <2>4, <3>1, <3>3 DEF Opens
  <2> QED
    BY <1>1, <2>2, <2>3, <2>4
<1> QED
  BY <1>2, <1>3

\* The session is handed to a person, then its approvals are cleared.
Hands(t) ==
    /\ pc[t] = "flip" /\ pc'[t] = "clear" /\ loc'[t] = loc[t] /\ status' = "escalated"
    /\ UNCHANGED <<meta, messages, tickets, memory, traces>>

Clears(t) ==
    /\ pc[t] = "clear" /\ pc'[t] = "say" /\ loc'[t].claim = "handoff" /\ loc'[t].offer = None
    /\ meta'.stack = <<>>
    /\ UNCHANGED <<status, messages, tickets, memory, traces>>

Rereads(t) ==
    /\ pc[t] = "latest" /\ pc'[t] = "settle" /\ loc'[t].meta = meta
    /\ loc'[t].job = loc[t].job
    /\ loc'[t].claim = loc[t].claim /\ loc'[t].offer = loc[t].offer
    /\ UNCHANGED <<status, meta, messages, tickets, memory, traces>>

LEMMA HandsIs ==
    ASSUME Types, NEW t \in Turns, Flip(t) \/ ClearStack(t) \/ ReadLatest(t)
    PROVE  Hands(t) \/ Clears(t) \/ Rereads(t)
<1>1. TurnTypes /\ meta \in Metas
  BY DEF Types, RowTypes
<1>2. CASE Flip(t)
  BY <1>1, <1>2, StayHere DEF Flip, Hands
<1>3. CASE ClearStack(t)
  <2>1. meta'.stack = <<>>
    BY <1>1, <1>3 DEF ClearStack, Metas
  <2> QED
    BY <1>1, <1>3, <2>1, SayHere DEF ClearStack, Clears
<1>4. CASE ReadLatest(t)
  <2> DEFINE l == [loc[t] EXCEPT !.meta = meta]
  <2>1. /\ l.job = loc[t].job /\ l.claim = loc[t].claim /\ l.offer = loc[t].offer
        /\ l.meta = meta
    BY <1>1, LocalParts DEF Locals
  <2>2. Go(t, "settle", l)
    BY <1>4 DEF ReadLatest
  <2> HIDE DEF l
  <2>3. pc'[t] = "settle" /\ loc'[t] = l
    BY <1>1, <2>2, GoHere
  <2> QED
    BY <1>4, <2>1, <2>3 DEF Rereads, ReadLatest, rows
<1> QED
  BY <1>2, <1>3, <1>4

-----------------------------------------------------------------------------
(* Admission, the index and the tail *)

Enters(t) ==
    /\ pc[t] = "idle" /\ Cardinality({u \in Turns : Busy(u)}) < MaxInFlight
    /\ \/ pc'[t] = "rejected"
       \/ /\ pc'[t] = "index" /\ status = "active"
          /\ loc'[t].claim = "none" /\ loc'[t].offer = None /\ loc'[t].meta = meta
    /\ UNCHANGED rows

Indexes(t) ==
    /\ pc[t] = "index" /\ pc'[t] = "ask"
    /\ loc'[t].claim = loc[t].claim /\ loc'[t].offer = loc[t].offer
    /\ loc'[t].meta = loc[t].meta
    /\ UNCHANGED rows

LEMMA EntersIs ==
    ASSUME Types, NEW t \in Turns, NEW m \in Messages, Admit(t, m) PROVE Enters(t)
<1> DEFINE l == [NoLoc EXCEPT !.msg = m, !.customer = customer, !.meta = meta]
<1>1. l.claim = "none" /\ l.offer = None /\ l.meta = meta
  BY DEF NoLoc
<1>2. \/ status = "active" /\ Go(t, "index", l)
      \/ Goto(t, "rejected")
  BY DEF Admit
<1> HIDE DEF l
<1>3. \/ status = "active" /\ pc'[t] = "index" /\ loc'[t] = l
      \/ pc'[t] = "rejected"
  BY <1>2, GoHere, StayHere DEF Types
<1> QED
  BY <1>1, <1>3 DEF Admit, Enters

LEMMA IndexesIs == ASSUME Types, NEW t \in Turns, ReadIndex(t) PROVE Indexes(t)
<1> DEFINE l == [loc[t] EXCEPT !.index = NextIndex]
<1>1. l.claim = loc[t].claim /\ l.offer = loc[t].offer /\ l.meta = loc[t].meta
  BY LocalParts DEF Locals, Types
<1>2. Go(t, "ask", l)
  BY DEF ReadIndex
<1> HIDE DEF l
<1>3. pc'[t] = "ask" /\ loc'[t] = l
  BY <1>2, GoHere DEF Types
<1> QED
  BY <1>1, <1>3 DEF ReadIndex, Indexes

\* The memory, the trace and the gauge, after the reply.
Tails(t) == ReadWork(t) \/ ReadTickets(t) \/ StoreWork(t) \/ SaveTrace(t) \/ Gauge(t)

LEMMA TailIs ==
    ASSUME Types, NEW t \in Turns, Tails(t)
    PROVE  /\ pc[t] \in Trailing /\ pc'[t] \in Trailing \cup {"done"}
           /\ UNCHANGED <<status, customer, meta, messages, tickets>>
<1>1. TurnTypes
  BY DEF Types
<1>2. CASE ReadWork(t)
  <2>1. Goto(t, "trace") \/ \E l : Go(t, "gather", l)
    BY <1>2 DEF ReadWork
  <2> QED
    BY <1>1, <1>2, <2>1, StayHere, GoHere DEF ReadWork, rows, Trailing
<1>3. CASE ReadTickets(t)
  BY <1>1, <1>3, GoHere DEF ReadTickets, rows, Trailing
<1>4. CASE StoreWork(t) \/ SaveTrace(t)
  BY <1>1, <1>4, StayHere DEF StoreWork, SaveTrace, Trailing
<1>5. CASE Gauge(t)
  BY <1>1, <1>5, GoHere DEF Gauge, End, rows, Trailing
<1> QED
  BY <1>2, <1>3, <1>4, <1>5 DEF Tails

\* Nobody else moves.
Alone(t) == \A u \in Turns \ {t} : pc'[u] = pc[u] /\ loc'[u] = loc[u]

LEMMA AloneIs ==
    ASSUME TurnTypes, NEW t \in Turns,
           \/ Arrives(t) \/ Numbers(t) \/ Asking(t) \/ Acts(t) \/ Answers(t)
           \/ Trails(t) \/ Ends(t)
    PROVE  Alone(t)
<1>1. PICK label, l : Moves(t, label, l)
  BY DEF Arrives, Numbers, Asking, Acts, ActingMove, Answers, Trails, Ends
<1> QED
  BY <1>1, Elsewhere DEF Alone

\* Every step of a session in which nothing fails is one of these.
Kinds(t) ==
    \/ Enters(t) \/ Indexes(t) \/ Asking(t) \/ GoesOn(t) \/ \E a \in Asks : Pushes(t, a)
    \/ Pops(t) \/ Opens(t) \/ Hands(t) \/ Clears(t) \/ Rereads(t) \/ Answers(t) \/ Tails(t)

LEMMA KindIs ==
    ASSUME Types, NothingSaid, [Next]_vars, faults' = 0
    PROVE  \/ \E t \in Turns : Alone(t) /\ Kinds(t)
           \/ MayEnd /\ Stops
           \/ UNCHANGED vars
<1>0. TurnTypes
  BY DEF Types
<1>1. ASSUME NEW t \in Turns, Step(t) PROVE Alone(t) /\ Kinds(t)
  <2>1. CASE ReadIndex(t)
    BY <1>0, <2>1, ReadIndexNumbers, IndexesIs, AloneIs DEF Kinds
  <2>2. CASE Ask(t) \/ Reply(t)
    BY <1>0, <2>2, AskAsking, ReplyAnswers, AloneIs DEF Kinds
  <2>3. CASE Touch(t) \/ WriteTopics(t)
    BY <1>0, <2>3, TouchActs, WriteTopicsActs, TouchGoesOn, WriteTopicsGoesOn, AloneIs DEF Kinds
  <2>4. CASE \/ Lookup(t) \/ AttachFound(t) \/ MergeKnown(t) \/ AskIdentity(t)
             \/ SearchSlack(t)
    BY <1>0, <2>4, LookupActs, AttachActs, IdentityActs, SearchSlackActs, IdentityGoesOn,
       AloneIs DEF Kinds
  <2>5. CASE Recall(t) \/ Search(t)
    BY <1>0, <2>5, RetrievalActs, RetrievalGoesOn, AloneIs DEF Kinds
  <2>6. CASE Unconfigured(t) \/ Think(t) \/ GiveUp(t) \/ Call(t) \/ ReadFailures(t)
    BY <1>0, <2>6, ThinkActs, CallActs, RereadActs, ModelGoesOn, AloneIs DEF Kinds
  <2>7. CASE OfferHandoff(t) \/ OfferTicket(t) \/ CountFailure(t)
    BY <1>0, <2>7, OfferActs, CountFailureActs, OfferPushes, CountFailurePushes,
       AloneIs DEF Kinds
  <2>8. CASE Cancel(t) \/ Settle(t) \/ OpenTicket(t)
    BY <1>0, <2>8, CancelActs, SettleActs, OpenTicketActs, PopsIs, OpensIs, AloneIs DEF Kinds
  <2>9. CASE Flip(t) \/ ClearStack(t) \/ ReadLatest(t)
    BY <1>0, <2>9, FlipActs, ClearStackActs, RereadActs, HandsIs, AloneIs DEF Kinds
  <2>10. CASE ReadWork(t) \/ ReadTickets(t) \/ StoreWork(t) \/ SaveTrace(t) \/ Gauge(t)
    BY <1>0, <2>10, ReadWorkTrails, StoreTrails, GaugeEnds, AloneIs DEF Kinds, Tails
  <2> QED
    BY <1>1, <2>1, <2>2, <2>3, <2>4, <2>5, <2>6, <2>7, <2>8, <2>9, <2>10 DEF Step
<1>2. ASSUME NEW t \in Turns, NEW m \in Messages, Admit(t, m) PROVE Alone(t) /\ Kinds(t)
  BY <1>0, <1>2, AdmitArrives, EntersIs, AloneIs DEF Kinds
<1>3. ASSUME NEW t \in Turns, Outage(t) PROVE Alone(t) /\ Kinds(t)
  BY <1>0, <1>3, OutageActs, ModelGoesOn, AloneIs DEF Kinds
<1>4. CASE EndSession
  BY <1>4 DEF EndSession, Stops
<1> QED
  BY <1>1, <1>2, <1>3, <1>4, FaultlessIs

-----------------------------------------------------------------------------
(* What a reply claims *)

LEMMA NothingSaidKept ==
    ASSUME Types, NothingSaid, [Next]_vars, faults' = 0 PROVE NothingSaid'
<1>1. ASSUME NEW t \in Turns, Alone(t), Kinds(t) PROVE NothingSaid'
  <2>1. pc'[t] \in Undecided => loc'[t].claim = "none" /\ loc'[t].offer = None
    <3>0. pc[t] \in Undecided => loc[t].claim = "none" /\ loc[t].offer = None
      BY DEF NothingSaid
    <3>1. CASE \/ Enters(t) \/ GoesOn(t) \/ \E a \in Asks : Pushes(t, a)
               \/ Pops(t) \/ Clears(t)
      BY <3>1 DEF Enters, GoesOn, Pushes, Pops, Clears, Undecided, Acting
    <3>2. CASE Indexes(t) \/ Opens(t) \/ Hands(t) \/ Rereads(t)
      BY <3>0, <3>2 DEF Indexes, Opens, Hands, Rereads, Undecided, Acting
    <3>3. CASE Asking(t)
      BY <3>0, <3>3, Elsewhere DEF Asking, Types, Undecided
    <3>4. CASE Answers(t)
      BY <3>4, Elsewhere DEF Answers, Types, Undecided, Acting
    <3>5. CASE Tails(t)
      BY <3>5, TailIs DEF Undecided, Acting, Trailing
    <3> QED
      BY <1>1, <3>1, <3>2, <3>3, <3>4, <3>5 DEF Kinds
  <2> QED
    BY <1>1, <2>1 DEF NothingSaid, Alone
<1>2. CASE Stops \/ UNCHANGED vars
  BY <1>2 DEF Stops, vars, NothingSaid
<1> QED
  BY <1>1, <1>2, KindIs

\* The turn opened a ticket by that tool.
Filed(t, tool) == \E i \in DOMAIN tickets : tickets[i].turn = t /\ tickets[i].tool = tool

\* The turn has done what its reply is going to say.
Backed(t) ==
    /\ pc[t] \in {"flip", "clear"} => Filed(t, "escalate")
    /\ pc[t] \in {"latest", "settle"} => Filed(t, "create")
    /\ pc[t] = "clear" => status # "active"
    /\ pc[t] = "say" /\ loc[t].claim # "none" =>
          Filed(t, IF loc[t].claim = "handoff" THEN "escalate" ELSE "create")
    /\ pc[t] = "say" /\ loc[t].claim = "handoff" => status # "active"

ClaimInv == NothingSaid /\ \A t \in Turns : Backed(t)

\* What was filed stays filed, and a session that ended stays ended.
LEMMA FiledStays ==
    ASSUME RowTypes, NEW t \in Turns, Kinds(t), Types
    PROVE  /\ \A u \in Turns : \A tool : Filed(u, tool) => Filed(u, tool)'
           /\ status # "active" => status' # "active"
<1>1. CASE Opens(t)
  <2>1. pc[t] = "open" /\ tickets' = Append(tickets, Ticket(t)) /\ status' = status
    BY <1>1 DEF Opens
  <2>2. Ticket(t) \in Opened
    BY <2>1, TicketOpened DEF Types
  <2>3. \A i \in DOMAIN tickets : i \in DOMAIN tickets' /\ tickets'[i] = tickets[i]
    BY <2>1, <2>2, TicketAdded
  <2> QED
    BY <2>1, <2>3 DEF Filed
<1>2. CASE ~Opens(t)
  <2>1. tickets' = tickets /\ status' \in {status, "escalated"}
    BY <1>2, TailIs DEF Kinds, Enters, Indexes, Asking, GoesOn, Pushes, Pops, Hands, Clears,
                        Rereads, Answers, rows
  <2> QED
    BY <2>1 DEF Filed
<1> QED
  BY <1>1, <1>2

LEMMA BackedKept ==
    ASSUME Types, ClaimInv, NEW t \in Turns, Kinds(t) PROVE Backed(t)'
<1>0. /\ pc[t] \in Undecided => loc[t].claim = "none"
      /\ Backed(t) /\ TurnTypes /\ RowTypes
  BY DEF ClaimInv, NothingSaid, Types
<1>1. /\ \A tool : Filed(t, tool) => Filed(t, tool)'
      /\ status # "active" => status' # "active"
  BY <1>0, FiledStays
<1>2. CASE Enters(t) \/ Indexes(t) \/ GoesOn(t) \/ \E a \in Asks : Pushes(t, a)
  BY <1>2 DEF Enters, Indexes, GoesOn, Pushes, Backed, Performing
<1>3. CASE Asking(t) \/ Answers(t)
  <2>1. pc'[t] \in {"touch", "refresh"}
    BY <1>0, <1>3, Elsewhere DEF Asking, Answers
  <2> QED
    BY <2>1 DEF Backed
<1>4. CASE Tails(t)
  <2>1. pc'[t] \in Trailing \cup {"done"}
    BY <1>4, TailIs
  <2> QED
    BY <2>1 DEF Backed, Trailing
<1>5. CASE Pops(t) \/ Clears(t) \/ Rereads(t) \/ Hands(t)
  BY <1>0, <1>1, <1>5 DEF Pops, Clears, Rereads, Hands, Backed
<1>6. CASE Opens(t)
  <2>1. pc[t] = "open" /\ tickets' = Append(tickets, Ticket(t))
    BY <1>6 DEF Opens
  <2>2. PICK tool \in Tools : tool = loc[t].job.tool
    BY <1>0, <2>1, LocalParts DEF Fits
  <2>3. Ticket(t) \in Opened /\ Ticket(t).turn = t /\ Ticket(t).tool = tool
    BY <1>0, <2>1, <2>2, TicketOpened DEF Ticket
  <2>4. PICK i \in DOMAIN tickets' : tickets'[i] = Ticket(t)
    BY <1>0, <2>1, <2>3, TicketAdded
  <2>5. Filed(t, tool)'
    BY <2>3, <2>4 DEF Filed
  <2>6. loc[t].claim = "none"
    BY <1>0, <2>1 DEF Undecided, Acting
  <2>7. CASE tool = "escalate"
    <3>1. pc'[t] = "flip" \/ (pc'[t] \in {"call", "think"} /\ loc'[t].claim = "none")
      BY <1>6, <2>2, <2>6, <2>7 DEF Opens
    <3> QED
      BY <2>5, <2>7, <3>1 DEF Backed
  <2>8. CASE tool = "create"
    <3>1. \/ pc'[t] = "latest" \/ pc'[t] \in {"call", "think"}
          \/ pc'[t] = "say" /\ loc'[t].claim = "ticket"
      BY <1>6, <2>2, <2>8 DEF Opens
    <3> QED
      BY <2>5, <2>8, <3>1 DEF Backed
  <2> QED
    BY <2>7, <2>8 DEF Tools
<1> QED
  BY <1>2, <1>3, <1>4, <1>5, <1>6 DEF Kinds

LEMMA ClaimInvKept == ASSUME Types, ClaimInv, [Next]_vars, faults' = 0 PROVE ClaimInv'
<1>1. NothingSaid'
  BY NothingSaidKept DEF ClaimInv
<1>2. ASSUME NEW t \in Turns, Alone(t), Kinds(t), NEW u \in Turns PROVE Backed(u)'
  <2>1. CASE u = t
    BY <1>2, <2>1, BackedKept
  <2>2. CASE u # t
    <3>1. /\ \A tool : Filed(u, tool) => Filed(u, tool)'
          /\ status # "active" => status' # "active"
      BY <1>2, FiledStays DEF Types
    <3>2. pc'[u] = pc[u] /\ loc'[u] = loc[u] /\ Backed(u)
      BY <1>2, <2>2 DEF Alone, ClaimInv
    <3> QED
      BY <3>1, <3>2 DEF Backed
  <2> QED
    BY <2>1, <2>2
<1>3. ASSUME Stops \/ UNCHANGED vars, NEW u \in Turns PROVE Backed(u)'
  <2>1. Backed(u)
    BY DEF ClaimInv
  <2>2. \A tool : Filed(u, tool) => Filed(u, tool)'
    BY <1>3 DEF Stops, vars, rows, Filed
  <2> QED
    BY <1>3, <2>1, <2>2 DEF Stops, vars, rows, Backed
<1>4. NothingSaid
  BY DEF ClaimInv
<1>5. \A u \in Turns : Backed(u)'
  BY <1>2, <1>3, <1>4, KindIs
<1> QED
  BY <1>1, <1>5 DEF ClaimInv

LEMMA ClaimInit == Init => ClaimInv
  BY DEF Init, ClaimInv, NothingSaid, Backed, NoLoc, Undecided, Acting

LEMMA ClaimHolds == Spec => [](faults = 0 => ClaimInv)
<1>1. ASSUME Types, faults = 0 => ClaimInv, [Next]_vars PROVE (faults = 0 => ClaimInv)'
  BY <1>1, ClaimInvKept, FaultlessIs
<1> QED
  BY <1>1, Typing, ClaimInit, PTL DEF Spec

\* Until a statement fails or the process dies, whatever overlaps: a reply that
\* reports a ticket or a handoff is the reply of a turn that opened the ticket,
\* and a handoff has ended the session.
THEOREM RepliesAreTrue == Spec => [](faults = 0 => ClaimsAreTrue)
<1>1. ClaimInv => ClaimsAreTrue
  BY DEF ClaimInv, ClaimsAreTrue, Backed, Filed
<1> QED
  BY <1>1, ClaimHolds, PTL

-----------------------------------------------------------------------------
(* Turns one at a time *)

OneAtATime == \A t, u \in Turns : Busy(t) /\ Busy(u) => t = u

\* While a turn moves no other runs.
Only(t) == \A u \in Turns \ {t} : pc[u] \in Over /\ pc'[u] \in Over

LEMMA OnlyOwn ==
    ASSUME OneAtATime, MaxInFlight = 1, NEW t \in Turns, Alone(t),
           Busy(t) \/ Cardinality({u \in Turns : Busy(u)}) < MaxInFlight
    PROVE  Only(t)
<1>1. CASE Cardinality({u \in Turns : Busy(u)}) < MaxInFlight
  <2> DEFINE B == {u \in Turns : Busy(u)}
  <2>1. ASSUME NEW u \in Turns, Busy(u) PROVE FALSE
    <3>1. B = {u}
      BY <2>1 DEF OneAtATime
    <3>2. Cardinality({u}) = 1
      BY FS_Singleton
    <3> QED
      BY <1>1, <3>1, <3>2
  <2> QED
    BY <2>1 DEF Only, Alone, Busy
<1>2. CASE Busy(t)
  BY <1>2 DEF OneAtATime, Only, Alone, Busy
<1> QED
  BY <1>1, <1>2

LEMMA OnlyOne ==
    ASSUME Types, OneAtATime, MaxInFlight = 1, NEW t \in Turns, Alone(t), Kinds(t)
    PROVE  Only(t)
<1>1. CASE Enters(t)
  BY <1>1, OnlyOwn DEF Enters
<1>2. CASE ~Enters(t)
  <2>1. Busy(t)
    BY <1>2, TailIs DEF Kinds, Indexes, Asking, GoesOn, Pushes, Pops, Opens, Hands, Clears,
                        Rereads, Answers, Reading, Trailing, Busy, Over
  <2> QED
    BY <2>1, OnlyOwn
<1> QED
  BY <1>1, <1>2

\* The labels from which, and to which, a step of each kind goes.
LEMMA KindLabels ==
    ASSUME Types, NEW t \in Turns, Kinds(t)
    PROVE  /\ Enters(t) => pc[t] = "idle" /\ pc'[t] \in {"rejected", "index"}
           /\ Indexes(t) => pc[t] = "index" /\ pc'[t] = "ask"
           /\ Asking(t) => pc[t] = "ask" /\ pc'[t] = "touch" /\ loc'[t] = loc[t]
           /\ Answers(t) => pc[t] = "say" /\ pc'[t] = "refresh" /\ loc'[t] = loc[t]
           /\ Tails(t) => pc[t] \in Trailing /\ pc'[t] \in Trailing \cup {"done"}
<1>1. TurnTypes
  BY DEF Types
<1>2. Asking(t) => pc[t] = "ask" /\ pc'[t] = "touch" /\ loc'[t] = loc[t]
  BY <1>1, Elsewhere DEF Asking
<1>3. Answers(t) => pc[t] = "say" /\ pc'[t] = "refresh" /\ loc'[t] = loc[t]
  BY <1>1, Elsewhere DEF Answers
<1> QED
  BY <1>2, <1>3, TailIs DEF Enters, Indexes

-----------------------------------------------------------------------------
(* Alone, a turn sees what is stored and carries out the top of the stack *)

Used(a) == \E i \in DOMAIN tickets : tickets[i].action = a

Certain(t) ==
    /\ pc[t] \in Undecided => loc[t].meta = meta
    /\ pc[t] \in {"open"} \cup Performing => Intends(loc[t])
    /\ pc[t] \in {"latest", "settle"} => loc[t].job.by = "approval"
    /\ pc[t] \in Performing /\ loc[t].job.by = "approval" => Used(loc[t].job.action)

\* The ticket of a step that opens one, and the tickets before it.
LEMMA OpensTicket ==
    ASSUME Types, NEW t \in Turns, Opens(t)
    PROVE  /\ pc[t] = "open" /\ Ticket(t).action = loc[t].job.action
           /\ \A i \in DOMAIN tickets : i \in DOMAIN tickets' /\ tickets'[i] = tickets[i]
           /\ \A i \in DOMAIN tickets' : i \in DOMAIN tickets \/ i = Len(tickets) + 1
           /\ Len(tickets) + 1 \in DOMAIN tickets' /\ Len(tickets) + 1 \notin DOMAIN tickets
           /\ tickets'[Len(tickets) + 1] = Ticket(t)
<1>1. RowTypes /\ TurnTypes /\ pc[t] = "open" /\ tickets' = Append(tickets, Ticket(t))
  BY DEF Types, Opens
<1>2. Ticket(t) \in Opened
  BY <1>1, TicketOpened
<1>3. Len(tickets) \in Nat /\ DOMAIN tickets = 1..Len(tickets)
  BY <1>1 DEF RowTypes
<1> QED
  BY <1>1, <1>2, <1>3, TicketAdded DEF Ticket

LEMMA CertainKept ==
    ASSUME Types, NEW t \in Turns, Certain(t), Kinds(t) PROVE Certain(t)'
<1>1. CASE Enters(t) \/ Indexes(t)
  BY <1>1 DEF Enters, Indexes, Certain, Undecided, Acting, Performing, rows
<1>2. CASE Asking(t)
  BY <1>2, KindLabels DEF Asking, Certain, Undecided, Performing
<1>3. CASE GoesOn(t)
  <2>1. loc[t].meta = meta
    BY <1>3, ReadingIsUndecided DEF GoesOn, Certain
  <2>2. pc'[t] \in Undecided => loc'[t].meta = meta'
    BY <1>3, <2>1 DEF GoesOn, Undecided
  <2>3. pc'[t] \notin Performing /\ (pc'[t] = "open" => Intends(loc'[t]))
    BY <1>3 DEF GoesOn
  <2>4. Intends(loc'[t]) => Intends(loc[t])'
    BY DEF Intends
  <2> QED
    BY <2>2, <2>3, <2>4 DEF Certain, Performing
<1>4. CASE (\E a \in Asks : Pushes(t, a)) \/ Pops(t) \/ Clears(t)
  BY <1>4 DEF Pushes, Pops, Clears, Certain, Undecided, Performing, Acting
<1>5. CASE Opens(t)
  <2>1. pc[t] = "open" /\ loc[t].meta = meta /\ Intends(loc[t]) /\ meta' = meta
    BY <1>5 DEF Opens, Certain, Undecided, Performing, Acting
  <2>2. CASE pc'[t] \in {"flip", "latest"} /\ loc'[t] = loc[t]
    <3>1. PICK action : action = loc[t].job.action
      OBVIOUS
    <3>2. Used(action)'
      BY <1>5, <3>1, OpensTicket DEF Used
    <3>3. Used(loc[t].job.action)'
      BY <2>2, <3>1, <3>2 DEF Used
    <3>4. Intends(loc[t])'
      BY <2>1, <2>2 DEF Intends
    <3>5. pc'[t] = "latest" => loc'[t].job.by = "approval"
      BY <1>5, <2>2 DEF Opens
    <3> QED
      BY <2>1, <2>2, <3>3, <3>4, <3>5 DEF Certain
  <2>3. CASE pc'[t] = "say"
    BY <2>3 DEF Certain, Undecided, Performing, Acting
  <2>4. CASE pc'[t] \in {"call", "think"} /\ loc'[t].meta = loc[t].meta
    BY <2>1, <2>4 DEF Certain, Undecided, Performing, Acting
  <2> QED
    BY <1>5, <2>2, <2>3, <2>4 DEF Opens
<1>6. CASE Hands(t) \/ Rereads(t)
  <2>1. /\ pc[t] \in {"flip", "latest"} /\ pc'[t] \in {"clear", "settle"}
        /\ loc'[t].job = loc[t].job /\ loc[t].meta = meta /\ loc'[t].meta = meta
        /\ meta' = meta /\ tickets' = tickets
        /\ pc'[t] = "settle" => pc[t] = "latest"
    BY <1>6 DEF Hands, Rereads, Certain, Undecided, Performing, Acting
  <2>2. /\ Intends(loc[t]) /\ (loc[t].job.by = "approval" => Used(loc[t].job.action))
        /\ pc[t] = "latest" => loc[t].job.by = "approval"
    BY <2>1 DEF Certain, Performing
  <2>3. Intends(loc[t])' /\ (loc'[t].job.by = "approval" => Used(loc[t].job.action)')
    BY <2>1, <2>2 DEF Intends, Used
  <2> QED
    BY <2>1, <2>2, <2>3 DEF Certain
<1>7. CASE Answers(t) \/ Tails(t)
  <2>1. pc'[t] \in Trailing \cup {"done"}
    BY <1>7, KindLabels DEF Trailing
  <2> QED
    BY <2>1 DEF Certain, Undecided, Performing, Acting, Trailing
<1> QED
  BY <1>1, <1>2, <1>3, <1>4, <1>5, <1>6, <1>7 DEF Kinds

-----------------------------------------------------------------------------
(* What a step makes of the stack and of the approvals carried out *)

LEMMA StackIs ==
    ASSUME Types, NEW t \in Turns, Certain(t), Kinds(t)
    PROVE  /\ meta.stack \in Seq(Asks)
           /\ \/ meta'.stack = meta.stack
              \/ \E a \in Asks : Pushes(t, a) /\ meta'.stack = Queue(meta.stack, a)
              \/ Pops(t) /\ meta'.stack = Rest(meta.stack)
              \/ Clears(t) /\ meta'.stack = <<>>
<1>1. meta.stack \in Seq(Asks)
  BY MetaParts DEF Types, RowTypes
<1>2. CASE GoesOn(t) \/ Opens(t) \/ Hands(t) \/ Rereads(t)
  BY <1>1, <1>2 DEF GoesOn, Opens, Hands, Rereads
<1>3. CASE Enters(t) \/ Indexes(t) \/ Asking(t) \/ Answers(t) \/ Tails(t)
  BY <1>1, <1>3, TailIs DEF Enters, Indexes, Asking, Answers, rows
<1>4. CASE (\E a \in Asks : Pushes(t, a)) \/ Pops(t)
  <2>1. loc[t].meta = meta
    BY <1>4 DEF Pushes, Pops, Certain, Undecided, Acting
  <2> QED
    BY <1>1, <1>4, <2>1 DEF Pushes, Pops
<1>5. CASE Clears(t)
  BY <1>1, <1>5 DEF Clears
<1> QED
  BY <1>1, <1>2, <1>3, <1>4, <1>5 DEF Kinds

\* An approval was carried out before, or is now, for what is on top.
LEMMA UsedIs ==
    ASSUME Types, NEW t \in Turns, Certain(t), Kinds(t), NEW a \in Asks, Used(a)'
    PROVE  \/ Used(a)
           \/ /\ Opens(t) /\ pc'[t] \in Performing /\ loc'[t] = loc[t]
              /\ loc[t].job.by = "approval" /\ loc[t].job.action = a
              /\ meta.stack # <<>> /\ Head(meta.stack) = a
<1>1. CASE ~Opens(t)
  <2>1. tickets' = tickets
    BY <1>1, TailIs DEF Kinds, Enters, Indexes, Asking, GoesOn, Pushes, Pops, Hands, Clears,
                        Rereads, Answers, rows
  <2> QED
    BY <2>1 DEF Used
<1>2. CASE Opens(t) /\ ~Used(a)
  <2>1. /\ pc[t] = "open" /\ Ticket(t).action = loc[t].job.action
        /\ \A i \in DOMAIN tickets : tickets'[i] = tickets[i]
        /\ \A i \in DOMAIN tickets' : i \in DOMAIN tickets \/ tickets'[i] = Ticket(t)
    BY <1>2, OpensTicket
  <2>2. a = loc[t].job.action
    BY <1>2, <2>1 DEF Used
  <2>3. a # None
    BY ConversationAssumption DEF ConversationAssumption
  <2>4. Intends(loc[t]) /\ loc[t].meta = meta
    BY <2>1 DEF Certain, Undecided, Acting, Performing
  <2>5. loc[t].job.by = "approval" /\ meta.stack # <<>> /\ Head(meta.stack) = a
    BY <2>2, <2>3, <2>4 DEF Intends
  <2>6. pc'[t] \in Performing /\ loc'[t] = loc[t]
    BY <1>2, <2>5 DEF Opens, Performing
  <2> QED
    BY <1>2, <2>2, <2>5, <2>6
<1> QED
  BY <1>1, <1>2

\* An approval comes from an earlier session or a turn whose reply is decided.
Decided(a) == a.from \in Turns => pc[a.from] \notin Undecided \cup {"idle"}

OriginDecided == \A a \in Asks : a \in ToSet(meta.stack) \/ Used(a) => Decided(a)

LEMMA OnTheStack ==
    ASSUME NEW s \in Seq(Asks)
    PROVE  ToSet(s) \subseteq Asks /\ (s # <<>> => Head(s) \in ToSet(s))
<1>1. \A i \in DOMAIN s : s[i] \in Asks
  OBVIOUS
<1>2. s # <<>> => Head(s) = s[1] /\ 1 \in DOMAIN s
  OBVIOUS
<1> QED
  BY <1>1, <1>2 DEF ToSet

\* What is new on the stack was queued.
LEMMA StackGrows ==
    ASSUME Types, NEW t \in Turns, Certain(t), Kinds(t), NEW a \in ToSet(meta'.stack),
           a \notin ToSet(meta.stack)
    PROVE  Pushes(t, a)
<1>1. CASE meta'.stack = meta.stack
  BY <1>1
<1>2. ASSUME NEW b \in Asks, Pushes(t, b), meta'.stack = Queue(meta.stack, b)
      PROVE  Pushes(t, a)
  <2>1. a = b
    BY <1>2, StackIs, QueueKeeps
  <2> QED
    BY <1>2, <2>1
<1>3. CASE meta'.stack = Rest(meta.stack)
  BY <1>3, StackIs, RestKeeps
<1>4. CASE meta'.stack = <<>>
  BY <1>4 DEF ToSet
<1> QED
  BY <1>1, <1>2, <1>3, <1>4, StackIs

LEMMA OriginKept ==
    ASSUME Types, NEW t \in Turns, Alone(t), Kinds(t), Certain(t), OriginDecided
    PROVE  OriginDecided'
<1> SUFFICES ASSUME NEW a \in Asks, a \in ToSet(meta'.stack) \/ Used(a)' PROVE Decided(a)'
  BY DEF OriginDecided
<1>2. CASE Decided(a)
  <2>1. CASE a.from # t
    BY <1>2, <2>1 DEF Alone, Decided
  <2>2. CASE a.from = t
    <3>1. pc[t] \notin Undecided \cup {"idle"}
      BY <1>2, <2>2 DEF Decided
    <3>2. Answers(t) \/ Tails(t)
      <4>1. GoesOn(t) => pc[t] \in Undecided
        BY ReadingIsUndecided DEF GoesOn
      <4> QED
        BY <3>1, <4>1 DEF Kinds, Enters, Indexes, Asking, Pushes, Pops, Opens, Hands, Clears,
                          Rereads, Undecided, Acting
    <3>3. pc'[t] \in Trailing \cup {"done"}
      BY <3>2, KindLabels DEF Trailing
    <3> QED
      BY <2>2, <3>3 DEF Decided, Trailing, Undecided, Acting
  <2> QED
    BY <2>1, <2>2
<1>3. CASE ~Decided(a)
  <2>1. a \notin ToSet(meta.stack) /\ ~Used(a)
    BY <1>3 DEF OriginDecided
  <2>2. a \in ToSet(meta'.stack)
    <3>1. Opens(t) /\ meta.stack # <<>> /\ Head(meta.stack) = a => a \in ToSet(meta.stack)
      BY StackIs, OnTheStack
    <3> QED
      BY <2>1, <3>1, UsedIs
  <2>3. Pushes(t, a)
    BY <2>1, <2>2, StackGrows
  <2> QED
    BY <2>3 DEF Pushes, Decided, Undecided, Acting
<1> QED
  BY <1>2, <1>3

-----------------------------------------------------------------------------
(* An approval is carried out once *)

\* A turn is about to settle the approval it has carried out.
Carried(a) == \E u \in Turns : /\ pc[u] \in Performing
                               /\ loc[u].job.by = "approval" /\ loc[u].job.action = a

\* What was carried out is off the stack, or on its way off.
UsedIsGone == /\ IsInjective(meta.stack)
              /\ \A a \in ToSet(meta.stack) : Used(a) => Carried(a)

LEMMA CarriedHere ==
    ASSUME NEW t \in Turns, Only(t), NEW a, Carried(a)
    PROVE  pc[t] \in Performing /\ loc[t].job.by = "approval" /\ loc[t].job.action = a
<1>1. PICK u \in Turns : /\ pc[u] \in Performing
                         /\ loc[u].job.by = "approval" /\ loc[u].job.action = a
  BY DEF Carried
<1>2. u = t
  BY <1>1 DEF Only, Performing, Over
<1> QED
  BY <1>1, <1>2

LEMMA UsedIsGoneKept ==
    ASSUME Types, NEW t \in Turns, Only(t), Kinds(t), Certain(t), OriginDecided, UsedIsGone
    PROVE  UsedIsGone'
<1>0. meta.stack \in Seq(Asks) /\ ToSet(meta.stack) \subseteq Asks
  BY StackIs, OnTheStack
<1>1. IsInjective(meta'.stack)
  <2>1. IsInjective(meta.stack)
    BY DEF UsedIsGone
  <2>2. IsInjective(<<>>)
    BY DEF IsInjective
  <2>3. ASSUME NEW a \in Asks, meta'.stack = Queue(meta.stack, a) PROVE IsInjective(meta'.stack)
    BY <1>0, <2>1, <2>3, QueueKeeps
  <2>4. CASE meta'.stack = Rest(meta.stack)
    BY <1>0, <2>1, <2>4, RestKeeps
  <2> QED
    BY <2>1, <2>2, <2>3, <2>4, StackIs
<1>2. ASSUME NEW a \in ToSet(meta'.stack), Used(a)' PROVE Carried(a)'
  <2>1. CASE a \notin ToSet(meta.stack)
    <3>1. Pushes(t, a)
      BY <2>1, StackGrows
    <3>2. a \in Asks /\ a.from \in Turns /\ pc[a.from] \in Undecided /\ ~Opens(t)
      BY <3>1 DEF Pushes, Undecided, Acting, Opens
    <3>3. Used(a)
      BY <1>2, <3>2, UsedIs
    <3> QED
      BY <3>2, <3>3 DEF OriginDecided, Decided
  <2>2. CASE a \in ToSet(meta.stack) /\ Used(a)
    <3>1. pc[t] \in Performing /\ loc[t].job.by = "approval" /\ loc[t].job.action = a
      BY <2>2, CarriedHere DEF UsedIsGone
    <3>2. Hands(t) \/ Rereads(t) \/ Clears(t) \/ (Pops(t) /\ pc[t] = "settle")
      BY <3>1, KindLabels DEF Kinds, GoesOn, Pushes, Pops, Opens, Performing, Reading, Trailing
    <3>3. CASE Hands(t) \/ Rereads(t)
      <4>1. pc'[t] \in Performing /\ loc'[t].job = loc[t].job
        BY <3>3 DEF Hands, Rereads, Performing
      <4> QED
        BY <3>1, <4>1 DEF Carried
    <3>4. CASE Clears(t)
      BY <1>2, <3>4 DEF Clears, ToSet
    <3>5. CASE Pops(t) /\ pc[t] = "settle"
      <4>1. loc[t].meta = meta /\ Intends(loc[t])
        BY <3>5 DEF Certain, Undecided, Acting, Performing
      <4>2. meta.stack # <<>> /\ Head(meta.stack) = a /\ meta'.stack = Rest(meta.stack)
        BY <3>1, <3>5, <4>1 DEF Intends, Pops
      <4> QED
        BY <1>0, <1>2, <4>2, RestKeeps DEF UsedIsGone
    <3> QED
      BY <3>2, <3>3, <3>4, <3>5
  <2>3. CASE a \in ToSet(meta.stack) /\ ~Used(a)
    <3>1. pc'[t] \in Performing /\ loc'[t].job.by = "approval" /\ loc'[t].job.action = a
      BY <1>0, <1>2, <2>3, UsedIs
    <3> QED
      BY <3>1 DEF Carried
  <2> QED
    BY <2>1, <2>2, <2>3
<1> QED
  BY <1>1, <1>2 DEF UsedIsGone

LEMMA OnceKept ==
    ASSUME Types, NEW t \in Turns, Only(t), Kinds(t), Certain(t), UsedIsGone, OncePerApproval
    PROVE  OncePerApproval'
<1>1. CASE ~Opens(t)
  <2>1. tickets' = tickets
    BY <1>1, TailIs DEF Kinds, Enters, Indexes, Asking, GoesOn, Pushes, Pops, Hands, Clears,
                        Rereads, Answers, rows
  <2> QED
    BY <2>1 DEF OncePerApproval
<1>2. CASE Opens(t)
  <2> DEFINE n == Len(tickets) + 1
  <2>1. /\ pc[t] = "open" /\ \A i \in DOMAIN tickets : tickets'[i] = tickets[i]
        /\ \A i \in DOMAIN tickets' : i \in DOMAIN tickets \/ i = n
        /\ tickets'[n].action = loc[t].job.action
    BY <1>2, OpensTicket
  <2> HIDE DEF n
  <2>2. ASSUME NEW i \in DOMAIN tickets, tickets[i].action = loc[t].job.action,
               loc[t].job.action # None
        PROVE  FALSE
    <3>1. Intends(loc[t]) /\ loc[t].meta = meta
      BY <2>1 DEF Certain, Undecided, Acting
    <3>2. meta.stack # <<>> /\ Head(meta.stack) = loc[t].job.action
      BY <2>2, <3>1 DEF Intends
    <3>3. Head(meta.stack) \in ToSet(meta.stack)
      BY <3>2, StackIs, OnTheStack
    <3>4. Used(Head(meta.stack))
      BY <2>2, <3>2 DEF Used
    <3>5. Carried(Head(meta.stack))
      BY <3>3, <3>4 DEF UsedIsGone
    <3> QED
      BY <2>1, <3>5, CarriedHere DEF Performing
  <2> QED
    BY <2>1, <2>2 DEF OncePerApproval
<1> QED
  BY <1>1, <1>2

-----------------------------------------------------------------------------
(* What the customer was asked *)

\* The turn that moves is about to ask.
Offering(a) == \E u \in Turns : pc[u] = "say" /\ loc[u].offer = a

\* The labels between which the transcript grows.
LEMMA MessageSteps ==
    ASSUME Types, NEW t \in Turns, Kinds(t)
    PROVE  /\ pc[t] = "say" <=> Answers(t)
           /\ Asking(t) => messages' = Append(messages, Entry(t, "customer"))
           /\ Answers(t) => messages' = Append(messages, Entry(t, "agent"))
           /\ ~Asking(t) /\ ~Answers(t) => messages' = messages
<1>1. pc[t] = "say" <=> Answers(t)
  BY KindLabels DEF Kinds, GoesOn, Pushes, Pops, Opens, Hands, Clears, Rereads, Reading,
                    Trailing
<1>2. ~Asking(t) /\ ~Answers(t) => messages' = messages
  BY TailIs DEF Kinds, Enters, Indexes, GoesOn, Pushes, Pops, Opens, Hands, Clears, Rereads,
                rows
<1> QED
  BY <1>1, <1>2 DEF Asking, Answers

\* Alone, only the turn that moves can be about to ask.
LEMMA OfferingHere ==
    ASSUME NEW t \in Turns, Only(t), NEW a, Offering(a)
    PROVE  pc[t] = "say" /\ loc[t].offer = a
  BY DEF Offering, Only, Over

-----------------------------------------------------------------------------
(* The last approval the agent asked for *)

\* A set of positions has a largest one.
LEMMA MaxIs ==
    ASSUME NEW n \in Nat, NEW S \in SUBSET (1..n), S # {}
    PROVE  Max(S) \in S /\ \A i \in S : Max(S) >= i
<1> DEFINE f == [i \in 1..n |-> IF i \in S THEN i ELSE 0]
<1>1. n \in Nat \ {0} /\ f \in [1..n -> Nat]
  <2>1. PICK k \in S : k \in 1..n
    OBVIOUS
  <2>2. n \in Nat \ {0}
    BY <2>1
  <2>3. f \in [1..n -> Nat]
    OBVIOUS
  <2> QED
    BY <2>2, <2>3
<1>2. \A i \in 1..n : f[i] = IF i \in S THEN i ELSE 0
  OBVIOUS
<1> HIDE DEF f
<1>3. PICK i \in 1..n : \A j \in 1..n : f[i] >= f[j]
  BY <1>1, LargestEntry
<1>4. i \in S
  <2>1. PICK k \in S : k \in 1..n
    OBVIOUS
  <2>2. f[k] = k /\ f[i] >= f[k]
    BY <1>2, <1>3, <2>1
  <2> QED
    BY <1>2, <2>1, <2>2
<1>5. \A j \in S : i >= j
  BY <1>2, <1>3, <1>4
<1>6. \E x \in S : \A y \in S : x >= y
  BY <1>4, <1>5
<1> QED
  BY <1>6 DEF Max

\* The lines that name an approval, among the first n.
Naming(ms, n) == {i \in 1..n : ms[i].offer \notin {None, Unbacked}}

\* What was asked last, up to a line that is there already, stays what it was.
LEMMA EarlierAsksStay ==
    ASSUME RowTypes, NEW e \in Lines, messages' = Append(messages, e), inherited' = inherited,
           NEW k \in 0..Len(messages)
    PROVE  LastAsk(k)' = LastAsk(k)
<1> DEFINE asks == Naming(messages, k)  more == Naming(messages', k)
<1>1. \A i \in 1..k : messages'[i] = messages[i]
  BY MessagesAre, MessageAdded
<1>2. more = asks /\ k \in Nat /\ asks \in SUBSET (1..k)
  BY <1>1 DEF Naming
<1>3. /\ LastAsk(k) = IF asks = {} THEN Top(inherited.stack) ELSE messages[Max(asks)].offer
      /\ LastAsk(k)' = IF more = {} THEN Top(inherited.stack) ELSE messages'[Max(more)].offer
  BY DEF LastAsk, Naming, Top
<1> HIDE DEF asks, more
<1>4. CASE asks # {}
  <2>1. Max(asks) \in asks
    BY <1>2, <1>4, MaxIs
  <2>2. messages'[Max(asks)] = messages[Max(asks)]
    BY <1>1, <1>2, <2>1
  <2> QED
    BY <1>2, <1>3, <2>2
<1> QED
  BY <1>2, <1>3, <1>4

\* What was asked last, in the whole transcript.
Latest == LastAsk(Len(messages))

LEMMA LatestIs ==
    ASSUME RowTypes, NEW e \in Lines, messages' = Append(messages, e), inherited' = inherited
    PROVE  Latest' = IF e.offer \in {None, Unbacked} THEN Latest ELSE e.offer
<1> DEFINE n == Len(messages)
           asks == Naming(messages, n)
           more == Naming(messages', n + 1)
<1>1. /\ n \in Nat /\ Len(messages') = n + 1
      /\ \A i \in 1..n : messages'[i] = messages[i]
      /\ messages'[n + 1] = e
  BY MessagesAre, MessageAdded
<1>4. /\ Latest = IF asks = {} THEN Top(inherited.stack) ELSE messages[Max(asks)].offer
      /\ Latest' = IF more = {} THEN Top(inherited.stack) ELSE messages'[Max(more)].offer
  BY <1>1 DEF Latest, LastAsk, Naming, Top
<1> HIDE DEF n
<1>2. asks \in SUBSET (1..n) /\ more \in SUBSET (1..(n + 1))
  BY <1>1 DEF Naming
<1>3. more = asks \cup (IF e.offer \in {None, Unbacked} THEN {} ELSE {n + 1})
  BY <1>1 DEF Naming
<1> HIDE DEF asks, more
<1>5. CASE e.offer \in {None, Unbacked}
  <2>1. more = asks
    BY <1>3, <1>5
  <2>2. CASE asks # {}
    <3>1. Max(asks) \in asks
      BY <1>1, <1>2, <2>2, MaxIs
    <3>2. messages'[Max(asks)] = messages[Max(asks)]
      BY <1>1, <1>2, <3>1
    <3> QED
      BY <1>4, <1>5, <2>1, <3>2
  <2> QED
    BY <1>4, <1>5, <2>1, <2>2
<1>6. CASE e.offer \notin {None, Unbacked}
  <2>1. n + 1 \in more /\ n + 1 \in Nat
    BY <1>1, <1>3, <1>6
  <2>2. Max(more) \in more /\ Max(more) >= n + 1
    BY <1>2, <2>1, MaxIs
  <2>3. Max(more) = n + 1
    <3>1. PICK m \in 1..(n + 1) : m = Max(more)
      BY <1>2, <2>2
    <3> QED
      BY <1>1, <2>2, <3>1
  <2> QED
    BY <1>1, <1>4, <1>6, <2>1, <2>3
<1> QED
  BY <1>5, <1>6

LEMMA AsksAreNamed == Asks \cap {None, Unbacked} = {}
<1>1. None \notin Asks
  BY ConversationAssumption DEF ConversationAssumption
<1>2. ASSUME Unbacked \in Asks PROVE FALSE
  <2>1. DOMAIN Unbacked = {"type"}
    BY DEF Unbacked
  <2>2. "about" \in DOMAIN Unbacked
    BY <1>2 DEF Asks
  <2> QED
    BY <2>1, <2>2
<1> QED
  BY <1>1, <1>2

\* The top of the stack is what the customer was asked about last.
TopIsAsked ==
    meta.stack # <<>> =>
        \/ Offering(Head(meta.stack))
        \/ /\ Head(meta.stack) = Latest
           /\ \A u \in Turns : pc[u] = "say" => loc[u].offer \in {None, Unbacked}

LEMMA TopIsAskedKept ==
    ASSUME Types, NothingSaid, NEW t \in Turns, Only(t), Kinds(t), Certain(t), TopIsAsked,
           inherited' = inherited
    PROVE  TopIsAsked'
<1> SUFFICES ASSUME meta'.stack # <<>>, NEW head, head = Head(meta'.stack)
             PROVE  \/ Offering(head)'
                    \/ /\ head = Latest'
                       /\ \A u \in Turns : pc'[u] = "say" => loc'[u].offer \in {None, Unbacked}
  BY DEF TopIsAsked, Offering
<1>0. /\ RowTypes /\ TurnTypes /\ meta.stack \in Seq(Asks)
      /\ meta.stack # <<>> => Head(meta.stack) \in Asks
  BY StackIs, OnTheStack DEF Types
<1>1. ASSUME NEW a \in Asks, Pushes(t, a), meta'.stack = Queue(meta.stack, a)
      PROVE  Offering(head)'
  <2>1. Head(Queue(meta.stack, a)) = a
    BY <1>0, QueueKeeps
  <2>2. head = a
    BY <1>1, <2>1
  <2> QED
    BY <1>1, <2>2 DEF Pushes, Offering
<1>2. CASE Pops(t) /\ meta'.stack = Rest(meta.stack)
  <2>1. loc[t].meta = meta
    BY <1>2 DEF Pops, Certain, Undecided, Acting
  <2>2. pc'[t] = "say" /\ loc'[t].offer = head
    BY <1>2, <2>1 DEF Pops, Top
  <2> QED
    BY <2>2 DEF Offering
<1>3. CASE meta'.stack = meta.stack
  <2>0. PICK top \in Asks : top = Head(meta.stack) /\ top = head
    BY <1>0, <1>3
  <2>1. \A u \in Turns : u # t => pc'[u] # "say"
    BY DEF Only, Over
  <2>2. CASE Answers(t)
    <3>1. /\ pc[t] = "say" /\ pc'[t] = "refresh" /\ Entry(t, "agent") \in Lines
          /\ Entry(t, "agent").offer = loc[t].offer
          /\ messages' = Append(messages, Entry(t, "agent"))
      BY <1>0, <2>2, KindLabels, MessageSteps, EntryIsLine DEF Entry
    <3>2. Latest' = IF loc[t].offer \in {None, Unbacked} THEN Latest ELSE loc[t].offer
      BY <1>0, <3>1, LatestIs
    <3>3. top = Latest'
      <4>1. CASE Offering(top)
        BY <2>0, <3>2, <4>1, OfferingHere, AsksAreNamed
      <4>2. CASE ~Offering(top)
        <5>1. top = Latest /\ loc[t].offer \in {None, Unbacked}
          BY <1>3, <2>0, <3>1, <4>2 DEF TopIsAsked
        <5> QED
          BY <3>2, <5>1
      <4> QED
        BY <4>1, <4>2
    <3> QED
      BY <2>0, <2>1, <3>1, <3>3
  <2>3. CASE ~Answers(t)
    <3>1. ~Offering(top)
      BY <2>3, OfferingHere, MessageSteps
    <3>2. top = Latest
      BY <1>3, <2>0, <3>1 DEF TopIsAsked
    <3>3. Latest' = Latest
      <4>1. CASE Asking(t)
        <5>1. /\ Entry(t, "customer") \in Lines /\ Entry(t, "customer").offer = loc[t].offer
              /\ messages' = Append(messages, Entry(t, "customer"))
          BY <1>0, <4>1, MessageSteps, EntryIsLine DEF Entry
        <5>2. loc[t].offer = None
          BY <4>1 DEF Asking, NothingSaid, Undecided
        <5> QED
          BY <1>0, <5>1, <5>2, LatestIs
      <4>2. CASE ~Asking(t)
        BY <2>3, <4>2, MessageSteps DEF Latest, LastAsk, Top
      <4> QED
        BY <4>1, <4>2
    <3>4. \/ pc'[t] = "say" => loc'[t].offer \in {None, Unbacked}
          \/ Offering(top)'
      <4>1. CASE Enters(t) \/ Indexes(t) \/ Asking(t) \/ Tails(t)
        BY <4>1, KindLabels DEF Trailing
      <4>2. CASE GoesOn(t) \/ Opens(t) \/ Hands(t) \/ Clears(t) \/ Rereads(t)
        BY <4>2 DEF GoesOn, Opens, Hands, Clears, Rereads
      <4>3. ASSUME NEW a \in Asks, Pushes(t, a) PROVE Offering(top)'
        <5>1. loc[t].meta = meta /\ meta'.stack = Queue(meta.stack, a)
          BY <4>3 DEF Pushes, Certain, Undecided, Acting
        <5>2. Head(Queue(meta.stack, a)) = a
          BY <1>0, QueueKeeps
        <5>3. top = a
          BY <2>0, <5>1, <5>2
        <5> QED
          BY <4>3, <5>3 DEF Pushes, Offering
      <4>4. CASE Pops(t)
        <5>1. loc[t].meta = meta /\ meta'.stack = Rest(meta.stack)
          BY <4>4 DEF Pops, Certain, Undecided, Acting
        <5>2. loc'[t].offer = top
          BY <2>0, <4>4, <5>1 DEF Pops, Top
        <5>3. pc'[t] = "say"
          BY <4>4 DEF Pops
        <5> QED
          BY <5>2, <5>3 DEF Offering
      <4> QED
        BY <2>3, <4>1, <4>2, <4>3, <4>4 DEF Kinds
    <3> QED
      BY <2>0, <2>1, <3>2, <3>3, <3>4
  <2> QED
    BY <2>2, <2>3
<1> QED
  BY <1>1, <1>2, <1>3, StackIs

\* A turn that acts on its question has it as the last line of the transcript.
QuestionIsLast ==
    \A u \in Turns : pc[u] \in Acting =>
        /\ Len(messages) \in DOMAIN messages
        /\ messages[Len(messages)].turn = u /\ messages[Len(messages)].role = "customer"

LEMMA QuestionIsLastKept ==
    ASSUME Types, NEW t \in Turns, Only(t), Kinds(t), QuestionIsLast PROVE QuestionIsLast'
<1>1. \A u \in Turns \ {t} : pc'[u] \notin Acting
  BY DEF Only, Over, Acting
<1>2. CASE Asking(t)
  <2>1. /\ Entry(t, "customer") \in Lines /\ messages' = Append(messages, Entry(t, "customer"))
        /\ Entry(t, "customer").turn = t /\ Entry(t, "customer").role = "customer"
    BY <1>2, EntryIsLine, MessageSteps DEF Entry, Types
  <2>2. /\ Len(messages') \in DOMAIN messages'
        /\ messages'[Len(messages')] = Entry(t, "customer")
    BY <2>1, MessageAdded DEF Types
  <2> QED
    BY <1>1, <2>1, <2>2 DEF QuestionIsLast
<1>3. CASE Enters(t) \/ Indexes(t) \/ Answers(t) \/ Tails(t)
  <2>1. pc'[t] \notin Acting
    BY <1>3, KindLabels DEF Acting, Trailing
  <2> QED
    BY <1>1, <2>1 DEF QuestionIsLast
<1>4. CASE ~(Asking(t) \/ Enters(t) \/ Indexes(t) \/ Answers(t) \/ Tails(t))
  <2>1. messages' = messages
    BY <1>4, MessageSteps
  <2>2. pc[t] \in Acting
    BY <1>4, ReadingIsUndecided DEF Kinds, GoesOn, Pushes, Pops, Opens, Hands, Clears, Rereads,
                                    Reading, Acting
  <2> QED
    BY <1>1, <2>1, <2>2 DEF QuestionIsLast
<1> QED
  BY <1>2, <1>3, <1>4

\* What was carried out had been asked about last.
LEMMA PerformsKept ==
    ASSUME Types, NEW t \in Turns, Only(t), Kinds(t), Certain(t), TopIsAsked, QuestionIsLast,
           PerformsLastAsk, inherited' = inherited
    PROVE  PerformsLastAsk'
<1>0. RowTypes /\ TurnTypes
  BY DEF Types
<1>1. CASE Asking(t) \/ Answers(t)
  <2>1. PICK role \in {"customer", "agent"} : messages' = Append(messages, Entry(t, role))
    BY <1>1, MessageSteps
  <2>2. Entry(t, role) \in Lines
    BY <1>0, EntryIsLine
  <2>3. tickets' = tickets
    BY <1>1 DEF Asking, Answers
  <2>4. \A j \in DOMAIN messages : /\ j \in DOMAIN messages' /\ messages'[j] = messages[j]
                                   /\ LastAsk(j)' = LastAsk(j)
    <3>1. \A j \in DOMAIN messages : j \in 0..Len(messages)
      BY <1>0, MessagesAre
    <3> QED
      BY <1>0, <2>1, <2>2, <3>1, MessageAdded, EarlierAsksStay
  <2> QED
    BY <2>3, <2>4 DEF PerformsLastAsk
<1>2. CASE Opens(t)
  <2>1. messages' = messages
    BY <1>2 DEF Opens
  <2>2. \A j : LastAsk(j)' = LastAsk(j)
    BY <2>1 DEF LastAsk, Top
  <2>3. /\ pc[t] = "open" /\ \A i \in DOMAIN tickets : tickets'[i] = tickets[i]
        /\ \A i \in DOMAIN tickets' : i \in DOMAIN tickets \/ tickets'[i] = Ticket(t)
        /\ Ticket(t).action = loc[t].job.action /\ Ticket(t).turn = t
    BY <1>2, OpensTicket DEF Ticket
  <2>4. ASSUME loc[t].job.action # None
        PROVE  \E j \in DOMAIN messages :
                   /\ messages[j].turn = t /\ messages[j].role = "customer"
                   /\ loc[t].job.action = LastAsk(j)
    <3>1. Intends(loc[t]) /\ loc[t].meta = meta
      BY <2>3 DEF Certain, Undecided, Acting
    <3>2. meta.stack # <<>> /\ Head(meta.stack) = loc[t].job.action
      BY <2>4, <3>1 DEF Intends
    <3>3. ~Offering(Head(meta.stack))
      BY <2>3, OfferingHere
    <3>4. loc[t].job.action = LastAsk(Len(messages))
      BY <3>2, <3>3 DEF TopIsAsked, Latest
    <3>5. /\ Len(messages) \in DOMAIN messages
          /\ messages[Len(messages)].turn = t /\ messages[Len(messages)].role = "customer"
      BY <2>3 DEF QuestionIsLast, Acting
    <3> QED
      BY <3>4, <3>5
  <2>5. ASSUME NEW i \in DOMAIN tickets', tickets'[i].action # None
        PROVE  \E j \in DOMAIN messages :
                   /\ messages[j].turn = tickets'[i].turn /\ messages[j].role = "customer"
                   /\ tickets'[i].action = LastAsk(j)
    <3>1. CASE i \in DOMAIN tickets
      BY <2>3, <2>5, <3>1 DEF PerformsLastAsk
    <3>2. CASE tickets'[i] = Ticket(t)
      BY <2>3, <2>4, <2>5, <3>2
    <3> QED
      BY <2>3, <3>1, <3>2
  <2> QED
    BY <2>1, <2>2, <2>5 DEF PerformsLastAsk
<1>3. CASE ~(Asking(t) \/ Answers(t) \/ Opens(t))
  <2>1. messages' = messages /\ tickets' = tickets
    BY <1>3, TailIs DEF Kinds, Enters, Indexes, GoesOn, Pushes, Pops, Hands, Clears, Rereads,
                        rows
  <2>2. \A j : LastAsk(j)' = LastAsk(j)
    BY <2>1 DEF LastAsk, Top
  <2> QED
    BY <2>1, <2>2 DEF PerformsLastAsk
<1> QED
  BY <1>1, <1>2, <1>3

-----------------------------------------------------------------------------
(* The end of a session *)

\* Once the session is handed over, all that is left is to say so.
OnlyTheHandoffIsLeft ==
    status = "escalated" =>
        \A u \in Turns : Busy(u) => \/ pc[u] \in {"clear"} \cup Trailing
                                    \/ pc[u] = "say" /\ loc[u].claim = "handoff"

LEMMA HandoffIsLeftKept ==
    ASSUME Types, NEW t \in Turns, Only(t), Kinds(t), OnlyTheHandoffIsLeft
    PROVE  OnlyTheHandoffIsLeft'
<1> SUFFICES ASSUME status' = "escalated", NEW u \in Turns, Busy(u)'
             PROVE  \/ pc'[u] \in {"clear"} \cup Trailing
                    \/ pc'[u] = "say" /\ loc'[u].claim = "handoff"
  BY DEF OnlyTheHandoffIsLeft
<1>1. u = t /\ pc'[t] \notin Over
  BY DEF Only, Busy
<1>2. CASE Hands(t) \/ Clears(t)
  BY <1>1, <1>2 DEF Hands, Clears
<1>3. CASE Answers(t) \/ Tails(t)
  BY <1>1, <1>3, KindLabels DEF Trailing, Over
<1>4. CASE ~(Hands(t) \/ Clears(t) \/ Answers(t) \/ Tails(t))
  <2>1. status = "escalated"
    BY <1>4 DEF Kinds, Enters, Indexes, Asking, GoesOn, Pushes, Pops, Opens, Rereads, rows
  <2>2. CASE Enters(t)
    BY <1>1, <2>1, <2>2 DEF Enters, Over
  <2>3. CASE ~Enters(t)
    <3>1. pc[t] \notin Over /\ pc[t] \notin {"clear"} \cup Trailing /\ pc[t] # "say"
      BY <1>4, <2>3, KindLabels DEF Kinds, GoesOn, Pushes, Pops, Opens, Rereads, Reading, Over,
                                    Trailing
    <3> QED
      BY <2>1, <3>1 DEF OnlyTheHandoffIsLeft, Busy
  <2> QED
    BY <2>2, <2>3
<1> QED
  BY <1>2, <1>3, <1>4

\* Only the routes end a session other than by handing it over.
OnlyHandedOver == MayEnd \/ status \in {"active", "escalated"}

LEMMA OnlyHandedOverKept ==
    ASSUME Types, NEW t \in Turns, Kinds(t), OnlyHandedOver PROVE OnlyHandedOver'
<1>1. status' \in {status, "escalated"}
  BY TailIs DEF Kinds, Enters, Indexes, Asking, GoesOn, Pushes, Pops, Opens, Hands, Clears,
                Rereads, Answers, rows
<1> QED
  BY <1>1 DEF OnlyHandedOver

-----------------------------------------------------------------------------
(* The memory follows the session *)

CurrentMemory ==
    memory # None /\ memory.customer = customer =>
        memory = Work(meta, customer, TicketsOf(customer))

Stored == {"trace", "gauge"}

\* From the reply on, the turn copies what is stored; when it has, the memory
\* is current until another turn runs.
MemoryFollows ==
    /\ \A u \in Turns :
          /\ pc[u] \in {"gather", "store"} => customer # None
          /\ pc[u] = "gather" => loc[u].tasks = Work(meta, customer, {})
          /\ pc[u] = "store" => loc[u].tasks = Work(meta, customer, TicketsOf(customer))
    /\ (\A u \in Turns : Busy(u) => pc[u] \in Stored) => CurrentMemory

LEMMA MemoryMeans == MemoryFollows => MemoryIsCurrent
  BY DEF MemoryFollows, CurrentMemory, MemoryIsCurrent, AtRest

\* What each step of the tail leaves in the locals and the memory.
LEMMA TailWrites ==
    ASSUME Types, NEW t \in Turns, Tails(t)
    PROVE  \/ /\ pc[t] = "refresh" /\ pc'[t] = "trace" /\ customer = None /\ memory' = memory
           \/ /\ pc[t] = "refresh" /\ pc'[t] = "gather" /\ customer # None
              /\ loc'[t].tasks = Work(meta, customer, {})
           \/ /\ pc[t] = "gather" /\ pc'[t] = "store"
              /\ loc'[t].tasks = [loc[t].tasks EXCEPT
                                     !.open = TicketsOf(loc[t].tasks.customer)]
           \/ /\ pc[t] = "store" /\ pc'[t] = "trace"
              /\ memory' = IF memory = None THEN loc[t].tasks
                           ELSE [loc[t].tasks EXCEPT !.customer = memory.customer]
           \/ /\ pc[t] \in Stored /\ pc'[t] \in Stored \cup {"done"} /\ memory' = memory
<1>1. TurnTypes /\ loc[t] \in Locals
  BY LocalParts DEF Types
<1>2. CASE ReadWork(t)
  <2>1. CASE customer = None
    BY <1>1, <1>2, <2>1, StayHere DEF ReadWork, rows
  <2>2. CASE customer # None
    <3> DEFINE l == [loc[t] EXCEPT !.tasks = Work(meta, customer, {})]
    <3>1. l.tasks = Work(meta, customer, {})
      BY <1>1 DEF Locals
    <3>2. Go(t, "gather", l) /\ pc[t] = "refresh"
      BY <1>2, <2>2 DEF ReadWork
    <3> HIDE DEF l
    <3> QED
      BY <1>1, <2>2, <3>1, <3>2, GoHere
  <2> QED
    BY <2>1, <2>2
<1>3. CASE ReadTickets(t)
  <2> DEFINE w == [loc[t].tasks EXCEPT !.open = TicketsOf(loc[t].tasks.customer)]
             l == [loc[t] EXCEPT !.tasks = w]
  <2>1. l.tasks = w
    BY <1>1 DEF Locals
  <2>2. Go(t, "store", l) /\ pc[t] = "gather"
    BY <1>3 DEF ReadTickets
  <2> HIDE DEF l
  <2> QED
    BY <1>1, <2>1, <2>2, GoHere
<1>4. CASE StoreWork(t)
  BY <1>1, <1>4, StayHere DEF StoreWork
<1>5. CASE SaveTrace(t)
  BY <1>1, <1>5, StayHere DEF SaveTrace, Stored
<1>6. CASE Gauge(t)
  BY <1>1, <1>6, GoHere DEF Gauge, End, rows, Stored
<1> QED
  BY <1>2, <1>3, <1>4, <1>5, <1>6 DEF Tails

LEMMA MemoryKept ==
    ASSUME Types, NEW t \in Turns, Only(t), Kinds(t), MemoryFollows
    PROVE  MemoryFollows'
<1>0. /\ memory \in Works \cup {None} /\ None \notin Customers
      /\ memory # None => memory.customer \in Customers
  BY ConversationAssumption DEF ConversationAssumption, Types, RowTypes, Works
<1>1. CASE Tails(t)
  <2>1. UNCHANGED <<meta, customer, tickets>>
    BY <1>1, TailIs
  <2>2. \A c : TicketsOf(c)' = TicketsOf(c)
    BY <2>1 DEF TicketsOf
  <2>3. PICK ids : ids = TicketsOf(customer)
    OBVIOUS
  <2>4. TicketsOf(customer)' = ids
    BY <2>1, <2>3 DEF TicketsOf
  <2>5. ASSUME pc[t] = "gather", loc'[t].tasks = [loc[t].tasks EXCEPT
                                     !.open = TicketsOf(loc[t].tasks.customer)]
        PROVE  loc'[t].tasks = Work(meta, customer, ids) /\ customer # None
    <3>1. loc[t].tasks = Work(meta, customer, {}) /\ customer # None
      BY <2>5 DEF MemoryFollows
    <3>2. loc[t].tasks.customer = customer
      BY <3>1 DEF Work
    <3>3. loc'[t].tasks = [Work(meta, customer, {}) EXCEPT !.open = ids]
      BY <2>3, <2>5, <3>1, <3>2
    <3>4. [Work(meta, customer, {}) EXCEPT !.open = ids] = Work(meta, customer, ids)
      BY DEF Work
    <3> QED
      BY <3>1, <3>3, <3>4
  <2>6. ASSUME NEW u \in Turns
        PROVE  /\ pc'[u] \in {"gather", "store"} => customer # None
               /\ pc'[u] = "gather" => loc'[u].tasks = Work(meta, customer, {})
               /\ pc'[u] = "store" => loc'[u].tasks = Work(meta, customer, ids)
    <3>1. CASE u # t
      BY <2>6, <3>1 DEF Only, Over
    <3>2. CASE u = t
      BY <1>1, <2>5, <3>2, TailWrites DEF Stored
    <3> QED
      BY <3>1, <3>2
  <2>7. ASSUME pc'[t] \in Stored \cup {"done"}, memory' # None, memory'.customer = customer
        PROVE  memory' = Work(meta, customer, ids)
    <3>1. CASE pc[t] = "refresh" /\ customer = None /\ memory' = memory
      BY <1>0, <2>7, <3>1
    <3>2. CASE pc[t] = "store" /\ memory' = IF memory = None THEN loc[t].tasks
                           ELSE [loc[t].tasks EXCEPT !.customer = memory.customer]
      <4>1. loc[t].tasks = Work(meta, customer, ids)
        BY <2>3, <3>2 DEF MemoryFollows
      <4>2. CASE memory = None
        BY <3>2, <4>1, <4>2
      <4>3. CASE memory # None
        <5>1. PICK owner : owner = memory.customer
          OBVIOUS
        <5>2. memory' = [Work(meta, customer, ids) EXCEPT !.customer = owner]
          BY <3>2, <4>1, <4>3, <5>1
        <5>3. [Work(meta, customer, ids) EXCEPT !.customer = owner] = Work(meta, owner, ids)
          BY DEF Work
        <5>4. Work(meta, owner, ids).customer = owner
          BY DEF Work
        <5> QED
          BY <2>7, <5>2, <5>3, <5>4
      <4> QED
        BY <4>2, <4>3
    <3>3. CASE pc[t] \in Stored /\ memory' = memory
      <4>1. \A u \in Turns : Busy(u) => pc[u] \in Stored
        BY <3>3 DEF Only, Busy
      <4> QED
        BY <2>3, <2>7, <3>3, <4>1 DEF MemoryFollows, CurrentMemory
    <3> QED
      BY <1>1, <2>7, <3>1, <3>2, <3>3, TailWrites DEF Stored
  <2>8. (\A u \in Turns : Busy(u) => pc[u] \in Stored)' => pc'[t] \in Stored \cup {"done"}
    <3>1. pc'[t] \in Trailing \cup {"done"}
      BY <1>1, TailIs
    <3> QED
      BY <3>1 DEF Busy, Over, Trailing
  <2>9. Work(meta', customer', ids) = Work(meta, customer, ids) /\
        Work(meta', customer', {}) = Work(meta, customer, {})
    BY <2>1
  <2> QED
    BY <2>1, <2>4, <2>6, <2>7, <2>8, <2>9 DEF MemoryFollows, CurrentMemory, Work
<1>2. CASE ~Tails(t)
  <2>1. \A u \in Turns : pc'[u] \notin {"gather", "store"}
    <3>1. pc'[t] \notin {"gather", "store"}
      BY <1>2, KindLabels DEF Kinds, GoesOn, Pushes, Pops, Opens, Hands, Clears, Rereads, Acting
    <3> QED
      BY <3>1 DEF Only, Over
  <2>2. ASSUME \A u \in Turns : Busy(u)' => pc'[u] \in Stored PROVE CurrentMemory'
    <3>1. pc'[t] \in Over \cup Stored
      BY <2>2 DEF Busy
    <3>2. Enters(t)
      BY <1>2, <3>1, KindLabels DEF Kinds, GoesOn, Pushes, Pops, Opens, Hands, Clears, Rereads,
                                    Acting, Over, Stored
    <3>3. \A u \in Turns : ~Busy(u)
      BY <3>2 DEF Enters, Only, Busy, Over
    <3>4. CurrentMemory
      BY <3>3 DEF MemoryFollows
    <3> QED
      BY <3>2, <3>4 DEF Enters, rows, CurrentMemory, TicketsOf
  <2> QED
    BY <2>1, <2>2 DEF MemoryFollows
<1> QED
  BY <1>1, <1>2

-----------------------------------------------------------------------------
(* The invariant of turns that run one at a time *)

SerialInv ==
    /\ ClaimInv /\ OneAtATime /\ \A t \in Turns : Certain(t)
    /\ OriginDecided /\ UsedIsGone /\ OncePerApproval
    /\ TopIsAsked /\ QuestionIsLast /\ PerformsLastAsk
    /\ OnlyTheHandoffIsLeft /\ OnlyHandedOver /\ MemoryFollows

LEMMA StillOne ==
    ASSUME NEW t \in Turns, Only(t) PROVE OneAtATime'
  BY DEF Only, OneAtATime, Busy

\* A turn that is over has nothing to be certain of.
LEMMA CertainElsewhere ==
    ASSUME NEW t \in Turns, Only(t), NEW u \in Turns \ {t} PROVE Certain(u)'
  BY DEF Only, Certain, Over, Undecided, Acting, Performing

LEMMA SerialStep ==
    ASSUME Types, SerialInv, MaxInFlight = 1, NEW t \in Turns, Alone(t), Kinds(t),
           ClaimInv', inherited' = inherited
    PROVE  SerialInv'
<1>1. Certain(t) /\ NothingSaid
  BY DEF SerialInv, ClaimInv
<1>2. Only(t)
  BY OnlyOne DEF SerialInv
<1>3. \A u \in Turns : Certain(u)'
  BY <1>1, <1>2, CertainKept, CertainElsewhere
<1>4. OneAtATime' /\ OriginDecided' /\ UsedIsGone' /\ OncePerApproval'
  BY <1>1, <1>2, StillOne, OriginKept, UsedIsGoneKept, OnceKept DEF SerialInv
<1>5. TopIsAsked' /\ QuestionIsLast' /\ PerformsLastAsk'
  BY <1>1, <1>2, TopIsAskedKept, QuestionIsLastKept, PerformsKept DEF SerialInv
<1>6. OnlyTheHandoffIsLeft' /\ OnlyHandedOver' /\ MemoryFollows'
  BY <1>2, HandoffIsLeftKept, OnlyHandedOverKept, MemoryKept DEF SerialInv
<1> QED
  BY <1>3, <1>4, <1>5, <1>6 DEF SerialInv

\* Closing or expiring the session leaves everything but the status alone.
LEMMA SerialStays ==
    ASSUME SerialInv, (MayEnd /\ Stops) \/ UNCHANGED vars, ClaimInv' PROVE SerialInv'
<1>1. /\ UNCHANGED <<customer, meta, messages, tickets, memory, pc, loc, inherited>>
      /\ status' \in {status, "closed", "expired"} /\ (status' # status => MayEnd)
  BY DEF Stops, vars, rows, env
<1>2. OneAtATime' /\ \A u \in Turns : Certain(u)'
  BY <1>1 DEF SerialInv, OneAtATime, Busy, Certain, Intends, Used
<1>3. OriginDecided' /\ UsedIsGone' /\ OncePerApproval'
  BY <1>1 DEF SerialInv, OriginDecided, Decided, UsedIsGone, Carried, OncePerApproval, Used
<1>4. TopIsAsked' /\ QuestionIsLast' /\ PerformsLastAsk'
  <2>1. \A j : LastAsk(j)' = LastAsk(j)
    BY <1>1 DEF LastAsk, Top
  <2>2. Latest' = Latest
    BY <1>1 DEF Latest, LastAsk, Top
  <2> QED
    BY <1>1, <2>1, <2>2 DEF SerialInv, TopIsAsked, Offering, QuestionIsLast, PerformsLastAsk
<1>5. OnlyTheHandoffIsLeft' /\ OnlyHandedOver'
  BY <1>1 DEF SerialInv, OnlyTheHandoffIsLeft, OnlyHandedOver, Busy
<1>6. MemoryFollows'
  BY <1>1 DEF SerialInv, MemoryFollows, CurrentMemory, Busy, Work, TicketsOf
<1> QED
  BY <1>2, <1>3, <1>4, <1>5, <1>6 DEF SerialInv

LEMMA SerialInvKept ==
    ASSUME Types, SerialInv, MaxInFlight = 1, [Next]_vars, faults' = 0 PROVE SerialInv'
<1>1. ClaimInv /\ NothingSaid
  BY DEF SerialInv, ClaimInv
<1>2. ClaimInv' /\ inherited' = inherited
  BY <1>1, ClaimInvKept, InheritedStays DEF EnvMoves
<1> QED
  BY <1>1, <1>2, KindIs, SerialStep, SerialStays

LEMMA SerialInit == Init => SerialInv
<1> SUFFICES ASSUME Init PROVE SerialInv
  OBVIOUS
<1>1. /\ meta.stack = inherited.stack /\ tickets = <<>> /\ messages = <<>>
      /\ status = "active" /\ \A t \in Turns : pc[t] = "idle"
      /\ memory = IF customer = None THEN None ELSE Work(meta, customer, {})
  BY DEF Init, NoMeta
<1>8. /\ IsInjective(inherited.stack)
      /\ \A a \in ToSet(inherited.stack) : a.from \in Earlier
      /\ Turns \cap Earlier = {}
  BY StartIs, ConversationAssumption DEF ConversationAssumption, Init
<1>2. \A t \in Turns : Certain(t)
  BY <1>1 DEF Certain, Undecided, Acting, Performing
<1>3. OneAtATime /\ OnlyTheHandoffIsLeft /\ OnlyHandedOver
  BY <1>1 DEF OneAtATime, Busy, Over, OnlyTheHandoffIsLeft, OnlyHandedOver
<1>4. IsInjective(meta.stack) /\ \A a : ~Used(a)
  BY <1>1, <1>8 DEF Used
<1>5. OriginDecided /\ UsedIsGone /\ QuestionIsLast /\ PerformsLastAsk
  BY <1>1, <1>4, <1>8 DEF OriginDecided, Decided, UsedIsGone, QuestionIsLast, Acting,
                          PerformsLastAsk
<1>9. TopIsAsked
  <2>1. Len(messages) = 0
    BY <1>1
  <2>2. {i \in 1..Len(messages) : messages[i].offer \notin {None, Unbacked}} = {}
    BY <2>1
  <2>3. Latest = Top(inherited.stack)
    BY <2>2, Zenon DEF Latest, LastAsk
  <2> QED
    BY <1>1, <2>3 DEF TopIsAsked, Top
<1>6. OncePerApproval
  BY <1>1 DEF OncePerApproval
<1>7. MemoryFollows
  <2>1. TicketsOf(customer) = {}
    BY <1>1 DEF TicketsOf
  <2>2. CurrentMemory
    BY <1>1, <2>1 DEF CurrentMemory
  <2> QED
    BY <1>1, <2>2 DEF MemoryFollows
<1> QED
  BY <1>2, <1>3, <1>5, <1>6, <1>7, <1>9, ClaimInit DEF SerialInv

LEMMA SerialHolds == ASSUME MaxInFlight = 1 PROVE Spec => [](faults = 0 => SerialInv)
<1>1. ASSUME Types, faults = 0 => SerialInv, [Next]_vars PROVE (faults = 0 => SerialInv)'
  BY <1>1, SerialInvKept, FaultlessIs
<1> QED
  BY <1>1, Typing, SerialInit, PTL DEF Spec

\* Of turns that run one at a time, none carries an approval out a second time.
THEOREM ApprovalsAreUsedOnce ==
    ASSUME MaxInFlight = 1 PROVE Spec => [](faults = 0 => OncePerApproval)
<1>1. SerialInv => OncePerApproval
  BY DEF SerialInv
<1> QED
  BY <1>1, SerialHolds, PTL

\* What such turns carry out on a yes is the approval the agent had named last
\* when the customer wrote that yes; if it had named none yet, the one on top of
\* what the session took over from earlier ones.
THEOREM PerformedWasAskedLast ==
    ASSUME MaxInFlight = 1 PROVE Spec => [](faults = 0 => PerformsLastAsk)
<1>1. SerialInv => PerformsLastAsk
  BY DEF SerialInv
<1> QED
  BY <1>1, SerialHolds, PTL

\* Between such turns the approval a yes would carry out is the one the agent
\* named last, in this session or before; offers of a person for which no approval
\* was queued name none, and so do not change what a yes means.
THEOREM YesIsUnderstood ==
    ASSUME MaxInFlight = 1 PROVE Spec => [](faults = 0 => YesMeansLastAsk)
<1>1. ASSUME SerialInv, AtRest, meta.stack # <<>> PROVE Head(meta.stack) = LastAsk(Len(messages))
  <2>1. ~Offering(Head(meta.stack))
    BY <1>1 DEF AtRest, Offering, Busy, Over
  <2> QED
    BY <1>1, <2>1 DEF SerialInv, TopIsAsked, Latest
<1>2. SerialInv => YesMeansLastAsk
  BY <1>1 DEF YesMeansLastAsk
<1> QED
  BY <1>2, SerialHolds, PTL

\* Between such turns the customer's memory holds the session's open work.
THEOREM MemoryStaysCurrent ==
    ASSUME MaxInFlight = 1 PROVE Spec => [](faults = 0 => MemoryIsCurrent)
<1>1. SerialInv => MemoryIsCurrent
  BY MemoryMeans DEF SerialInv
<1> QED
  BY <1>1, SerialHolds, PTL

-----------------------------------------------------------------------------
(* What a step of such turns may never do *)

\* A step of a session whose turns run one at a time and in which nothing fails.
SerialMove == \E t \in Turns : Alone(t) /\ Kinds(t) /\ Only(t) /\ Certain(t)

LEMMA SerialMoves ==
    ASSUME MaxInFlight = 1, MaxFaults = 0, Types, SerialInv, [Next]_vars
    PROVE  SerialMove \/ (MayEnd /\ Stops) \/ UNCHANGED vars
<1>1. faults' = 0
  <2>1. Types'
    BY TypesKept
  <2>2. faults' \in 0..0
    BY <2>1 DEF Types, EnvTypes
  <2> QED
    BY <2>2
<1>2. NothingSaid /\ OneAtATime /\ \A t \in Turns : Certain(t)
  BY DEF SerialInv, ClaimInv
<1> QED
  BY <1>1, <1>2, KindIs, OnlyOne DEF SerialMove

\* The invariant, of a session in which nothing can fail.
LEMMA SerialAlways ==
    ASSUME MaxInFlight = 1, MaxFaults = 0 PROVE Spec => [](Types /\ SerialInv)
<1>1. Types => faults = 0
  <2> SUFFICES ASSUME Types PROVE faults = 0
    OBVIOUS
  <2>1. faults \in 0..0
    BY DEF Types, EnvTypes
  <2> QED
    BY <2>1
<1> QED
  BY <1>1, Typing, SerialHolds, PTL

\* When turns run one at a time, what a yes performs is the top of the stack.
THEOREM YesTakesTheTop == ASSUME MaxInFlight = 1, MaxFaults = 0 PROVE Spec => YesPerformsTop
<1> DEFINE Right == \A t \in Turns : pc[t] = "open" /\ tickets' # tickets =>
               LET a == tickets'[Len(tickets')].action
               IN  a # None => meta.stack # <<>> /\ SameApproval(Head(meta.stack), a)
<1>1. ASSUME Types, SerialInv, [Next]_vars PROVE [Right]_vars
  <2>1. CASE Stops \/ UNCHANGED vars
    BY <2>1 DEF Stops, vars, rows
  <2>2. ASSUME NEW t \in Turns, Kinds(t), Certain(t) PROVE Right
    <3>1. CASE ~Opens(t)
      <4>1. tickets' = tickets
        BY <1>1, <2>2, <3>1, TailIs DEF Kinds, Enters, Indexes, Asking, GoesOn, Pushes, Pops,
                                        Hands, Clears, Rereads, Answers, rows
      <4> QED
        BY <4>1
    <3>2. CASE Opens(t)
      <4>1. /\ pc[t] = "open" /\ Ticket(t) \in Opened
            /\ tickets' = Append(tickets, Ticket(t))
        BY <1>1, <3>2, TicketOpened DEF Opens, Types
      <4>2. tickets'[Len(tickets')] = Ticket(t)
        BY <1>1, <4>1, TicketAdded DEF Types
      <4>3. Intends(loc[t]) /\ loc[t].meta = meta
        BY <2>2, <4>1 DEF Certain, Undecided, Acting
      <4>4. Ticket(t).action = loc[t].job.action
        BY DEF Ticket
      <4> QED
        BY <4>2, <4>3, <4>4 DEF Intends, SameApproval
    <3> QED
      BY <3>1, <3>2
  <2> QED
    BY <1>1, <2>1, <2>2, SerialMoves DEF SerialMove
<1> QED
  BY <1>1, SerialAlways, PTL DEF Spec, YesPerformsTop

\* When turns run one at a time, the only reply after a handoff is the one that
\* announces it.
THEOREM HandoffIsTheLastWord ==
    ASSUME MaxInFlight = 1, MaxFaults = 0 PROVE Spec => HandoffEndsChat
<1> DEFINE Announced == status = "escalated" /\ messages' # messages =>
               LET new == messages'[Len(messages')]
               IN  new.role = "agent" => new.claim = "handoff"
<1>1. ASSUME Types, SerialInv, [Next]_vars PROVE [Announced]_vars
  <2>1. CASE Stops \/ UNCHANGED vars
    BY <2>1 DEF Stops, vars, rows
  <2>2. ASSUME NEW t \in Turns, Kinds(t), status = "escalated", messages' # messages,
               messages'[Len(messages')].role = "agent"
        PROVE  messages'[Len(messages')].claim = "handoff"
    <3>1. PICK role \in {"customer", "agent"} :
             /\ messages' = Append(messages, Entry(t, role))
             /\ role = "agent" => Answers(t)
      BY <1>1, <2>2, MessageSteps
    <3>2. messages'[Len(messages')] = Entry(t, role)
      BY <1>1, <3>1, EntryIsLine, MessageAdded DEF Types
    <3>3. role = "agent"
      BY <2>2, <3>2 DEF Entry
    <3>4. pc[t] = "say"
      BY <1>1, <3>1, <3>3, KindLabels DEF Answers
    <3>5. loc[t].claim = "handoff"
      BY <1>1, <2>2, <3>4 DEF SerialInv, OnlyTheHandoffIsLeft, Busy, Over, Trailing
    <3> QED
      BY <3>2, <3>5 DEF Entry
  <2> QED
    BY <1>1, <2>1, <2>2, SerialMoves DEF SerialMove
<1> QED
  BY <1>1, SerialAlways, PTL DEF Spec, HandoffEndsChat

\* When turns run one at a time and only a handoff ends the session, an approval
\* leaves the stack declined, carried out, asked again or handed over.
THEOREM ApprovalsAreConserved ==
    ASSUME MaxInFlight = 1, MaxFaults = 0, ~MayEnd PROVE Spec => ApprovalsConserved
<1> DEFINE Why(a) == \/ status = "escalated"
                     \/ \E b \in ToSet(meta'.stack) : SameApproval(a, b)
                     \/ /\ a = Head(meta.stack)
                        /\ \/ \E t \in Turns : Declines(t)
                           \/ \E i \in DOMAIN tickets : tickets[i].action = a
           Kept == \A a \in ToSet(meta.stack) \ ToSet(meta'.stack) : Why(a)
<1>1. ASSUME Types, SerialInv, [Next]_vars PROVE [Kept]_vars
  <2>1. CASE UNCHANGED vars
    BY <2>1
  <2>2. ASSUME NEW t \in Turns, Kinds(t), Certain(t),
               NEW a \in ToSet(meta.stack) \ ToSet(meta'.stack)
        PROVE  Why(a)
    <3>0. meta.stack \in Seq(Asks) /\ a \in Asks
      BY <1>1, <2>2, StackIs, OnTheStack
    <3>1. ASSUME NEW b \in Asks, meta'.stack = Queue(meta.stack, b) PROVE Why(a)
      <4>1. ToSet(Queue(meta.stack, b))
               = {b} \cup {c \in ToSet(meta.stack) : ~SameApproval(b, c)}
        BY <3>0, QueueKeeps
      <4>2. SameApproval(b, a) /\ b \in ToSet(meta'.stack)
        BY <2>2, <3>1, <4>1
      <4> QED
        BY <4>2 DEF SameApproval
    <3>2. CASE Pops(t) /\ meta'.stack = Rest(meta.stack)
      <4>1. a = Head(meta.stack)
        <5>1. meta.stack # <<>>
          BY <2>2 DEF ToSet
        <5> QED
          BY <2>2, <3>0, <3>2, <5>1, RestKeeps
      <4>2. CASE pc[t] = "cancel"
        <5>1. Declines(t)
          BY <3>2, <4>2 DEF Pops, Declines
        <5> QED
          BY <4>1, <5>1
      <4>3. CASE pc[t] = "settle"
        <5>1. /\ loc[t].meta = meta /\ Intends(loc[t]) /\ loc[t].job.by = "approval"
              /\ Used(loc[t].job.action)
          BY <2>2, <4>3 DEF Certain, Undecided, Acting, Performing
        <5>2. Used(a)
          BY <4>1, <5>1 DEF Intends
        <5> QED
          BY <4>1, <5>2 DEF Used
      <4> QED
        BY <3>2, <4>2, <4>3 DEF Pops
    <3>3. CASE Clears(t)
      <4>1. status # "active" /\ status \in {"active", "escalated"}
        BY <1>1, <3>3 DEF SerialInv, ClaimInv, Backed, Clears, OnlyHandedOver
      <4> QED
        BY <4>1
    <3>4. CASE meta'.stack = meta.stack
      BY <2>2, <3>4
    <3> QED
      BY <1>1, <2>2, <3>1, <3>2, <3>3, <3>4, StackIs
  <2> QED
    BY <1>1, <2>1, <2>2, SerialMoves DEF SerialMove
<1> QED
  BY <1>1, SerialAlways, PTL DEF Spec, ApprovalsConserved

-----------------------------------------------------------------------------
(* Who asks for a person.  This needs neither the approvals nor a session   *)
(* without faults, only that turns run one at a time.                       *)

\* A message that asks for a person and answers nothing, ends no topic and is not
\* about something the code looks at before: what the guardrail refuses, a greeting,
\* the state of a ticket.
PlainlyAsks(m) == m.says = "other" /\ ~m.done /\ m.is \cap {"unsafe", "vague", "status"} = {}

Approaching == {"index", "ask", "touch", "topic"}
Escalating  == {"open", "flip", "clear"}

\* The way of such a message: straight to the handoff, or to the reply that asks for
\* a clear answer to the approval on top of the stack.
Attended(t) ==
    Busy(t) /\ "human" \in loc[t].msg.is =>
        /\ pc[t] \in Approaching \cup Escalating \cup {"say"} \cup Trailing
        /\ pc[t] \in Approaching => loc[t].meta = meta
        /\ pc[t] \in Escalating => loc[t].job.tool = "escalate" /\ loc[t].job.by = "customer"
        /\ pc[t] = "say" => \/ loc[t].claim = "handoff"
                            \/ meta.stack # <<>> /\ meta.stack = loc[t].meta.stack

AllAttended == OneAtATime /\ \A t \in Turns : Attended(t)

\* Of the branches of _answer only two are open to it.
LEMMA PersonBranch ==
    ASSUME NEW m, NEW md, NEW c, "human" \in m.is, PlainlyAsks(m)
    PROVE  \/ Branch(m, md, c) = "handoff"
           \/ Branch(m, md, c) = "plain" /\ md.stack # <<>>
<1>1. "vague" \notin m.is /\ "status" \notin m.is /\ m.says # "no" /\ m.says # "yes"
  BY DEF PlainlyAsks
<1> QED
  BY <1>1, Zenon DEF Branch

LEMMA RouteAttends ==
    ASSUME TurnTypes, NEW t \in Turns, "human" \in loc[t].msg.is, PlainlyAsks(loc[t].msg),
           NEW md \in Metas, Route(t, md), md = meta'
    PROVE  Attended(t)'
<1> DEFINE l == [loc[t] EXCEPT !.meta = md]
           k == [l EXCEPT !.job = Job("escalate", "customer", None)]
           b == Branch(loc[t].msg, md, l.customer)
<1>1. l.meta = md /\ l \in Locals
  BY LocalParts DEF Locals
<1>2. k.job.tool = "escalate" /\ k.job.by = "customer"
  <2> HIDE DEF l
  <2> QED
    BY <1>1 DEF Locals, Job
<1>3. (b = "plain" => Go(t, "say", l)) /\ (b = "handoff" => Go(t, "open", k))
  <2>1. CASE b = "plain"
    BY <2>1 DEF Route
  <2>2. CASE b = "handoff"
    BY <2>2 DEF Route
  <2> QED
    BY <2>1, <2>2
<1>4. b = "handoff" \/ (b = "plain" /\ md.stack # <<>>)
  BY PersonBranch
<1> HIDE DEF l, k, b
<1>5. CASE b = "handoff"
  <2>1. pc'[t] = "open" /\ loc'[t] = k
    BY <1>3, <1>5, GoHere
  <2> QED
    BY <1>2, <2>1 DEF Attended, Approaching, Escalating
<1>6. CASE b = "plain" /\ md.stack # <<>>
  <2>1. pc'[t] = "say" /\ loc'[t] = l
    BY <1>3, <1>6, GoHere
  <2> QED
    BY <1>1, <1>6, <2>1 DEF Attended, Approaching, Escalating
<1> QED
  BY <1>4, <1>5, <1>6

\* A turn that has gone on to its tail, or is over, has been attended to.
LEMMA AttendedAfter ==
    ASSUME NEW t \in Turns, pc'[t] \in Trailing \cup Over PROVE Attended(t)'
  BY DEF Attended, Busy, Trailing, Over, Approaching, Escalating

\* Other messages do not become requests for a person.
LEMMA OthersStay ==
    ASSUME TurnTypes, NEW t \in Turns, Acts(t), "human" \notin loc[t].msg.is
    PROVE  Attended(t)'
<1>1. PICK label \in Acting, l \in Locals : Moves(t, label, l) /\ l.msg = loc[t].msg
  BY DEF Acts, ActingMove
<1>2. loc'[t].msg = loc[t].msg
  BY <1>1, Elsewhere
<1> QED
  BY <1>2 DEF Attended

LEMMA ArrivalAttended ==
    ASSUME Types, NEW t \in Turns, (\E m \in Messages : Admit(t, m)) \/ ReadIndex(t) \/ Ask(t),
           Attended(t)
    PROVE  Attended(t)'
<1>0. TurnTypes
  BY DEF Types
<1>1. CASE \E m \in Messages : Admit(t, m)
  BY <1>1, EntersIs DEF Enters, rows, Attended, Busy, Over, Approaching, Escalating
<1>2. CASE ReadIndex(t)
  <2> DEFINE l == [loc[t] EXCEPT !.index = NextIndex]
  <2>1. l.msg = loc[t].msg /\ l.meta = loc[t].meta
    BY <1>0, LocalParts DEF Locals
  <2>2. Go(t, "ask", l)
    BY <1>2 DEF ReadIndex
  <2> HIDE DEF l
  <2>3. pc'[t] = "ask" /\ loc'[t] = l
    BY <1>0, <2>2, GoHere
  <2>4. pc[t] = "index" /\ meta' = meta
    BY <1>2 DEF ReadIndex, rows
  <2> QED
    BY <2>1, <2>3, <2>4 DEF Attended, Busy, Over, Approaching, Escalating
<1>3. CASE Ask(t)
  <2>1. pc[t] = "ask" /\ pc'[t] = "touch" /\ loc'[t] = loc[t] /\ meta' = meta
    BY <1>0, <1>3, AskAsking, Elsewhere DEF Asking
  <2> QED
    BY <2>1 DEF Attended, Busy, Over, Approaching, Escalating
<1> QED
  BY <1>1, <1>2, <1>3

\* The step that decides: record_activity and the topics before _answer.
LEMMA DecisionAttended ==
    ASSUME Types, Types', NEW t \in Turns, Touch(t) \/ WriteTopics(t), Attended(t),
           "human" \in loc[t].msg.is, PlainlyAsks(loc[t].msg)
    PROVE  Attended(t)'
<1>a. inherited' = inherited
  BY EnvKept DEF Touch, WriteTopics, EnvMoves
<1>b. Metas' = Metas
  BY <1>a, SameTypes
<1>c. meta' \in Metas'
  BY DEF Types, RowTypes
<1>0. TurnTypes /\ meta \in Metas /\ meta' \in Metas
  BY <1>b, <1>c DEF Types, RowTypes
<1>1. pc[t] \in {"touch", "topic"} /\ loc[t].meta = meta /\ ~Blocked(loc[t].msg)
      /\ ~loc[t].msg.done
  BY DEF Touch, WriteTopics, Attended, Busy, Over, Approaching, PlainlyAsks, Blocked
<1>2. CASE Touch(t)
  <2>1. meta' = meta
    BY <1>2 DEF Touch, rows
  <2>2. CASE Goto(t, "topic") /\ UNCHANGED loc
    <3>1. pc'[t] = "topic" /\ loc' = loc
      BY <1>0, <2>2, StayHere
    <3> QED
      BY <1>1, <2>1, <3>1 DEF Attended, Approaching, Escalating
  <2>3. CASE Route(t, loc[t].meta)
    <3>1. PICK md \in Metas : md = loc[t].meta
      BY <1>0, <1>1
    <3> QED
      BY <1>0, <1>1, <2>1, <2>3, <3>1, RouteAttends
  <2> QED
    BY <1>1, <1>2, <2>2, <2>3 DEF Touch
<1>3. CASE WriteTopics(t)
  <2>1. PICK md \in Metas : md = meta'
    BY <1>0
  <2>2. Route(t, meta')
    BY <1>1, <1>3 DEF WriteTopics, Finishes
  <2>3. Route(t, md)
    BY <2>1, <2>2
  <2> QED
    BY <1>0, <2>1, <2>3, RouteAttends
<1> QED
  BY <1>2, <1>3

\* The handoff itself, statement by statement.
LEMMA HandoffAttended ==
    ASSUME Types, NEW t \in Turns, OpenTicket(t) \/ Flip(t) \/ ClearStack(t), Attended(t),
           "human" \in loc[t].msg.is
    PROVE  Attended(t)'
<1>1. Busy(t) /\ pc[t] \in Escalating
  BY DEF OpenTicket, Flip, ClearStack, Busy, Over, Escalating
<1>2. loc[t].job.tool = "escalate" /\ loc[t].job.by = "customer"
  BY <1>1 DEF Attended
<1>3. CASE OpenTicket(t)
  <2>1. pc'[t] = "flip" /\ loc'[t] = loc[t]
    BY <1>2, <1>3, OpensIs DEF Opens
  <2> QED
    BY <1>2, <2>1 DEF Attended, Approaching, Escalating
<1>4. CASE Flip(t)
  <2>1. pc'[t] = "clear" /\ loc'[t] = loc[t]
    BY <1>4, StayHere DEF Flip, Types
  <2> QED
    BY <1>2, <2>1 DEF Attended, Approaching, Escalating
<1>5. CASE ClearStack(t)
  <2>1. pc'[t] = "say" /\ loc'[t].claim = "handoff"
    BY <1>5, SayHere DEF ClearStack, Types
  <2> QED
    BY <2>1 DEF Attended, Approaching, Escalating
<1> QED
  BY <1>3, <1>4, <1>5

\* A database error on the way fails the request or leads on to the handoff.
LEMMA FaultAttended ==
    ASSUME Types, NEW t \in Turns, Fault(t), Attended(t) PROVE Attended(t)'
<1>0. TurnTypes /\ Busy(t) /\ Raise(t)
  BY DEF Types, Fault
<1>1. CASE Trails(t) \/ Ends(t)
  <2>1. PICK label \in Trailing \cup Over : \E l : Moves(t, label, l)
    BY <1>1 DEF Trails, Ends, Over
  <2> QED
    BY <1>0, <2>1, Elsewhere, AttendedAfter
<1>2. CASE Acts(t) /\ "human" \notin loc[t].msg.is
  BY <1>0, <1>2, OthersStay
<1>3. CASE Acts(t) /\ "human" \in loc[t].msg.is
  <2>1. /\ pc[t] \in Approaching \cup Escalating \cup {"say"} \cup Trailing
        /\ pc[t] \in Escalating => loc[t].job.tool = "escalate" /\ loc[t].job.by = "customer"
    BY <1>0, <1>3 DEF Attended
  <2>2. CASE pc[t] \in {"open", "flip"}
    <3>1. Goto(t, "clear") /\ UNCHANGED loc
      BY <1>0, <2>1, <2>2 DEF Raise, Escalating
    <3>2. pc'[t] = "clear" /\ loc' = loc
      BY <1>0, <3>1, StayHere
    <3> QED
      BY <2>1, <2>2, <3>2 DEF Attended, Approaching, Escalating
  <2>3. CASE pc[t] \in Approaching \cup {"clear", "say"}
    <3>1. End(t, "failed")
      BY <1>0, <2>1, <2>3 DEF Raise, Approaching, Escalating
    <3>2. pc'[t] = "failed"
      BY <1>0, <3>1, GoHere DEF End
    <3> QED
      BY <3>2, AttendedAfter DEF Over
  <2>4. pc[t] \notin Trailing
    BY <1>3 DEF Acts, Acting, Trailing
  <2> QED
    BY <2>1, <2>2, <2>3, <2>4 DEF Escalating
<1> QED
  BY <1>1, <1>2, <1>3, FaultIs

\* The statements a turn with such a message never comes to.
Beside(t) ==
    \/ Cancel(t) \/ OfferHandoff(t) \/ ReadLatest(t) \/ Settle(t)
    \/ Lookup(t) \/ AttachFound(t) \/ MergeKnown(t) \/ AskIdentity(t) \/ SearchSlack(t)
    \/ Recall(t) \/ Search(t) \/ OfferTicket(t)
    \/ Unconfigured(t) \/ Think(t) \/ GiveUp(t) \/ Call(t) \/ Outage(t)
    \/ ReadFailures(t) \/ CountFailure(t)

LEMMA BesideIs ==
    ASSUME Types, NEW t \in Turns, Beside(t)
    PROVE  /\ pc[t] \in Acting \ (Approaching \cup Escalating \cup {"say"} \cup Trailing)
           /\ Acts(t)
<1>1. pc[t] \in {"cancel", "offer", "latest", "settle", "lookup", "attach", "known", "wantid",
                 "slack", "recall", "search", "suggest", "think", "call", "relapse", "blame"}
  BY DEF Beside, Cancel, OfferHandoff, ReadLatest, Settle, Lookup, AttachFound, MergeKnown,
         AskIdentity, SearchSlack, Recall, Search, OfferTicket, Unconfigured, Think, Thinks,
         GiveUp, Call, Outage, ReadFailures, CountFailure
<1>2. pc[t] \in Acting \ (Approaching \cup Escalating \cup {"say"} \cup Trailing)
  BY <1>1 DEF Acting, Approaching, Escalating, Trailing
<1>3. CASE Cancel(t) \/ OfferHandoff(t) \/ ReadLatest(t) \/ Settle(t)
  BY <1>2, <1>3, CancelActs, OfferActs, RereadActs, SettleActs
<1>4. CASE Lookup(t) \/ AttachFound(t) \/ MergeKnown(t) \/ AskIdentity(t) \/ SearchSlack(t)
           \/ Recall(t) \/ Search(t) \/ OfferTicket(t)
  BY <1>2, <1>4, LookupActs, AttachActs, IdentityActs, SearchSlackActs, RetrievalActs,
     OfferActs
<1>5. CASE Unconfigured(t) \/ Think(t) \/ GiveUp(t) \/ Call(t) \/ Outage(t)
           \/ ReadFailures(t) \/ CountFailure(t)
  BY <1>2, <1>5, ThinkActs, CallActs, OutageActs, RereadActs, CountFailureActs
<1> QED
  BY <1>3, <1>4, <1>5 DEF Beside

LEMMA BesideAttended ==
    ASSUME Types, NEW t \in Turns, Beside(t), Attended(t) PROVE Attended(t)'
<1>1. /\ pc[t] \in Acting \ (Approaching \cup Escalating \cup {"say"} \cup Trailing)
      /\ Acts(t)
  BY BesideIs
<1>2. "human" \notin loc[t].msg.is
  <2>1. Busy(t)
    BY <1>1 DEF Busy, Over, Acting
  <2> QED
    BY <1>1, <2>1 DEF Attended
<1> QED
  BY <1>1, <1>2, OthersStay DEF Types

\* A turn by itself keeps to the way.
LEMMA OwnAttended ==
    ASSUME Types, Types', NEW t \in Turns, Attended(t),
           \A m \in Messages : "human" \in m.is => PlainlyAsks(m),
           Step(t) \/ (\E m \in Messages : Admit(t, m)) \/ Outage(t) \/ Fault(t)
    PROVE  Attended(t)'
<1>1. CASE (\E m \in Messages : Admit(t, m)) \/ ReadIndex(t) \/ Ask(t)
  BY <1>1, ArrivalAttended
<1>2. CASE Touch(t) \/ WriteTopics(t) \/ OpenTicket(t) \/ Flip(t) \/ ClearStack(t)
  <2>1. Acts(t) /\ pc[t] \in Acting
    BY <1>2, TouchActs, WriteTopicsActs, OpenTicketActs, FlipActs, ClearStackActs DEF Acts
  <2>2. CASE "human" \notin loc[t].msg.is
    BY <2>1, <2>2, OthersStay DEF Types
  <2>3. CASE "human" \in loc[t].msg.is
    <3>1. loc[t].msg \in Messages
      BY <2>1, LocalParts DEF Types, Acting, Busy, Over
    <3>2. PlainlyAsks(loc[t].msg)
      BY <2>3, <3>1
    <3> QED
      BY <1>2, <2>3, <3>2, DecisionAttended, HandoffAttended
  <2> QED
    BY <2>2, <2>3
<1>3. CASE Beside(t)
  BY <1>3, BesideAttended
<1>4. CASE Reply(t)
  <2>1. pc'[t] = "refresh"
    BY <1>4, ReplyAnswers, Elsewhere DEF Answers, Types
  <2> QED
    BY <2>1, AttendedAfter DEF Trailing
<1>5. CASE Tails(t)
  BY <1>5, TailIs, AttendedAfter DEF Over
<1>6. CASE Fault(t)
  BY <1>6, FaultAttended
<1> QED
  BY <1>1, <1>2, <1>3, <1>4, <1>5, <1>6 DEF Step, Beside, Tails

LEMMA AttendedKept ==
    ASSUME Types, AllAttended, [Next]_vars, MaxInFlight = 1,
           \A m \in Messages : "human" \in m.is => PlainlyAsks(m)
    PROVE  AllAttended'
<1>0. Types' /\ TurnTypes
  BY TypesKept DEF Types
<1>1. ASSUME NEW t \in Turns,
             Step(t) \/ (\E m \in Messages : Admit(t, m)) \/ Outage(t) \/ Fault(t)
      PROVE  AllAttended'
  <2>1. Alone(t)
    BY <1>0, <1>1, OwnStepIs, AloneIs
  <2>2. Busy(t) \/ Cardinality({u \in Turns : Busy(u)}) < MaxInFlight
    <3>1. CASE \E m \in Messages : Admit(t, m)
      BY <3>1 DEF Admit
    <3>2. CASE Step(t) \/ Outage(t) \/ Fault(t)
      <4>1. pc[t] \notin Over
        BY <3>2 DEF Step, Outage, Fault, Busy, Over,
           ReadIndex, Ask, Touch, WriteTopics, Cancel, OfferHandoff, OpenTicket, Flip,
           ClearStack, ReadLatest, Settle, Lookup, AttachFound, MergeKnown, AskIdentity,
           SearchSlack, Recall, Search, OfferTicket, Unconfigured, Think, Thinks, GiveUp, Call,
           ReadFailures, CountFailure, Reply, ReadWork, ReadTickets, StoreWork, SaveTrace, Gauge
      <4> QED
        BY <4>1 DEF Busy
    <3> QED
      BY <1>1, <3>1, <3>2
  <2>3. Only(t)
    BY <2>1, <2>2, OnlyOwn DEF AllAttended
  <2>4. Attended(t)'
    BY <1>0, <1>1, OwnAttended DEF AllAttended
  <2>5. ASSUME NEW u \in Turns \ {t} PROVE Attended(u)'
    BY <2>3, AttendedAfter DEF Only
  <2> QED
    BY <2>3, <2>4, <2>5, StillOne DEF AllAttended
<1>2. CASE Crash
  <2>1. \A t \in Turns : pc'[t] \in Over
    BY <1>2 DEF Crash, Busy, Over
  <2> QED
    BY <2>1, AttendedAfter DEF AllAttended, OneAtATime, Busy
<1>3. CASE EndSession
  BY <1>3 DEF EndSession, AllAttended, OneAtATime, Attended, Busy
<1>4. CASE UNCHANGED vars
  BY <1>4 DEF vars, rows, AllAttended, OneAtATime, Attended, Busy
<1> QED
  BY <1>1, <1>2, <1>3, <1>4 DEF Next

\* When turns run one at a time, whatever fails on the way: a request for a person is
\* answered by the handoff, or it finds an approval pending and leaves it as it was.
\* What is assumed of the messages is needed: a request that also answers the pending
\* approval, ends a topic, greets or asks for a ticket's state is taken for that.
THEOREM PersonIsReached ==
    ASSUME MaxInFlight = 1, \A m \in Messages : "human" \in m.is => PlainlyAsks(m)
    PROVE  Spec => []PersonOnRequest
<1>1. Init => AllAttended
  BY DEF Init, AllAttended, OneAtATime, Attended, Busy, Over
<1>2. Types /\ AllAttended /\ [Next]_vars => AllAttended'
  BY AttendedKept
<1>3. AllAttended => PersonOnRequest
  BY DEF AllAttended, Attended, PersonOnRequest, Busy, Over, Approaching, Escalating
<1> QED
  BY <1>1, <1>2, <1>3, Typing, PTL DEF Spec
=============================================================================
