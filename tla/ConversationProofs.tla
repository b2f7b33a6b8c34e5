------------------------- MODULE ConversationProofs -------------------------
(* Proofs about the turns of a session, for any number of turns, messages  *)
(* and customers, whatever overlaps, fails or crashes.                     *)
EXTENDS ConversationProperties, ApprovalsProofs

(* The labels of a turn, in the order it passes them *)

Acting == {"touch", "topic", "cancel", "offer", "open", "flip", "clear", "latest",
           "settle", "lookup", "attach", "known", "wantid", "slack", "recall",
           "search", "suggest", "think", "call", "relapse", "blame", "say"}
Trailing == {"refresh", "gather", "store", "trace", "gauge"}
Labels == Over \cup {"index", "ask"} \cup Acting \cup Trailing

-----------------------------------------------------------------------------
(* Types.  The topics a row or a snapshot holds are proper or still those   *)
(* the session started with: that is what keeps them sound, because every   *)
(* turn writes the ones it holds.                                           *)

Held(topics) == Waiting(topics) /\ (topics = inherited.topics \/ Proper(topics))

Metas == [stack : Seq(Asks), topics : {x \in TopicStates(TopicNames) : Held(x)},
          lookup : BOOLEAN, failures : Nat]

Tools  == {"create", "escalate"}
Jobs   == [tool : Tools \cup {"none", "lookup"},
           by : {"none", "approval", "customer", "model"}, action : Asks \cup {None}]
Works  == [stack : Seq(Asks), topics : Seq(TopicNames), customer : Customers,
           open : SUBSET Nat]
Claims == {"none", "ticket", "handoff"}
Offers == Asks \cup {None, Unbacked}

Locals == [msg : Messages \cup {None}, index : Nat, customer : Customers \cup {None},
           meta : Metas, job : Jobs, calls : 0..MaxCalls, rounds : 0..MaxIterations,
           found : Customers \cup {None}, claim : Claims, offer : Offers,
           tasks : Works \cup {None}]

Lines == [turn : Turns, index : Nat, role : {"customer", "agent"}, claim : Claims,
          offer : Offers]
Opened == [turn : Turns, tool : Tools, by : {"approval", "customer", "model"},
           action : Asks \cup {None}, customer : Customers \cup {None}]

RowTypes ==
    /\ status \in {"active", "expired", "escalated", "closed"}
    /\ customer \in Customers \cup {None}
    /\ meta \in Metas
    /\ messages \in Seq(Lines)
    /\ tickets \in Seq(Opened)
    /\ memory \in Works \cup {None}
    /\ traces \subseteq Turns
EnvTypes == inherited \in Starts /\ faults \in 0..MaxFaults /\ outages \in 0..MaxOutages

\* No step changes what the session started with.
EnvMoves == inherited' = inherited /\ EnvTypes'

\* The locals a turn has at a label.
Fits(label, l) ==
    /\ label \in Over => l = NoLoc
    /\ label \notin Over => l.msg \in Messages
    /\ label \in {"index", "ask", "touch", "topic", "lookup"} => l.job.by = "none"
    /\ label = "attach" => l.found \in Customers
    /\ label \in {"gather", "store"} => l.tasks \in Works
    /\ label = "call" => l.calls # 0
    /\ label \in {"attach", "open", "flip"} /\ l.job.by = "model" => l.calls # 0
    /\ label \in {"open", "flip"} => l.job.tool \in Tools /\ l.job.by # "none"
    /\ label = "open" /\ l.job.by = "approval" => l.job.action \in Asks
    /\ label \in {"latest", "settle"} => l.job.action \in Asks
TurnTypes ==
    /\ pc \in [Turns -> Labels] /\ loc \in [Turns -> Locals]
    /\ \A t \in Turns : Fits(pc[t], loc[t])

Types == RowTypes /\ EnvTypes /\ TurnTypes

-----------------------------------------------------------------------------
(* The transcript *)

\* A turn that acts has its question in the transcript under its index, and
\* only a turn past its reply has one.
QuestionFirst ==
    \A t \in Turns :
        /\ pc[t] \in Acting => \E i \in DOMAIN messages :
               /\ messages[i].turn = t /\ messages[i].role = "customer"
               /\ messages[i].index = loc[t].index
        /\ pc[t] \in Acting \cup {"idle", "index", "ask", "rejected"} => ~Answered(t)

TranscriptInv == QuestionFirst /\ ReplyFollowsQuestion /\ ActsOnTranscript

-----------------------------------------------------------------------------
(* What one step of a turn may do.  Every action of Conversation is one of  *)
(* these few, and the proofs about the transcript read only them.           *)

Moves(t, label, l) == pc' = [pc EXCEPT ![t] = label] /\ loc' = [loc EXCEPT ![t] = l]

\* A move between the labels of a turn that acts: it keeps the turn's message and index
\* and spends at most one round of the budget.
ActingMove(t) ==
    \E label \in Acting, l \in Locals :
        /\ Moves(t, label, l) /\ Fits(label, l)
        /\ l.msg = loc[t].msg /\ l.index = loc[t].index
        /\ \/ l.rounds = loc[t].rounds
           \/ loc[t].rounds < MaxIterations /\ l.rounds = loc[t].rounds + 1

Arrives(t) ==
    /\ pc[t] = "idle"
    /\ \/ Moves(t, "rejected", loc[t])
       \/ \E l \in Locals : Moves(t, "index", l) /\ Fits("index", l) /\ l.rounds = 0
    /\ UNCHANGED <<rows, env>>

Numbers(t) ==
    /\ pc[t] = "index"
    /\ \E l \in Locals : Moves(t, "ask", l) /\ Fits("ask", l) /\ l.rounds = loc[t].rounds
    /\ UNCHANGED <<rows, env>>

Asking(t) ==
    /\ pc[t] = "ask"
    /\ Moves(t, "touch", loc[t]) /\ Fits("touch", loc[t])
    /\ messages' = Append(messages, Entry(t, "customer"))
    /\ UNCHANGED <<status, customer, meta, tickets, memory, traces, env>>

Acts(t) ==
    /\ pc[t] \in Acting
    /\ ActingMove(t)
    /\ status' \in {status, "escalated"}
    /\ customer' \in Customers \cup {None}
    /\ meta' \in Metas
    /\ \/ tickets' = tickets
       \/ pc[t] = "open" /\ tickets' = Append(tickets, Ticket(t))
    /\ UNCHANGED <<messages, memory, traces>>
    /\ EnvMoves

Answers(t) ==
    /\ pc[t] = "say"
    /\ Moves(t, "refresh", loc[t]) /\ Fits("refresh", loc[t])
    /\ messages' = Append(messages, Entry(t, "agent"))
    /\ UNCHANGED <<status, customer, meta, tickets, memory, traces, env>>

Trails(t) ==
    /\ pc[t] \in Trailing
    /\ \E label \in Trailing, l \in Locals :
          Moves(t, label, l) /\ Fits(label, l) /\ l.rounds = loc[t].rounds
    /\ memory' \in Works \cup {None} /\ traces' \subseteq Turns
    /\ UNCHANGED <<status, customer, meta, messages, tickets>>
    /\ EnvMoves

Ends(t) ==
    /\ Busy(t)
    /\ \/ pc[t] = "gauge" /\ Moves(t, "done", NoLoc)
       \/ pc[t] \notin Trailing \ {"gauge"} /\ Moves(t, "failed", NoLoc)
    /\ UNCHANGED rows
    /\ EnvMoves

-----------------------------------------------------------------------------
(* Facts about the types *)

\* A turn that is not running holds an empty stack, no topics and no failures.
LEMMA EmptyMeta == NoMeta \in Metas
<1>1. /\ [current |-> NoTopic, parked |-> <<>>] \in TopicStates(TopicNames)
      /\ Held([current |-> NoTopic, parked |-> <<>>])
  BY DEF TopicStates, Held, Waiting, Proper, SoundTopics, WaitOnce, ToSet, IsInjective
<1>2. 0 \in Nat /\ FALSE \in BOOLEAN /\ <<>> \in Seq(Asks)
  OBVIOUS
<1> HIDE DEF Asks, Held, TopicStates, TopicNames
<1> QED
  BY <1>1, <1>2 DEF NoMeta, Metas

\* A turn that is not running has locals of the same type.
LEMMA EmptyLocals == NoLoc \in Locals /\ NoLoc.rounds = 0
<1>1. 0 \in 0..MaxCalls /\ 0 \in 0..MaxIterations /\ 0 \in Nat
  BY ConversationAssumption DEF ConversationAssumption
<1>2. NoJob \in Jobs
  BY DEF NoJob, Jobs
<1> QED
  BY <1>1, <1>2, EmptyMeta DEF NoLoc, Locals, Claims, Offers

LEMMA BranchIs ==
    ASSUME NEW m, NEW md, NEW c
    PROVE  /\ Branch(m, md, c) \in {"plain", "cancel", "approve", "handoff", "offer",
                                    "file", "lookup", "wantid", "recall"}
           /\ Branch(m, md, c) \in {"cancel", "approve"} => md.stack # <<>>
  BY Zenon DEF Branch

\* What the turn holds of a row, and the approvals on it.
LEMMA MetaParts ==
    ASSUME NEW md \in Metas
    PROVE  /\ md.stack \in Seq(Asks) /\ md.topics \in TopicStates(TopicNames)
           /\ Held(md.topics) /\ md.failures \in Nat
           /\ md.topics.current \in TopicNames \cup {NoTopic}
           /\ md.stack # <<>> => Head(md.stack) \in Asks
<1>1. /\ md.stack \in Seq(Asks) /\ md.failures \in Nat
      /\ md.topics \in {x \in TopicStates(TopicNames) : Held(x)}
  BY DEF Metas
<1>2. md.stack # <<>> => Head(md.stack) \in Asks
  BY <1>1
<1>3. md.topics.current \in TopicNames \cup {NoTopic}
  BY <1>1 DEF TopicStates
<1> QED
  BY <1>1, <1>2, <1>3

\* The locals of a turn in flight.
LEMMA LocalParts ==
    ASSUME TurnTypes, NEW t \in Turns
    PROVE  /\ loc[t] \in Locals /\ Fits(pc[t], loc[t]) /\ pc[t] \in Labels
           /\ loc[t].msg \in Messages \cup {None} /\ loc[t].index \in Nat
           /\ loc[t].customer \in Customers \cup {None} /\ loc[t].meta \in Metas
           /\ loc[t].job \in Jobs /\ loc[t].calls \in 0..MaxCalls
           /\ loc[t].rounds \in 0..MaxIterations /\ loc[t].found \in Customers \cup {None}
           /\ loc[t].claim \in Claims /\ loc[t].offer \in Offers
           /\ loc[t].tasks \in Works \cup {None}
           /\ Busy(t) => loc[t].msg \in Messages
<1>1. loc[t] \in Locals /\ Fits(pc[t], loc[t]) /\ pc[t] \in Labels
  BY DEF TurnTypes
<1>2. Busy(t) => loc[t].msg \in Messages
  BY <1>1 DEF Fits, Busy
<1> QED
  BY <1>1, <1>2 DEF Locals

-----------------------------------------------------------------------------
(* The moves the actions are made of *)

LEMMA MoveActs ==
    ASSUME NEW t \in Turns, NEW label \in Acting, NEW l \in Locals, Fits(label, l),
           Moves(t, label, l), l.msg = loc[t].msg, l.index = loc[t].index, l.rounds = loc[t].rounds
    PROVE  ActingMove(t)
  BY DEF ActingMove

\* Going on with the locals as they are.
LEMMA StayActs ==
    ASSUME TurnTypes, NEW t \in Turns, NEW label \in Acting, Fits(label, loc[t]),
           Goto(t, label), loc' = loc
    PROVE  ActingMove(t)
<1>1. loc' = [loc EXCEPT ![t] = loc[t]]
  BY DEF TurnTypes
<1> QED
  BY <1>1, LocalParts, MoveActs DEF Goto, Moves

\* Going on with other locals.
LEMMA GoActs ==
    ASSUME NEW t \in Turns, NEW label \in Acting, NEW l \in Locals, Fits(label, l),
           Go(t, label, l), l.msg = loc[t].msg, l.index = loc[t].index, l.rounds = loc[t].rounds
    PROVE  ActingMove(t)
  BY MoveActs DEF Moves, Go, Goto

\* Deciding the reply.
LEMMA SayActs ==
    ASSUME TurnTypes, NEW t \in Turns, Busy(t), NEW claim \in Claims, NEW offer \in Offers,
           Say(t, claim, offer)
    PROVE  ActingMove(t)
<1> DEFINE l == [loc[t] EXCEPT !.claim = claim, !.offer = offer]
<1>1. /\ l \in Locals /\ l.msg = loc[t].msg /\ l.index = loc[t].index
      /\ l.rounds = loc[t].rounds
  BY LocalParts DEF Locals
<1>2. Fits("say", l)
  BY <1>1, LocalParts DEF Fits, Over
<1>3. Go(t, "say", l)
  BY DEF Say
<1> HIDE DEF l
<1> QED
  BY <1>1, <1>2, <1>3, GoActs DEF Acting

LEMMA SayPlainActs ==
    ASSUME TurnTypes, NEW t \in Turns, Busy(t), SayPlain(t) PROVE ActingMove(t)
  BY SayActs DEF SayPlain, Claims, Offers

\* The model's loop goes on.
LEMMA NextCallActs ==
    ASSUME TurnTypes, NEW t \in Turns, Busy(t), loc[t].calls # 0, NextCall(t)
    PROVE  ActingMove(t)
<1> DEFINE l == [loc[t] EXCEPT !.calls = @ - 1, !.job = NoJob]
           label == IF loc[t].calls > 1 THEN "call" ELSE "think"
<1>1. loc[t].calls \in Nat /\ loc[t].calls - 1 \in 0..MaxCalls /\ NoJob \in Jobs
  <2>1. MaxCalls \in Nat
    BY ConversationAssumption DEF ConversationAssumption
  <2>2. NoJob \in Jobs
    BY DEF NoJob, Jobs
  <2> QED
    BY <2>1, <2>2, LocalParts
<1>2. /\ l \in Locals /\ l.msg = loc[t].msg /\ l.index = loc[t].index
      /\ l.rounds = loc[t].rounds /\ l.calls = loc[t].calls - 1
  BY <1>1, LocalParts DEF Locals
<1>3. label \in {"call", "think"} /\ (label = "call" => loc[t].calls - 1 # 0)
  BY <1>1
<1>4. Go(t, label, l)
  BY DEF NextCall
<1> HIDE DEF l, label
<1>5. Fits(label, l)
  BY <1>2, <1>3, LocalParts DEF Fits, Over
<1> QED
  BY <1>2, <1>3, <1>4, <1>5, GoActs DEF Acting

-----------------------------------------------------------------------------
(* What the actions write into the metadata *)

LEMMA MetaWrites ==
    ASSUME NEW md \in Metas
    PROVE  /\ \A s \in Seq(Asks) : [md EXCEPT !.stack = s] \in Metas
           /\ \A x \in TopicStates(TopicNames) : Held(x) => [md EXCEPT !.topics = x] \in Metas
           /\ \A b \in BOOLEAN : [md EXCEPT !.lookup = b] \in Metas
           /\ \A n \in Nat : [md EXCEPT !.failures = n] \in Metas
<1> DEFINE T == {x \in TopicStates(TopicNames) : Held(x)}
           M == [stack : Seq(Asks), topics : T, lookup : BOOLEAN, failures : Nat]
<1>1. Metas = M
  BY DEF Metas
<1>2. \A x \in TopicStates(TopicNames) : Held(x) => x \in T
  OBVIOUS
<1> HIDE DEF T
<1>3. \A s \in Seq(Asks) : [md EXCEPT !.stack = s] \in M
  BY <1>1
<1>4. \A x \in T : [md EXCEPT !.topics = x] \in M
  BY <1>1
<1>5. \A b \in BOOLEAN : [md EXCEPT !.lookup = b] \in M
  BY <1>1
<1>6. \A n \in Nat : [md EXCEPT !.failures = n] \in M
  BY <1>1
<1> HIDE DEF M
<1> QED
  BY <1>1, <1>2, <1>3, <1>4, <1>5, <1>6

LEMMA ProperIsHeld ==
    ASSUME NEW topics, Proper(topics) PROVE Held(topics)
  BY DEF Held, Waiting, Proper, SoundTopics

\* The topics after a message are proper, or what they were before it.
LEMMA TopicsHeld ==
    ASSUME NEW m \in Messages, NEW topics \in TopicStates(TopicNames), Held(topics)
    PROVE  Topics(m, topics) \in TopicStates(TopicNames) /\ Held(Topics(m, topics))
<1>1. m.topic \in TopicNames /\ Waiting(topics)
  BY DEF TopicNames, Held
<1>2. CASE m.done /\ topics.current # NoTopic
  BY <1>1, <1>2, ResumeSound, ProperIsHeld DEF Topics
<1>3. CASE ~(m.done /\ topics.current # NoTopic) /\ m.topic # NoTopic
  <2>1. Topics(m, topics) = Shift(topics, m.topic)
    BY <1>3 DEF Topics
  <2> QED
    BY <1>1, <1>3, <2>1, ShiftSound, ProperIsHeld
<1>4. CASE ~(m.done /\ topics.current # NoTopic) /\ m.topic = NoTopic
  BY <1>4 DEF Topics
<1> QED
  BY <1>2, <1>3, <1>4

\* An approval for a message of the turn.
LEMMA ApprovalAsks ==
    ASSUME NEW type \in {"escalate", "create_ticket"}, NEW m \in Messages,
           NEW topic \in TopicNames \cup {NoTopic}, NEW t \in Turns
    PROVE  Approval(type, m, topic, t) \in Asks
  BY DEF Approval, Asks

\* A step that writes no row.
LEMMA ReadingActs ==
    ASSUME Types, NEW t \in Turns, pc[t] \in Acting, ActingMove(t), UNCHANGED rows, EnvMoves
    PROVE  Acts(t)
<1>1. /\ UNCHANGED <<status, customer, meta, messages, tickets, memory, traces>>
      /\ customer \in Customers \cup {None} /\ meta \in Metas
  BY DEF rows, Types, RowTypes
<1> QED
  BY <1>1 DEF Acts

\* A step that writes the metadata only.
LEMMA MetaActs ==
    ASSUME Types, NEW t \in Turns, pc[t] \in Acting, ActingMove(t), meta' \in Metas,
           UNCHANGED <<status, customer, messages, tickets, memory, traces, env>>
    PROVE  Acts(t)
<1>1. customer \in Customers \cup {None} /\ EnvTypes
  BY DEF Types, RowTypes
<1>2. EnvMoves
  BY <1>1 DEF env, EnvTypes, EnvMoves
<1> QED
  BY <1>1, <1>2 DEF Acts

-----------------------------------------------------------------------------
(* The actions of a turn that acts *)

\* Where _answer sends the turn.
LEMMA RouteActs ==
    ASSUME TurnTypes, NEW t \in Turns, pc[t] \in {"touch", "topic"}, NEW md \in Metas,
           Route(t, md)
    PROVE  ActingMove(t)
<1> DEFINE l == [loc[t] EXCEPT !.meta = md]
           b == Branch(loc[t].msg, md, l.customer)
           j(tool, by, action) == [l EXCEPT !.job = Job(tool, by, action)]
<1>0. Busy(t) /\ loc[t].job.by = "none"
  BY LocalParts DEF Fits, Busy, Over
<1>1. /\ l \in Locals /\ l.msg \in Messages /\ l.msg = loc[t].msg /\ l.index = loc[t].index
      /\ l.rounds = loc[t].rounds /\ l.job.by = "none"
  BY <1>0, LocalParts DEF Locals
<1>2. \A label \in Acting : Go(t, label, l) /\ label \notin
          {"attach", "call", "open", "flip", "latest", "settle"} => ActingMove(t)
  <2> SUFFICES ASSUME NEW label \in Acting, Go(t, label, l),
                      label \notin {"attach", "call", "open", "flip", "latest", "settle"}
               PROVE  ActingMove(t)
    OBVIOUS
  <2> HIDE DEF l
  <2>1. Fits(label, l)
    BY <1>1 DEF Fits, Over, Acting
  <2> QED
    BY <1>1, <2>1, GoActs
<1>3. ASSUME NEW tool \in Tools, NEW by \in {"approval", "customer"},
             NEW action \in Asks \cup {None}, by = "approval" => action \in Asks,
             Go(t, "open", j(tool, by, action))
      PROVE  ActingMove(t)
  <2>1. /\ Job(tool, by, action) \in Jobs
        /\ Job(tool, by, action).tool = tool /\ Job(tool, by, action).by = by
        /\ Job(tool, by, action).action = action
    BY <1>3 DEF Job, Jobs
  <2> DEFINE k == j(tool, by, action)
  <2>2. /\ k \in Locals /\ k.msg = l.msg /\ k.index = l.index /\ k.rounds = l.rounds
        /\ k.job = Job(tool, by, action)
    <3> HIDE DEF l
    <3> QED
      BY <1>1, <2>1 DEF Locals
  <2> HIDE DEF k, l
  <2>3. Fits("open", k)
    BY <1>1, <1>3, <2>1, <2>2 DEF Fits, Over
  <2> QED
    BY <1>1, <1>3, <2>2, <2>3, GoActs DEF Acting, k
<1>4. /\ b \in {"plain", "cancel", "approve", "handoff", "offer", "file", "lookup",
                "wantid", "recall"}
      /\ b = "approve" => md.stack # <<>>
  BY BranchIs
<1>5. /\ b = "plain" => Go(t, "say", l)
      /\ b = "approve" => Go(t, "open", j(IF Head(md.stack).type = "escalate" THEN "escalate"
                                          ELSE "create", "approval", Head(md.stack)))
      /\ b = "handoff" => Go(t, "open", j("escalate", "customer", None))
      /\ b = "file" => Go(t, "open", j("create", "customer", None))
      /\ b \in {"cancel", "offer", "lookup", "wantid", "recall"} => Go(t, b, l)
  <2> HIDE DEF l
  <2>1. Route(t, md) = LET m == loc[t].msg
                           k == l
                       IN  CASE b = "plain"   -> Go(t, "say", k)
                             [] b = "approve" ->
                                   Go(t, "open", j(IF Head(md.stack).type = "escalate"
                                                   THEN "escalate" ELSE "create",
                                                   "approval", Head(md.stack)))
                             [] b = "handoff" -> Go(t, "open", j("escalate", "customer", None))
                             [] b = "file"    -> Go(t, "open", j("create", "customer", None))
                             [] OTHER         -> Go(t, b, k)
    BY Zenon DEF Route, l
  <2> HIDE DEF b, j
  <2> QED
    BY <2>1, <1>4
<1> HIDE DEF l, b, j
<1>6. CASE b = "approve"
  <2>1. Head(md.stack) \in Asks
    BY <1>4, <1>6, MetaParts
  <2> QED
    BY <1>3, <1>5, <1>6, <2>1 DEF Tools
<1>7. CASE b \in {"handoff", "file"}
  BY <1>3, <1>5, <1>7 DEF Tools
<1>8. CASE b \in {"plain", "cancel", "offer", "lookup", "wantid", "recall"}
  BY <1>2, <1>5, <1>8 DEF Acting
<1> QED
  BY <1>4, <1>6, <1>7, <1>8

LEMMA ActingIsBusy ==
    ASSUME NEW t \in Turns, pc[t] \in Acting PROVE Busy(t)
  BY DEF Acting, Busy, Over

\* The environment's counters stay where they were.
LEMMA EnvKept == ASSUME Types, UNCHANGED env PROVE EnvMoves
  BY DEF Types, EnvTypes, EnvMoves, env

LEMMA TouchActs == ASSUME Types, NEW t \in Turns, Touch(t) PROVE Acts(t)
<1>0. pc[t] = "touch"
  BY DEF Touch
<1>1. pc[t] \in Acting /\ Busy(t) /\ TurnTypes /\ loc[t].meta \in Metas
  BY ActingIsBusy, LocalParts DEF Touch, Acting, Types
<1>2. ActingMove(t)
  <2>1. CASE Blocked(loc[t].msg)
    BY <1>1, <2>1, SayPlainActs DEF Touch
  <2>2. CASE ~Blocked(loc[t].msg) /\ WritesTopics(loc[t].msg, loc[t].meta.topics)
    <3>1. Fits("topic", loc[t])
      BY <1>0, <1>1, LocalParts DEF Fits, Over
    <3> QED
      BY <1>1, <2>2, <3>1, StayActs DEF Touch, Acting
  <2>3. CASE ~Blocked(loc[t].msg) /\ ~WritesTopics(loc[t].msg, loc[t].meta.topics)
    BY <1>0, <1>1, <2>3, RouteActs DEF Touch
  <2> QED
    BY <2>1, <2>2, <2>3
<1> QED
  BY <1>1, <1>2, ReadingActs, EnvKept DEF Touch

LEMMA WriteTopicsActs == ASSUME Types, NEW t \in Turns, WriteTopics(t) PROVE Acts(t)
<1> DEFINE m == loc[t].msg  old == loc[t].meta.topics
<1>1. pc[t] \in Acting /\ Busy(t) /\ TurnTypes /\ m \in Messages /\ meta \in Metas
  BY ActingIsBusy, LocalParts DEF WriteTopics, Acting, Types, RowTypes
<1>2. old \in TopicStates(TopicNames) /\ Held(old)
  BY <1>1, LocalParts, MetaParts
<1>3. meta' \in Metas
  BY <1>1, <1>2, TopicsHeld, MetaWrites DEF WriteTopics
<1>4. ActingMove(t)
  <2>1. CASE Finishes(m, old) /\ old.parked # <<>>
    <3> DEFINE l == [loc[t] EXCEPT !.meta = meta']
    <3>1. /\ l \in Locals /\ l.msg = m /\ l.index = loc[t].index
          /\ l.rounds = loc[t].rounds
      BY <1>1, <1>3, LocalParts DEF Locals
    <3>2. Go(t, "say", l)
      BY <2>1 DEF WriteTopics
    <3> HIDE DEF l, m
    <3>3. Fits("say", l)
      BY <1>1, <3>1 DEF Fits, Over
    <3> QED
      BY <3>1, <3>2, <3>3, GoActs DEF Acting, m
  <2>2. CASE ~(Finishes(m, old) /\ old.parked # <<>>)
    <3>1. Route(t, meta') /\ pc[t] = "topic"
      BY <2>2 DEF WriteTopics
    <3> QED
      BY <1>1, <1>3, <3>1, RouteActs
  <2> QED
    BY <2>1, <2>2
<1> QED
  BY <1>1, <1>3, <1>4, MetaActs DEF WriteTopics

\* Pushing an approval and asking for it.
LEMMA PushActs ==
    ASSUME Types, NEW t \in Turns, pc[t] \in Acting, NEW a \in Asks, Push(t, a)
    PROVE  Acts(t)
<1>1. Busy(t) /\ TurnTypes /\ meta \in Metas /\ loc[t].meta \in Metas
  BY ActingIsBusy, LocalParts DEF Types, RowTypes
<1>2. Queue(loc[t].meta.stack, a) \in Seq(Asks)
  BY <1>1, MetaParts, QueueKeeps
<1>3. meta' \in Metas
  BY <1>1, <1>2, MetaWrites DEF Push
<1>4. ActingMove(t)
  BY <1>1, SayActs DEF Push, Claims, Offers
<1> QED
  BY <1>3, <1>4, MetaActs DEF Push

LEMMA OfferActs ==
    ASSUME Types, NEW t \in Turns, OfferHandoff(t) \/ OfferTicket(t) PROVE Acts(t)
<1>1. pc[t] \in Acting
  BY DEF OfferHandoff, OfferTicket, Acting
<1>2. loc[t].msg \in Messages /\ loc[t].meta.topics.current \in TopicNames \cup {NoTopic}
  BY <1>1, LocalParts, MetaParts, ActingIsBusy DEF Types
<1>3. CASE OfferHandoff(t)
  <2>1. Approval("escalate", loc[t].msg, NoTopic, t) \in Asks
    BY <1>2, ApprovalAsks
  <2> QED
    BY <1>1, <1>3, <2>1, PushActs DEF OfferHandoff
<1>4. CASE OfferTicket(t)
  <2> DEFINE current == loc[t].meta.topics.current
             topic == IF current = NoTopic THEN "export" ELSE current
  <2>1. topic \in TopicNames \cup {NoTopic}
    BY <1>2 DEF TopicNames
  <2>2. Push(t, Approval("create_ticket", loc[t].msg, topic, t))
    BY <1>4 DEF OfferTicket
  <2> HIDE DEF topic
  <2>3. Approval("create_ticket", loc[t].msg, topic, t) \in Asks
    BY <1>2, <2>1, ApprovalAsks
  <2> QED
    BY <1>1, <2>2, <2>3, PushActs
<1> QED
  BY <1>3, <1>4

LEMMA CancelActs == ASSUME Types, NEW t \in Turns, Cancel(t) PROVE Acts(t)
<1> DEFINE rest == Rest(loc[t].meta.stack)
<1>1. /\ pc[t] \in Acting /\ Busy(t) /\ TurnTypes /\ meta \in Metas
      /\ loc[t].meta.stack \in Seq(Asks)
  BY ActingIsBusy, LocalParts, MetaParts DEF Cancel, Acting, Types, RowTypes
<1>2. rest \in Seq(Asks)
  BY <1>1, RestKeeps
<1>3. Top(rest) \in Offers
  BY <1>2 DEF Top, Offers
<1>4. meta' \in Metas
  BY <1>1, <1>2, MetaWrites DEF Cancel
<1>5. Say(t, "none", Top(rest))
  BY DEF Cancel
<1> HIDE DEF rest
<1>6. ActingMove(t)
  BY <1>1, <1>3, <1>5, SayActs DEF Claims
<1> QED
  BY <1>1, <1>4, <1>6, MetaActs DEF Cancel

\* What follows a create_ticket that returned.
LEMMA AfterCreateActs ==
    ASSUME Types, NEW t \in Turns, pc[t] = "open", AfterCreate(t) PROVE ActingMove(t)
<1>1. /\ TurnTypes /\ Busy(t) /\ loc[t].job \in Jobs /\ Fits(pc[t], loc[t])
      /\ loc[t].msg \in Messages
  BY ActingIsBusy, LocalParts DEF Acting, Types
<1>2. loc[t].job.by \in {"approval", "customer", "model"}
  BY <1>1 DEF Jobs, Fits
<1>3. CASE loc[t].job.by = "approval"
  <2>1. Goto(t, "latest") /\ UNCHANGED loc
    BY <1>3 DEF AfterCreate
  <2>2. Fits("latest", loc[t])
    BY <1>1, <1>3 DEF Fits, Over
  <2> QED
    BY <1>1, <2>1, <2>2, StayActs DEF Acting
<1>4. CASE loc[t].job.by = "customer"
  <2>1. Say(t, "ticket", None)
    BY <1>4 DEF AfterCreate
  <2> QED
    BY <1>1, <2>1, SayActs DEF Claims, Offers
<1>5. CASE loc[t].job.by = "model"
  <2>1. NextCall(t)
    BY <1>5 DEF AfterCreate
  <2>2. loc[t].calls # 0
    BY <1>1, <1>5 DEF Fits
  <2> QED
    BY <1>1, <2>1, <2>2, NextCallActs
<1> QED
  BY <1>2, <1>3, <1>4, <1>5

\* The ticket a turn opens.
LEMMA TicketOpened ==
    ASSUME TurnTypes, NEW t \in Turns, pc[t] = "open" PROVE Ticket(t) \in Opened
<1>1. /\ loc[t].job \in Jobs /\ loc[t].customer \in Customers \cup {None}
      /\ loc[t].job.tool \in Tools /\ loc[t].job.by # "none"
  BY LocalParts DEF Fits
<1>2. /\ loc[t].job.by \in {"approval", "customer", "model"}
      /\ loc[t].job.action \in Asks \cup {None}
  BY <1>1 DEF Jobs
<1> QED
  BY <1>1, <1>2 DEF Ticket, Opened

LEMMA OpenTicketActs == ASSUME Types, NEW t \in Turns, OpenTicket(t) PROVE Acts(t)
<1>1. /\ pc[t] = "open" /\ pc[t] \in Acting /\ TurnTypes /\ customer \in Customers \cup {None}
      /\ meta \in Metas /\ Fits(pc[t], loc[t]) /\ loc[t].msg \in Messages
  BY LocalParts, ActingIsBusy DEF OpenTicket, Acting, Types, RowTypes
<1>2. ActingMove(t)
  <2>1. CASE loc[t].job.tool = "escalate"
    <3>1. Goto(t, "flip") /\ UNCHANGED loc
      BY <2>1 DEF OpenTicket
    <3>2. Fits("flip", loc[t])
      BY <1>1 DEF Fits, Over
    <3> QED
      BY <1>1, <3>1, <3>2, StayActs DEF Acting
  <2>2. CASE loc[t].job.tool # "escalate"
    BY <1>1, <2>2, AfterCreateActs DEF OpenTicket
  <2> QED
    BY <2>1, <2>2
<1> QED
  BY <1>1, <1>2, EnvKept DEF Acts, OpenTicket

LEMMA FlipActs == ASSUME Types, NEW t \in Turns, Flip(t) PROVE Acts(t)
<1>1. /\ pc[t] = "flip" /\ pc[t] \in Acting /\ TurnTypes /\ customer \in Customers \cup {None}
      /\ meta \in Metas /\ Fits(pc[t], loc[t]) /\ loc[t].msg \in Messages
  BY LocalParts, ActingIsBusy DEF Flip, Acting, Types, RowTypes
<1>2. Fits("clear", loc[t])
  BY <1>1 DEF Fits, Over
<1>3. ActingMove(t)
  BY <1>1, <1>2, StayActs DEF Flip, Acting
<1> QED
  BY <1>1, <1>3, EnvKept DEF Acts, Flip

LEMMA ClearStackActs == ASSUME Types, NEW t \in Turns, ClearStack(t) PROVE Acts(t)
<1>1. pc[t] \in Acting /\ Busy(t) /\ TurnTypes /\ meta \in Metas
  BY ActingIsBusy DEF ClearStack, Acting, Types, RowTypes
<1>2. meta' \in Metas
  <2>1. <<>> \in Seq(Asks)
    OBVIOUS
  <2> QED
    BY <1>1, <2>1, MetaWrites DEF ClearStack
<1>3. ActingMove(t)
  BY <1>1, SayActs DEF ClearStack, Claims, Offers
<1> QED
  BY <1>1, <1>2, <1>3, MetaActs DEF ClearStack

\* Reading the row afresh.
LEMMA RereadActs ==
    ASSUME Types, NEW t \in Turns, ReadLatest(t) \/ ReadFailures(t) PROVE Acts(t)
<1> DEFINE l == [loc[t] EXCEPT !.meta = meta]
<1>1. /\ pc[t] \in {"latest", "relapse"} /\ pc[t] \in Acting /\ TurnTypes
      /\ loc[t].msg \in Messages /\ Fits(pc[t], loc[t]) /\ meta \in Metas
  BY LocalParts, ActingIsBusy DEF ReadLatest, ReadFailures, Acting, Types, RowTypes
<1>2. /\ l \in Locals /\ l.msg = loc[t].msg /\ l.index = loc[t].index
      /\ l.rounds = loc[t].rounds /\ l.job = loc[t].job
  BY <1>1, LocalParts DEF Locals
<1>3. ActingMove(t)
  <2>1. CASE pc[t] = "latest"
    <3>1. Go(t, "settle", l)
      BY <2>1 DEF ReadLatest, ReadFailures
    <3> HIDE DEF l
    <3>2. Fits("settle", l)
      BY <1>1, <1>2, <2>1 DEF Fits, Over
    <3> QED
      BY <1>2, <3>1, <3>2, GoActs DEF Acting
  <2>2. CASE pc[t] = "relapse"
    <3>1. Go(t, "blame", l)
      BY <2>2 DEF ReadLatest, ReadFailures
    <3> HIDE DEF l
    <3>2. Fits("blame", l)
      BY <1>1, <1>2 DEF Fits, Over
    <3> QED
      BY <1>2, <3>1, <3>2, GoActs DEF Acting
  <2> QED
    BY <1>1, <2>1, <2>2
<1>4. UNCHANGED rows /\ UNCHANGED env
  BY DEF ReadLatest, ReadFailures
<1> QED
  BY <1>1, <1>3, <1>4, ReadingActs, EnvKept

LEMMA SettleActs == ASSUME Types, NEW t \in Turns, Settle(t) PROVE Acts(t)
<1> DEFINE md == loc[t].meta
           origin == loc[t].job.action.origin
           ended == origin # NoTopic /\ md.topics.current = origin
           rest == Rest(md.stack)
           x == IF ended THEN Resume(md.topics) ELSE meta.topics
<1>1. pc[t] \in Acting /\ Busy(t) /\ TurnTypes /\ meta \in Metas /\ md \in Metas
  BY ActingIsBusy, LocalParts DEF Settle, Acting, Types, RowTypes
<1>2. rest \in Seq(Asks)
  BY <1>1, MetaParts, RestKeeps
<1>3. x \in TopicStates(TopicNames) /\ Held(x)
  <2>1. CASE ended
    BY <1>1, <2>1, MetaParts, ResumeSound, ProperIsHeld DEF Held
  <2>2. CASE ~ended
    BY <1>1, <2>2, MetaParts
  <2> QED
    BY <2>1, <2>2
<1>4. meta' = [meta EXCEPT !.stack = rest, !.topics = x]
  BY DEF Settle
<1>5. Say(t, "ticket", Top(rest))
  BY DEF Settle
<1> HIDE DEF rest, x, md
<1>6. [meta EXCEPT !.stack = rest] \in Metas
  BY <1>1, <1>2, MetaWrites
<1>7. [[meta EXCEPT !.stack = rest] EXCEPT !.topics = x] \in Metas
  BY <1>3, <1>6, MetaWrites
<1>8. meta' \in Metas
  <2>1. [meta EXCEPT !.stack = rest, !.topics = x]
           = [[meta EXCEPT !.stack = rest] EXCEPT !.topics = x]
    OBVIOUS
  <2> QED
    BY <1>4, <1>7, <2>1
<1>9. Top(rest) \in Offers
  BY <1>2 DEF Top, Offers
<1>10. ActingMove(t)
  BY <1>1, <1>5, <1>9, SayActs DEF Claims
<1> QED
  BY <1>1, <1>8, <1>10, MetaActs DEF Settle

LEMMA LookupActs == ASSUME Types, NEW t \in Turns, Lookup(t) PROVE Acts(t)
<1> DEFINE found == Identity(loc[t].msg, loc[t].customer)
           l == [loc[t] EXCEPT !.found = found]
<1>1. /\ pc[t] = "lookup" /\ pc[t] \in Acting /\ TurnTypes /\ Busy(t)
      /\ loc[t].msg \in Messages /\ Fits(pc[t], loc[t])
  BY LocalParts, ActingIsBusy DEF Lookup, Acting, Types
<1>2. ActingMove(t)
  <2>1. CASE found \in Customers
    <3>1. /\ l \in Locals /\ l.msg = loc[t].msg /\ l.index = loc[t].index
          /\ l.rounds = loc[t].rounds /\ l.job = loc[t].job /\ l.found \in Customers
      BY <1>1, <2>1, LocalParts DEF Locals
    <3>2. Go(t, "attach", l)
      BY <2>1 DEF Lookup
    <3>3. l.job.by # "model"
      BY <1>1, <3>1, LocalParts DEF Fits
    <3> HIDE DEF l, found
    <3>4. Fits("attach", l)
      BY <1>1, <3>1, <3>3 DEF Fits, Over
    <3> QED
      BY <3>1, <3>2, <3>4, GoActs DEF Acting
  <2>2. CASE found \notin Customers
    BY <1>1, <2>2, SayPlainActs DEF Lookup
  <2> QED
    BY <2>1, <2>2
<1> QED
  BY <1>1, <1>2, ReadingActs, EnvKept DEF Lookup

LEMMA AttachActs == ASSUME Types, NEW t \in Turns, AttachFound(t) PROVE Acts(t)
<1>1. /\ pc[t] = "attach" /\ pc[t] \in Acting /\ TurnTypes /\ Busy(t) /\ meta \in Metas
      /\ loc[t].msg \in Messages /\ Fits(pc[t], loc[t]) /\ loc[t].found \in Customers
  BY LocalParts, ActingIsBusy DEF AttachFound, Acting, Types, RowTypes, Fits
<1>2. ActingMove(t)
  <2>1. CASE loc[t].job.by = "model"
    <3>1. NextCall(t) /\ loc[t].calls # 0
      BY <1>1, <2>1 DEF AttachFound, Fits
    <3> QED
      BY <1>1, <3>1, NextCallActs
  <2>2. CASE loc[t].job.by # "model"
    <3>1. PICK label \in {"slack", "known"} : Goto(t, label) /\ UNCHANGED loc
      BY <2>2 DEF AttachFound
    <3>2. Fits(label, loc[t])
      BY <1>1 DEF Fits, Over
    <3> QED
      BY <1>1, <3>1, <3>2, StayActs DEF Acting
  <2> QED
    BY <2>1, <2>2
<1> QED
  BY <1>1, <1>2, EnvKept DEF Acts, AttachFound

LEMMA IdentityActs ==
    ASSUME Types, NEW t \in Turns, MergeKnown(t) \/ AskIdentity(t) PROVE Acts(t)
<1>1. pc[t] \in Acting /\ TurnTypes /\ Busy(t) /\ meta \in Metas
  BY ActingIsBusy DEF MergeKnown, AskIdentity, Acting, Types, RowTypes
<1>2. PICK b \in BOOLEAN : meta' = [meta EXCEPT !.lookup = b]
  BY DEF MergeKnown, AskIdentity
<1>3. meta' \in Metas
  BY <1>1, <1>2, MetaWrites
<1>4. ActingMove(t)
  BY <1>1, SayPlainActs DEF MergeKnown, AskIdentity
<1> QED
  BY <1>1, <1>3, <1>4, MetaActs DEF MergeKnown, AskIdentity

LEMMA SearchSlackActs == ASSUME Types, NEW t \in Turns, SearchSlack(t) PROVE Acts(t)
<1>1. pc[t] \in Acting /\ TurnTypes /\ Busy(t)
  BY ActingIsBusy DEF SearchSlack, Acting, Types
<1>2. Say(t, "none", Unbacked) \/ SayPlain(t)
  BY DEF SearchSlack
<1>3. ActingMove(t)
  BY <1>1, <1>2, SayActs, SayPlainActs DEF Claims, Offers
<1> QED
  BY <1>1, <1>3, ReadingActs, EnvKept DEF SearchSlack

\* The labels a turn passes without needing more of its locals.
LEMMA PlainLabels ==
    ASSUME TurnTypes, NEW t \in Turns, Busy(t),
           NEW label \in {"search", "suggest", "think", "relapse", "clear"},
           Goto(t, label), UNCHANGED loc
    PROVE  ActingMove(t)
<1>1. loc[t].msg \in Messages
  BY LocalParts
<1>2. Fits(label, loc[t])
  BY <1>1 DEF Fits, Over
<1> QED
  BY <1>2, StayActs DEF Acting

LEMMA RetrievalActs ==
    ASSUME Types, NEW t \in Turns, Recall(t) \/ Search(t) PROVE Acts(t)
<1>1. pc[t] \in Acting /\ TurnTypes /\ Busy(t)
  BY ActingIsBusy DEF Recall, Search, Acting, Types
<1>2. SayPlain(t) \/ \E label \in {"search", "suggest", "think"} : Goto(t, label) /\ UNCHANGED loc
  <2>1. CASE Recall(t)
    BY <2>1, Zenon DEF Recall
  <2>2. CASE Search(t)
    <3>1. loc[t].msg.finds \in {"article", "export", "nothing"}
      BY <1>1, LocalParts, ConversationAssumption DEF ConversationAssumption, MessageType
    <3> QED
      BY <2>2, <3>1 DEF Search
  <2> QED
    BY <2>1, <2>2
<1>3. ActingMove(t)
  BY <1>1, <1>2, SayPlainActs, PlainLabels
<1> QED
  BY <1>1, <1>3, ReadingActs, EnvKept DEF Recall, Search

LEMMA ThinkActs ==
    ASSUME Types, NEW t \in Turns, Unconfigured(t) \/ Think(t) \/ GiveUp(t) PROVE Acts(t)
<1>1. pc[t] \in Acting /\ TurnTypes /\ Busy(t) /\ loc[t].msg \in Messages
  BY ActingIsBusy, LocalParts DEF Unconfigured, Think, Thinks, GiveUp, Acting, Types
<1>2. ActingMove(t)
  <2>1. CASE SayPlain(t)
    BY <1>1, <2>1, SayPlainActs
  <2>2. CASE Say(t, "none", Unbacked)
    BY <1>1, <2>2, SayActs DEF Claims, Offers
  <2>3. ASSUME NEW n \in 1..MaxCalls, loc[t].rounds < MaxIterations,
               Go(t, "call", [loc[t] EXCEPT !.rounds = @ + 1, !.calls = n])
        PROVE  ActingMove(t)
    <3> DEFINE l == [loc[t] EXCEPT !.rounds = @ + 1, !.calls = n]
    <3>1. loc[t].rounds \in Nat /\ loc[t].rounds + 1 \in 0..MaxIterations /\ n \in 0..MaxCalls
      BY <1>1, <2>3, LocalParts, ConversationAssumption DEF ConversationAssumption
    <3>2. /\ l \in Locals /\ l.msg = loc[t].msg /\ l.index = loc[t].index
          /\ l.rounds = loc[t].rounds + 1 /\ l.calls = n
      BY <1>1, <3>1, LocalParts DEF Locals
    <3>3. Moves(t, "call", l)
      BY <2>3 DEF Go, Goto, Moves
    <3> HIDE DEF l
    <3>4. Fits("call", l)
      BY <1>1, <3>2 DEF Fits, Over
    <3> QED
      BY <2>3, <3>2, <3>3, <3>4 DEF ActingMove, Acting
  <2> QED
    BY <2>1, <2>2, <2>3 DEF Unconfigured, Think, GiveUp
<1>3. UNCHANGED rows /\ UNCHANGED env
  BY DEF Unconfigured, Think, GiveUp
<1> QED
  BY <1>1, <1>2, <1>3, ReadingActs, EnvKept

LEMMA CallActs == ASSUME Types, NEW t \in Turns, Call(t) PROVE Acts(t)
<1>1. /\ pc[t] = "call" /\ pc[t] \in Acting /\ TurnTypes /\ Busy(t) /\ loc[t].msg \in Messages
      /\ loc[t].calls # 0
  BY ActingIsBusy, LocalParts DEF Call, Acting, Types, Fits
<1>2. ActingMove(t)
  <2>1. CASE NextCall(t)
    BY <1>1, <2>1, NextCallActs
  <2>2. ASSUME NEW c \in Customers,
               Go(t, "attach", [loc[t] EXCEPT !.found = c, !.job = Job("lookup", "model", None)])
        PROVE  ActingMove(t)
    <3> DEFINE l == [loc[t] EXCEPT !.found = c, !.job = Job("lookup", "model", None)]
    <3>1. Job("lookup", "model", None) \in Jobs
      BY DEF Job, Jobs
    <3>2. /\ l \in Locals /\ l.msg = loc[t].msg /\ l.index = loc[t].index
          /\ l.rounds = loc[t].rounds /\ l.calls = loc[t].calls /\ l.found = c
      BY <1>1, <3>1, LocalParts DEF Locals
    <3> HIDE DEF l
    <3>3. Fits("attach", l)
      BY <1>1, <3>2 DEF Fits, Over
    <3> QED
      BY <2>2, <3>2, <3>3, GoActs DEF Acting, l
  <2>3. ASSUME NEW tool \in ModelTools \cap {"create", "escalate"},
               Go(t, "open", [loc[t] EXCEPT !.job = Job(tool, "model", None)])
        PROVE  ActingMove(t)
    <3> DEFINE l == [loc[t] EXCEPT !.job = Job(tool, "model", None)]
    <3>1. Job(tool, "model", None) \in Jobs /\ tool \in Tools
      BY DEF Job, Jobs, Tools
    <3>2. /\ l \in Locals /\ l.msg = loc[t].msg /\ l.index = loc[t].index
          /\ l.rounds = loc[t].rounds /\ l.calls = loc[t].calls
          /\ l.job.tool = tool /\ l.job.by = "model"
      BY <1>1, <3>1, LocalParts DEF Locals, Job
    <3> HIDE DEF l
    <3>3. Fits("open", l)
      BY <1>1, <3>1, <3>2 DEF Fits, Over
    <3> QED
      BY <2>3, <3>2, <3>3, GoActs DEF Acting, l
  <2>4. CASE Goto(t, "relapse") /\ UNCHANGED loc
    BY <1>1, <2>4, PlainLabels
  <2> QED
    BY <2>1, <2>2, <2>3, <2>4 DEF Call
<1> QED
  BY <1>1, <1>2, ReadingActs, EnvKept DEF Call

LEMMA OutageActs == ASSUME Types, NEW t \in Turns, Outage(t) PROVE Acts(t)
<1>1. pc[t] \in Acting /\ TurnTypes /\ Busy(t)
  BY ActingIsBusy DEF Outage, Thinks, Acting, Types
<1>2. ActingMove(t)
  BY <1>1, PlainLabels DEF Outage
<1>3. EnvMoves
  BY ConversationAssumption DEF ConversationAssumption, Outage, EnvTypes, EnvMoves, Types
<1> QED
  BY <1>1, <1>2, <1>3, ReadingActs DEF Outage

LEMMA CountFailureActs == ASSUME Types, NEW t \in Turns, CountFailure(t) PROVE Acts(t)
<1> DEFINE failures == loc[t].meta.failures + 1
           handoff == Approval("escalate", loc[t].msg, NoTopic, t)
           stack == Queue(loc[t].meta.stack, handoff)
<1>1. /\ pc[t] \in Acting /\ Busy(t) /\ TurnTypes /\ meta \in Metas /\ loc[t].meta \in Metas
      /\ loc[t].msg \in Messages
  BY ActingIsBusy, LocalParts DEF CountFailure, Acting, Types, RowTypes
<1>2. handoff \in Asks /\ failures \in Nat
  <2>1. handoff \in Asks
    BY <1>1, ApprovalAsks
  <2> HIDE DEF handoff
  <2> QED
    BY <1>1, <2>1, MetaParts
<1>3. stack \in Seq(Asks)
  BY <1>1, <1>2, MetaParts, QueueKeeps
<1>4. \/ /\ meta' = [meta EXCEPT !.failures = failures, !.stack = stack]
         /\ Say(t, "none", handoff)
      \/ /\ meta' = [meta EXCEPT !.failures = failures]
         /\ SayPlain(t)
  BY Zenon DEF CountFailure
<1> HIDE DEF failures, handoff, stack
<1>5. [meta EXCEPT !.failures = failures] \in Metas
  BY <1>1, <1>2, MetaWrites
<1>6. [[meta EXCEPT !.failures = failures] EXCEPT !.stack = stack] \in Metas
  BY <1>3, <1>5, MetaWrites
<1>7. meta' \in Metas
  <2>1. [meta EXCEPT !.failures = failures, !.stack = stack]
           = [[meta EXCEPT !.failures = failures] EXCEPT !.stack = stack]
    OBVIOUS
  <2> QED
    BY <1>4, <1>5, <1>6, <2>1
<1>8. ActingMove(t)
  BY <1>1, <1>2, <1>4, SayActs, SayPlainActs DEF Claims, Offers
<1> QED
  BY <1>1, <1>7, <1>8, MetaActs DEF CountFailure

-----------------------------------------------------------------------------
(* Admission, the transcript and the tail *)

\* A sequence of naturals that is not empty has a largest entry.
LEMMA LargestEntry ==
    ASSUME NEW n \in Nat \ {0}, NEW f \in [1..n -> Nat]
    PROVE  \E i \in 1..n : \A j \in 1..n : f[i] >= f[j]
<1> DEFINE Has(k) == \E i \in 1..k : \A j \in 1..k : f[i] >= f[j]
           T == {k \in 1..n : ~Has(k)}
<1>1. ASSUME T # {} PROVE FALSE
  <2>1. PICK m \in T : \A k \in T : m <= k
    <3>1. T \subseteq Nat
      OBVIOUS
    <3> HIDE DEF T
    <3> QED
      BY <1>1, <3>1, LeastMember
  <2>2. m # 1
    BY <2>1
  <2>3. m - 1 \in 1..n /\ m - 1 \notin T
    <3>1. m \in Nat /\ m - 1 \in 1..n
      BY <2>1, <2>2
    <3> HIDE DEF T
    <3>2. m - 1 \in T => m <= m - 1
      BY <2>1
    <3> QED
      BY <3>1, <3>2
  <2>4. PICK i \in 1..(m - 1) : \A j \in 1..(m - 1) : f[i] >= f[j]
    BY <2>3
  <2>5. \A j \in 1..m : j \in 1..(m - 1) \/ j = m
    BY <2>1
  <2>6. m \in 1..n /\ f[m] \in Nat /\ f[i] \in Nat /\ i \in 1..m
    BY <2>1, <2>4
  <2>7. CASE f[m] >= f[i]
    <3>1. \A j \in 1..m : f[m] >= f[j]
      BY <2>4, <2>5, <2>6, <2>7
    <3> QED
      BY <2>1, <2>6, <3>1
  <2>8. CASE ~(f[m] >= f[i])
    <3>1. \A j \in 1..m : f[i] >= f[j]
      BY <2>4, <2>5, <2>6, <2>8
    <3> QED
      BY <2>1, <2>6, <3>1
  <2> QED
    BY <2>7, <2>8
<1>2. n \in 1..n
  OBVIOUS
<1> QED
  BY <1>1, <1>2

LEMMA NextIndexIsNat == ASSUME messages \in Seq(Lines) PROVE NextIndex \in Nat
<1>1. CASE messages = <<>>
  BY <1>1 DEF NextIndex
<1>2. CASE messages # <<>>
  <2> DEFINE n == Len(messages)
             f == [i \in 1..n |-> messages[i].index]
             S == {messages[i].index : i \in DOMAIN messages}
  <2>1. /\ n \in Nat \ {0} /\ DOMAIN messages = 1..n
        /\ \A i \in 1..n : messages[i] \in Lines
    BY <1>2
  <2>2. f \in [1..n -> Nat] /\ \A i \in 1..n : f[i] = messages[i].index
    BY <2>1 DEF Lines
  <2>3. PICK i \in 1..n : \A j \in 1..n : f[i] >= f[j]
    <3> HIDE DEF f, n
    <3> QED
      BY <2>1, <2>2, LargestEntry
  <2>4. S \subseteq Nat /\ \E x \in S : \A y \in S : x >= y
    BY <2>1, <2>2, <2>3
  <2> HIDE DEF S
  <2>5. Max(S) \in Nat
    BY <2>4 DEF Max
  <2> QED
    BY <1>2, <2>5 DEF NextIndex, S
<1> QED
  BY <1>1, <1>2

LEMMA AdmitArrives ==
    ASSUME Types, NEW t \in Turns, NEW m \in Messages, Admit(t, m) PROVE Arrives(t)
<1>1. pc[t] = "idle" /\ TurnTypes /\ meta \in Metas /\ customer \in Customers \cup {None}
  BY DEF Admit, Types, RowTypes
<1>2. CASE status = "active"
  <2> DEFINE l == [NoLoc EXCEPT !.msg = m, !.customer = customer, !.meta = meta]
  <2>1. l \in Locals /\ l.msg = m /\ l.rounds = 0 /\ l.job = NoJob
    BY <1>1, EmptyLocals DEF Locals, NoLoc
  <2>2. Moves(t, "index", l)
    BY <1>2 DEF Admit, Go, Goto, Moves
  <2> HIDE DEF l
  <2>3. Fits("index", l)
    BY <2>1 DEF Fits, Over, NoJob
  <2> QED
    BY <1>1, <2>1, <2>2, <2>3 DEF Arrives, Admit
<1>3. CASE status # "active"
  <2>1. loc' = [loc EXCEPT ![t] = loc[t]]
    BY <1>1, <1>3 DEF Admit, TurnTypes
  <2> QED
    BY <1>1, <1>3, <2>1 DEF Arrives, Admit, Goto, Moves
<1> QED
  BY <1>2, <1>3

LEMMA ReadIndexNumbers == ASSUME Types, NEW t \in Turns, ReadIndex(t) PROVE Numbers(t)
<1> DEFINE l == [loc[t] EXCEPT !.index = NextIndex]
<1>1. pc[t] = "index" /\ TurnTypes /\ Busy(t) /\ loc[t].job.by = "none"
  BY LocalParts DEF ReadIndex, Types, Busy, Over, Fits
<1>2. NextIndex \in Nat
  BY NextIndexIsNat DEF Types, RowTypes
<1>3. l \in Locals /\ l.msg \in Messages /\ l.rounds = loc[t].rounds /\ l.job = loc[t].job
  BY <1>1, <1>2, LocalParts DEF Locals
<1>4. Moves(t, "ask", l)
  BY DEF ReadIndex, Go, Goto, Moves
<1> HIDE DEF l
<1>5. Fits("ask", l)
  BY <1>1, <1>3 DEF Fits, Over
<1> QED
  BY <1>1, <1>3, <1>4, <1>5 DEF Numbers, ReadIndex

LEMMA AskAsking == ASSUME Types, NEW t \in Turns, Ask(t) PROVE Asking(t)
<1>1. /\ pc[t] = "ask" /\ TurnTypes /\ loc[t].msg \in Messages /\ loc[t].job.by = "none"
      /\ loc \in [Turns -> Locals]
  BY LocalParts DEF Ask, Types, Busy, Over, Fits, TurnTypes
<1>2. loc' = [loc EXCEPT ![t] = loc[t]]
  BY <1>1 DEF Ask
<1>3. Fits("touch", loc[t])
  BY <1>1 DEF Fits, Over
<1> QED
  BY <1>1, <1>2, <1>3 DEF Asking, Moves, Ask, Goto

LEMMA ReplyAnswers == ASSUME Types, NEW t \in Turns, Reply(t) PROVE Answers(t)
<1>1. /\ pc[t] = "say" /\ TurnTypes /\ loc[t].msg \in Messages /\ loc \in [Turns -> Locals]
  BY LocalParts DEF Reply, Types, Busy, Over, TurnTypes
<1>2. loc' = [loc EXCEPT ![t] = loc[t]]
  BY <1>1 DEF Reply
<1>3. Fits("refresh", loc[t])
  BY <1>1 DEF Fits, Over
<1> QED
  BY <1>1, <1>2, <1>3 DEF Answers, Moves, Reply, Goto

\* A label of the tail that needs nothing more of the locals.
LEMMA TailMove ==
    ASSUME TurnTypes, NEW t \in Turns, Busy(t), NEW label \in {"trace", "gauge"},
           Goto(t, label), UNCHANGED loc
    PROVE  \E tail \in Trailing, l \in Locals :
               Moves(t, tail, l) /\ Fits(tail, l) /\ l.rounds = loc[t].rounds
<1>1. loc[t] \in Locals /\ loc[t].msg \in Messages /\ loc' = [loc EXCEPT ![t] = loc[t]]
  BY LocalParts DEF TurnTypes
<1>2. Fits(label, loc[t]) /\ Moves(t, label, loc[t])
  BY <1>1 DEF Fits, Over, Moves, Goto
<1>3. label \in Trailing
  BY DEF Trailing
<1> QED
  BY <1>1, <1>2, <1>3

\* The open work of a session.
LEMMA WorkIs ==
    ASSUME NEW md \in Metas, NEW c \in Customers, NEW ids \in SUBSET Nat
    PROVE  Work(md, c, ids) \in Works
<1>1. md.stack \in Seq(Asks) /\ OpenTopics(md.topics) \in Seq(TopicNames)
  BY MetaParts, OpenTopicsAre
<1> QED
  BY <1>1 DEF Work, Works

LEMMA ReadWorkTrails ==
    ASSUME Types, NEW t \in Turns, ReadWork(t) \/ ReadTickets(t) PROVE Trails(t)
<1>1. /\ TurnTypes /\ Busy(t) /\ loc[t].msg \in Messages /\ pc[t] \in Trailing
      /\ memory \in Works \cup {None} /\ traces \subseteq Turns /\ meta \in Metas
      /\ customer \in Customers \cup {None} /\ tickets \in Seq(Opened)
  BY LocalParts DEF ReadWork, ReadTickets, Types, RowTypes, Busy, Over, Trailing
<1>2. UNCHANGED rows /\ UNCHANGED env
  BY DEF ReadWork, ReadTickets
<1>3. \E label \in Trailing, l \in Locals :
          Moves(t, label, l) /\ Fits(label, l) /\ l.rounds = loc[t].rounds
  <2>1. CASE Goto(t, "trace") /\ UNCHANGED loc
    BY <1>1, <2>1, TailMove
  <2>2. CASE customer # None /\ Go(t, "gather", [loc[t] EXCEPT
                 !.tasks = Work(meta, customer, {})])
    <3> DEFINE w == Work(meta, customer, {})  l == [loc[t] EXCEPT !.tasks = w]
    <3>1. w \in Works
      <4>1. {} \in SUBSET Nat /\ customer \in Customers
        BY <1>1, <2>2
      <4> QED
        BY <1>1, <4>1, WorkIs
    <3> HIDE DEF w
    <3>2. l \in Locals /\ l.msg = loc[t].msg /\ l.rounds = loc[t].rounds /\ l.tasks = w
      BY <1>1, <3>1, LocalParts DEF Locals
    <3>3. Moves(t, "gather", l)
      BY <2>2 DEF Go, Goto, Moves, w
    <3> HIDE DEF l
    <3>4. Fits("gather", l)
      BY <1>1, <3>1, <3>2 DEF Fits, Over
    <3> QED
      BY <3>2, <3>3, <3>4 DEF Trailing
  <2>3. CASE ReadTickets(t)
    <3> DEFINE l == [loc[t] EXCEPT !.tasks.open = TicketsOf(loc[t].tasks.customer)]
    <3>1. loc[t].tasks \in Works
      BY <1>1, <2>3, LocalParts DEF ReadTickets, Fits
    <3>2. TicketsOf(loc[t].tasks.customer) \in SUBSET Nat
      BY <1>1 DEF TicketsOf
    <3>3. [loc[t].tasks EXCEPT !.open = TicketsOf(loc[t].tasks.customer)] \in Works
      <4> HIDE DEF l
      <4> QED
        BY <3>1, <3>2 DEF Works
    <3>4. /\ l \in Locals /\ l.msg = loc[t].msg /\ l.rounds = loc[t].rounds
          /\ l.tasks \in Works
      BY <1>1, <3>3, LocalParts DEF Locals
    <3>5. Moves(t, "store", l)
      BY <2>3 DEF ReadTickets, Go, Goto, Moves
    <3> HIDE DEF l
    <3>6. Fits("store", l)
      BY <1>1, <3>4 DEF Fits, Over
    <3> QED
      BY <3>4, <3>5, <3>6 DEF Trailing
  <2> QED
    BY <2>1, <2>2, <2>3 DEF ReadWork
<1>4. UNCHANGED <<status, customer, meta, messages, tickets, memory, traces>>
  BY <1>2 DEF rows
<1> QED
  BY <1>1, <1>2, <1>3, <1>4, EnvKept DEF Trails

LEMMA StoreTrails ==
    ASSUME Types, NEW t \in Turns, StoreWork(t) \/ SaveTrace(t) PROVE Trails(t)
<1>1. /\ TurnTypes /\ Busy(t) /\ pc[t] \in Trailing
      /\ memory \in Works \cup {None} /\ traces \subseteq Turns
      /\ pc[t] = "store" => loc[t].tasks \in Works
  BY LocalParts DEF StoreWork, SaveTrace, Types, RowTypes, Busy, Over, Trailing, Fits
<1>2. \E label \in Trailing, l \in Locals :
          Moves(t, label, l) /\ Fits(label, l) /\ l.rounds = loc[t].rounds
  BY <1>1, TailMove DEF StoreWork, SaveTrace
<1>3. memory' \in Works \cup {None} /\ traces' \subseteq Turns
  <2>1. CASE SaveTrace(t)
    BY <1>1, <2>1 DEF SaveTrace
  <2>2. CASE StoreWork(t) /\ memory = None
    BY <1>1, <2>2 DEF StoreWork
  <2>3. CASE StoreWork(t) /\ memory # None
    <3>1. loc[t].tasks \in Works /\ memory \in Works
      BY <1>1, <2>3 DEF StoreWork
    <3>2. [loc[t].tasks EXCEPT !.customer = memory.customer] \in Works
      BY <3>1 DEF Works
    <3> QED
      BY <1>1, <2>3, <3>2 DEF StoreWork
  <2> QED
    BY <2>1, <2>2, <2>3
<1> QED
  BY <1>1, <1>2, <1>3, EnvKept DEF Trails, StoreWork, SaveTrace

LEMMA GaugeEnds == ASSUME Types, NEW t \in Turns, Gauge(t) PROVE Ends(t)
  BY EnvKept DEF Gauge, Ends, End, Go, Goto, Moves, Busy, Over

\* Who sees a database error, one case for each.
LEMMA RaiseIs ==
    ASSUME NEW t \in Turns, Raise(t)
    PROVE  \/ pc[t] = "lookup" /\ SayPlain(t)
           \/ pc[t] = "slack" /\ Say(t, "none", Unbacked)
           \/ pc[t] = "search" /\ Goto(t, "think") /\ UNCHANGED loc
           \/ pc[t] \in {"open", "flip"} /\ loc[t].job.by = "model" /\ NextCall(t)
           \/ pc[t] \in {"open", "flip"} /\ Goto(t, "clear") /\ UNCHANGED loc
           \/ pc[t] = "open" /\ AfterCreate(t)
           \/ pc[t] \in {"attach", "clear"} /\ Goto(t, "relapse") /\ UNCHANGED loc
           \/ pc[t] \in {"refresh", "gather", "store"} /\ Goto(t, "trace") /\ UNCHANGED loc
           \/ pc[t] = "trace" /\ Goto(t, "gauge") /\ UNCHANGED loc
           \/ pc[t] \notin Trailing \ {"gauge"} /\ End(t, "failed")
<1>1. CASE pc[t] \in {"refresh", "gather", "store", "trace"}
  BY <1>1 DEF Raise
<1>2. CASE pc[t] \notin {"refresh", "gather", "store", "trace"}
  <2>1. pc[t] \notin Trailing \ {"gauge"}
    BY <1>2 DEF Trailing
  <2> QED
    BY <1>2, <2>1 DEF Raise
<1> QED
  BY <1>1, <1>2

\* A database error is a step of one of these kinds as well.
LEMMA FaultIs ==
    ASSUME Types, NEW t \in Turns, Fault(t) PROVE Acts(t) \/ Trails(t) \/ Ends(t)
<1>1. TurnTypes /\ Busy(t) /\ UNCHANGED rows /\ EnvMoves /\ Fits(pc[t], loc[t])
  <2>1. EnvMoves
    BY ConversationAssumption DEF ConversationAssumption, Fault, EnvTypes, EnvMoves, Types
  <2> QED
    BY <2>1, LocalParts DEF Fault, Types
<1>2. CASE pc[t] = "lookup" /\ SayPlain(t)
  <2>1. pc[t] \in Acting
    BY <1>2 DEF Acting
  <2> QED
    BY <1>1, <1>2, <2>1, SayPlainActs, ReadingActs
<1>3. CASE pc[t] = "slack" /\ Say(t, "none", Unbacked)
  <2>1. pc[t] \in Acting /\ "none" \in Claims /\ Unbacked \in Offers
    BY <1>3 DEF Acting, Claims, Offers
  <2> QED
    BY <1>1, <1>3, <2>1, SayActs, ReadingActs
<1>4. CASE /\ pc[t] \in {"search", "open", "flip", "attach", "clear"}
           /\ \E label \in {"think", "clear", "relapse"} : Goto(t, label) /\ UNCHANGED loc
  <2>1. pc[t] \in Acting
    BY <1>4 DEF Acting
  <2> QED
    BY <1>1, <1>4, <2>1, PlainLabels, ReadingActs
<1>5. CASE pc[t] \in {"open", "flip"} /\ loc[t].job.by = "model" /\ NextCall(t)
  <2>1. pc[t] \in Acting /\ loc[t].calls # 0
    BY <1>1, <1>5 DEF Acting, Fits
  <2> QED
    BY <1>1, <1>5, <2>1, NextCallActs, ReadingActs
<1>6. CASE pc[t] = "open" /\ AfterCreate(t)
  <2>1. pc[t] \in Acting
    BY <1>6 DEF Acting
  <2> QED
    BY <1>1, <1>6, <2>1, AfterCreateActs, ReadingActs
<1>7. CASE /\ pc[t] \in {"refresh", "gather", "store", "trace"}
           /\ \E label \in {"trace", "gauge"} : Goto(t, label) /\ UNCHANGED loc
  <2>1. pc[t] \in Trailing
    BY <1>7 DEF Trailing
  <2>2. /\ memory \in Works \cup {None} /\ traces \subseteq Turns
        /\ UNCHANGED <<status, customer, meta, messages, tickets, memory, traces>>
    BY <1>1 DEF rows, Types, RowTypes
  <2> QED
    BY <1>1, <1>7, <2>1, <2>2, TailMove DEF Trails
<1>8. CASE pc[t] \notin Trailing \ {"gauge"} /\ End(t, "failed")
  BY <1>1, <1>8 DEF Ends, End, Go, Goto, Moves
<1>9. Raise(t)
  BY DEF Fault
<1> QED
  BY <1>2, <1>3, <1>4, <1>5, <1>6, <1>7, <1>8, <1>9, RaiseIs

\* The process dies.
Dies ==
    /\ pc' = [t \in Turns |-> IF Busy(t) THEN "crashed" ELSE pc[t]]
    /\ loc' = [t \in Turns |-> NoLoc]
    /\ UNCHANGED rows
    /\ EnvMoves

\* The session is closed or expires.
Stops ==
    /\ status' \in {"closed", "expired"}
    /\ UNCHANGED <<customer, meta, messages, tickets, memory, traces, pc, loc, env>>

\* What a turn does by itself is one of these, ...
LEMMA OwnStepIs ==
    ASSUME Types, NEW t \in Turns,
           Step(t) \/ (\E m \in Messages : Admit(t, m)) \/ Outage(t) \/ Fault(t)
    PROVE  \/ Arrives(t) \/ Numbers(t) \/ Asking(t) \/ Acts(t)
           \/ Answers(t) \/ Trails(t) \/ Ends(t)
<1>1. CASE ReadIndex(t) \/ Ask(t) \/ Reply(t)
  BY <1>1, ReadIndexNumbers, AskAsking, ReplyAnswers
<1>2. CASE Touch(t) \/ WriteTopics(t) \/ Cancel(t) \/ OfferHandoff(t) \/ OpenTicket(t)
           \/ Flip(t) \/ ClearStack(t) \/ ReadLatest(t) \/ Settle(t)
  BY <1>2, TouchActs, WriteTopicsActs, CancelActs, OfferActs, OpenTicketActs, FlipActs,
     ClearStackActs, RereadActs, SettleActs
<1>3. CASE Lookup(t) \/ AttachFound(t) \/ MergeKnown(t) \/ AskIdentity(t) \/ SearchSlack(t)
           \/ Recall(t) \/ Search(t) \/ OfferTicket(t)
  BY <1>3, LookupActs, AttachActs, IdentityActs, SearchSlackActs, RetrievalActs, OfferActs
<1>4. CASE Unconfigured(t) \/ Think(t) \/ GiveUp(t) \/ Call(t) \/ ReadFailures(t)
           \/ CountFailure(t)
  BY <1>4, ThinkActs, CallActs, RereadActs, CountFailureActs
<1>5. CASE ReadWork(t) \/ ReadTickets(t) \/ StoreWork(t) \/ SaveTrace(t) \/ Gauge(t)
  BY <1>5, ReadWorkTrails, StoreTrails, GaugeEnds
<1>6. CASE (\E m \in Messages : Admit(t, m)) \/ Outage(t) \/ Fault(t)
  BY <1>6, AdmitArrives, OutageActs, FaultIs
<1> QED
  BY <1>1, <1>2, <1>3, <1>4, <1>5, <1>6 DEF Step

\* ... and every step of the session is one of these, the end of the process or
\* the end of the session.
LEMMA StepIs ==
    ASSUME Types, [Next]_vars
    PROVE  \/ \E t \in Turns : \/ Arrives(t) \/ Numbers(t) \/ Asking(t) \/ Acts(t)
                               \/ Answers(t) \/ Trails(t) \/ Ends(t)
           \/ Dies \/ Stops \/ UNCHANGED vars
<1>1. ASSUME NEW t \in Turns,
             Step(t) \/ (\E m \in Messages : Admit(t, m)) \/ Outage(t) \/ Fault(t)
      PROVE  \/ Arrives(t) \/ Numbers(t) \/ Asking(t) \/ Acts(t)
             \/ Answers(t) \/ Trails(t) \/ Ends(t)
  BY <1>1, OwnStepIs
<1>2. CASE Crash
  <2>1. EnvMoves
    BY <1>2, ConversationAssumption DEF ConversationAssumption, Crash, EnvTypes, EnvMoves, Types
  <2> QED
    BY <1>2, <2>1 DEF Crash, Dies
<1>3. CASE EndSession
  BY <1>3 DEF EndSession, Stops
<1> QED
  BY <1>1, <1>2, <1>3 DEF Next

-----------------------------------------------------------------------------
(* Types and topics *)

\* What a move leaves of the control state.
LEMMA Elsewhere ==
    ASSUME TurnTypes, NEW t \in Turns, NEW label, NEW l, Moves(t, label, l)
    PROVE  /\ pc'[t] = label /\ loc'[t] = l
           /\ \A u \in Turns \ {t} : pc'[u] = pc[u] /\ loc'[u] = loc[u]
  BY DEF TurnTypes, Moves

\* The types refer to what the session started with.
LEMMA SameTypes ==
    ASSUME inherited' = inherited PROVE Metas' = Metas /\ Locals' = Locals
<1>1. \A x : Held(x)' <=> Held(x)
  BY DEF Held
<1>2. {x \in TopicStates(TopicNames) : Held(x)}' = {x \in TopicStates(TopicNames) : Held(x)}
  BY <1>1
<1>3. Metas' = Metas
  BY <1>2, Zenon DEF Metas
<1> QED
  BY <1>3, Zenon DEF Locals

LEMMA MovedTypes ==
    ASSUME TurnTypes, NEW t \in Turns, NEW label \in Labels, NEW l \in Locals,
           Fits(label, l), Moves(t, label, l), inherited' = inherited
    PROVE  TurnTypes'
<1>1. pc' \in [Turns -> Labels] /\ loc' \in [Turns -> Locals']
  BY SameTypes DEF TurnTypes, Moves
<1>2. \A u \in Turns : Fits(pc'[u], loc'[u])
  BY Elsewhere DEF TurnTypes
<1>3. \A u \in Turns : Fits(pc[u], loc[u])'
  BY <1>2 DEF Fits
<1> QED
  BY <1>1, <1>3 DEF TurnTypes

\* A line of the transcript.
LEMMA EntryIsLine ==
    ASSUME TurnTypes, NEW t \in Turns, NEW role \in {"customer", "agent"}
    PROVE  Entry(t, role) \in Lines
  BY LocalParts DEF Entry, Lines

LEMMA LabelsNest ==
    /\ Acting \subseteq Labels /\ Trailing \subseteq Labels /\ Over \subseteq Labels
    /\ {"index", "ask", "touch", "refresh"} \subseteq Labels
  BY DEF Labels, Acting, Trailing

LEMMA OverFits == ASSUME NEW label \in Over PROVE Fits(label, NoLoc)
  BY DEF Fits, Over

LEMMA RowsKept == ASSUME RowTypes, UNCHANGED rows, inherited' = inherited PROVE RowTypes'
  BY SameTypes DEF RowTypes, rows

\* What the session started with is history.
LEMMA InheritedStays == ASSUME Types, [Next]_vars PROVE EnvMoves
<1>1. ASSUME NEW t \in Turns,
             \/ Arrives(t) \/ Numbers(t) \/ Asking(t) \/ Acts(t)
             \/ Answers(t) \/ Trails(t) \/ Ends(t)
      PROVE  EnvMoves
  BY <1>1, EnvKept DEF Arrives, Numbers, Asking, Acts, Answers, Trails, Ends
<1>2. CASE Dies \/ Stops
  BY <1>2, EnvKept DEF Dies, Stops
<1>3. CASE UNCHANGED vars
  BY <1>3, EnvKept DEF vars
<1> QED
  BY <1>1, <1>2, <1>3, StepIs

LEMMA TypesKept == ASSUME Types, [Next]_vars PROVE Types'
<1>0. RowTypes /\ EnvTypes /\ TurnTypes /\ inherited' = inherited /\ EnvTypes'
  BY InheritedStays DEF Types, EnvMoves
<1>10. Metas' = Metas /\ Locals' = Locals
  BY <1>0, SameTypes
<1>1. ASSUME NEW t \in Turns, Arrives(t) PROVE Types'
  <2>1. UNCHANGED rows /\ EnvTypes'
    BY <1>0, <1>1 DEF Arrives
  <2>2. CASE Moves(t, "rejected", loc[t])
    <3>1. loc[t] = NoLoc /\ loc[t] \in Locals
      BY <1>0, <1>1, LocalParts DEF Arrives, Fits, Over
    <3>2. Fits("rejected", loc[t]) /\ "rejected" \in Labels
      BY <3>1, OverFits DEF Over, Labels
    <3> QED
      BY <1>0, <2>1, <2>2, <3>1, <3>2, MovedTypes, RowsKept DEF Types
  <2>3. CASE \E l \in Locals : Moves(t, "index", l) /\ Fits("index", l)
    BY <1>0, <2>1, <2>3, MovedTypes, RowsKept, LabelsNest DEF Types
  <2> QED
    BY <1>1, <2>2, <2>3 DEF Arrives
<1>2. ASSUME NEW t \in Turns, Numbers(t) PROVE Types'
  BY <1>0, <1>2, MovedTypes, RowsKept, LabelsNest DEF Numbers, Types
<1>3. ASSUME NEW t \in Turns, Asking(t) \/ Answers(t) PROVE Types'
  <2>1. PICK label \in {"touch", "refresh"}, role \in {"customer", "agent"} :
            /\ Moves(t, label, loc[t]) /\ Fits(label, loc[t])
            /\ messages' = Append(messages, Entry(t, role))
            /\ UNCHANGED <<status, customer, meta, tickets, memory, traces, env>>
    BY <1>3 DEF Asking, Answers
  <2>2. TurnTypes'
    <3>1. loc[t] \in Locals /\ label \in Labels
      BY <1>0, LocalParts, LabelsNest
    <3> QED
      BY <1>0, <2>1, <3>1, MovedTypes
  <2>3. messages' \in Seq(Lines)
    <3>1. Entry(t, role) \in Lines
      BY <1>0, EntryIsLine
    <3> QED
      BY <1>0, <2>1, <3>1 DEF RowTypes
  <2> QED
    BY <1>0, <1>10, <2>1, <2>2, <2>3 DEF Types, RowTypes
<1>4. ASSUME NEW t \in Turns, Acts(t) PROVE Types'
  <2>1. TurnTypes'
    BY <1>0, <1>4, MovedTypes, LabelsNest DEF Acts, ActingMove
  <2>2. tickets' \in Seq(Opened)
    <3>1. CASE tickets' = tickets
      BY <1>0, <3>1 DEF RowTypes
    <3>2. CASE pc[t] = "open" /\ tickets' = Append(tickets, Ticket(t))
      <4>1. Ticket(t) \in Opened
        BY <1>0, <3>2, TicketOpened
      <4> QED
        BY <1>0, <3>2, <4>1 DEF RowTypes
    <3> QED
      BY <1>4, <3>1, <3>2 DEF Acts
  <2> QED
    BY <1>0, <1>10, <1>4, <2>1, <2>2 DEF Types, RowTypes, Acts
<1>5. ASSUME NEW t \in Turns, Trails(t) PROVE Types'
  <2>1. TurnTypes'
    BY <1>0, <1>5, MovedTypes, LabelsNest DEF Trails
  <2> QED
    BY <1>0, <1>10, <1>5, <2>1 DEF Types, RowTypes, Trails
<1>6. ASSUME NEW t \in Turns, Ends(t) PROVE Types'
  <2>1. PICK label \in {"done", "failed"} : Moves(t, label, NoLoc)
    BY <1>6 DEF Ends
  <2>2. label \in Labels /\ Fits(label, NoLoc) /\ NoLoc \in Locals
    BY OverFits, EmptyLocals DEF Over, Labels
  <2>3. TurnTypes'
    BY <1>0, <2>1, <2>2, MovedTypes
  <2> QED
    BY <1>0, <1>6, <2>3, RowsKept DEF Types, Ends
<1>7. CASE Dies
  <2>1. \A t \in Turns : pc'[t] \in Over /\ loc'[t] = NoLoc
    BY <1>7 DEF Dies, Busy, Over
  <2>2. pc' \in [Turns -> Labels] /\ loc' \in [Turns -> Locals]
    BY <1>7, <2>1, LabelsNest, EmptyLocals DEF Dies
  <2>3. \A t \in Turns : Fits(pc'[t], loc'[t])
    BY <2>1, OverFits
  <2>4. \A t \in Turns : Fits(pc[t], loc[t])'
    BY <2>3 DEF Fits
  <2> QED
    BY <1>0, <1>10, <1>7, <2>2, <2>4, RowsKept DEF Types, Dies, TurnTypes
<1>8. CASE Stops
  <2>1. TurnTypes'
    BY <1>0, <1>10, <1>8 DEF TurnTypes, Stops, Fits
  <2> QED
    BY <1>0, <1>10, <1>8, <2>1 DEF Types, RowTypes, Stops
<1>9. CASE UNCHANGED vars
  <2>1. TurnTypes'
    BY <1>0, <1>10, <1>9 DEF TurnTypes, vars, Fits
  <2> QED
    BY <1>0, <1>9, <2>1, RowsKept DEF Types, vars
<1> QED
  BY <1>1, <1>2, <1>3, <1>4, <1>5, <1>6, <1>7, <1>8, <1>9, StepIs

\* What a session may start with.
LEMMA StartIs ==
    ASSUME inherited \in Starts
    PROVE  /\ inherited \in StartType
           /\ inherited.customer \in Customers \cup {None} /\ inherited.stack \in Seq(Asks)
           /\ inherited.topics \in TopicStates(TopicNames) /\ Held(inherited.topics)
           /\ IsInjective(inherited.stack)
           /\ \A a \in ToSet(inherited.stack) : a.from \in Earlier
<1>1. inherited \in StartType
  BY ConversationAssumption DEF ConversationAssumption
<1>2. /\ inherited \in [customer : Customers \cup {None}, stack : Seq(Asks),
                        topics : [current : TopicNames \cup {NoTopic}, parked : Seq(TopicNames)]]
      /\ IsInjective(inherited.stack) /\ \A a \in ToSet(inherited.stack) : a.from \in Earlier
      /\ WaitOnce(inherited.topics) /\ NoTopic \notin ToSet(inherited.topics.parked)
  BY <1>1, Zenon DEF StartType
<1> QED
  BY <1>1, <1>2 DEF TopicStates, Held, Waiting

LEMMA TypesInit == Init => Types
<1> SUFFICES ASSUME Init PROVE Types
  OBVIOUS
<1>1. RowTypes
  <2> DEFINE s == inherited
             md == [NoMeta EXCEPT !.stack = s.stack, !.topics = s.topics]
  <2>1. /\ s.customer \in Customers \cup {None} /\ s.stack \in Seq(Asks)
        /\ s.topics \in TopicStates(TopicNames) /\ Held(s.topics)
    BY StartIs DEF Init
  <2>2. /\ customer = s.customer /\ meta = md /\ messages = <<>> /\ tickets = <<>>
        /\ status = "active" /\ traces = {}
        /\ memory = IF customer = None THEN None ELSE Work(meta, customer, {})
    BY DEF Init
  <2>3. meta \in Metas
    <3>1. [NoMeta EXCEPT !.stack = s.stack] \in Metas
      BY <2>1, EmptyMeta, MetaWrites
    <3>2. [[NoMeta EXCEPT !.stack = s.stack] EXCEPT !.topics = s.topics] \in Metas
      BY <2>1, <3>1, MetaWrites
    <3>3. md = [[NoMeta EXCEPT !.stack = s.stack] EXCEPT !.topics = s.topics]
      OBVIOUS
    <3> QED
      BY <2>2, <3>2, <3>3
  <2>4. memory \in Works \cup {None}
    <3>1. {} \in SUBSET Nat
      OBVIOUS
    <3> QED
      BY <2>1, <2>2, <2>3, <3>1, WorkIs
  <2>5. <<>> \in Seq(Lines) /\ <<>> \in Seq(Opened)
    OBVIOUS
  <2> QED
    BY <2>1, <2>2, <2>3, <2>4, <2>5 DEF RowTypes
<1>2. EnvTypes
  BY ConversationAssumption DEF ConversationAssumption, Init, EnvTypes
<1>3. TurnTypes
  <2>1. "idle" \in Labels /\ Fits("idle", NoLoc)
    BY OverFits DEF Over, Labels
  <2> QED
    BY <2>1, EmptyLocals DEF Init, TurnTypes
<1> QED
  BY <1>1, <1>2, <1>3 DEF Types

LEMMA Typing == Spec => []Types
  BY TypesInit, TypesKept, PTL DEF Spec

\* The rows of the two tables.
LEMMA MessagesAre ==
    ASSUME RowTypes
    PROVE  /\ Len(messages) \in Nat /\ DOMAIN messages = 1..Len(messages)
           /\ \A i \in DOMAIN messages : messages[i] \in Lines
<1>1. messages \in Seq(Lines)
  BY DEF RowTypes
<1> QED
  BY <1>1

LEMMA TicketsAre ==
    ASSUME RowTypes
    PROVE  /\ Len(tickets) \in Nat /\ DOMAIN tickets = 1..Len(tickets)
           /\ \A i \in DOMAIN tickets : tickets[i] \in Opened
<1>1. tickets \in Seq(Opened)
  BY DEF RowTypes
<1> QED
  BY <1>1

\* Every row and every turn's locals keep their types: the budget of the model
\* is never overdrawn, and every approval on the stack is one the code builds.
THEOREM TypeCorrect == Spec => []TypeOK
<1>1. ASSUME Types PROVE TypeOK
  <2>1. RowTypes /\ EnvTypes /\ TurnTypes
    BY <1>1 DEF Types
  <2>2. ToSet(meta.stack) \subseteq Asks
    <3>1. meta.stack \in Seq(Asks)
      BY <2>1, MetaParts DEF RowTypes
    <3> QED
      BY <3>1 DEF ToSet
  <2>3. \A i \in DOMAIN messages : /\ messages[i].turn \in Turns
                                   /\ messages[i].role \in {"customer", "agent"}
    <3>1. \A i \in DOMAIN messages : messages[i] \in Lines
      BY <2>1, MessagesAre
    <3> QED
      BY <3>1 DEF Lines
  <2>4. \A i \in DOMAIN tickets : tickets[i].turn \in Turns
    <3>1. \A i \in DOMAIN tickets : tickets[i] \in Opened
      BY <2>1, TicketsAre
    <3> QED
      BY <3>1 DEF Opened
  <2>5. \A t \in Turns : loc[t].rounds \in 0..MaxIterations /\ loc[t].calls \in 0..MaxCalls
    BY <2>1, LocalParts
  <2> QED
    BY <2>1, <2>2, <2>3, <2>4, <2>5 DEF TypeOK, RowTypes, EnvTypes
<1> QED
  BY <1>1, Typing, PTL

\* However many turns overlap, fail or crash, and although each writes the
\* topics of its own snapshot, no stored topic waits twice or behind no topic;
\* and a turn that writes the topics a session has claimed puts them in order.
THEOREM TopicsStaySound == Spec => []TopicsSound
<1>1. ASSUME Types PROVE TopicsSound
  BY <1>1, MetaParts DEF Types, RowTypes, TopicsSound, Held, Waiting, Proper
<1> QED
  BY <1>1, Typing, PTL

-----------------------------------------------------------------------------
(* The transcript *)

\* One more message.
LEMMA MessageAdded ==
    ASSUME RowTypes, NEW e \in Lines, messages' = Append(messages, e)
    PROVE  /\ Len(messages') = Len(messages) + 1
           /\ DOMAIN messages' = 1..Len(messages) + 1
           /\ \A i \in DOMAIN messages : i \in DOMAIN messages' /\ messages'[i] = messages[i]
           /\ \A i \in DOMAIN messages' : i \in DOMAIN messages \/ i = Len(messages) + 1
           /\ messages'[Len(messages) + 1] = e /\ Len(messages) + 1 \in DOMAIN messages'
<1>1. messages \in Seq(Lines)
  BY DEF RowTypes
<1> QED
  BY <1>1

\* One more ticket.
LEMMA TicketAdded ==
    ASSUME RowTypes, NEW e \in Opened, tickets' = Append(tickets, e)
    PROVE  /\ Len(tickets') = Len(tickets) + 1
           /\ DOMAIN tickets' = 1..Len(tickets) + 1
           /\ \A i \in DOMAIN tickets : i \in DOMAIN tickets' /\ tickets'[i] = tickets[i]
           /\ \A i \in DOMAIN tickets' : i \in DOMAIN tickets \/ i = Len(tickets) + 1
           /\ tickets'[Len(tickets) + 1] = e /\ Len(tickets) + 1 \in DOMAIN tickets'
<1>1. tickets \in Seq(Opened)
  BY DEF RowTypes
<1> QED
  BY <1>1

\* The labels at which a turn has no reply, and those at which it acts.
Unanswered == Acting \cup {"idle", "index", "ask", "rejected"}

LEMMA LabelsApart ==
    /\ Unanswered \cap Trailing = {} /\ Unanswered \cap {"done", "failed", "crashed"} = {}
    /\ Acting \cap {"idle", "index", "ask", "rejected"} = {}
    /\ "say" \in Acting /\ "touch" \in Acting /\ "open" \in Acting
    /\ "refresh" \notin Unanswered
  BY DEF Unanswered, Acting, Trailing


\* A table of messages with the question, with the reply of a turn.
Questioned(ms, t, index) ==
    \E i \in DOMAIN ms : ms[i].turn = t /\ ms[i].role = "customer" /\ ms[i].index = index
Replied(ms, t) == \E i \in DOMAIN ms : ms[i].turn = t /\ ms[i].role = "agent"

LEMMA QuestionFirstIs ==
    /\ QuestionFirst <=> \A t \in Turns :
           /\ pc[t] \in Acting => Questioned(messages, t, loc[t].index)
           /\ pc[t] \in Unanswered => ~Replied(messages, t)
    /\ QuestionFirst' <=> \A t \in Turns :
           /\ pc'[t] \in Acting => Questioned(messages', t, loc'[t].index)
           /\ pc'[t] \in Unanswered => ~Replied(messages', t)
  BY DEF QuestionFirst, Questioned, Replied, Answered, Unanswered

\* A step of turn t that leaves the transcript of the other turns alone.
LEMMA OneTurnSteps ==
    ASSUME TurnTypes, QuestionFirst, NEW t \in Turns, NEW label, NEW l,
           Moves(t, label, l),
           \A u \in Turns \ {t} :
               /\ Replied(messages', u) => Replied(messages, u)
               /\ \A n \in Nat : Questioned(messages, u, n) => Questioned(messages', u, n),
           label \in Acting => Questioned(messages', t, l.index),
           label \in Unanswered => ~Replied(messages', t)
    PROVE  QuestionFirst'
<1>1. /\ pc'[t] = label /\ loc'[t] = l
      /\ \A u \in Turns \ {t} : pc'[u] = pc[u] /\ loc'[u] = loc[u] /\ loc[u].index \in Nat
  BY Elsewhere, LocalParts
<1>2. ASSUME NEW u \in Turns
      PROVE  /\ pc'[u] \in Acting => Questioned(messages', u, loc'[u].index)
             /\ pc'[u] \in Unanswered => ~Replied(messages', u)
  <2>1. /\ pc[u] \in Acting => Questioned(messages, u, loc[u].index)
        /\ pc[u] \in Unanswered => ~Replied(messages, u)
    BY QuestionFirstIs
  <2>2. CASE u = t
    BY <1>1, <2>2
  <2>3. CASE u # t
    BY <1>1, <2>1, <2>3
  <2> QED
    BY <2>2, <2>3
<1> QED
  BY <1>2, QuestionFirstIs

\* A step of a turn that writes no message.
LEMMA SilentStep ==
    ASSUME TurnTypes, QuestionFirst, NEW t \in Turns, NEW label, NEW l,
           Moves(t, label, l), messages' = messages,
           label \in Acting => pc[t] \in Acting /\ l.index = loc[t].index,
           label \in Unanswered => pc[t] \in Unanswered
    PROVE  QuestionFirst'
<1>1. /\ pc[t] \in Acting => Questioned(messages, t, loc[t].index)
      /\ pc[t] \in Unanswered => ~Replied(messages, t)
  BY QuestionFirstIs
<1>2. /\ label \in Acting => Questioned(messages', t, l.index)
      /\ label \in Unanswered => ~Replied(messages', t)
  BY <1>1
<1> QED
  BY <1>2, OneTurnSteps

\* The messages and the tickets as they were.
LEMMA TablesKept ==
    ASSUME ReplyFollowsQuestion, ActsOnTranscript, messages' = messages, tickets' = tickets
    PROVE  ReplyFollowsQuestion' /\ ActsOnTranscript'
  BY DEF ReplyFollowsQuestion, ActsOnTranscript, Asked

LEMMA AskingKeeps ==
    ASSUME Types, TranscriptInv, NEW t \in Turns, Asking(t) PROVE TranscriptInv'
<1> DEFINE e == Entry(t, "customer")  n == Len(messages) + 1
<1>0. /\ RowTypes /\ TurnTypes /\ QuestionFirst /\ ReplyFollowsQuestion /\ ActsOnTranscript
      /\ pc[t] = "ask" /\ loc[t].index \in Nat
  BY LocalParts DEF Types, TranscriptInv, Asking
<1>1. e \in Lines /\ e.turn = t /\ e.role = "customer" /\ e.index = loc[t].index
  BY <1>0, EntryIsLine DEF Entry
<1>2. messages' = Append(messages, e)
  BY DEF Asking
<1> HIDE DEF e
<1>3. /\ Len(messages) \in Nat /\ DOMAIN messages = 1..Len(messages)
      /\ DOMAIN messages' = 1..n /\ n \in DOMAIN messages' /\ messages'[n] = e
      /\ \A i \in DOMAIN messages : i \in DOMAIN messages' /\ messages'[i] = messages[i]
      /\ \A i \in DOMAIN messages' : i \in DOMAIN messages \/ i = n
  BY <1>0, <1>1, <1>2, MessageAdded, MessagesAre
<1> HIDE DEF n
<1>4. \A u \in Turns : Replied(messages', u) => Replied(messages, u)
  <2> SUFFICES ASSUME NEW u \in Turns, NEW i \in DOMAIN messages', messages'[i].turn = u,
                      messages'[i].role = "agent"
               PROVE  Replied(messages, u)
    BY DEF Replied
  <2>1. i \in DOMAIN messages
    BY <1>1, <1>3
  <2> QED
    BY <1>3, <2>1 DEF Replied
<1>5. \A u \in Turns, k \in Nat : Questioned(messages, u, k) => Questioned(messages', u, k)
  BY <1>3 DEF Questioned
<1>6. Questioned(messages', t, loc[t].index)
  BY <1>1, <1>3 DEF Questioned
<1>7. ~Replied(messages', t)
  BY <1>0, <1>4, QuestionFirstIs DEF Unanswered
<1>8. QuestionFirst'
  BY <1>0, <1>4, <1>5, <1>6, <1>7, OneTurnSteps DEF Asking
<1>9. ReplyFollowsQuestion'
  <2> SUFFICES ASSUME NEW i \in DOMAIN messages', messages'[i].role = "agent"
               PROVE  /\ \E j \in 1..(i - 1) : /\ messages'[j].role = "customer"
                                              /\ messages'[j].turn = messages'[i].turn
                                              /\ messages'[j].index = messages'[i].index
                      /\ \A j \in DOMAIN messages' :
                               messages'[j].role = "agent" /\ messages'[j].turn = messages'[i].turn => j = i
    BY DEF ReplyFollowsQuestion
  <2>1. i \in DOMAIN messages /\ messages'[i] = messages[i]
    BY <1>1, <1>3
  <2>2. PICK j \in 1..(i - 1) : /\ messages[j].role = "customer"
                                /\ messages[j].turn = messages[i].turn
                                /\ messages[j].index = messages[i].index
    BY <1>0, <2>1 DEF ReplyFollowsQuestion
  <2>3. j \in DOMAIN messages
    BY <1>3, <2>1
  <2>4. \A k \in DOMAIN messages' : messages'[k].role = "agent" => k \in DOMAIN messages
    BY <1>1, <1>3
  <2>5. messages'[j] = messages[j]
    BY <1>3, <2>3
  <2>6. \A k \in DOMAIN messages' :
              messages'[k].role = "agent" /\ messages'[k].turn = messages'[i].turn => k = i
    <3> SUFFICES ASSUME NEW k \in DOMAIN messages', messages'[k].role = "agent",
                        messages'[k].turn = messages'[i].turn
                 PROVE  k = i
      OBVIOUS
    <3>1. k \in DOMAIN messages /\ messages'[k] = messages[k]
      BY <1>3, <2>4
    <3> QED
      BY <1>0, <2>1, <3>1 DEF ReplyFollowsQuestion
  <2>7. /\ messages'[j].role = "customer"
        /\ messages'[j].turn = messages'[i].turn
        /\ messages'[j].index = messages'[i].index
    BY <2>1, <2>2, <2>5
  <2> QED
    BY <2>2, <2>6, <2>7, Zenon
<1>10. ActsOnTranscript'
  <2>1. tickets' = tickets
    BY DEF Asking
  <2>2. \A u : Asked(u) => Asked(u)'
    BY <1>3 DEF Asked
  <2> QED
    BY <1>0, <2>1, <2>2 DEF ActsOnTranscript, Asked
<1> QED
  BY <1>8, <1>9, <1>10 DEF TranscriptInv

LEMMA AnswersKeeps ==
    ASSUME Types, TranscriptInv, NEW t \in Turns, Answers(t) PROVE TranscriptInv'
<1> DEFINE e == Entry(t, "agent")  n == Len(messages) + 1
<1>0. /\ RowTypes /\ TurnTypes /\ QuestionFirst /\ ReplyFollowsQuestion /\ ActsOnTranscript
      /\ pc[t] = "say" /\ loc[t].index \in Nat
  BY LocalParts DEF Types, TranscriptInv, Answers
<1>1. e \in Lines /\ e.turn = t /\ e.role = "agent" /\ e.index = loc[t].index
  BY <1>0, EntryIsLine DEF Entry
<1>2. messages' = Append(messages, e)
  BY DEF Answers
<1> HIDE DEF e
<1>3. /\ Len(messages) \in Nat /\ DOMAIN messages = 1..Len(messages) /\ n \in Nat
      /\ n = Len(messages) + 1
      /\ DOMAIN messages' = 1..n /\ n \in DOMAIN messages' /\ messages'[n] = e
      /\ \A i \in DOMAIN messages : i \in DOMAIN messages' /\ messages'[i] = messages[i]
      /\ \A i \in DOMAIN messages' : i \in DOMAIN messages \/ i = n
  BY <1>0, <1>1, <1>2, MessageAdded, MessagesAre
<1> HIDE DEF n
<1>4. Questioned(messages, t, loc[t].index) /\ ~Replied(messages, t)
  BY <1>0, QuestionFirstIs, LabelsApart DEF Unanswered
<1>5. \A u \in Turns \ {t} : Replied(messages', u) => Replied(messages, u)
  <2> SUFFICES ASSUME NEW u \in Turns \ {t}, NEW i \in DOMAIN messages',
                      messages'[i].turn = u, messages'[i].role = "agent"
               PROVE  Replied(messages, u)
    BY DEF Replied
  <2>1. i \in DOMAIN messages
    BY <1>1, <1>3
  <2> QED
    BY <1>3, <2>1 DEF Replied
<1>6. \A u \in Turns, k \in Nat : Questioned(messages, u, k) => Questioned(messages', u, k)
  BY <1>3 DEF Questioned
<1>7. QuestionFirst'
  BY <1>0, <1>5, <1>6, OneTurnSteps, LabelsApart DEF Answers, Unanswered
<1>8. ReplyFollowsQuestion'
  <2> SUFFICES ASSUME NEW i \in DOMAIN messages', messages'[i].role = "agent"
               PROVE  /\ \E j \in 1..(i - 1) : /\ messages'[j].role = "customer"
                                              /\ messages'[j].turn = messages'[i].turn
                                              /\ messages'[j].index = messages'[i].index
                      /\ \A j \in DOMAIN messages' :
                               messages'[j].role = "agent" /\ messages'[j].turn = messages'[i].turn => j = i
    BY DEF ReplyFollowsQuestion
  <2>1. \A j \in DOMAIN messages : messages[j].role = "agent" => messages[j].turn # t
    BY <1>4 DEF Replied
  <2>2. CASE i \in DOMAIN messages
    <3>1. messages'[i] = messages[i]
      BY <1>3, <2>2
    <3>2. PICK j \in 1..(i - 1) : /\ messages[j].role = "customer"
                                  /\ messages[j].turn = messages[i].turn
                                  /\ messages[j].index = messages[i].index
      BY <1>0, <2>2, <3>1 DEF ReplyFollowsQuestion
    <3>3. j \in DOMAIN messages
      BY <1>3, <2>2
    <3>4. \A k \in DOMAIN messages' : /\ messages'[k].role = "agent"
                                      /\ messages'[k].turn = messages'[i].turn
                                     => k \in DOMAIN messages
      BY <1>1, <1>3, <2>1, <2>2, <3>1
    <3>5. messages'[j] = messages[j]
      BY <1>3, <3>3
    <3>6. \A k \in DOMAIN messages' :
              messages'[k].role = "agent" /\ messages'[k].turn = messages'[i].turn => k = i
      <4> SUFFICES ASSUME NEW k \in DOMAIN messages', messages'[k].role = "agent",
                          messages'[k].turn = messages'[i].turn
                   PROVE  k = i
        OBVIOUS
      <4>1. k \in DOMAIN messages /\ messages'[k] = messages[k]
        BY <1>3, <3>4
      <4> QED
        BY <1>0, <2>2, <3>1, <4>1 DEF ReplyFollowsQuestion
    <3>7. /\ messages'[j].role = "customer"
          /\ messages'[j].turn = messages'[i].turn
          /\ messages'[j].index = messages'[i].index
      BY <3>1, <3>2, <3>5
    <3> QED
      BY <3>2, <3>6, <3>7, Zenon
  <2>3. CASE i = n
    <3>1. PICK j \in DOMAIN messages : /\ messages[j].turn = t /\ messages[j].role = "customer"
                                       /\ messages[j].index = loc[t].index
      BY <1>4 DEF Questioned
    <3>2. j \in 1..(n - 1) /\ messages'[j] = messages[j]
      BY <1>3
    <3>3. \A k \in DOMAIN messages : messages'[k] = messages[k]
      BY <1>3
    <3>4. \A k \in DOMAIN messages' :
              messages'[k].role = "agent" /\ messages'[k].turn = t => k = n
      <4> SUFFICES ASSUME NEW k \in DOMAIN messages', messages'[k].role = "agent",
                          messages'[k].turn = t
                   PROVE  k = n
        OBVIOUS
      <4>1. k \notin DOMAIN messages
        BY <2>1, <3>3
      <4> QED
        BY <1>3, <4>1
    <3> QED
      BY <1>1, <1>3, <2>3, <3>1, <3>2, <3>4
  <2> QED
    BY <1>3, <2>2, <2>3
<1>9. ActsOnTranscript'
  <2>1. tickets' = tickets
    BY DEF Answers
  <2>2. \A u : Asked(u) => Asked(u)'
    BY <1>3 DEF Asked
  <2> QED
    BY <1>0, <2>1, <2>2 DEF ActsOnTranscript, Asked
<1> QED
  BY <1>7, <1>8, <1>9 DEF TranscriptInv

LEMMA ActsKeeps ==
    ASSUME Types, TranscriptInv, NEW t \in Turns, Acts(t) PROVE TranscriptInv'
<1>0. /\ RowTypes /\ TurnTypes /\ QuestionFirst /\ ReplyFollowsQuestion /\ ActsOnTranscript
      /\ pc[t] \in Acting /\ messages' = messages
  BY DEF Types, TranscriptInv, Acts
<1>1. PICK label \in Acting, l \in Locals : Moves(t, label, l) /\ l.index = loc[t].index
  BY DEF Acts, ActingMove
<1>2. QuestionFirst'
  <2>1. pc[t] \in Unanswered
    BY <1>0 DEF Unanswered
  <2> QED
    BY <1>0, <1>1, <2>1, SilentStep
<1>3. CASE tickets' = tickets
  BY <1>0, <1>2, <1>3, TablesKept DEF TranscriptInv
<1>4. CASE pc[t] = "open" /\ tickets' = Append(tickets, Ticket(t))
  <2>1. Ticket(t) \in Opened /\ Ticket(t).turn = t
    BY <1>0, <1>4, TicketOpened DEF Ticket
  <2>2. /\ \A i \in DOMAIN tickets : tickets'[i] = tickets[i]
        /\ \A i \in DOMAIN tickets' : i \in DOMAIN tickets \/ tickets'[i] = Ticket(t)
    BY <1>0, <1>4, <2>1, TicketAdded
  <2>3. Asked(t)
    BY <1>0, QuestionFirstIs DEF Questioned, Asked
  <2>4. \A u : Asked(u)' <=> Asked(u)
    BY <1>0 DEF Asked
  <2>5. \A i \in DOMAIN tickets' : Asked(tickets'[i].turn)
    BY <1>0, <2>1, <2>2, <2>3 DEF ActsOnTranscript
  <2>6. ActsOnTranscript'
    BY <1>0, <2>5 DEF ActsOnTranscript, Asked
  <2>7. ReplyFollowsQuestion'
    BY <1>0 DEF ReplyFollowsQuestion
  <2> QED
    BY <1>2, <2>6, <2>7 DEF TranscriptInv
<1> QED
  BY <1>3, <1>4 DEF Acts

LEMMA TranscriptKept == ASSUME Types, TranscriptInv, [Next]_vars PROVE TranscriptInv'
<1>0. /\ RowTypes /\ TurnTypes /\ QuestionFirst /\ ReplyFollowsQuestion /\ ActsOnTranscript
  BY DEF Types, TranscriptInv
<1>1. ASSUME NEW t \in Turns, Arrives(t) PROVE TranscriptInv'
  <2>1. PICK label \in {"rejected", "index"}, l \in Locals : Moves(t, label, l)
    BY <1>0, <1>1, LocalParts DEF Arrives
  <2>2. messages' = messages /\ tickets' = tickets /\ pc[t] = "idle"
    BY <1>1 DEF Arrives, rows
  <2>3. label \notin Acting /\ pc[t] \in Unanswered
    BY <2>2, LabelsApart DEF Unanswered
  <2> QED
    BY <1>0, <2>1, <2>2, <2>3, SilentStep, TablesKept DEF TranscriptInv
<1>2. ASSUME NEW t \in Turns, Numbers(t) PROVE TranscriptInv'
  <2>1. PICK l \in Locals : Moves(t, "ask", l)
    BY <1>2 DEF Numbers
  <2>2. messages' = messages /\ tickets' = tickets /\ pc[t] = "index"
    BY <1>2 DEF Numbers, rows
  <2>3. "ask" \notin Acting /\ pc[t] \in Unanswered
    BY <2>2, LabelsApart DEF Unanswered
  <2> QED
    BY <1>0, <2>1, <2>2, <2>3, SilentStep, TablesKept DEF TranscriptInv
<1>3. ASSUME NEW t \in Turns, Trails(t) \/ Ends(t) PROVE TranscriptInv'
  <2>1. PICK label \in Trailing \cup {"done", "failed"}, l \in Locals : Moves(t, label, l)
    BY <1>3, EmptyLocals DEF Trails, Ends
  <2>2. messages' = messages /\ tickets' = tickets
    BY <1>3 DEF Trails, Ends, rows
  <2>3. label \notin Acting /\ label \notin Unanswered
    BY LabelsApart DEF Unanswered
  <2> QED
    BY <1>0, <2>1, <2>2, <2>3, SilentStep, TablesKept DEF TranscriptInv
<1>4. CASE Dies
  <2>1. messages' = messages /\ tickets' = tickets
    BY <1>4 DEF Dies, rows
  <2>2. \A t \in Turns : /\ pc'[t] \notin Acting
                         /\ pc'[t] \in Unanswered => pc'[t] = pc[t]
    BY <1>4, LabelsApart DEF Dies, Busy, Over, Unanswered, Acting
  <2>3. QuestionFirst'
    BY <1>0, <2>1, <2>2, QuestionFirstIs
  <2> QED
    BY <1>0, <2>1, <2>3, TablesKept DEF TranscriptInv
<1>5. CASE Stops \/ UNCHANGED vars
  <2>1. messages' = messages /\ tickets' = tickets /\ pc' = pc /\ loc' = loc
    BY <1>5 DEF Stops, vars, rows
  <2>2. QuestionFirst'
    BY <1>0, <2>1, QuestionFirstIs
  <2> QED
    BY <1>0, <2>1, <2>2, TablesKept DEF TranscriptInv
<1> QED
  BY <1>1, <1>2, <1>3, <1>4, <1>5, AskingKeeps, AnswersKeeps, ActsKeeps, StepIs

LEMMA TranscriptInit == Init => TranscriptInv
  BY DEF Init, TranscriptInv, QuestionFirst, ReplyFollowsQuestion, ActsOnTranscript, Answered,
         Acting

LEMMA TranscriptHolds == Spec => []TranscriptInv
  BY Typing, TranscriptInit, TranscriptKept, PTL DEF Spec

\* Every reply stands in the transcript after the message it answers, under the
\* same turn index, and there is at most one for a turn.
THEOREM RepliesFollowQuestions == Spec => []ReplyFollowsQuestion
  BY TranscriptHolds, PTL DEF TranscriptInv

\* No ticket is opened for a turn whose message is not in the transcript.
THEOREM ActsAreOnTranscript == Spec => []ActsOnTranscript
  BY TranscriptHolds, PTL DEF TranscriptInv

\* Once the reply is stored, only the count of the gauge can fail the request.
THEOREM OnlyTheGaugeFails == Spec => TailIsBestEffort
<1> DEFINE Best == \A t \in Turns : Answered(t) /\ Busy(t) /\ pc'[t] = "failed" => pc[t] = "gauge"
<1>1. ASSUME Types, TranscriptInv, [Next]_vars PROVE [Best]_vars
  <2> SUFFICES ASSUME NEW t \in Turns, Answered(t), Busy(t), pc'[t] = "failed"
               PROVE  pc[t] = "gauge"
    BY DEF Best
  <2>0. TurnTypes /\ QuestionFirst
    BY <1>1 DEF Types, TranscriptInv
  <2>1. pc[t] \in Trailing
    BY <2>0, LocalParts DEF QuestionFirst, Labels, Busy, Over, Acting, Answered
  <2>2. pc[t] # "failed"
    BY DEF Busy, Over
  <2>3. ASSUME NEW u \in Turns, Arrives(u) \/ Numbers(u) \/ Asking(u) \/ Acts(u)
                                \/ Answers(u) \/ Trails(u)
        PROVE  pc'[u] # "failed" /\ \A v \in Turns \ {u} : pc'[v] = pc[v]
    <3> DEFINE Onwards == \E label, l : Moves(u, label, l) /\ label # "failed"
    <3>1. CASE Arrives(u) \/ Numbers(u) \/ Asking(u) \/ Answers(u)
      <4>1. Onwards
        BY <3>1 DEF Arrives, Numbers, Asking, Answers
      <4> QED
        BY <2>0, <4>1, Elsewhere
    <3>2. CASE Acts(u)
      <4>1. PICK label \in Acting, l \in Locals : Moves(u, label, l)
        BY <3>2 DEF Acts, ActingMove
      <4>2. label # "failed"
        BY DEF Acting
      <4> QED
        BY <2>0, <4>1, <4>2, Elsewhere
    <3>3. CASE Trails(u)
      <4>1. PICK label \in Trailing, l \in Locals : Moves(u, label, l)
        BY <3>3 DEF Trails
      <4>2. label # "failed"
        BY DEF Trailing
      <4> QED
        BY <2>0, <4>1, <4>2, Elsewhere
    <3> QED
      BY <2>3, <3>1, <3>2, <3>3
  <2>4. ASSUME NEW u \in Turns, Ends(u) PROVE pc[t] = "gauge"
    <3>1. PICK label, l : Moves(u, label, l)
      BY <2>4 DEF Ends
    <3>2. u = t
      BY <2>0, <2>2, <3>1, Elsewhere
    <3> QED
      BY <2>1, <2>4, <3>2 DEF Ends, Moves, TurnTypes, Trailing
  <2>5. CASE Dies
    BY <2>2, <2>5 DEF Dies, Busy, Over
  <2>6. CASE Stops \/ UNCHANGED vars
    BY <2>2, <2>6 DEF Stops, vars
  <2> QED
    BY <1>1, <2>2, <2>3, <2>4, <2>5, <2>6, StepIs
<1> QED
  BY <1>1, Typing, TranscriptHolds, PTL DEF Spec, TailIsBestEffort
-----------------------------------------------------------------------------
(* The turns implement the bounded agent: the safety half of the refinement *)

\* What the bounded agent sees of a session.
Phase  == [t \in Turns |-> IF Busy(t) THEN "working" ELSE "resting"]
Rounds == [t \in Turns |-> loc[t].rounds]

\* After a move the agent sees the new label and locals of that turn.
LEMMA SeenAfterMove ==
    ASSUME TurnTypes, NEW t \in Turns, NEW label, NEW l, Moves(t, label, l)
    PROVE  /\ Phase' = [Phase EXCEPT ![t] = IF label \in Over THEN "resting" ELSE "working"]
           /\ Rounds' = [Rounds EXCEPT ![t] = l.rounds]
<1>1. /\ \A u \in Turns : pc'[u] = IF u = t THEN label ELSE pc[u]
      /\ \A u \in Turns : loc'[u] = IF u = t THEN l ELSE loc[u]
  BY Elsewhere
<1>2. \A u \in Turns : Phase'[u] = IF u = t THEN IF label \in Over THEN "resting" ELSE "working"
                                   ELSE Phase[u]
  BY <1>1 DEF Phase, Busy
<1>3. \A u \in Turns : Rounds'[u] = IF u = t THEN l.rounds ELSE Rounds[u]
  BY <1>1 DEF Rounds
<1> QED
  BY <1>2, <1>3 DEF Phase, Rounds

\* A move within a turn, or from one end to another, that asks for no work.
LEMMA UnseenMove ==
    ASSUME TurnTypes, NEW t \in Turns, NEW label, NEW l, Moves(t, label, l),
           label \in Over <=> ~Busy(t), l.rounds = loc[t].rounds
    PROVE  UNCHANGED <<Phase, Rounds>>
<1>1. Phase[t] = IF label \in Over THEN "resting" ELSE "working"
  BY DEF Phase
<1>2. Rounds[t] = l.rounds
  BY DEF Rounds
<1>3. Phase = [u \in Turns |-> Phase[u]] /\ Rounds = [u \in Turns |-> Rounds[u]]
  BY DEF Phase, Rounds
<1> QED
  BY <1>1, <1>2, <1>3, SeenAfterMove

LEMMA StepRefines == ASSUME Types, [Next]_vars PROVE [Agent!Next]_(Agent!vars)
<1>0. TurnTypes
  BY DEF Types
<1>1. UNCHANGED <<Phase, Rounds>> => UNCHANGED Agent!vars
  BY DEF Phase, Rounds, Agent!vars
<1>2. ASSUME NEW t \in Turns, Arrives(t) PROVE [Agent!Next]_(Agent!vars)
  <2>1. CASE Moves(t, "rejected", loc[t])
    BY <1>0, <1>1, <1>2, <2>1, UnseenMove DEF Arrives, Busy, Over
  <2>2. CASE \E l \in Locals : Moves(t, "index", l) /\ l.rounds = 0
    <3>1. PICK l \in Locals : Moves(t, "index", l) /\ l.rounds = 0
      BY <2>2
    <3>2. loc[t].rounds = 0 /\ ~Busy(t)
      BY <1>0, <1>2, LocalParts, EmptyLocals DEF Arrives, Fits, Over, Busy
    <3>3. /\ Phase[t] = "resting" /\ Rounds[t] = l.rounds
          /\ Rounds = [u \in Turns |-> Rounds[u]]
      BY <3>1, <3>2 DEF Phase, Rounds
    <3>4. /\ Phase' = [Phase EXCEPT ![t] = "working"]
          /\ Rounds' = [Rounds EXCEPT ![t] = l.rounds]
      BY <1>0, <3>1, SeenAfterMove DEF Over
    <3>5. Rounds' = Rounds
      BY <3>3, <3>4
    <3>6. Agent!Begin(t)
      BY <3>3, <3>4, <3>5 DEF Agent!Begin, Phase, Rounds
    <3> QED
      BY <3>6 DEF Agent!Next
  <2> QED
    BY <1>2, <2>1, <2>2 DEF Arrives
<1>3. ASSUME NEW t \in Turns, Acts(t) PROVE [Agent!Next]_(Agent!vars)
  <2>1. PICK label \in Acting, l \in Locals :
           /\ Moves(t, label, l)
           /\ \/ l.rounds = loc[t].rounds
              \/ loc[t].rounds < MaxIterations /\ l.rounds = loc[t].rounds + 1
    BY <1>3 DEF Acts, ActingMove
  <2>2. label \notin Over /\ Busy(t)
    BY <1>3 DEF Acts, Acting, Busy, Over
  <2>3. CASE l.rounds = loc[t].rounds
    BY <1>0, <1>1, <2>1, <2>2, <2>3, UnseenMove
  <2>4. CASE loc[t].rounds < MaxIterations /\ l.rounds = loc[t].rounds + 1
    <3>1. /\ Phase[t] = "working" /\ Rounds[t] = loc[t].rounds
          /\ Phase = [u \in Turns |-> Phase[u]]
      BY <2>2 DEF Phase, Rounds
    <3>2. /\ Phase' = [Phase EXCEPT ![t] = "working"]
          /\ Rounds' = [Rounds EXCEPT ![t] = Rounds[t] + 1]
      BY <1>0, <2>1, <2>2, <2>4, <3>1, SeenAfterMove
    <3>3. Phase' = Phase
      BY <3>1, <3>2
    <3>4. Agent!AskForWork(t)
      BY <2>4, <3>1, <3>2, <3>3 DEF Agent!AskForWork, Phase, Rounds
    <3> QED
      BY <3>4 DEF Agent!Next
  <2> QED
    BY <2>1, <2>3, <2>4
<1>4. ASSUME NEW t \in Turns, Numbers(t) \/ Asking(t) \/ Answers(t) \/ Trails(t)
      PROVE  [Agent!Next]_(Agent!vars)
  <2>1. PICK label, l : /\ Moves(t, label, l) /\ l.rounds = loc[t].rounds
                        /\ label \notin Over
    BY <1>4 DEF Numbers, Asking, Answers, Trails, Trailing, Over
  <2>2. Busy(t)
    BY <1>4 DEF Numbers, Asking, Answers, Trails, Trailing, Busy, Over
  <2> QED
    BY <1>0, <1>1, <2>1, <2>2, UnseenMove
<1>5. ASSUME NEW t \in Turns, Ends(t) PROVE [Agent!Next]_(Agent!vars)
  <2>1. PICK label \in Over : Moves(t, label, NoLoc)
    BY <1>5 DEF Ends, Over
  <2>2. Busy(t)
    BY <1>5 DEF Ends
  <2>3. /\ Phase' = [Phase EXCEPT ![t] = "resting"]
        /\ Rounds' = [Rounds EXCEPT ![t] = 0]
    BY <1>0, <2>1, SeenAfterMove, EmptyLocals
  <2>4. /\ Phase[t] = "working"
        /\ Phase' = [u \in Turns |-> IF u \in {t} THEN "resting" ELSE Phase[u]]
        /\ Rounds' = [u \in Turns |-> IF u \in {t} THEN 0 ELSE Rounds[u]]
    BY <2>2, <2>3 DEF Phase, Rounds
  <2>5. Agent!Rest({t})
    BY <2>4 DEF Agent!Rest, Phase, Rounds
  <2> QED
    BY <2>5 DEF Agent!Next
<1>6. CASE Dies
  <2>0. PICK S \in SUBSET Turns : S = {t \in Turns : Busy(t)}
    OBVIOUS
  <2>1. \A t \in Turns : /\ pc'[t] = IF t \in S THEN "crashed" ELSE pc[t]
                         /\ loc'[t] = NoLoc
    BY <1>6, <2>0 DEF Dies
  <2>2. \A t \in Turns \ S : loc[t].rounds = 0
    BY <1>0, <2>0, EmptyLocals DEF TurnTypes, Fits, Busy
  <2>3. \A t \in Turns : Phase'[t] = IF t \in S THEN "resting" ELSE Phase[t]
    BY <2>0, <2>1 DEF Phase, Busy, Over
  <2>4. \A t \in Turns : Rounds'[t] = IF t \in S THEN 0 ELSE Rounds[t]
    BY <2>1, <2>2, EmptyLocals DEF Rounds
  <2>5. /\ \A t \in S : Phase[t] = "working"
        /\ Phase' = [t \in Turns |-> IF t \in S THEN "resting" ELSE Phase[t]]
        /\ Rounds' = [t \in Turns |-> IF t \in S THEN 0 ELSE Rounds[t]]
    BY <2>0, <2>3, <2>4 DEF Phase, Rounds
  <2>6. Agent!Rest(S)
    BY <2>5 DEF Agent!Rest, Phase, Rounds
  <2> QED
    BY <2>6 DEF Agent!Next
<1>7. CASE Stops \/ UNCHANGED vars
  BY <1>1, <1>7 DEF Stops, vars, Phase, Rounds, Busy
<1> QED
  BY <1>2, <1>3, <1>4, <1>5, <1>6, <1>7, StepIs

LEMMA InitRefines == Init => Agent!Init
  BY EmptyLocals DEF Init, Agent!Init, Busy, Over

\* The turns of a session implement the bounded agent, whatever overlaps, fails
\* or crashes: a turn gets work from the model only while its budget lasts, and
\* nothing but its own end gives the budget back.
THEOREM TurnsRefineAgent == Spec => Agent!Spec
  BY Typing, InitRefines, StepRefines, PTL DEF Spec, Agent!Spec
=============================================================================
