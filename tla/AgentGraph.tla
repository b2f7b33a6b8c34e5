----------------------------- MODULE AgentGraph -----------------------------
(***************************************************************************)
(* The LangGraph reference agent: the nodes of build_graph, the edges that *)
(* choose between them, and the state a checkpointer keeps from one pass   *)
(* over the graph to the next.  A step is a superstep of LangGraph: one    *)
(* node runs, its update is checkpointed and its edge evaluated.           *)
(*                                                                         *)
(* A message is what routing and finalize can tell of it.  The tools' own  *)
(* effects on the database are those of the tools in Conversation.         *)
(***************************************************************************)
EXTENDS Integers, Sequences, FiniteSetsExt

CONSTANTS
    MaxIterations,     \* settings.agent_max_iterations
    FailureThreshold,  \* settings.escalation_tool_failure_threshold
    MaxCalls,          \* bound on the tool calls of one model response
    MaxTurns           \* bound on the turns of the thread

ASSUME GraphAssumption ==
    /\ MaxIterations \in Nat \ {0}
    /\ FailureThreshold \in Nat
    /\ MaxCalls \in Nat \ {0}
    /\ MaxTurns \in Nat

VARIABLES
    node,        \* the node to run next, "rest" between two passes
    turn,        \* turn_index of the pass, from 1
    messages,    \* the thread's history, restored by the checkpointer
    iterations, failures, refusal, escalated, response, outcome

control == <<iterations, failures, refusal, escalated, response, outcome>>
vars    == <<node, turn, messages, control>>

\* "blank" is an answer without text; "error" a tool result that reports one.
Kinds == {"human", "unsafe", "answer", "blank", "calls", "result", "error", "handoff"}

Msg(t, kind) == [turn |-> t, kind |-> kind, calls |-> 0]
NoMsg        == Msg(0, "none")

\* The model's messages that are no tool requests: type "ai", no tool_calls.
Spoken == {"answer", "blank", "handoff"}

\* The latest message of one of these kinds.
Latest(kinds) ==
    LET is == {i \in DOMAIN messages : messages[i].kind \in kinds}
    IN  IF is = {} THEN NoMsg ELSE messages[Max(is)]

Init ==
    /\ node = "rest" /\ turn = 0
    /\ messages = <<>>
    /\ iterations = 0 /\ failures = 0
    /\ refusal = FALSE /\ escalated = FALSE
    /\ response = NoMsg /\ outcome = "none"

\* mutant: the loop counters are restored from the checkpoint like the history
InvokeContinues(kind) ==
    /\ node = "rest" /\ turn < MaxTurns
    /\ turn' = turn + 1
    /\ messages' = Append(messages, Msg(turn + 1, kind))
    /\ refusal' = FALSE /\ escalated' = FALSE
    /\ response' = NoMsg /\ outcome' = "none"
    /\ node' = "guardrail"
    /\ UNCHANGED <<iterations, failures>>

\* A pass is invoked with initial_state and the customer's message: the history
\* stays, everything else starts afresh.
Invoke(kind) ==
    /\ node = "rest" /\ turn < MaxTurns
    /\ turn' = turn + 1
    /\ messages' = Append(messages, Msg(turn + 1, kind))
    /\ iterations' = 0 /\ failures' = 0
    /\ refusal' = FALSE /\ escalated' = FALSE
    /\ response' = NoMsg /\ outcome' = "none"
    /\ node' = "guardrail"

Guardrail ==
    /\ node = "guardrail"
    /\ refusal' = (Latest({"human", "unsafe"}).kind = "unsafe")
    /\ node' = IF refusal' THEN "finalize" ELSE "llm"
    /\ UNCHANGED <<turn, messages, iterations, failures, escalated, response, outcome>>

-----------------------------------------------------------------------------
(* The llm <-> tools cycle *)

\* The triggers of should_escalate, given the last message of the history.  The
\* failure threshold its only caller passes is out of reach.
ShouldEscalate(last, n) == escalated \/ (n >= MaxIterations /\ last.kind = "calls")

\* mutant: a spent budget goes to finalize
RouteAfterLlmToFinalize(last, n) ==
    IF last.kind = "calls" /\ n < MaxIterations THEN "tools" ELSE "finalize"

\* mutant: one round too many
RouteAfterLlmLate(last, n) ==
    IF escalated \/ (n > MaxIterations /\ last.kind = "calls") THEN "escalation"
    ELSE IF last.kind = "calls" THEN "tools" ELSE "finalize"

RouteAfterLlm(last, n) ==
    IF ShouldEscalate(last, n) THEN "escalation"
    ELSE IF last.kind = "calls" THEN "tools" ELSE "finalize"

RouteAfterTools(f) == IF f >= FailureThreshold THEN "escalation" ELSE "llm"

\* What the model may answer.
Responses ==
    {Msg(turn, "answer"), Msg(turn, "blank")}
        \cup {[Msg(turn, "calls") EXCEPT !.calls = n] : n \in 1..MaxCalls}

Llm ==
    /\ node = "llm"
    /\ \E m \in Responses :
           /\ messages' = Append(messages, m)
           /\ iterations' = iterations + 1
           /\ node' = RouteAfterLlm(m, iterations')
    /\ UNCHANGED <<turn, failures, refusal, escalated, response, outcome>>

Last == messages[Len(messages)]

\* The tool messages of a round: which of its calls failed.
Results(failed) ==
    [i \in DOMAIN failed |-> Msg(turn, IF failed[i] THEN "error" ELSE "result")]

ToolsDropErrors ==                                                     \* mutant
    /\ node = "tools"
    /\ \E failed \in [1..Last.calls -> BOOLEAN] :
           LET all == \A i \in DOMAIN failed : failed[i]
           IN  /\ messages' = IF all THEN messages
                              ELSE messages \o [i \in DOMAIN failed |-> Msg(turn, "result")]
               /\ failures' = IF all THEN failures + 1 ELSE 0
               /\ node' = RouteAfterTools(failures')
    /\ UNCHANGED <<turn, iterations, refusal, escalated, response, outcome>>

\* All calls of the last message, gathered; whatever a tool raises becomes its
\* result.  Only a round in which every call failed counts as a failure.
Tools ==
    /\ node = "tools"
    /\ \E failed \in [1..Last.calls -> BOOLEAN] :
           /\ messages' = messages \o Results(failed)
           /\ failures' = IF \A i \in DOMAIN failed : failed[i] THEN failures + 1 ELSE 0
           /\ node' = RouteAfterTools(failures')
    /\ UNCHANGED <<turn, iterations, refusal, escalated, response, outcome>>

-----------------------------------------------------------------------------
(* The ways out *)

Escalation ==
    /\ node = "escalation"
    /\ messages' = Append(messages, Msg(turn, "handoff"))
    /\ escalated' = TRUE
    /\ response' = Msg(turn, "handoff") /\ outcome' = "escalated"
    /\ node' = "finalize"
    /\ UNCHANGED <<turn, iterations, failures, refusal>>

\* The text of the latest spoken message, or the fallback if it has none.
Finalize ==
    LET said == Latest(Spoken)
    IN  /\ node = "finalize"
        /\ response' = IF refusal THEN Msg(turn, "refusal")
                       ELSE IF escalated THEN response
                       ELSE IF said.kind \in {"none", "blank"} THEN Msg(turn, "fallback")
                       ELSE said
        /\ outcome' = IF refusal THEN "refused"
                      ELSE IF escalated THEN "escalated" ELSE "resolved"
        /\ node' = "rest"
        /\ UNCHANGED <<turn, messages, iterations, failures, refusal, escalated>>

\* The provider or the checkpointer raises, or the process dies: the pass is
\* lost with the node's update, the checkpoint before it stays.
Abort ==
    /\ node # "rest"
    /\ node' = "rest"
    /\ UNCHANGED <<turn, messages, control>>

Run == Guardrail \/ Llm \/ Tools \/ Escalation \/ Finalize

Next == (\E kind \in {"human", "unsafe"} : Invoke(kind)) \/ Run \/ Abort

Spec == Init /\ [][Next]_vars

\* LangGraph runs the next node of a pass; nothing makes customers write.
FairSpec == Spec /\ WF_vars(Run)

-----------------------------------------------------------------------------
(* Properties *)

TypeOK ==
    /\ node \in {"rest", "guardrail", "llm", "tools", "escalation", "finalize"}
    /\ turn \in 0..MaxTurns
    /\ messages \in Seq([turn : 1..MaxTurns, kind : Kinds, calls : 0..MaxCalls])
    /\ iterations \in 0..MaxIterations
    /\ failures \in 0..MaxIterations
    /\ refusal \in BOOLEAN /\ escalated \in BOOLEAN
    /\ outcome \in {"none", "refused", "escalated", "resolved"}

\* The customer is never shown an earlier turn's answer: although finalize
\* searches the restored history backwards, what it finds is what the model
\* said last in this turn, and the fallback stands for an empty answer only.
AnswerIsThisTurns ==
    outcome = "resolved" =>
        /\ Last.turn = turn
        /\ IF Last.kind = "blank" THEN response = Msg(turn, "fallback")
           ELSE Last.kind = "answer" /\ response = Last

\* A request for tools some of whose calls have no result behind it.
LeftOpen(i) ==
    \E k \in 1..messages[i].calls :
        ~(i + k \in DOMAIN messages /\ messages[i + k].kind \in {"result", "error"})

\* The calls of this turn among the first n messages have their results.
Answered(n) == \A i \in 1..n : messages[i].turn = turn => ~LeftOpen(i)

\* Every tool call of the turn has its result in the history before the model
\* is asked again, failed calls included.
CallsAnswered == node = "llm" => Answered(Len(messages))

\* A call without a result, which the checkpointer hands on to the next turn
\* and its provider, is only ever the last thing its turn did: the pass was
\* lost, or a handoff for a spent budget followed.  No turn that resolved
\* leaves one, and nothing is said after it as if it had been answered.
OpenCallsEndTurn ==
    /\ \A i \in 1..(Len(messages) - 1) :
           LeftOpen(i) => \/ messages[i + 1].kind = "handoff"
                          \/ messages[i + 1].turn # messages[i].turn
    /\ outcome = "resolved" => Answered(Len(messages))

\* The last n rounds before position k failed altogether, all in this turn.
FailedRounds(k, n) ==
    \E i \in 1..k :
        /\ \A j \in i..(k - 1) :
               messages[j].turn = turn /\ messages[j].kind \in {"calls", "error"}
        /\ Cardinality({j \in i..(k - 1) : messages[j].kind = "calls"}) = n

\* A handoff is offered for a reason of this turn: the model spent its budget
\* and still wants tools, or its last rounds failed one after the other.
EscalationIsEarned ==
    node = "rest" /\ outcome = "escalated" =>
        \/ iterations = MaxIterations /\ messages[Len(messages) - 1].kind = "calls"
        \/ FailedRounds(Len(messages), FailureThreshold)

\* Strengthenings the safety properties rest on: what is known of a pass that
\* has come to a node...
PassState ==
    /\ node # "rest" => turn > 0
    /\ node = "guardrail" => iterations = 0
    /\ node = "llm" => iterations < MaxIterations /\ ~refusal
    /\ node = "tools" => /\ iterations < MaxIterations /\ ~refusal
                         /\ messages # <<>> /\ Last.kind = "calls"
    /\ node \in {"guardrail", "llm"} => failures <= iterations
    /\ node = "tools" => failures < iterations
    /\ node \in {"guardrail", "llm", "tools"} => ~escalated
    /\ node # "rest" => outcome # "resolved"
    /\ node = "finalize" /\ ~refusal /\ ~escalated =>
           /\ messages # <<>>
           /\ Last.turn = turn /\ Last.kind \in {"answer", "blank"}

\* ...and of the history it has there: only the last response may still wait
\* for the results of its calls, and no message is of a later turn.
HistoryState ==
    /\ \A i \in DOMAIN messages : messages[i].turn <= turn
    /\ node \in {"guardrail", "llm"} => Answered(Len(messages))
    /\ node = "finalize" /\ ~refusal /\ ~escalated => Answered(Len(messages))
    /\ node = "tools" => Answered(Len(messages) - 1)

\* The inductive invariant.
GraphInv == TypeOK /\ PassState /\ HistoryState /\ AnswerIsThisTurns /\ OpenCallsEndTurn

\* The graph implements the bounded agent: the model is asked at most
\* MaxIterations times a turn and every pass ends, whatever the model wants.
Thread == {"thread"}
Agent  == INSTANCE BoundedAgent WITH
              Agents <- Thread,
              Budget <- MaxIterations,
              phase  <- [t \in Thread |-> IF node = "rest" THEN "resting" ELSE "working"],
              rounds <- [t \in Thread |-> IF node = "rest" THEN 0 ELSE iterations]

ImplementsBoundedAgent == Agent!FairSpec
=============================================================================
