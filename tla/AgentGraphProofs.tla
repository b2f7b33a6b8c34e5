-------------------------- MODULE AgentGraphProofs --------------------------
(* Proofs about AgentGraph, for any budget, failure threshold, number of   *)
(* calls in a response and number of turns.                                *)
EXTENDS AgentGraph, FiniteSetTheorems, TLAPS

USE GraphAssumption DEF GraphAssumption

History == [turn : 1..MaxTurns, kind : Kinds, calls : 0..MaxCalls]

\* A message made for the current turn belongs in the history.
LEMMA MsgInHistory ==
    ASSUME NEW t \in 1..MaxTurns, NEW kind \in Kinds
    PROVE  Msg(t, kind) \in History
  BY DEF Msg, History

\* A message of the history has a number of calls.
LEMMA CallsInHistory == ASSUME NEW m \in History PROVE m.calls \in Nat
  BY DEF History

\* What the model may answer is a message of the turn.
LEMMA ResponseInHistory ==
    ASSUME turn \in 1..MaxTurns, NEW m \in Responses
    PROVE  /\ m \in History /\ m.turn = turn
           /\ m.kind \in {"answer", "blank", "calls"}
           /\ m.kind # "calls" => m.calls = 0
           /\ m.kind # "handoff"
  BY DEF Responses, Msg, History, Kinds

\* The results of a round of tool calls are a sequence of messages.
LEMMA ResultsInHistory ==
    ASSUME turn \in 1..MaxTurns, NEW n \in Nat, NEW failed \in [1..n -> BOOLEAN]
    PROVE  /\ Results(failed) \in Seq(History) /\ Len(Results(failed)) = n
           /\ \A i \in 1..n : LET m == Results(failed)[i]
                              IN  /\ m.kind \in {"result", "error"}
                                  /\ m.turn = turn /\ m.calls = 0
<1>1. \A i \in 1..n :
         Results(failed)[i] = Msg(turn, IF failed[i] THEN "error" ELSE "result")
  BY DEF Results
<1>2. \A i \in 1..n : Results(failed)[i] \in History
  BY <1>1, MsgInHistory DEF Kinds
<1>3. Results(failed) \in [1..n -> History]
  BY <1>2 DEF Results
<1>4. Results(failed) \in Seq(History) /\ Len(Results(failed)) = n
  BY <1>3
<1> QED
  BY <1>1, <1>4 DEF Msg

\* A history that ends with a spoken message: finalize's search finds that one.
LEMMA LatestIsLast ==
    ASSUME messages \in Seq(History), messages # <<>>, Last.kind \in Spoken
    PROVE  Latest(Spoken) = Last
<1> DEFINE is == {i \in DOMAIN messages : messages[i].kind \in Spoken}
<1>1. Len(messages) \in is /\ is \subseteq 1..Len(messages)
  BY DEF Last
<1>2. Max(is) = Len(messages)
  <2>1. \A y \in is : Len(messages) >= y
    BY <1>1
  <2>2. ASSUME NEW x \in is, \A y \in is : x >= y PROVE x = Len(messages)
    BY <1>1, <2>1, <2>2
  <2> HIDE DEF is
  <2> QED
    BY <1>1, <2>1, <2>2 DEF Max
<1>3. is # {}
  BY <1>1
<1> HIDE DEF is
<1>4. Latest(Spoken) = IF is = {} THEN NoMsg ELSE messages[Max(is)]
  BY DEF Latest, is
<1> QED
  BY <1>2, <1>3, <1>4 DEF Last

\* An empty thread satisfies the invariant.
LEMMA InitInv == Init => GraphInv
<1> SUFFICES ASSUME Init PROVE GraphInv
  OBVIOUS
<1>1. messages \in Seq(History) /\ Len(messages) = 0
  BY DEF Init
<1>2. TypeOK
  <2>1. refusal \in BOOLEAN /\ escalated \in BOOLEAN
    BY Zenon DEF Init
  <2>2. iterations \in 0..MaxIterations /\ failures \in 0..MaxIterations /\ turn \in 0..MaxTurns
    BY DEF Init
  <2>3. /\ node \in {"rest", "guardrail", "llm", "tools", "escalation", "finalize"}
        /\ outcome \in {"none", "refused", "escalated", "resolved"}
    BY DEF Init
  <2> QED
    BY <1>1, <2>1, <2>2, <2>3, Zenon DEF TypeOK, History
<1>3. PassState /\ AnswerIsThisTurns
  BY DEF Init, PassState, AnswerIsThisTurns
<1>4. HistoryState
  BY <1>1 DEF Init, HistoryState
<1>5. OpenCallsEndTurn
  BY <1>1 DEF Init, OpenCallsEndTurn
<1> QED
  BY <1>2, <1>3, <1>4, <1>5 DEF GraphInv

\* A history that is not empty ends with a message.
LEMMA LastInHistory ==
    ASSUME messages \in Seq(History), messages # <<>>
    PROVE  Len(messages) \in Nat \ {0} /\ Last \in History
<1>1. Len(messages) \in Nat \ {0}
  OBVIOUS
<1> QED
  BY <1>1 DEF Last

\* What a round of tool calls does to the history and to the failure counter.
LEMMA ToolsEffect ==
    ASSUME TypeOK, PassState, Tools
    PROVE  /\ Last.calls \in Nat
           /\ messages' \in Seq(History)
           /\ Len(messages') = Len(messages) + Last.calls
           /\ \A i \in 1..Len(messages) : messages'[i] = messages[i]
           /\ \A i \in 1..Last.calls :
                 LET m == messages'[Len(messages) + i]
                 IN  m.kind \in {"result", "error"} /\ m.turn = turn /\ m.calls = 0
           /\ failures' \in {0, failures + 1}
           /\ node' \in {"llm", "escalation"}
<1>1. PICK failed \in [1..Last.calls -> BOOLEAN] :
          /\ messages' = messages \o Results(failed)
          /\ failures' = IF \A i \in DOMAIN failed : failed[i] THEN failures + 1 ELSE 0
          /\ node' = RouteAfterTools(failures')
  BY Zenon DEF Tools
<1>2. turn \in 1..MaxTurns
  BY DEF Tools, PassState, TypeOK
<1>3. messages \in Seq(History) /\ messages # <<>>
  BY DEF Tools, PassState, TypeOK, History
<1>4. Last.calls \in Nat
  BY <1>3, LastInHistory DEF History
<1>5. /\ Results(failed) \in Seq(History) /\ Len(Results(failed)) = Last.calls
      /\ \A i \in 1..Last.calls :
            LET m == Results(failed)[i]
            IN  m.kind \in {"result", "error"} /\ m.turn = turn /\ m.calls = 0
  BY <1>2, <1>4, ResultsInHistory
<1>6. messages' \in Seq(History) /\ Len(messages') = Len(messages) + Last.calls
  BY <1>1, <1>3, <1>5
<1>7. \A i \in 1..Len(messages) : messages'[i] = messages[i]
  BY <1>1, <1>3, <1>5
<1>8. \A i \in 1..Last.calls : messages'[Len(messages) + i] = Results(failed)[i]
  BY <1>1, <1>3, <1>4, <1>5
<1>9. failures' \in {0, failures + 1} /\ node' \in {"llm", "escalation"}
  BY <1>1 DEF RouteAfterTools
<1> QED
  BY <1>4, <1>5, <1>6, <1>7, <1>8, <1>9

\* The history stays a sequence of messages and the counters stay in bounds.
LEMMA TypeStep == TypeOK /\ PassState /\ [Next]_vars => TypeOK'
<1> SUFFICES ASSUME TypeOK, PassState, [Next]_vars PROVE TypeOK'
  OBVIOUS
<1> USE DEF TypeOK
<1>1. ASSUME NEW kind \in {"human", "unsafe"}, Invoke(kind) PROVE TypeOK'
  <2>1. Msg(turn + 1, kind) \in History
    BY <1>1, MsgInHistory DEF Invoke, Kinds
  <2>2. messages' \in Seq(History)
    BY <1>1, <2>1 DEF Invoke, History
  <2>3. refusal' \in BOOLEAN /\ escalated' \in BOOLEAN
    BY <1>1, Zenon DEF Invoke
  <2>4. /\ turn' \in 0..MaxTurns
        /\ iterations' \in 0..MaxIterations /\ failures' \in 0..MaxIterations
    BY <1>1 DEF Invoke
  <2>5. node' = "guardrail" /\ outcome' = "none"
    BY <1>1 DEF Invoke
  <2> QED
    BY <2>2, <2>3, <2>4, <2>5 DEF History
<1>2. CASE Guardrail
  <2>1. refusal' \in BOOLEAN
    BY <1>2, Zenon DEF Guardrail
  <2> QED
    BY <1>2, <2>1 DEF Guardrail
<1>3. CASE Llm
  <2>1. PICK m \in Responses : /\ messages' = Append(messages, m)
                               /\ node' = RouteAfterLlm(m, iterations')
    BY <1>3 DEF Llm
  <2>2. turn \in 1..MaxTurns
    BY <1>3 DEF Llm, PassState
  <2>3. messages' \in Seq(History)
    BY <2>1, <2>2, ResponseInHistory DEF History
  <2>4. iterations' \in 0..MaxIterations
    BY <1>3 DEF Llm, PassState
  <2> QED
    BY <1>3, <2>1, <2>3, <2>4 DEF Llm, RouteAfterLlm, History
<1>4. CASE Tools
  <2>1. failures' \in 0..MaxIterations
    BY <1>4, ToolsEffect DEF Tools, PassState
  <2> QED
    BY <1>4, <2>1, ToolsEffect DEF Tools, History
<1>5. CASE Escalation
  <2>1. turn \in 1..MaxTurns
    BY <1>5 DEF Escalation, PassState
  <2>2. messages' \in Seq(History)
    BY <1>5, <2>1, MsgInHistory DEF Escalation, Kinds, History
  <2> QED
    BY <1>5, <2>2 DEF Escalation, History
<1>6. CASE Finalize
  BY <1>6 DEF Finalize
<1>7. CASE Abort
  BY <1>7 DEF Abort, control
<1>8. CASE UNCHANGED vars
  BY <1>8 DEF vars, control
<1> QED
  BY <1>1, <1>2, <1>3, <1>4, <1>5, <1>6, <1>7, <1>8 DEF Next, Run

\* What a step by which the model answers does.
LEMMA LlmEffect ==
    ASSUME TypeOK, PassState, Llm
    PROVE  \E m \in Responses :
              /\ messages' = Append(messages, m)
              /\ messages' \in Seq(History) /\ Len(messages') = Len(messages) + 1
              /\ messages'[Len(messages) + 1] = m
              /\ \A i \in 1..Len(messages) : messages'[i] = messages[i]
              /\ m.turn = turn
              /\ iterations' = iterations + 1
              /\ \/ /\ node' = "tools" /\ m.kind = "calls"
                    /\ iterations' < MaxIterations
                 \/ node' = "escalation" /\ m.kind = "calls" /\ iterations' = MaxIterations
                 \/ node' = "finalize" /\ m.kind \in {"answer", "blank"} /\ m.calls = 0
<1>1. PICK m \in Responses : /\ messages' = Append(messages, m)
                             /\ iterations' = iterations + 1
                             /\ node' = RouteAfterLlm(m, iterations')
  BY DEF Llm
<1>2. turn \in 1..MaxTurns
  BY DEF Llm, PassState, TypeOK
<1>3. /\ m \in History /\ m.turn = turn /\ m.kind \in {"answer", "blank", "calls"}
      /\ m.kind # "calls" => m.calls = 0
  BY <1>2, ResponseInHistory
<1>4. messages \in Seq(History)
  BY DEF TypeOK, History
<1>5. /\ messages' \in Seq(History) /\ Len(messages') = Len(messages) + 1
      /\ messages'[Len(messages) + 1] = m
      /\ \A i \in 1..Len(messages) : messages'[i] = messages[i]
  BY <1>1, <1>3, <1>4
<1>6. iterations \in Nat /\ iterations < MaxIterations /\ ~escalated
  BY DEF TypeOK, Llm, PassState
<1>7. \/ /\ node' = "tools" /\ m.kind = "calls"
         /\ iterations' < MaxIterations
      \/ node' = "escalation" /\ m.kind = "calls" /\ iterations' = MaxIterations
      \/ node' = "finalize" /\ m.kind \in {"answer", "blank"} /\ m.calls = 0
  BY <1>1, <1>3, <1>6 DEF RouteAfterLlm, ShouldEscalate
<1> QED
  BY <1>1, <1>3, <1>5, <1>7

\* What is known of a pass at each node stays known as it moves on.
LEMMA PassStep == TypeOK /\ PassState /\ [Next]_vars => PassState'
<1> SUFFICES ASSUME TypeOK, PassState, [Next]_vars PROVE PassState'
  OBVIOUS
<1>1. ASSUME NEW kind \in {"human", "unsafe"}, Invoke(kind) PROVE PassState'
  BY <1>1 DEF Invoke, PassState, TypeOK
<1>2. CASE Guardrail
  BY <1>2 DEF Guardrail, PassState, TypeOK
<1>3. CASE Llm
  <2>1. PICK m \in Responses :
              /\ messages' \in Seq(History) /\ Len(messages') = Len(messages) + 1
              /\ messages'[Len(messages) + 1] = m
              /\ m.turn = turn
              /\ iterations' = iterations + 1
              /\ \/ /\ node' = "tools" /\ m.kind = "calls"
                    /\ iterations' < MaxIterations
                 \/ node' = "escalation"
                 \/ node' = "finalize" /\ m.kind \in {"answer", "blank"}
    BY <1>3, LlmEffect
  <2>2. messages' # <<>> /\ Last' = m
    BY <2>1 DEF Last, TypeOK
  <2> QED
    BY <1>3, <2>1, <2>2 DEF Llm, PassState, TypeOK
<1>4. CASE Tools
  <2>1. node' \in {"llm", "escalation"} /\ failures' \in {0, failures + 1}
    BY <1>4, ToolsEffect
  <2>2. /\ node = "tools"
        /\ UNCHANGED <<turn, iterations, refusal, escalated, outcome>>
    BY <1>4 DEF Tools
  <2> QED
    BY <2>1, <2>2 DEF PassState, TypeOK
<1>5. CASE Escalation
  BY <1>5 DEF Escalation, PassState, TypeOK
<1>6. CASE Finalize
  BY <1>6 DEF Finalize, PassState, TypeOK
<1>7. CASE Abort
  BY <1>7 DEF Abort, control, PassState
<1>8. CASE UNCHANGED vars
  BY <1>8 DEF vars, control, PassState, Last
<1> QED
  BY <1>1, <1>2, <1>3, <1>4, <1>5, <1>6, <1>7, <1>8 DEF Next, Run

\* The search of finalize finds the answer of the turn, and nothing but a new
\* turn changes the history behind it.
LEMMA AnswerStep ==
    TypeOK /\ PassState /\ AnswerIsThisTurns /\ [Next]_vars => AnswerIsThisTurns'
<1> SUFFICES ASSUME TypeOK, PassState, AnswerIsThisTurns, [Next]_vars
             PROVE  AnswerIsThisTurns'
  OBVIOUS
<1>1. CASE Finalize
  <2> SUFFICES ASSUME outcome' = "resolved"
               PROVE  /\ Last'.turn = turn'
                      /\ IF Last'.kind = "blank" THEN response' = Msg(turn', "fallback")
                         ELSE Last'.kind = "answer" /\ response' = Last'
    BY DEF AnswerIsThisTurns
  <2>1. ~refusal /\ ~escalated
    BY <1>1 DEF Finalize
  <2>2. /\ messages # <<>> /\ Last.turn = turn
        /\ Last.kind \in {"answer", "blank"}
    BY <1>1, <2>1 DEF Finalize, PassState
  <2>3. Latest(Spoken) = Last
    BY <2>2, LatestIsLast DEF TypeOK, History, Spoken
  <2>4. response' = IF Last.kind \in {"none", "blank"} THEN Msg(turn, "fallback") ELSE Last
    BY <1>1, <2>1, <2>3 DEF Finalize
  <2>5. messages' = messages /\ turn' = turn
    BY <1>1 DEF Finalize
  <2>6. Last' = Last
    BY <2>5 DEF Last
  <2> QED
    BY <2>2, <2>4, <2>5, <2>6
<1>2. CASE Guardrail \/ Llm \/ Tools
  <2>1. outcome' = outcome /\ node # "rest"
    BY <1>2 DEF Guardrail, Llm, Tools
  <2> QED
    BY <2>1 DEF PassState, AnswerIsThisTurns
<1>3. CASE (\E kind \in {"human", "unsafe"} : Invoke(kind)) \/ Escalation
  <2>1. outcome' # "resolved"
    BY <1>3 DEF Invoke, Escalation
  <2> QED
    BY <2>1 DEF AnswerIsThisTurns
<1>4. CASE Abort \/ UNCHANGED vars
  BY <1>4 DEF Abort, vars, control, AnswerIsThisTurns, Last
<1> QED
  BY <1>1, <1>2, <1>3, <1>4 DEF Next, Run

\* Only the last response may wait for the results of its calls.
LEMMA HistoryStep == TypeOK /\ PassState /\ HistoryState /\ [Next]_vars => HistoryState'
<1> SUFFICES ASSUME TypeOK, PassState, HistoryState, [Next]_vars PROVE HistoryState'
  OBVIOUS
<1>0. /\ messages \in Seq(History) /\ turn \in Nat
      /\ \A i \in 1..Len(messages) : messages[i].turn \in Nat /\ messages[i].calls \in Nat
  <2>1. messages \in Seq(History) /\ turn \in Nat
    BY DEF TypeOK, History
  <2>2. \A i \in 1..Len(messages) : messages[i] \in History
    BY <2>1
  <2> QED
    BY <2>1, <2>2 DEF History
<1>1. ASSUME NEW kind \in {"human", "unsafe"}, Invoke(kind) PROVE HistoryState'
  <2>1. /\ messages' = Append(messages, Msg(turn + 1, kind))
        /\ turn' = turn + 1 /\ node' = "guardrail"
    BY <1>1 DEF Invoke
  <2>2. /\ Len(messages') = Len(messages) + 1
        /\ messages'[Len(messages) + 1] = Msg(turn + 1, kind)
        /\ \A i \in 1..Len(messages) : messages'[i] = messages[i]
        /\ DOMAIN messages' = 1..(Len(messages) + 1)
    BY <1>0, <2>1
  <2>3. \A i \in DOMAIN messages' : messages'[i].turn <= turn'
    <3>1. \A i \in 1..Len(messages) : messages'[i].turn <= turn + 1
      BY <1>0, <2>2 DEF HistoryState
    <3>2. messages'[Len(messages) + 1].turn <= turn + 1
      BY <1>0, <2>2 DEF Msg
    <3> QED
      BY <1>0, <2>1, <2>2, <3>1, <3>2
  <2>4. ASSUME NEW i \in 1..Len(messages'), messages'[i].turn = turn'
        PROVE  messages'[i].calls = 0
    BY <1>0, <2>1, <2>2, <2>4 DEF HistoryState, Msg, History
  <2>5. Answered(Len(messages))'
    BY <2>4 DEF Answered, LeftOpen
  <2> QED
    BY <2>1, <2>3, <2>5 DEF HistoryState
<1>2. CASE Guardrail \/ Finalize \/ Abort \/ UNCHANGED vars
  BY <1>2 DEF Guardrail, Finalize, Abort, vars, control, HistoryState, Answered, LeftOpen
<1>3. CASE Llm
  <2>1. PICK m \in Responses :
              /\ messages' = Append(messages, m)
              /\ Len(messages') = Len(messages) + 1
              /\ messages'[Len(messages) + 1] = m
              /\ \A i \in 1..Len(messages) : messages'[i] = messages[i]
              /\ m.turn = turn
              /\ node' \in {"tools", "escalation", "finalize"}
              /\ node' = "finalize" => m.calls = 0
    BY <1>3, LlmEffect
  <2>2. turn' = turn /\ DOMAIN messages' = 1..(Len(messages) + 1)
    BY <1>0, <1>3, <2>1 DEF Llm
  <2>3. \A i \in DOMAIN messages' : messages'[i].turn <= turn'
    BY <1>0, <2>1, <2>2 DEF HistoryState
  <2>4. Answered(Len(messages))
    BY <1>3 DEF Llm, HistoryState
  <2>5. ASSUME NEW i \in 1..Len(messages), messages'[i].turn = turn',
               NEW k \in 1..messages'[i].calls
        PROVE  i + k \in DOMAIN messages' /\ messages'[i + k].kind \in {"result", "error"}
    <3>1. i + k \in 1..Len(messages) /\ messages[i + k].kind \in {"result", "error"}
      BY <1>0, <2>1, <2>2, <2>4, <2>5 DEF Answered, LeftOpen
    <3> QED
      BY <1>0, <2>1, <2>2, <3>1
  <2>6. Answered(Len(messages) - 1)'
    <3>1. Len(messages') - 1 = Len(messages)
      BY <1>0, <2>1
    <3> QED
      BY <2>5, <3>1 DEF Answered, LeftOpen
  <2>7. ASSUME node' = "finalize" PROVE Answered(Len(messages))'
    <3>1. messages'[Len(messages) + 1].calls = 0
      BY <2>1, <2>7
    <3>2. \A i \in 1..Len(messages') : i \in 1..Len(messages) \/ i = Len(messages) + 1
      BY <1>0, <2>1
    <3> QED
      BY <2>5, <3>1, <3>2 DEF Answered, LeftOpen
  <2> QED
    BY <2>1, <2>3, <2>6, <2>7 DEF HistoryState
<1>4. CASE Tools
  <2>1. messages # <<>> /\ Answered(Len(messages) - 1)
    BY <1>4 DEF Tools, PassState, HistoryState
  <2>2. Len(messages) \in Nat \ {0} /\ Last \in History
    BY <1>0, <2>1, LastInHistory
  <2>3. turn' = turn
    BY <1>4 DEF Tools
  <2> DEFINE n == Len(messages)
             c == Last.calls
  <2>4. /\ c \in Nat
        /\ messages' \in Seq(History) /\ Len(messages') = n + c
        /\ \A i \in 1..n : messages'[i] = messages[i]
        /\ \A i \in 1..c : /\ messages'[n + i].kind \in {"result", "error"}
                           /\ messages'[n + i].turn = turn
                           /\ messages'[n + i].calls = 0
        /\ node' \in {"llm", "escalation"}
    BY <1>4, ToolsEffect
  <2>5. messages'[n] = Last /\ DOMAIN messages' = 1..(n + c)
    BY <2>2, <2>4 DEF Last
  <2>6. \A i \in 1..(n + c) : i \in 1..n \/ (i - n \in 1..c /\ i = n + (i - n))
    BY <2>2, <2>4
  <2>7. \A i \in DOMAIN messages' : messages'[i].turn <= turn'
    <3>1. \A i \in 1..n : messages'[i].turn <= turn'
      BY <1>0, <2>3, <2>4 DEF HistoryState
    <3>2. \A i \in 1..c : messages'[n + i].turn <= turn'
      BY <1>0, <2>3, <2>4
    <3> QED
      BY <2>5, <2>6, <3>1, <3>2
  <2>8. ASSUME NEW i \in 1..(n + c), messages'[i].turn = turn',
               NEW k \in 1..messages'[i].calls
        PROVE  i + k \in DOMAIN messages' /\ messages'[i + k].kind \in {"result", "error"}
    <3>1. CASE i \in 1..(n - 1)
      <4>1. messages'[i] = messages[i] /\ i \in 1..n
        BY <2>2, <2>4, <3>1
      <4>2. i + k \in 1..n /\ messages[i + k].kind \in {"result", "error"}
        BY <1>0, <2>1, <2>3, <2>8, <3>1, <4>1 DEF Answered, LeftOpen
      <4> QED
        BY <2>2, <2>4, <2>5, <4>2
    <3>2. CASE i = n
      BY <2>2, <2>4, <2>5, <2>8, <3>2
    <3>3. CASE i - n \in 1..c
      <4>1. messages'[i].calls = 0
        BY <2>4, <2>6, <3>3
      <4> QED
        BY <2>8, <4>1
    <3> QED
      BY <2>2, <2>6, <3>1, <3>2, <3>3
  <2>9. Answered(Len(messages))'
    BY <2>4, <2>8 DEF Answered, LeftOpen
  <2> QED
    BY <2>4, <2>7, <2>9 DEF HistoryState
<1>5. CASE Escalation
  <2>1. /\ messages' = Append(messages, Msg(turn, "handoff"))
        /\ turn' = turn /\ node' = "finalize"
    BY <1>5 DEF Escalation
  <2>2. /\ DOMAIN messages' = 1..(Len(messages) + 1)
        /\ messages'[Len(messages) + 1] = Msg(turn, "handoff")
        /\ \A i \in 1..Len(messages) : messages'[i] = messages[i]
    BY <1>0, <2>1
  <2>3. \A i \in DOMAIN messages' : messages'[i].turn <= turn'
    BY <1>0, <2>1, <2>2 DEF HistoryState, Msg
  <2>4. escalated'
    BY <1>5 DEF Escalation
  <2> QED
    BY <2>1, <2>3, <2>4 DEF HistoryState
<1> QED
  BY <1>1, <1>2, <1>3, <1>4, <1>5 DEF Next, Run

\* A step that adds messages leaves no call open in the middle of a turn, if
\* what follows the last message is its results, a handoff or another turn's.
LEMMA OpenStaysLast ==
    ASSUME messages \in Seq(History), messages' \in Seq(History),
           Len(messages') >= Len(messages),
           \A i \in 1..Len(messages) : messages'[i] = messages[i],
           OpenCallsEndTurn,
           \A i \in Len(messages)..(Len(messages') - 1) :
              i > 0 => \/ ~LeftOpen(i)'
                       \/ messages'[i + 1].kind = "handoff"
                       \/ messages'[i + 1].turn # messages'[i].turn
    PROVE  \A i \in 1..(Len(messages') - 1) :
              LeftOpen(i)' => \/ messages'[i + 1].kind = "handoff"
                              \/ messages'[i + 1].turn # messages'[i].turn
<1> SUFFICES ASSUME NEW i \in 1..(Len(messages') - 1), LeftOpen(i)'
             PROVE  \/ messages'[i + 1].kind = "handoff"
                    \/ messages'[i + 1].turn # messages'[i].turn
  OBVIOUS
<1>1. Len(messages) \in Nat /\ Len(messages') \in Nat
  OBVIOUS
<1>2. CASE i >= Len(messages)
  BY <1>1, <1>2
<1>3. CASE i < Len(messages)
  <2>1. i \in 1..(Len(messages) - 1) /\ i + 1 \in 1..Len(messages)
    BY <1>1, <1>3
  <2>2. messages'[i] = messages[i] /\ messages'[i + 1] = messages[i + 1]
    BY <2>1
  <2>3. LeftOpen(i)
    <3>1. PICK k \in 1..messages'[i].calls :
             ~(i + k \in DOMAIN messages' /\ messages'[i + k].kind \in {"result", "error"})
      BY DEF LeftOpen
    <3>2. messages[i] \in History /\ messages'[i].calls \in Nat
      <4>1. i \in 1..Len(messages)
        BY <1>1, <2>1
      <4>2. messages[i] \in History
        BY <4>1
      <4>3. messages[i].calls \in Nat
        BY <4>2, CallsInHistory
      <4> QED
        BY <2>2, <4>2, <4>3
    <3>3. ~(i + k \in DOMAIN messages /\ messages[i + k].kind \in {"result", "error"})
      <4> SUFFICES ASSUME i + k \in 1..Len(messages), messages[i + k].kind \in {"result", "error"}
                   PROVE  FALSE
        BY <1>1
      <4>1. i + k \in 1..Len(messages') /\ messages'[i + k] = messages[i + k]
        BY <1>1, <3>2
      <4> QED
        BY <3>1, <4>1
    <3> QED
      BY <2>2, <3>3 DEF LeftOpen
  <2> QED
    BY <2>1, <2>2, <2>3 DEF OpenCallsEndTurn
<1> QED
  BY <1>1, <1>2, <1>3

\* Calls are left open only at the end of a turn: the next message after a
\* response is its results, the handoff that replaces them, or another turn's.
LEMMA OpenCallsStep ==
    TypeOK /\ PassState /\ HistoryState /\ OpenCallsEndTurn /\ [Next]_vars => OpenCallsEndTurn'
<1> SUFFICES ASSUME TypeOK, PassState, HistoryState, OpenCallsEndTurn, [Next]_vars
             PROVE  OpenCallsEndTurn'
  OBVIOUS
<1>0. /\ messages \in Seq(History) /\ Len(messages) \in Nat /\ turn \in Nat
      /\ \A i \in 1..Len(messages) : messages[i] \in History
  <2>1. messages \in Seq(History) /\ turn \in Nat
    BY DEF TypeOK, History
  <2> QED
    BY <2>1
<1> DEFINE n == Len(messages)
           Closed == \A i \in 1..(n - 1) :
                        LeftOpen(i) => \/ messages[i + 1].kind = "handoff"
                                       \/ messages[i + 1].turn # messages[i].turn
<1>1. ASSUME NEW kind \in {"human", "unsafe"}, Invoke(kind) PROVE OpenCallsEndTurn'
  <2>1. /\ messages' = Append(messages, Msg(turn + 1, kind))
        /\ turn' = turn + 1 /\ outcome' = "none"
    BY <1>1 DEF Invoke
  <2>2. messages' \in Seq(History)
    BY <1>1, TypeStep DEF Next, TypeOK, History
  <2>3. /\ Len(messages') = n + 1 /\ messages'[n + 1] = Msg(turn + 1, kind)
        /\ \A i \in 1..n : messages'[i] = messages[i]
    BY <1>0, <2>1
  <2>4. ASSUME NEW i \in n..(Len(messages') - 1), i > 0
        PROVE  messages'[i + 1].turn # messages'[i].turn
    <3>1. i = n /\ i \in 1..n
      BY <1>0, <2>3, <2>4
    <3>2. messages[i].turn <= turn /\ messages[i].turn \in Nat
      BY <1>0, <3>1 DEF HistoryState, History
    <3>3. messages'[i + 1].turn = turn + 1 /\ messages'[i].turn = messages[i].turn
      BY <2>3, <3>1 DEF Msg
    <3> QED
      BY <1>0, <3>2, <3>3
  <2>5. Closed'
    <3>1. \A i \in n..(Len(messages') - 1) :
             i > 0 => messages'[i + 1].turn # messages'[i].turn
      BY <2>4
    <3>2. Len(messages') >= n
      BY <1>0, <2>3
    <3> QED
      BY <1>0, <2>2, <2>3, <3>1, <3>2, OpenStaysLast
  <2> QED
    BY <2>1, <2>5 DEF OpenCallsEndTurn
<1>2. CASE Llm
  <2>1. PICK m \in Responses :
              /\ messages' = Append(messages, m)
              /\ messages' \in Seq(History) /\ Len(messages') = n + 1
              /\ \A i \in 1..n : messages'[i] = messages[i]
    BY <1>2, LlmEffect
  <2>2. Answered(n) /\ turn' = turn /\ outcome' = outcome /\ outcome # "resolved"
    BY <1>2 DEF Llm, HistoryState, PassState
  <2>3. messages'[n + 1].turn = turn
    <3>1. messages'[n + 1] = m
      BY <1>0, <2>1
    <3>2. turn \in 1..MaxTurns
      BY <1>2 DEF Llm, PassState, TypeOK
    <3> QED
      BY <3>1, <3>2, ResponseInHistory
  <2>4. ASSUME NEW i \in n..(Len(messages') - 1), i > 0, LeftOpen(i)'
        PROVE  messages'[i + 1].turn # messages'[i].turn
    <3>1. i = n /\ i \in 1..n /\ messages'[i] = messages[i]
      BY <1>0, <2>1, <2>4
    <3>2. CASE messages[i].turn = turn
      <4>1. ~LeftOpen(i)
        BY <2>2, <3>1, <3>2 DEF Answered
      <4>2. messages[i].calls \in Nat
        BY <1>0, <3>1 DEF History
      <4>3. PICK k \in 1..messages[i].calls :
               ~(i + k \in DOMAIN messages' /\ messages'[i + k].kind \in {"result", "error"})
        BY <2>4, <3>1 DEF LeftOpen
      <4>4. i + k \in 1..n /\ messages[i + k].kind \in {"result", "error"}
        BY <1>0, <4>1 DEF LeftOpen
      <4> QED
        BY <1>0, <2>1, <4>3, <4>4
    <3>3. CASE messages[i].turn # turn
      BY <2>3, <3>1, <3>3
    <3> QED
      BY <3>2, <3>3
  <2>5. Closed'
    BY <1>0, <2>1, <2>4, OpenStaysLast
  <2> QED
    BY <2>2, <2>5 DEF OpenCallsEndTurn
<1>3. CASE Tools
  <2>1. node' \in {"llm", "escalation"} /\ turn' = turn /\ messages # <<>>
    BY <1>3, ToolsEffect DEF Tools, PassState
  <2>2. Len(messages) \in Nat \ {0} /\ Last \in History
    BY <1>0, <2>1, LastInHistory
  <2> DEFINE c == Last.calls
  <2>3. /\ c \in Nat
        /\ messages' \in Seq(History) /\ Len(messages') = n + c
        /\ \A i \in 1..n : messages'[i] = messages[i]
        /\ \A i \in 1..c : /\ messages'[n + i].kind \in {"result", "error"}
                           /\ messages'[n + i].turn = turn
                           /\ messages'[n + i].calls = 0
    BY <1>3, ToolsEffect
  <2>4. ASSUME NEW i \in n..(Len(messages') - 1) PROVE ~LeftOpen(i)'
    <3>1. CASE i = n
      <4>1. messages'[i] = Last /\ DOMAIN messages' = 1..(n + c)
        BY <2>2, <2>3, <3>1 DEF Last
      <4> QED
        BY <2>2, <2>3, <3>1, <4>1 DEF LeftOpen
    <3>2. CASE i # n
      <4>1. i - n \in 1..c /\ i = n + (i - n)
        BY <2>2, <2>3, <3>2
      <4>2. messages'[i].calls = 0
        BY <2>3, <4>1
      <4> QED
        BY <4>2 DEF LeftOpen
    <3> QED
      BY <3>1, <3>2
  <2>5. Closed'
    BY <1>0, <2>2, <2>3, <2>4, OpenStaysLast
  <2>6. outcome' # "resolved"
    BY <1>3 DEF Tools, PassState
  <2> QED
    BY <2>5, <2>6 DEF OpenCallsEndTurn
<1>4. CASE Escalation
  <2>1. /\ messages' = Append(messages, Msg(turn, "handoff"))
        /\ outcome' = "escalated"
    BY <1>4 DEF Escalation
  <2>2. messages' \in Seq(History)
    BY <1>4, TypeStep DEF Next, Run, TypeOK, History
  <2>3. /\ Len(messages') = n + 1 /\ messages'[n + 1].kind = "handoff"
        /\ \A i \in 1..n : messages'[i] = messages[i]
    BY <1>0, <2>1 DEF Msg
  <2>4. \A i \in n..(Len(messages') - 1) : messages'[i + 1].kind = "handoff"
    BY <1>0, <2>3
  <2>5. Closed'
    BY <1>0, <2>2, <2>3, <2>4, OpenStaysLast
  <2> QED
    BY <2>1, <2>5 DEF OpenCallsEndTurn
<1>5. CASE Finalize
  <2>1. UNCHANGED <<messages, turn, refusal, escalated>>
    BY <1>5 DEF Finalize
  <2>2. outcome' = "resolved" => Answered(n)
    BY <1>5 DEF Finalize, HistoryState
  <2> QED
    BY <2>1, <2>2 DEF OpenCallsEndTurn, Answered, LeftOpen
<1>6. CASE Guardrail \/ Abort \/ UNCHANGED vars
  BY <1>6 DEF Guardrail, Abort, vars, control, OpenCallsEndTurn, Answered, LeftOpen
<1> QED
  BY <1>1, <1>2, <1>3, <1>4, <1>5, <1>6 DEF Next, Run

\* The strengthened invariant is inductive.
THEOREM Invariance == Spec => []GraphInv
<1>1. GraphInv /\ [Next]_vars => GraphInv'
  BY TypeStep, PassStep, HistoryStep, AnswerStep, OpenCallsStep DEF GraphInv
<1> QED
  BY <1>1, InitInv, PTL DEF Spec

\* The thread's history and the pass's counters keep their types; above all
\* the counters never leave the iteration budget.
THEOREM TypeCorrect == Spec => []TypeOK
  BY Invariance, PTL DEF GraphInv

\* What finalize shows a customer is never an earlier turn's answer.
THEOREM AnswerBelongsToTurn == Spec => []AnswerIsThisTurns
  BY Invariance, PTL DEF GraphInv

\* The model is asked again only when all the turn's calls have their results.
THEOREM ModelSeesResults == Spec => []CallsAnswered
<1>1. GraphInv => CallsAnswered
  BY DEF GraphInv, HistoryState, CallsAnswered
<1> QED
  BY <1>1, Invariance, PTL

\* Only a lost pass or a handoff leaves tool calls without results behind for
\* the provider of the next turn, in a thread of any length.
THEOREM OpenCallsAreLast == Spec => []OpenCallsEndTurn
  BY Invariance, PTL DEF GraphInv

-----------------------------------------------------------------------------
(* A handoff is earned.  The rounds that failed are the end of the history  *)
(* of the turn, so a step only has to be seen to lengthen them or not.      *)

\* FailedRounds, of any history and turn.
Streak(ms, t, k, n) ==
    \E i \in 1..k :
        /\ \A j \in i..(k - 1) : ms[j].turn = t /\ ms[j].kind \in {"calls", "error"}
        /\ Cardinality({j \in i..(k - 1) : ms[j].kind = "calls"}) = n

\* What speaks for a handoff, before it is announced and behind.
Spent(k) == iterations = MaxIterations /\ k \in DOMAIN messages /\ messages[k].kind = "calls"
Earned(k) == Spent(k) \/ Streak(messages, turn, k + 1, FailureThreshold)

\* What is known of the failures at a node, and of a pass that is handed off.
HandoffState ==
    /\ node \in {"guardrail", "llm", "tools"} => failures = 0 \/ failures < FailureThreshold
    /\ node \in {"guardrail", "llm", "tools", "escalation"} => outcome # "escalated"
    /\ node \in {"guardrail", "llm"} => Streak(messages, turn, Len(messages) + 1, failures)
    /\ node = "tools" => Streak(messages, turn, Len(messages), failures) /\ Last.turn = turn
    /\ node = "escalation" => Earned(Len(messages))
    /\ escalated \/ outcome = "escalated" => Earned(Len(messages) - 1)

\* No round at all is a streak of none.
LEMMA NoStreak == ASSUME NEW ms, NEW t, NEW k \in Nat \ {0} PROVE Streak(ms, t, k, 0)
<1>1. k \in 1..k /\ k..(k - 1) = {}
  OBVIOUS
<1>2. Cardinality({}) = 0
  BY FS_EmptySet
<1>3. {j \in k..(k - 1) : ms[j].kind = "calls"} = {}
  BY <1>1
<1> QED
  BY <1>1, <1>2, <1>3 DEF Streak

\* A streak depends on nothing behind it.
LEMMA SameStreak ==
    ASSUME NEW ms, NEW more, NEW t, NEW k \in Nat, NEW n, Streak(ms, t, k, n),
           \A i \in 1..(k - 1) : more[i] = ms[i]
    PROVE  Streak(more, t, k, n)
<1>1. PICK i \in 1..k :
         /\ \A j \in i..(k - 1) : ms[j].turn = t /\ ms[j].kind \in {"calls", "error"}
         /\ Cardinality({j \in i..(k - 1) : ms[j].kind = "calls"}) = n
  BY DEF Streak
<1>2. \A j \in i..(k - 1) : more[j] = ms[j]
  OBVIOUS
<1>3. {j \in i..(k - 1) : more[j].kind = "calls"} = {j \in i..(k - 1) : ms[j].kind = "calls"}
  BY <1>2
<1> QED
  BY <1>1, <1>2, <1>3 DEF Streak

\* Another round whose calls all failed makes it longer by one.
LEMMA LongerStreak ==
    ASSUME NEW ms, NEW more, NEW t, NEW k \in Nat \ {0}, NEW l \in Nat, NEW n \in Nat,
           Streak(ms, t, k, n), k < l, \A i \in 1..k : more[i] = ms[i],
           ms[k].turn = t, ms[k].kind = "calls",
           \A i \in (k + 1)..(l - 1) : more[i].turn = t /\ more[i].kind = "error"
    PROVE  Streak(more, t, l, n + 1)
<1>1. PICK i \in 1..k :
         /\ \A j \in i..(k - 1) : ms[j].turn = t /\ ms[j].kind \in {"calls", "error"}
         /\ Cardinality({j \in i..(k - 1) : ms[j].kind = "calls"}) = n
  BY DEF Streak
<1> DEFINE old == {j \in i..(k - 1) : ms[j].kind = "calls"}
           new == {j \in i..(l - 1) : more[j].kind = "calls"}
<1>2. \A j \in i..(l - 1) : j \in i..(k - 1) \/ j = k \/ j \in (k + 1)..(l - 1)
  OBVIOUS
<1>3. \A j \in i..(k - 1) : j \in 1..k /\ j \in i..(l - 1) /\ more[j] = ms[j] /\ j # k
  OBVIOUS
<1>4. k \in i..(l - 1) /\ more[k] = ms[k] /\ i \in 1..l
  OBVIOUS
<1>5. \A j \in i..(l - 1) : more[j].turn = t /\ more[j].kind \in {"calls", "error"}
  BY <1>1, <1>2, <1>3, <1>4
<1>6. \A j : j \in new <=> j \in old \cup {k}
  <2>1. ASSUME NEW j \in new PROVE j \in old \cup {k}
    BY <1>2, <1>3, <2>1
  <2>2. ASSUME NEW j \in old \cup {k} PROVE j \in new
    BY <1>3, <1>4, <2>2
  <2> QED
    BY <2>1, <2>2
<1>7. IsFiniteSet(old) /\ k \notin old
  <2>1. IsFiniteSet(i..(k - 1))
    BY FS_Interval
  <2>2. IsFiniteSet(old)
    BY <2>1, FS_Subset
  <2> QED
    BY <1>3, <2>2
<1>8. Cardinality(old \cup {k}) = n + 1
  BY <1>1, <1>7, FS_AddElement
<1>9. new = old \cup {k}
  BY <1>6, Zenon
<1> QED
  BY <1>4, <1>5, <1>8, <1>9 DEF Streak

\* A round that counts as a failure is one of which every call failed.
LEMMA RoundFails ==
    ASSUME TypeOK, PassState, Tools
    PROVE  /\ node' = RouteAfterTools(failures')
           /\ failures' # 0 =>
                 /\ failures' = failures + 1
                 /\ \A i \in 1..Last.calls : messages'[Len(messages) + i].kind = "error"
<1>1. PICK failed \in [1..Last.calls -> BOOLEAN] :
          /\ messages' = messages \o Results(failed)
          /\ failures' = IF \A i \in DOMAIN failed : failed[i] THEN failures + 1 ELSE 0
          /\ node' = RouteAfterTools(failures')
  BY Zenon DEF Tools
<1>2. turn \in 1..MaxTurns /\ messages \in Seq(History) /\ messages # <<>>
  BY DEF Tools, PassState, TypeOK, History
<1>3. Last.calls \in Nat
  BY <1>2, LastInHistory DEF History
<1>4. Results(failed) \in Seq(History) /\ Len(Results(failed)) = Last.calls
  BY <1>2, <1>3, ResultsInHistory
<1>5. \A i \in 1..Last.calls : messages'[Len(messages) + i] = Results(failed)[i]
  BY <1>1, <1>2, <1>3, <1>4
<1>6. ASSUME \A i \in DOMAIN failed : failed[i], NEW i \in 1..Last.calls
      PROVE  Results(failed)[i].kind = "error"
  BY <1>6 DEF Results, Msg
<1>7. failures' # 0 => \A i \in DOMAIN failed : failed[i]
  BY <1>1
<1> QED
  BY <1>1, <1>5, <1>6, <1>7

LEMMA HandoffStep ==
    TypeOK /\ PassState /\ HandoffState /\ [Next]_vars => HandoffState'
<1> SUFFICES ASSUME TypeOK, PassState, HandoffState, [Next]_vars PROVE HandoffState'
  OBVIOUS
<1>0. /\ messages \in Seq(History) /\ Len(messages) \in Nat /\ DOMAIN messages = 1..Len(messages)
      /\ failures \in Nat
  BY DEF TypeOK, History
<1>1. ASSUME NEW kind \in {"human", "unsafe"}, Invoke(kind) PROVE HandoffState'
  <2>1. Msg(turn + 1, kind) \in History
    BY <1>1, MsgInHistory DEF Invoke, Kinds, TypeOK
  <2>2. Len(messages') + 1 \in Nat \ {0}
    BY <1>0, <1>1, <2>1 DEF Invoke
  <2>3. Streak(messages', turn', Len(messages') + 1, 0)
    BY <2>2, NoStreak
  <2> QED
    BY <1>1, <2>3 DEF Invoke, HandoffState
<1>2. CASE Guardrail
  <2>1. /\ node = "guardrail" /\ node' \in {"finalize", "llm"}
        /\ UNCHANGED <<turn, messages, iterations, failures, escalated, outcome>>
    BY <1>2 DEF Guardrail
  <2> QED
    BY <2>1 DEF HandoffState, Earned, Spent
<1>3. CASE Llm
  <2>1. PICK m \in Responses :
              /\ Len(messages') = Len(messages) + 1 /\ messages' \in Seq(History)
              /\ messages'[Len(messages) + 1] = m /\ m.turn = turn
              /\ \A i \in 1..Len(messages) : messages'[i] = messages[i]
              /\ \/ node' = "tools"
                 \/ node' = "escalation" /\ m.kind = "calls" /\ iterations' = MaxIterations
                 \/ node' = "finalize"
    BY <1>3, LlmEffect
  <2>2. /\ node = "llm" /\ ~escalated /\ UNCHANGED <<turn, failures, escalated, outcome>>
        /\ Streak(messages, turn, Len(messages) + 1, failures)
        /\ failures = 0 \/ failures < FailureThreshold
        /\ outcome # "escalated"
    BY <1>3 DEF Llm, PassState, HandoffState
  <2>3. Streak(messages', turn, Len(messages'), failures)
    BY <1>0, <2>1, <2>2, SameStreak
  <2>4. Last'.turn = turn
    BY <1>0, <2>1 DEF Last
  <2>5. node' = "escalation" => Spent(Len(messages))'
    BY <1>0, <2>1 DEF Spent
  <2> QED
    BY <2>1, <2>2, <2>3, <2>4, <2>5 DEF HandoffState, Earned
<1>4. CASE Tools
  <2>1. /\ node = "tools" /\ ~escalated /\ outcome # "escalated" /\ messages # <<>>
        /\ Streak(messages, turn, Len(messages), failures)
        /\ Last.turn = turn /\ Last.kind = "calls"
        /\ failures = 0 \/ failures < FailureThreshold
        /\ UNCHANGED <<turn, iterations, escalated, outcome>>
    BY <1>4 DEF Tools, PassState, HandoffState
  <2>2. PICK calls \in Nat : calls = Last.calls
    BY <1>4, ToolsEffect
  <2>3. /\ Len(messages') = Len(messages) + calls /\ messages' \in Seq(History)
        /\ \A i \in 1..Len(messages) : messages'[i] = messages[i]
        /\ \A i \in 1..calls : messages'[Len(messages) + i].turn = turn
        /\ node' \in {"llm", "escalation"}
    BY <1>4, <2>2, ToolsEffect
  <2>4. /\ node' = RouteAfterTools(failures')
        /\ failures' # 0 =>
              /\ failures' = failures + 1
              /\ \A i \in 1..calls : messages'[Len(messages) + i].kind = "error"
    BY <1>4, <2>2, RoundFails
  <2>5. Len(messages') + 1 \in Nat \ {0}
    BY <1>0, <2>3
  <2>6. Streak(messages', turn, Len(messages') + 1, failures')
    <3>1. CASE failures' = 0
      BY <2>5, <3>1, NoStreak
    <3>2. CASE failures' # 0
      <4> DEFINE k == Len(messages)  l == Len(messages') + 1
      <4>1. k \in Nat \ {0} /\ l \in Nat /\ k < l /\ l = k + calls + 1
        BY <1>0, <2>1, <2>3
      <4>2. messages[k].turn = turn /\ messages[k].kind = "calls"
        BY <2>1 DEF Last
      <4>3. ASSUME NEW i \in (k + 1)..(l - 1)
            PROVE  messages'[i].turn = turn /\ messages'[i].kind = "error"
        <5>1. PICK j \in 1..calls : i = k + j
          <6>1. i - k \in 1..calls /\ i = k + (i - k)
            BY <4>1
          <6> QED
            BY <6>1
        <5> QED
          BY <2>3, <2>4, <3>2, <5>1
      <4>4. \A i \in 1..k : messages'[i] = messages[i]
        BY <2>3
      <4> HIDE DEF k, l
      <4>5. Streak(messages, turn, k, failures)
        BY <2>1 DEF k
      <4>6. Streak(messages', turn, l, failures + 1)
        BY <1>0, <4>1, <4>2, <4>3, <4>4, <4>5, LongerStreak
      <4> QED
        BY <2>4, <3>2, <4>6 DEF l
    <3> QED
      BY <3>1, <3>2
  <2>7. CASE node' = "llm"
    <3>1. failures' < FailureThreshold
      BY <1>0, <2>4, <2>7 DEF RouteAfterTools
    <3> QED
      BY <2>1, <2>6, <2>7, <3>1 DEF HandoffState
  <2>8. CASE node' = "escalation"
    <3>1. failures' >= FailureThreshold
      BY <2>4, <2>8 DEF RouteAfterTools
    <3>2. Streak(messages', turn, Len(messages') + 1, FailureThreshold)
      <4>1. CASE FailureThreshold = 0
        BY <2>5, <4>1, NoStreak
      <4>2. CASE FailureThreshold # 0
        <5>1. failures' = FailureThreshold
          BY <1>0, <2>1, <2>4, <3>1, <4>2
        <5> QED
          BY <2>6, <5>1
      <4> QED
        BY <4>1, <4>2
    <3> QED
      BY <2>1, <2>8, <3>2 DEF HandoffState, Earned
  <2> QED
    BY <2>3, <2>7, <2>8
<1>5. CASE Escalation
  <2>1. /\ node' = "finalize" /\ messages' = Append(messages, Msg(turn, "handoff"))
        /\ UNCHANGED <<turn, iterations>> /\ Earned(Len(messages))
    BY <1>5 DEF Escalation, HandoffState
  <2>2. Msg(turn, "handoff") \in History
    BY <1>5, MsgInHistory DEF Escalation, PassState, TypeOK, Kinds
  <2>3. /\ messages' \in Seq(History) /\ Len(messages') = Len(messages) + 1
        /\ \A i \in 1..Len(messages) : messages'[i] = messages[i]
    BY <1>0, <2>1, <2>2
  <2>4. PICK k \in Nat : k = Len(messages)
    BY <1>0
  <2>5. Len(messages') - 1 = k
    BY <1>0, <2>3, <2>4
  <2>6. CASE Spent(k)
    <3>1. Spent(k)'
      BY <1>0, <2>1, <2>3, <2>4, <2>6 DEF Spent
    <3> QED
      BY <2>1, <2>5, <3>1 DEF HandoffState, Earned
  <2>7. CASE Streak(messages, turn, k + 1, FailureThreshold)
    <3>1. Streak(messages', turn, k + 1, FailureThreshold)
      BY <2>3, <2>4, <2>7, SameStreak
    <3> QED
      BY <2>1, <2>5, <3>1 DEF HandoffState, Earned
  <2> QED
    BY <2>1, <2>4, <2>6, <2>7 DEF Earned
<1>6. CASE Finalize
  <2>1. /\ node' = "rest" /\ UNCHANGED <<turn, messages, iterations, failures, escalated>>
        /\ outcome' = "escalated" => escalated
    BY <1>6 DEF Finalize
  <2> QED
    BY <2>1 DEF HandoffState, Earned, Spent
<1>7. CASE Abort
  BY <1>7 DEF Abort, control, HandoffState, Earned, Spent
<1>8. CASE UNCHANGED vars
  BY <1>8 DEF vars, control, HandoffState, Earned, Spent, Last
<1> QED
  BY <1>1, <1>2, <1>3, <1>4, <1>5, <1>6, <1>7, <1>8 DEF Next, Run

\* A customer is handed off only for a spent budget with calls still wanted, or
\* for as many failed rounds on end as the threshold says, all in this turn.
THEOREM HandoffIsEarned == Spec => []EscalationIsEarned
<1>1. Init => HandoffState
  BY DEF Init, HandoffState
<1>2. ASSUME GraphInv, HandoffState PROVE EscalationIsEarned
  <2> SUFFICES ASSUME node = "rest", outcome = "escalated"
               PROVE  \/ iterations = MaxIterations
                         /\ messages[Len(messages) - 1].kind = "calls"
                      \/ FailedRounds(Len(messages), FailureThreshold)
    BY DEF EscalationIsEarned
  <2>1. Len(messages) \in Nat
    BY <1>2 DEF GraphInv, TypeOK
  <2>2. Len(messages) - 1 + 1 = Len(messages)
    BY <2>1
  <2>3. Earned(Len(messages) - 1)
    BY <1>2 DEF HandoffState
  <2> QED
    BY <2>2, <2>3 DEF Earned, Spent, Streak, FailedRounds
<1>3. GraphInv => TypeOK /\ PassState
  BY DEF GraphInv
<1> QED
  BY <1>1, <1>2, <1>3, HandoffStep, Invariance, PTL DEF Spec

-----------------------------------------------------------------------------
(* The graph implements the bounded agent. *)

\* A new thread is an agent at rest.
LEMMA InitRefines == Init => Agent!Init
  BY DEF Init, Agent!Init, Thread

\* A node that asks the model is a round of work, the way in and the two ways
\* out begin and end the turn, and the other nodes change nothing abstract.
LEMMA StepRefines == TypeOK /\ PassState /\ [Next]_vars => [Agent!Next]_(Agent!vars)
<1> SUFFICES ASSUME TypeOK, PassState, [Next]_vars
             PROVE  [Agent!Next]_(Agent!vars)
  OBVIOUS
<1> USE DEF Thread
<1>1. ASSUME NEW kind \in {"human", "unsafe"}, Invoke(kind)
      PROVE  Agent!Begin("thread")
  BY <1>1 DEF Invoke, Agent!Begin
<1>2. CASE Guardrail \/ Tools \/ Escalation
  <2>1. iterations' = iterations /\ node # "rest" /\ node' # "rest"
    BY <1>2, ToolsEffect DEF Guardrail, Tools, Escalation
  <2> QED
    BY <2>1 DEF Agent!vars
<1>3. CASE Llm
  <2>1. /\ node # "rest" /\ node' # "rest"
        /\ iterations < MaxIterations /\ iterations' = iterations + 1
    BY <1>3, LlmEffect DEF Llm, PassState
  <2>2. Agent!AskForWork("thread")
    BY <2>1 DEF Agent!AskForWork
  <2> QED
    BY <2>2 DEF Agent!Next
<1>4. CASE Finalize \/ Abort
  <2>1. node # "rest" /\ node' = "rest"
    BY <1>4 DEF Finalize, Abort
  <2>2. Agent!Rest({"thread"})
    BY <2>1 DEF Agent!Rest
  <2> QED
    BY <2>2 DEF Agent!Next
<1>5. CASE UNCHANGED vars
  BY <1>5 DEF vars, control, Agent!vars
<1> QED
  BY <1>1, <1>2, <1>3, <1>4, <1>5 DEF Next, Run, Agent!Next

\* Whatever the model asks for and wherever the pass is lost, the graph gives
\* it no more than its budget of rounds, and between turns it is at rest: every
\* step of the graph is a step of the bounded agent or leaves it unchanged.
THEOREM GraphRefinesAgent == Spec => Agent!Spec
<1>1. GraphInv /\ [Next]_vars => [Agent!Next]_(Agent!vars)
  BY StepRefines DEF GraphInv
<1> QED
  BY <1>1, InitRefines, Invariance, PTL DEF Spec, Agent!Spec
=============================================================================
