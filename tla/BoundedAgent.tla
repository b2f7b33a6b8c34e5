---------------------------- MODULE BoundedAgent ----------------------------
(***************************************************************************)
(* What both implementations of the agent promise of their turns: in each *)
(* the model is given work only while the turn's budget lasts, and a turn *)
(* that was begun comes to rest, whatever the other turns do.             *)
(***************************************************************************)
EXTENDS Naturals

CONSTANTS
    Agents,  \* what runs turns: the slots of a session, a thread of the graph
    Budget   \* rounds of work a turn may ask for

VARIABLES
    phase,   \* "resting" between turns, "working" in one
    rounds   \* rounds of work asked for in the turn

vars == <<phase, rounds>>

Init ==
    /\ phase = [a \in Agents |-> "resting"]
    /\ rounds = [a \in Agents |-> 0]

Begin(a) ==
    /\ phase[a] = "resting"
    /\ phase' = [phase EXCEPT ![a] = "working"]
    /\ UNCHANGED rounds

AskForWork(a) ==
    /\ phase[a] = "working"
    /\ rounds[a] < Budget
    /\ rounds' = [rounds EXCEPT ![a] = @ + 1]
    /\ UNCHANGED phase

\* Turns end one by one, or several at once when their process dies.
Rest(S) ==
    /\ \A a \in S : phase[a] = "working"
    /\ phase' = [a \in Agents |-> IF a \in S THEN "resting" ELSE phase[a]]
    /\ rounds' = [a \in Agents |-> IF a \in S THEN 0 ELSE rounds[a]]

Next ==
    \/ \E a \in Agents : Begin(a) \/ AskForWork(a)
    \/ \E S \in SUBSET Agents : Rest(S)

Spec == Init /\ [][Next]_vars

Ends(a) == \E S \in SUBSET Agents : a \in S /\ Rest(S)

FairSpec == Spec /\ \A a \in Agents : WF_vars(Ends(a))
=============================================================================
