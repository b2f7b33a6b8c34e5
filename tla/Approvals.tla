------------------------------ MODULE Approvals ------------------------------
(***************************************************************************)
(* The two stacks a session carries in its metadata, most recent first:   *)
(* the write actions waiting for the customer's yes (pending_actions) and *)
(* the topics to come back to (current_topic on top of pending_topics).   *)
(* pending_action and current_topic are always written together with the  *)
(* lists they head, so one sequence stands for both.                      *)
(***************************************************************************)
EXTENDS Integers, FiniteSets, Sequences, SequencesExt

\* The sequence without the members of a set: its n-th entry is the one kept
\* at the position up to which n are kept.  SelectSeq does the same, but
\* nothing can be proved about it.
Without(s, gone) ==
    LET kept == {i \in DOMAIN s : s[i] \notin gone}
    IN  [n \in 1..Cardinality(kept) |->
            s[CHOOSE i \in kept : Cardinality({j \in kept : j <= i}) = n]]

\* Two approvals are the same to the code if they agree on type and summary.
SameApproval(a, b) == a.type = b.type /\ a.about = b.about

\* mutant: first in, first out
QueueLast(stack, a) ==
    Without(stack, {b \in ToSet(stack) : SameApproval(a, b)}) \o <<a>>

Queue(stack, a) == <<a>> \o Without(stack, {b \in ToSet(stack) : SameApproval(a, b)})

\* The stack without its top action; an empty stack stays empty.
Rest(stack) == IF stack = <<>> THEN <<>> ELSE Tail(stack)

-----------------------------------------------------------------------------
(* Topics: current is "none" or a topic, parked the topics behind it.      *)

NoTopic == "none"

\* mutant: an explicit jump back leaves the older entry parked
ShiftKeepsOlder(topics, to) ==
    [current |-> to,
     parked |-> IF topics.current \in {NoTopic, to} THEN topics.parked
                ELSE <<topics.current>> \o topics.parked]

\* The customer turned to topic "to": the current one is parked, and neither
\* of the two keeps an older place among the parked ones.
Shift(topics, to) ==
    [current |-> to,
     parked |-> IF topics.current \in {NoTopic, to} THEN topics.parked
                ELSE <<topics.current>> \o
                     Without(topics.parked, {to, topics.current})]

\* The current topic is finished: the next parked one takes its place.
Resume(topics) ==
    IF topics.parked = <<>> THEN [current |-> NoTopic, parked |-> <<>>]
    ELSE [current |-> Head(topics.parked), parked |-> Tail(topics.parked)]

\* The topics there are to come back to, each once.
OpenTopics(topics) ==
    IF topics.current = NoTopic THEN topics.parked
    ELSE <<topics.current>> \o Without(topics.parked, {topics.current})

\* No topic waits twice, and none waits behind no topic.
WaitOnce(topics) ==
    /\ IsInjective(topics.parked)
    /\ topics.current = NoTopic => topics.parked = <<>>

\* Nor does the current topic wait behind itself.
SoundTopics(topics) == WaitOnce(topics) /\ topics.current \notin ToSet(topics.parked)
=============================================================================
