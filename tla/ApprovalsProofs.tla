--------------------------- MODULE ApprovalsProofs ---------------------------
(* What the operators on the stacks of a session keep and drop, for stacks *)
(* of any length.                                                          *)
EXTENDS Approvals, FiniteSetTheorems, WellFoundedInduction, TLAPS

\* A set of naturals that is not empty has a least member.
LEMMA LeastMember ==
    ASSUME NEW T \in SUBSET Nat, T # {}
    PROVE  \E m \in T : \A k \in T : m <= k
<1>1. PICK m \in T : \A k \in T : ~(<<k, m>> \in OpToRel(<, Nat))
  BY NatLessThanWellFounded, WFMin
<1>2. ASSUME NEW k \in T PROVE m <= k
  <2>1. k \in Nat /\ m \in Nat
    OBVIOUS
  <2>2. k < m => <<k, m>> \in OpToRel(<, Nat)
    BY <2>1, Zenon DEF OpToRel
  <2>3. ~(k < m)
    BY <1>1, <2>2, Zenon
  <2> QED
    BY <2>1, <2>3
<1> QED
  BY <1>2

\* Positions in a sequence form a finite set.
LEMMA PositionsAreFinite ==
    ASSUME NEW len \in Nat, NEW kept \in SUBSET (1..len)
    PROVE  IsFiniteSet(kept) /\ Cardinality(kept) \in Nat
<1>1. IsFiniteSet(1..len)
  BY FS_Interval
<1> QED
  BY <1>1, FS_Subset, FS_CardinalityType

Upto(kept, i) == {j \in kept : j <= i}

LEMMA UptoIs ==
    ASSUME NEW kept, NEW i
    PROVE  /\ Upto(kept, i) \subseteq kept
           /\ \A j \in kept : j \in Upto(kept, i) <=> j <= i
  BY Zenon DEF Upto

\* Counting the members of a set of positions one by one skips no number.
LEMMA EveryCountIsReached ==
    ASSUME NEW len \in Nat, NEW kept \in SUBSET (1..len), NEW n \in 1..Cardinality(kept)
    PROVE  \E i \in kept : Cardinality(Upto(kept, i)) = n
<1>0. \A j \in kept : j \in Nat /\ 1 <= j /\ j <= len
  OBVIOUS
<1>1. IsFiniteSet(kept) /\ Cardinality(kept) \in Nat
  BY PositionsAreFinite
<1>2. ASSUME NEW i \in Nat
      PROVE  /\ IsFiniteSet(Upto(kept, i)) /\ Cardinality(Upto(kept, i)) \in Nat
             /\ Upto(kept, i) \subseteq kept
  BY <1>1, FS_Subset, FS_CardinalityType DEF Upto
<1> DEFINE T == {i \in Nat : Cardinality(Upto(kept, i)) >= n}
<1>3. len \in T
  <2>1. Upto(kept, len) = kept
    <3>1. \A j \in kept : j \in Upto(kept, len)
      BY <1>0, UptoIs
    <3> QED
      BY <3>1, UptoIs, Zenon
  <2> QED
    BY <2>1, <1>1
<1>4. PICK i \in T : \A k \in T : i <= k
  BY <1>3, LeastMember
<1>5. i # 0
  <2>1. Upto(kept, 0) = {}
    <3>1. \A j \in kept : j \notin Upto(kept, 0)
      BY <1>0, UptoIs
    <3> QED
      BY <3>1, UptoIs, Zenon
  <2> QED
    BY <2>1, FS_EmptySet
<1>6. i - 1 \in Nat /\ i - 1 \notin T
  BY <1>4, <1>5
<1>7. Cardinality(Upto(kept, i - 1)) < n
  BY <1>6, <1>2
<1>8. i \in kept
  <2> SUFFICES ASSUME i \notin kept PROVE FALSE
    OBVIOUS
  <2>1. Upto(kept, i) = Upto(kept, i - 1)
    <3>1. \A j \in kept : j \in Upto(kept, i) <=> j \in Upto(kept, i - 1)
      <4>1. \A j \in kept : j # i
        BY Zenon
      <4> QED
        BY <1>0, <1>4, <4>1, UptoIs
    <3> QED
      BY <3>1, UptoIs, Zenon
  <2> QED
    BY <2>1, <1>7, <1>4, <1>6, <1>2
<1>9. Cardinality(Upto(kept, i)) = Cardinality(Upto(kept, i - 1)) + 1
  <2>1. Upto(kept, i) = Upto(kept, i - 1) \cup {i} /\ i \notin Upto(kept, i - 1)
    <3>1. \A j \in kept : j \in Upto(kept, i) <=> j \in Upto(kept, i - 1) \/ j = i
      BY <1>0, <1>4, UptoIs
    <3>2. i \notin Upto(kept, i - 1)
      BY <1>0, <1>8, UptoIs
    <3>3. Upto(kept, i) \subseteq kept /\ Upto(kept, i - 1) \subseteq kept
      BY UptoIs
    <3> HIDE DEF T
    <3> QED
      BY <1>8, <3>1, <3>2, <3>3
  <2> QED
    BY <2>1, <1>2, <1>6, FS_AddElement
<1> QED
  BY <1>4, <1>6, <1>7, <1>8, <1>9, <1>2

\* Two members with the same count are one.
LEMMA CountsDiffer ==
    ASSUME NEW len \in Nat, NEW kept \in SUBSET (1..len), NEW i \in kept, NEW k \in kept,
           Cardinality(Upto(kept, i)) = Cardinality(Upto(kept, k))
    PROVE  i = k
<1>0. \A j \in kept : j \in Nat /\ 1 <= j /\ j <= len
  OBVIOUS
<1>1. IsFiniteSet(kept)
  BY PositionsAreFinite
<1>2. ASSUME NEW a \in kept, NEW b \in kept, a < b
      PROVE  Cardinality(Upto(kept, a)) # Cardinality(Upto(kept, b))
  <2>1. IsFiniteSet(Upto(kept, b))
    BY <1>1, FS_Subset DEF Upto
  <2>2. Upto(kept, a) \subseteq Upto(kept, b) /\ Upto(kept, a) # Upto(kept, b)
    <3>1. b \in Upto(kept, b) /\ b \notin Upto(kept, a)
      BY <1>0, <1>2, UptoIs
    <3> QED
      <4>1. \A j \in kept : j \in Upto(kept, a) => j \in Upto(kept, b)
        BY <1>0, <1>2, UptoIs
      <4> QED
        BY <3>1, <4>1, UptoIs, Zenon
  <2> QED
    BY <2>1, <2>2, FS_Subset
<1> QED
  BY <1>2

\* What is left of a sequence without the members of a set: entries of it that
\* are no members, all of them, and none twice that was there once.
THEOREM WithoutKeeps ==
    ASSUME NEW S, NEW s \in Seq(S), NEW gone
    PROVE  /\ Without(s, gone) \in Seq(S)
           /\ ToSet(Without(s, gone)) = ToSet(s) \ gone
           /\ IsInjective(s) => IsInjective(Without(s, gone))
<1> DEFINE kept == {i \in DOMAIN s : s[i] \notin gone}
           at(n) == CHOOSE i \in kept : Cardinality({j \in kept : j <= i}) = n
           w == Without(s, gone)
<1>1. Len(s) \in Nat /\ DOMAIN s = 1..Len(s) /\ kept \in SUBSET (1..Len(s))
  OBVIOUS
<1>2. IsFiniteSet(kept) /\ Cardinality(kept) \in Nat
  <2> HIDE DEF kept
  <2> QED
    BY <1>1, PositionsAreFinite
<1>3. \A n \in 1..Cardinality(kept) : at(n) \in kept /\ Cardinality(Upto(kept, at(n))) = n
  <2> SUFFICES ASSUME NEW n \in 1..Cardinality(kept)
               PROVE  at(n) \in kept /\ Cardinality(Upto(kept, at(n))) = n
    OBVIOUS
  <2>1. \E i \in kept : Cardinality(Upto(kept, i)) = n
    <3> HIDE DEF kept
    <3> QED
      BY <1>1, EveryCountIsReached
  <2>2. at(n) = CHOOSE i \in kept : Cardinality(Upto(kept, i)) = n
    BY DEF Upto
  <2> HIDE DEF kept, at
  <2> QED
    BY <2>1, <2>2
<1>4. w = [n \in 1..Cardinality(kept) |-> s[at(n)]]
  BY DEF Without
<1> HIDE DEF at, w
<1>5. \A n \in 1..Cardinality(kept) : w[n] \in S /\ w[n] = s[at(n)] /\ w[n] \notin gone
  BY <1>1, <1>3, <1>4
<1>6. w \in Seq(S) /\ DOMAIN w = 1..Cardinality(kept)
  BY <1>2, <1>4, <1>5
<1>7. ToSet(w) \subseteq ToSet(s) \ gone
  BY <1>1, <1>3, <1>5, <1>6 DEF ToSet
<1>8. ASSUME NEW i \in DOMAIN s, s[i] \notin gone PROVE s[i] \in ToSet(w)
  <2>1. i \in kept
    BY <1>8
  <2>2. Cardinality(Upto(kept, i)) \in 1..Cardinality(kept)
    <3> HIDE DEF kept
    <3>1. Upto(kept, i) \subseteq kept /\ i \in Upto(kept, i)
      BY <1>1, <2>1 DEF Upto
    <3>2. /\ IsFiniteSet(Upto(kept, i)) /\ Cardinality(Upto(kept, i)) \in Nat
          /\ Cardinality(Upto(kept, i)) <= Cardinality(kept)
      BY <1>2, <3>1, FS_Subset, FS_CardinalityType
    <3> QED
      BY <3>1, <3>2, <1>2, FS_EmptySet
  <2>3. at(Cardinality(Upto(kept, i))) = i
    <3> HIDE DEF kept
    <3> QED
      BY <1>1, <1>3, <2>1, <2>2, CountsDiffer
  <2> QED
    BY <2>2, <2>3, <1>5, <1>6 DEF ToSet
<1>9. ToSet(s) \ gone \subseteq ToSet(w)
  BY <1>8 DEF ToSet
<1>10. ASSUME IsInjective(s) PROVE IsInjective(w)
  <2> SUFFICES ASSUME NEW a \in DOMAIN w, NEW b \in DOMAIN w, w[a] = w[b] PROVE a = b
    BY DEF IsInjective
  <2>1. s[at(a)] = s[at(b)] /\ at(a) \in DOMAIN s /\ at(b) \in DOMAIN s
    BY <1>3, <1>5, <1>6
  <2>2. at(a) = at(b)
    BY <2>1, <1>10 DEF IsInjective
  <2> QED
    BY <2>2, <1>3, <1>6
<1> QED
  BY <1>6, <1>7, <1>9, <1>10 DEF w

-----------------------------------------------------------------------------
(* The stack of approvals *)

\* One entry in front of a sequence.
LEMMA InFront ==
    ASSUME NEW S, NEW s \in Seq(S), NEW a \in S
    PROVE  /\ <<a>> \o s \in Seq(S) /\ Len(<<a>> \o s) = Len(s) + 1
           /\ (<<a>> \o s)[1] = a /\ \A i \in 1..Len(s) : (<<a>> \o s)[i + 1] = s[i]
           /\ <<a>> \o s # <<>> /\ Head(<<a>> \o s) = a /\ Tail(<<a>> \o s) = s
           /\ ToSet(<<a>> \o s) = {a} \cup ToSet(s)
<1> DEFINE w == <<a>> \o s
<1>1. w \in Seq(S) /\ Len(w) = Len(s) + 1 /\ Len(s) \in Nat
  OBVIOUS
<1>2. w[1] = a /\ \A i \in 1..Len(s) : w[i + 1] = s[i]
  OBVIOUS
<1>3. w # <<>> /\ Head(w) = a /\ Tail(w) = s
  OBVIOUS
<1> HIDE DEF w
<1>4. DOMAIN w = 1..Len(s) + 1 /\ DOMAIN s = 1..Len(s)
  BY <1>1
<1>5. ASSUME NEW x PROVE x \in ToSet(w) => x \in {a} \cup ToSet(s)
  <2> SUFFICES ASSUME NEW i \in DOMAIN w, x = w[i] PROVE x \in {a} \cup ToSet(s)
    BY DEF ToSet
  <2>1. CASE i = 1
    BY <1>2, <2>1
  <2>2. CASE i # 1
    <3>1. i - 1 \in 1..Len(s) /\ w[(i - 1) + 1] = s[i - 1] /\ (i - 1) + 1 = i
      BY <1>1, <1>2, <1>4, <2>2
    <3> QED
      BY <1>4, <3>1 DEF ToSet
  <2> QED
    BY <2>1, <2>2
<1>6. ASSUME NEW x PROVE x \in {a} \cup ToSet(s) => x \in ToSet(w)
  <2>1. a \in ToSet(w)
    BY <1>1, <1>2, <1>4 DEF ToSet
  <2>2. ASSUME NEW i \in DOMAIN s, x = s[i] PROVE x \in ToSet(w)
    <3>1. i + 1 \in DOMAIN w /\ w[i + 1] = s[i]
      BY <1>1, <1>2, <1>4
    <3> QED
      BY <2>2, <3>1 DEF ToSet
  <2> QED
    BY <2>1, <2>2 DEF ToSet
<1>7. ToSet(w) = {a} \cup ToSet(s)
  BY <1>5, <1>6
<1> QED
  BY <1>1, <1>2, <1>3, <1>7 DEF w

\* One entry in front of a sequence without repetitions that does not hold it.
LEMMA InFrontInjective ==
    ASSUME NEW S, NEW s \in Seq(S), NEW a \in S, a \notin ToSet(s), IsInjective(s)
    PROVE  IsInjective(<<a>> \o s)
<1> DEFINE w == <<a>> \o s
<1>1. /\ Len(s) \in Nat /\ DOMAIN s = 1..Len(s)
      /\ w \in Seq(S) /\ DOMAIN w = 1..Len(s) + 1
      /\ w[1] = a /\ \A i \in 1..Len(s) : w[i + 1] = s[i]
  BY InFront
<1> HIDE DEF w
<1>2. ASSUME NEW i \in DOMAIN w, i # 1
      PROVE  i - 1 \in DOMAIN s /\ w[i] = s[i - 1] /\ w[i] # a
  <2>1. i - 1 \in 1..Len(s) /\ (i - 1) + 1 = i
    BY <1>1, <1>2
  <2>2. w[i] = s[i - 1]
    BY <1>1, <2>1
  <2> QED
    BY <1>1, <2>1, <2>2 DEF ToSet
<1>3. ASSUME NEW i \in DOMAIN w, NEW j \in DOMAIN w, w[i] = w[j] PROVE i = j
  <2>1. CASE i = 1
    BY <1>1, <1>2, <1>3, <2>1
  <2>2. CASE j = 1
    BY <1>1, <1>2, <1>3, <2>2
  <2>3. CASE i # 1 /\ j # 1
    <3>1. i - 1 = j - 1
      BY <1>2, <1>3, <2>3 DEF IsInjective
    <3> QED
      BY <1>1, <3>1
  <2> QED
    BY <2>1, <2>2, <2>3
<1>4. IsInjective(w)
  BY <1>3 DEF IsInjective
<1> QED
  BY <1>4 DEF w

\* What follows the first entry of a sequence without repetitions.
LEMMA TailInjective ==
    ASSUME NEW S, NEW s \in Seq(S), s # <<>>, IsInjective(s)
    PROVE  IsInjective(Tail(s)) /\ Head(s) \notin ToSet(Tail(s))
<1>1. /\ Len(s) \in Nat \ {0} /\ Head(s) = s[1] /\ DOMAIN s = 1..Len(s)
      /\ DOMAIN Tail(s) = 1..Len(s) - 1
      /\ \A i \in 1..Len(s) - 1 : Tail(s)[i] = s[i + 1]
  OBVIOUS
<1>2. IsInjective(Tail(s))
  <2> SUFFICES ASSUME NEW i \in 1..Len(s) - 1, NEW j \in 1..Len(s) - 1, Tail(s)[i] = Tail(s)[j]
               PROVE  i = j
    BY <1>1 DEF IsInjective
  <2>1. s[i + 1] = s[j + 1] /\ i + 1 \in DOMAIN s /\ j + 1 \in DOMAIN s
    BY <1>1
  <2>2. i + 1 = j + 1
    BY <2>1 DEF IsInjective
  <2> QED
    BY <1>1, <2>2
<1>3. Head(s) \notin ToSet(Tail(s))
  <2> SUFFICES ASSUME NEW i \in 1..Len(s) - 1, Head(s) = Tail(s)[i] PROVE FALSE
    BY <1>1 DEF ToSet
  <2>1. s[1] = s[i + 1] /\ 1 \in DOMAIN s /\ i + 1 \in DOMAIN s /\ i + 1 # 1
    BY <1>1
  <2> QED
    BY <2>1 DEF IsInjective
<1> QED
  BY <1>2, <1>3

\* Queueing an approval puts it on top and removes only what is the same.
THEOREM QueueKeeps ==
    ASSUME NEW S, NEW stack \in Seq(S), NEW a \in S
    PROVE  /\ Queue(stack, a) \in Seq(S) /\ Queue(stack, a) # <<>>
           /\ Head(Queue(stack, a)) = a
           /\ ToSet(Queue(stack, a)) = {a} \cup {b \in ToSet(stack) : ~SameApproval(a, b)}
           /\ IsInjective(stack) => IsInjective(Queue(stack, a))
<1> DEFINE gone == {b \in ToSet(stack) : SameApproval(a, b)}
           w == Without(stack, gone)
<1>1. /\ w \in Seq(S) /\ ToSet(w) = ToSet(stack) \ gone
      /\ IsInjective(stack) => IsInjective(w)
  BY WithoutKeeps
<1>2. Queue(stack, a) = <<a>> \o w
  BY DEF Queue
<1>3. ToSet(stack) \ gone = {b \in ToSet(stack) : ~SameApproval(a, b)}
  OBVIOUS
<1>4. a \notin ToSet(stack) \ gone
  BY DEF SameApproval
<1> HIDE DEF gone, w
<1>5. IsInjective(w) => IsInjective(<<a>> \o w)
  BY <1>1, <1>4, InFrontInjective
<1> QED
  BY <1>1, <1>2, <1>3, <1>5, InFront

\* Dropping the top leaves the others, and no other copy of the top.
LEMMA RestKeeps ==
    ASSUME NEW S, NEW stack \in Seq(S)
    PROVE  /\ Rest(stack) \in Seq(S)
           /\ ToSet(Rest(stack)) \subseteq ToSet(stack)
           /\ stack # <<>> => ToSet(stack) = {Head(stack)} \cup ToSet(Rest(stack))
           /\ IsInjective(stack) =>
                 /\ IsInjective(Rest(stack))
                 /\ stack # <<>> => Head(stack) \notin ToSet(Rest(stack))
<1>1. CASE stack = <<>>
  BY <1>1 DEF Rest
<1>2. CASE stack # <<>>
  <2>1. Head(stack) \in S /\ Tail(stack) \in Seq(S) /\ stack = <<Head(stack)>> \o Tail(stack)
    BY <1>2
  <2>2. ToSet(<<Head(stack)>> \o Tail(stack)) = {Head(stack)} \cup ToSet(Tail(stack))
    BY <2>1, InFront
  <2>3. Rest(stack) = Tail(stack)
    BY <1>2 DEF Rest
  <2>4. IsInjective(stack) => /\ IsInjective(Tail(stack))
                              /\ Head(stack) \notin ToSet(Tail(stack))
    BY <1>2, TailInjective
  <2> QED
    BY <1>2, <2>1, <2>2, <2>3, <2>4
<1> QED
  BY <1>1, <1>2

-----------------------------------------------------------------------------
(* The topics *)

TopicStates(S) == [current : S \cup {NoTopic}, parked : Seq(S)]

\* What a session may start with: no parked topic repeated, none of them the
\* name for no topic.
Waiting(topics) == WaitOnce(topics) /\ NoTopic \notin ToSet(topics.parked)

\* What a session comes to: nor is the current one parked.
Proper(topics) == SoundTopics(topics) /\ NoTopic \notin ToSet(topics.parked)

\* The topics to come back to are topics.
LEMMA OpenTopicsAre ==
    ASSUME NEW S, NEW topics \in TopicStates(S)
    PROVE  OpenTopics(topics) \in Seq(S)
<1>1. topics.current \in S \cup {NoTopic} /\ topics.parked \in Seq(S)
  BY DEF TopicStates
<1>2. CASE topics.current = NoTopic
  BY <1>1, <1>2 DEF OpenTopics
<1>3. CASE topics.current # NoTopic
  <2>1. topics.current \in S /\ Without(topics.parked, {topics.current}) \in Seq(S)
    BY <1>1, <1>3, WithoutKeeps
  <2> QED
    BY <1>3, <2>1, InFront DEF OpenTopics
<1> QED
  BY <1>2, <1>3

\* The customer turning to another topic makes the topics proper, and turning to
\* the current one leaves them as they are.
THEOREM ShiftSound ==
    ASSUME NEW S, NEW topics \in TopicStates(S), Waiting(topics),
           NEW to \in S, to # NoTopic
    PROVE  /\ Shift(topics, to) \in TopicStates(S)
           /\ IF to = topics.current THEN Shift(topics, to) = topics
              ELSE Proper(Shift(topics, to))
<1> DEFINE cur == topics.current  old == topics.parked
           w == Without(old, {to, cur})
           new == Shift(topics, to)
<1>1. /\ cur \in S \cup {NoTopic} /\ old \in Seq(S)
      /\ topics = [current |-> cur, parked |-> old]
  BY DEF TopicStates
<1>2. /\ IsInjective(old) /\ (cur = NoTopic => old = <<>>)
      /\ NoTopic \notin ToSet(old)
  BY DEF Waiting, WaitOnce
<1>3. new = [current |-> to,
             parked |-> IF cur \in {NoTopic, to} THEN old ELSE <<cur>> \o w]
  BY DEF Shift
<1>4. w \in Seq(S) /\ ToSet(w) = ToSet(old) \ {to, cur} /\ IsInjective(w)
  BY <1>1, <1>2, WithoutKeeps
<1> HIDE DEF cur, old, w, new
<1>5. CASE cur = NoTopic
  <2>1. new.current = to /\ new.parked = <<>> /\ new = [current |-> to, parked |-> <<>>]
    BY <1>2, <1>3, <1>5
  <2>2. ToSet(new.parked) = {} /\ IsInjective(new.parked)
    BY <2>1 DEF ToSet, IsInjective
  <2>3. new \in TopicStates(S)
    BY <2>1 DEF TopicStates
  <2> QED
    BY <1>5, <2>1, <2>2, <2>3 DEF Proper, SoundTopics, WaitOnce, new, cur
<1>6. CASE cur = to
  <2>1. new.current = to /\ new.parked = old /\ new = [current |-> to, parked |-> old]
    BY <1>3, <1>6
  <2>3. new \in TopicStates(S)
    BY <1>1, <2>1 DEF TopicStates
  <2> QED
    BY <1>1, <1>6, <2>1, <2>3 DEF new, cur
<1>7. CASE cur \notin {NoTopic, to}
  <2>0. cur \in S /\ cur \notin ToSet(w)
    BY <1>1, <1>4, <1>7
  <2>1. /\ new.current = to /\ new.parked = <<cur>> \o w
        /\ new = [current |-> to, parked |-> <<cur>> \o w]
    BY <1>3, <1>7
  <2>2. <<cur>> \o w \in Seq(S) /\ ToSet(<<cur>> \o w) = {cur} \cup ToSet(w)
    BY <2>0, <1>4, InFront
  <2>3. IsInjective(<<cur>> \o w)
    BY <2>0, <1>4, InFrontInjective
  <2>4. new \in TopicStates(S)
    BY <2>1, <2>2 DEF TopicStates
  <2>5. to \notin ToSet(<<cur>> \o w) /\ NoTopic \notin ToSet(<<cur>> \o w)
    BY <1>2, <1>4, <1>7, <2>2
  <2> QED
    BY <1>7, <2>1, <2>3, <2>4, <2>5 DEF Proper, SoundTopics, WaitOnce, new, cur
<1> QED
  BY <1>5, <1>6, <1>7

\* So does the end of the current topic, whatever waits behind it.
THEOREM ResumeSound ==
    ASSUME NEW S, NEW topics \in TopicStates(S), Waiting(topics)
    PROVE  Resume(topics) \in TopicStates(S) /\ Proper(Resume(topics))
<1> DEFINE old == topics.parked  new == Resume(topics)
<1>1. old \in Seq(S) /\ IsInjective(old) /\ NoTopic \notin ToSet(old)
  BY DEF TopicStates, Waiting, WaitOnce
<1>2. new = IF old = <<>> THEN [current |-> NoTopic, parked |-> <<>>]
            ELSE [current |-> Head(old), parked |-> Tail(old)]
  BY DEF Resume
<1> HIDE DEF old, new
<1>3. CASE old = <<>>
  <2>1. new = [current |-> NoTopic, parked |-> <<>>]
    BY <1>2, <1>3
  <2>2. new \in TopicStates(S)
    BY <2>1 DEF TopicStates
  <2>3. ToSet(new.parked) = {} /\ IsInjective(new.parked) /\ new.parked = <<>>
    BY <2>1 DEF ToSet, IsInjective
  <2> QED
    BY <2>1, <2>2, <2>3 DEF Proper, SoundTopics, WaitOnce, new
<1>4. CASE old # <<>>
  <2>1. new = [current |-> Head(old), parked |-> Tail(old)]
    BY <1>2, <1>4
  <2>2. /\ Head(old) \in S /\ Tail(old) \in Seq(S) /\ Len(old) \in Nat \ {0}
        /\ Head(old) = old[1] /\ DOMAIN old = 1..Len(old)
        /\ DOMAIN Tail(old) = 1..Len(old) - 1
        /\ \A i \in 1..Len(old) - 1 : Tail(old)[i] = old[i + 1]
    BY <1>1, <1>4
  <2>3. new \in TopicStates(S)
    BY <2>1, <2>2 DEF TopicStates
  <2>4. IsInjective(Tail(old)) /\ Head(old) \notin ToSet(Tail(old))
    BY <1>1, <1>4, TailInjective
  <2>6. Head(old) # NoTopic /\ NoTopic \notin ToSet(Tail(old))
    <3>1. \A i \in DOMAIN old : old[i] # NoTopic
      BY <1>1 DEF ToSet
    <3>2. \A i \in 1..Len(old) - 1 : i + 1 \in DOMAIN old /\ Tail(old)[i] # NoTopic
      BY <2>2, <3>1
    <3> QED
      BY <2>2, <3>1, <3>2 DEF ToSet
  <2> QED
    BY <2>1, <2>3, <2>4, <2>6 DEF Proper, SoundTopics, WaitOnce, new
<1> QED
  BY <1>3, <1>4
=============================================================================
