------------------------ MODULE CustomerMemoryProofs ------------------------
(***************************************************************************)
(* Proofs about CustomerMemory, for any number of sessions, turns, faults *)
(* and items of work: a claim moves work and neither loses nor copies it, *)
(* and an approval is answered once, but for the lapses the module names. *)
(***************************************************************************)
EXTENDS CustomerMemory, TLAPS

\* The work a claim has taken that is not in the session's metadata yet.
Pending(s) == IF opening[s] = "merge" THEN claim[s].found ELSE {}

\* The work a session may still write to its row as its own.
Mine(s) == (carried[s] \cup copy[s] \cup Pending(s)) \ taken[s]

\* A claim has read what the rows it has locked hold, and goes on holding.
LockState(s) ==
    /\ s \notin claim[s].held \cup claim[s].todo
    /\ opening[s] \notin {"lock", "merge"} => claim[s] = NoClaim
    /\ opening[s] = "lock" => claim[s].found = UNION {memory[o] : o \in claim[s].held}

\* Work exists once it has been asked for; only a refresh has a copy of it.
AskedState(s) ==
    /\ memory[s] \cup carried[s] \cup copy[s] \cup claim[s].found \subseteq asked
    /\ turn[s] # "store" => copy[s] = {}

\* Sessions share neither rows nor what they may write to them.
Apart(s, o) ==
    "stale" \notin lapses /\ s # o =>
        /\ memory[s] \cap memory[o] = {}
        /\ memory[s] \cap Mine(o) = {}
        /\ Mine(s) \cap Mine(o) = {}

\* A claim brings a session only what it does not have.
MergeState(s) ==
    "stale" \notin lapses => carried[s] \cap Pending(s) \subseteq taken[s]

\* An approval that s has answered is nobody's to answer any more, and in a
\* row at most until the turn that answered it has stored its work.
AnswerState(s, i) ==
    lapses \cap {"stale", "behind", "unsaved"} = {} =>
        /\ i \in asked
        /\ \A o \in Sessions : i \notin Mine(o)
        /\ i \notin carried[s] \cup copy[s] \cup Pending(s)
        /\ \A o \in Sessions : opening[o] = "lock" => i \notin claim[o].found
        /\ \A o \in Sessions : i \in memory[o] => o = s /\ turn[s] \in {"read", "store"}

\* Before its first turn a session has nothing in its row but what it claimed,
\* and afterwards its metadata has all the unsettled work of the row.
RowState(s) ==
    /\ opening[s] = "none" => memory[s] = {} /\ turn[s] = "idle" /\ s \notin active
    /\ lapses \cap {"unread", "early", "torn", "unsaved"} = {} =>
        /\ opening[s] \in UnderWay => turn[s] = "idle"
        /\ opening[s] \in UnderWay \ {"merge"} => memory[s] = {}
        /\ opening[s] = "merge" => memory[s] \subseteq claim[s].found
        /\ opening[s] \in {"open", "unclaimed"} => memory[s] \cap owed \subseteq carried[s]
        /\ turn[s] = "store" => copy[s] = carried[s]

Structure == /\ TypeOK
             /\ \A s \in Sessions : LockState(s) /\ AskedState(s)

\* The claims of different sessions.
Disjoint == /\ \A s, o \in Sessions : Apart(s, o)
            /\ \A s \in Sessions : MergeState(s)

Answers ==
    \A s \in Sessions, i \in Approvals : <<s, i>> \in answered =>
        /\ AnswerState(s, i)
        /\ lapses \cap {"stale", "behind", "unsaved"} = {} =>
               \A o \in Sessions : <<o, i>> \in answered => o = s

\* A row has the item, or the refresh of a turn that writes it is to come.
Kept(i) ==
    \E s \in Sessions : \/ i \in memory[s]
                        \/ i \in carried[s] /\ turn[s] \in {"read", "store"}

Work == /\ \A s \in Sessions : RowState(s)
        /\ lapses \cap {"unread", "early", "torn", "unsaved"} = {} => \A i \in owed : Kept(i)

MemoryInv == Structure /\ Disjoint /\ Answers /\ Work

-----------------------------------------------------------------------------
(* The structure: types, locks, and that work exists once asked for.       *)

\* A claim is a record of three sets, and locks are held by an open claim only.
LEMMA TypeStep ==
  Structure /\ Next => TypeOK'
<1> SUFFICES ASSUME Structure, Next PROVE TypeOK'
  OBVIOUS
<1> USE MemoryAssumption DEF Structure, TypeOK, Items, UnderWay, Ended
<1>1. ASSUME NEW s \in Sessions, Begin(s) PROVE TypeOK'
  BY <1>1 DEF Begin, rowVars, turnVars, history, records, NoClaim
<1>2. ASSUME NEW s \in Sessions, Supersede(s) PROVE TypeOK'
  BY <1>2 DEF Supersede, rowVars, turnVars, history, records, NoClaim
<1>3. ASSUME NEW s \in Sessions, Select(s) PROVE TypeOK'
  <2>1. claim[s] \in [todo : SUBSET Sessions, held : SUBSET Sessions, found : SUBSET Items]
    OBVIOUS
  <2>2. [claim[s] EXCEPT !.todo = rows \ {s}]
          \in [todo : SUBSET Sessions, held : SUBSET Sessions, found : SUBSET Items]
    BY <2>1
  <2>3. claim' = [claim EXCEPT ![s] = [claim[s] EXCEPT !.todo = rows \ {s}]]
    BY <1>3 DEF Select
  <2>4. claim' \in [Sessions -> [todo : SUBSET Sessions, held : SUBSET Sessions,
                                  found : SUBSET Items]]
    BY <2>2, <2>3
  <2> QED BY <2>4, <1>3 DEF Select, rowVars, turnVars, history, records
<1>4. ASSUME NEW s \in Sessions, NEW o \in Sessions, LockRow(s, o) PROVE TypeOK'
  <2>1. claim[s] \in [todo : SUBSET Sessions, held : SUBSET Sessions, found : SUBSET Items]
    OBVIOUS
  <2>2. memory[o] \subseteq Items
    OBVIOUS
  <2>3. [claim[s] EXCEPT !.todo = @ \ {o}, !.held = @ \cup {o}, !.found = @ \cup memory[o]]
          \in [todo : SUBSET Sessions, held : SUBSET Sessions, found : SUBSET Items]
    BY <2>1, <2>2
  <2>4. claim' = [claim EXCEPT ![s] = [claim[s] EXCEPT !.todo = @ \ {o},
                                                    !.held = @ \cup {o},
                                                    !.found = @ \cup memory[o]]]
    BY <1>4 DEF LockRow
  <2>5. claim' \in [Sessions -> [todo : SUBSET Sessions, held : SUBSET Sessions,
                                  found : SUBSET Items]]
    BY <2>3, <2>4
  <2>6. \A x \in Sessions : claim'[x].held # {} => opening[x] = "lock"
    BY <1>4, <2>4 DEF LockRow
  <2> QED BY <1>4, <2>5, <2>6 DEF LockRow, Lapse, rowVars, turnVars, records
<1>5. ASSUME NEW s \in Sessions, Commit(s) PROVE TypeOK'
  <2>1. claim[s].found \subseteq Items
    OBVIOUS
  <2>2. memory' \in [Sessions -> SUBSET Items] /\ taken' \in [Sessions -> SUBSET Items]
    BY <1>5, <2>1 DEF Commit
  <2>3. claim' \in [Sessions -> [todo : SUBSET Sessions, held : SUBSET Sessions,
                                  found : SUBSET Items]]
    <3>1. [claim[s] EXCEPT !.held = {}]
            \in [todo : SUBSET Sessions, held : SUBSET Sessions, found : SUBSET Items]
      <4>1. claim[s] \in [todo : SUBSET Sessions, held : SUBSET Sessions, found : SUBSET Items]
        OBVIOUS
      <4> QED BY <4>1
    <3>2. claim' = [claim EXCEPT ![s] = [claim[s] EXCEPT !.held = {}]]
      BY <1>5 DEF Commit
    <3> QED BY <3>1, <3>2
  <2>4. opening' \in [Sessions -> {"none"} \cup UnderWay \cup Ended]
    BY <1>5 DEF Commit
  <2>5. \A x \in Sessions : claim'[x].held # {} => opening'[x] = "lock"
    BY <1>5 DEF Commit
  <2>6. /\ rows' \subseteq Sessions
        /\ lapses' \subseteq {"unread", "early", "torn", "stale", "behind", "unsaved"}
    BY <1>5 DEF Commit, Lapse
  <2> QED BY <1>5, <2>2, <2>3, <2>4, <2>5, <2>6 DEF Commit, turnVars
<1>6. ASSUME NEW s \in Sessions, Merge(s) PROVE TypeOK'
  BY <1>6 DEF Merge, rowVars, turnVars, history, records, NoClaim
<1>7. ASSUME NEW s \in Sessions, Deadlock(s) PROVE TypeOK'
  BY <1>7 DEF Deadlock, Abort, rowVars, turnVars, history, records, NoClaim
<1>8. ASSUME NEW s \in Sessions, CreateFails(s) PROVE TypeOK'
  BY <1>8 DEF CreateFails, Abort, rowVars, turnVars, history, records, NoClaim
<1>9. ASSUME NEW s \in Sessions, Admit(s) PROVE TypeOK'
  BY <1>9 DEF Admit, Lapse, openVars, rowVars, records, NoClaim
<1>10. ASSUME NEW s \in Sessions, Open(s) PROVE TypeOK'
  BY <1>10 DEF Open, Write, Free, openVars, rowVars, NoClaim
<1>11. ASSUME NEW s \in Sessions, Settle(s) PROVE TypeOK'
  BY <1>11 DEF Settle, Write, Free, Lapse, openVars, rowVars, NoClaim
<1>12. ASSUME NEW s \in Sessions, HandOff(s) PROVE TypeOK'
  BY <1>12 DEF HandOff, Write, Free, Lapse, openVars, rowVars, NoClaim
<1>13. ASSUME NEW s \in Sessions, Chat(s) PROVE TypeOK'
  BY <1>13 DEF Chat, Write, Free, openVars, rowVars, NoClaim
<1>14. ASSUME NEW s \in Sessions, ReadWork(s) PROVE TypeOK'
  BY <1>14 DEF ReadWork, openVars, rowVars, history, records, NoClaim
<1>15. ASSUME NEW s \in Sessions, StoreWork(s) PROVE TypeOK'
  BY <1>15 DEF StoreWork, Idle, Free, openVars, records, NoClaim
<1>16. ASSUME NEW s \in Sessions, RefreshFails(s) PROVE TypeOK'
  BY <1>16 DEF RefreshFails, Idle, Lapse, openVars, rowVars, records, NoClaim
<1>17. ASSUME Crash PROVE TypeOK'
  BY <1>17 DEF Crash, Abort, Lapse, rowVars, records, NoClaim
<1> QED
  BY <1>1, <1>2, <1>3, <1>4, <1>5, <1>6, <1>7, <1>8, <1>9,
     <1>10, <1>11, <1>12, <1>13, <1>14, <1>15, <1>16, <1>17 DEF Next, Creation, Turn

\* Nobody writes a row that a claim has locked.
LEMMA LockStep ==
  Structure /\ Next => \A x \in Sessions : LockState(x)'
<1> SUFFICES ASSUME Structure, Next, NEW x \in Sessions PROVE LockState(x)'
  OBVIOUS
<1> USE DEF Structure, TypeOK, LockState, UnderWay
<1>1. ASSUME NEW s \in Sessions, Begin(s) PROVE LockState(x)'
  BY <1>1 DEF Begin, rowVars, turnVars, history, records, NoClaim
<1>2. ASSUME NEW s \in Sessions, Supersede(s) PROVE LockState(x)'
  BY <1>2 DEF Supersede, rowVars, turnVars, history, records, NoClaim
<1>3. ASSUME NEW s \in Sessions, Select(s) PROVE LockState(x)'
  <2>1. CASE x = s
    <3>1. claim'[s] = [NoClaim EXCEPT !.todo = rows \ {s}]
      BY <1>3 DEF Select
    <3>2. claim'[s].held = {} /\ claim'[s].found = {} /\ claim'[s].todo = rows \ {s}
      BY <3>1 DEF NoClaim
    <3> QED BY <1>3, <2>1, <3>2 DEF Select
  <2>2. CASE x # s
    BY <1>3, <2>2 DEF Select, rowVars
  <2> QED BY <2>1, <2>2
<1>4. ASSUME NEW s \in Sessions, NEW o \in Sessions, LockRow(s, o) PROVE LockState(x)'
  <2>1. CASE x = s
    <3>1. claim'[s].todo = claim[s].todo \ {o} /\ claim'[s].held = claim[s].held \cup {o}
      BY <1>4 DEF LockRow
    <3>2. claim'[s].found = claim[s].found \cup memory[o]
      BY <1>4 DEF LockRow
    <3> QED BY <1>4, <2>1, <3>1, <3>2 DEF LockRow, rowVars
  <2>2. CASE x # s
    <3>1. claim'[x] = claim[x] /\ UNCHANGED <<memory, opening>>
      BY <1>4, <2>2 DEF LockRow, rowVars
    <3> QED BY <3>1
  <2> QED BY <2>1, <2>2
<1>5. ASSUME NEW s \in Sessions, Commit(s) PROVE LockState(x)'
  <2>1. CASE x = s
    BY <1>5, <2>1 DEF Commit
  <2>2. CASE x # s
    <3>1. \A o \in claim[x].held : memory'[o] = memory[o]
      BY <1>5, <2>2 DEF Commit, Free, Emptied
    <3>2. claim'[x] = claim[x] /\ opening'[x] = opening[x]
      BY <1>5, <2>2 DEF Commit
    <3> QED BY <3>1, <3>2
  <2> QED BY <2>1, <2>2
<1>6. ASSUME NEW s \in Sessions, Merge(s) PROVE LockState(x)'
  BY <1>6 DEF Merge, rowVars, turnVars, history, records, NoClaim
<1>7. ASSUME NEW s \in Sessions, Deadlock(s) PROVE LockState(x)'
  <2>1. Abort({s}) /\ UNCHANGED memory
    BY <1>7 DEF Deadlock, rowVars
  <2>2. CASE x = s
    <3>1. claim'[x] = NoClaim /\ opening'[x] \notin {"lock", "merge"}
      BY <2>1, <2>2 DEF Abort
    <3> QED BY <3>1 DEF NoClaim
  <2>3. CASE x # s
    BY <2>1, <2>3 DEF Abort
  <2> QED BY <2>2, <2>3
<1>8. ASSUME NEW s \in Sessions, CreateFails(s) PROVE LockState(x)'
  <2>1. Abort({s}) /\ UNCHANGED memory
    BY <1>8 DEF CreateFails, rowVars
  <2>2. CASE x = s
    <3>1. claim'[x] = NoClaim /\ opening'[x] \notin {"lock", "merge"}
      BY <2>1, <2>2 DEF Abort
    <3> QED BY <3>1 DEF NoClaim
  <2>3. CASE x # s
    BY <2>1, <2>3 DEF Abort
  <2> QED BY <2>2, <2>3
<1>9. ASSUME NEW s \in Sessions, Admit(s) PROVE LockState(x)'
  BY <1>9 DEF Admit, Lapse, openVars, rowVars, records, NoClaim
<1>10. ASSUME NEW s \in Sessions, Open(s) PROVE LockState(x)'
  BY <1>10 DEF Open, Write, Free, openVars, rowVars, NoClaim
<1>11. ASSUME NEW s \in Sessions, Settle(s) PROVE LockState(x)'
  BY <1>11 DEF Settle, Write, Free, Lapse, openVars, rowVars, NoClaim
<1>12. ASSUME NEW s \in Sessions, HandOff(s) PROVE LockState(x)'
  BY <1>12 DEF HandOff, Write, Free, Lapse, openVars, rowVars, NoClaim
<1>13. ASSUME NEW s \in Sessions, Chat(s) PROVE LockState(x)'
  BY <1>13 DEF Chat, Write, Free, openVars, rowVars, NoClaim
<1>14. ASSUME NEW s \in Sessions, ReadWork(s) PROVE LockState(x)'
  BY <1>14 DEF ReadWork, openVars, rowVars, history, records, NoClaim
<1>15. ASSUME NEW s \in Sessions, StoreWork(s) PROVE LockState(x)'
  BY <1>15 DEF StoreWork, Idle, Free, openVars, records, NoClaim
<1>16. ASSUME NEW s \in Sessions, RefreshFails(s) PROVE LockState(x)'
  BY <1>16 DEF RefreshFails, Idle, Lapse, openVars, rowVars, records, NoClaim
<1>17. ASSUME Crash PROVE LockState(x)'
  BY <1>17 DEF Crash, Abort, Lapse, rowVars, records, NoClaim
<1> QED
  BY <1>1, <1>2, <1>3, <1>4, <1>5, <1>6, <1>7, <1>8, <1>9,
     <1>10, <1>11, <1>12, <1>13, <1>14, <1>15, <1>16, <1>17 DEF Next, Creation, Turn

\* Only Open brings new items into the world.
LEMMA AskedStep ==
  Structure /\ Next => \A x \in Sessions : AskedState(x)'
<1> SUFFICES ASSUME Structure, Next, NEW x \in Sessions PROVE AskedState(x)'
  OBVIOUS
<1> USE DEF Structure, TypeOK, AskedState
<1>1. ASSUME NEW s \in Sessions, Begin(s) PROVE AskedState(x)'
  BY <1>1 DEF Begin, rowVars, turnVars, history, records, NoClaim
<1>2. ASSUME NEW s \in Sessions, Supersede(s) PROVE AskedState(x)'
  BY <1>2 DEF Supersede, rowVars, turnVars, history, records, NoClaim
<1>3. ASSUME NEW s \in Sessions, Select(s) PROVE AskedState(x)'
  <2>1. claim[s] \in [todo : SUBSET Sessions, held : SUBSET Sessions, found : SUBSET Items]
    OBVIOUS
  <2>2. [claim[s] EXCEPT !.todo = rows \ {s}]
          \in [todo : SUBSET Sessions, held : SUBSET Sessions, found : SUBSET Items]
    BY <2>1
  <2>3. claim' = [claim EXCEPT ![s] = [claim[s] EXCEPT !.todo = rows \ {s}]]
    BY <1>3 DEF Select
  <2>4. claim' \in [Sessions -> [todo : SUBSET Sessions, held : SUBSET Sessions,
                                  found : SUBSET Items]]
    BY <2>2, <2>3
  <2> QED BY <2>4, <1>3 DEF Select, rowVars, turnVars, history, records
<1>4. ASSUME NEW s \in Sessions, NEW o \in Sessions, LockRow(s, o) PROVE AskedState(x)'
  BY <1>4 DEF LockRow, Lapse, rowVars, turnVars, records, NoClaim
<1>5. ASSUME NEW s \in Sessions, Commit(s) PROVE AskedState(x)'
  BY <1>5 DEF Commit, Lapse, Free, Emptied, turnVars, NoClaim
<1>6. ASSUME NEW s \in Sessions, Merge(s) PROVE AskedState(x)'
  BY <1>6 DEF Merge, rowVars, turnVars, history, records, NoClaim
<1>7. ASSUME NEW s \in Sessions, Deadlock(s) PROVE AskedState(x)'
  BY <1>7 DEF Deadlock, Abort, rowVars, turnVars, history, records, NoClaim
<1>8. ASSUME NEW s \in Sessions, CreateFails(s) PROVE AskedState(x)'
  BY <1>8 DEF CreateFails, Abort, rowVars, turnVars, history, records, NoClaim
<1>9. ASSUME NEW s \in Sessions, Admit(s) PROVE AskedState(x)'
  BY <1>9 DEF Admit, Lapse, openVars, rowVars, records, NoClaim
<1>10. ASSUME NEW s \in Sessions, Open(s) PROVE AskedState(x)'
  BY <1>10 DEF Open, Write, Free, openVars, rowVars, NoClaim
<1>11. ASSUME NEW s \in Sessions, Settle(s) PROVE AskedState(x)'
  BY <1>11 DEF Settle, Write, Free, Lapse, openVars, rowVars, NoClaim
<1>12. ASSUME NEW s \in Sessions, HandOff(s) PROVE AskedState(x)'
  BY <1>12 DEF HandOff, Write, Free, Lapse, openVars, rowVars, NoClaim
<1>13. ASSUME NEW s \in Sessions, Chat(s) PROVE AskedState(x)'
  BY <1>13 DEF Chat, Write, Free, openVars, rowVars, NoClaim
<1>14. ASSUME NEW s \in Sessions, ReadWork(s) PROVE AskedState(x)'
  BY <1>14 DEF ReadWork, openVars, rowVars, history, records, NoClaim
<1>15. ASSUME NEW s \in Sessions, StoreWork(s) PROVE AskedState(x)'
  BY <1>15 DEF StoreWork, Idle, Free, openVars, records, NoClaim
<1>16. ASSUME NEW s \in Sessions, RefreshFails(s) PROVE AskedState(x)'
  BY <1>16 DEF RefreshFails, Idle, Lapse, openVars, rowVars, records, NoClaim
<1>17. ASSUME Crash PROVE AskedState(x)'
  BY <1>17 DEF Crash, Abort, Lapse, rowVars, records, NoClaim
<1> QED
  BY <1>1, <1>2, <1>3, <1>4, <1>5, <1>6, <1>7, <1>8, <1>9,
     <1>10, <1>11, <1>12, <1>13, <1>14, <1>15, <1>16, <1>17 DEF Next, Creation, Turn


-----------------------------------------------------------------------------
(* Claims move work: sessions have nothing in common.                      *)

\* Sessions stay apart while nobody gains anything.
LEMMA ShrinkKeepsApart ==
  ASSUME \A s, o \in Sessions : Apart(s, o),
         lapses \subseteq lapses',
         \A s \in Sessions : memory'[s] \subseteq memory[s] /\ Mine(s)' \subseteq Mine(s)
  PROVE  \A s, o \in Sessions : Apart(s, o)'
  BY DEF Apart

\* Only Open, Commit and StoreWork give a session anything; a commit empties all
\* other rows, and what it gives was in a row it had locked.
LEMMA ApartStep ==
  Structure /\ Disjoint /\ Next => \A s, o \in Sessions : Apart(s, o)'
<1> SUFFICES ASSUME Structure, \A s, o \in Sessions : Apart(s, o), Next
             PROVE  \A s, o \in Sessions : Apart(s, o)'
  BY DEF Disjoint
<1> USE DEF Structure, TypeOK, LockState, UnderWay
<1>1. ASSUME NEW s \in Sessions, Begin(s) PROVE \A x, y \in Sessions : Apart(x, y)'
  <2>1. lapses \subseteq lapses'
    BY <1>1 DEF Begin, rowVars, turnVars, history, records
  <2>2. ASSUME NEW x \in Sessions
        PROVE  memory'[x] \subseteq memory[x] /\ Mine(x)' \subseteq Mine(x)
    BY <1>1 DEF Mine, Pending, NoClaim, Begin, rowVars, turnVars, history, records
  <2> QED BY <2>1, <2>2, ShrinkKeepsApart
<1>2. ASSUME NEW s \in Sessions, Supersede(s) PROVE \A x, y \in Sessions : Apart(x, y)'
  <2>1. lapses \subseteq lapses'
    BY <1>2 DEF Supersede, rowVars, turnVars, history, records
  <2>2. ASSUME NEW x \in Sessions
        PROVE  memory'[x] \subseteq memory[x] /\ Mine(x)' \subseteq Mine(x)
    BY <1>2 DEF Mine, Pending, NoClaim, Supersede, rowVars, turnVars, history, records
  <2> QED BY <2>1, <2>2, ShrinkKeepsApart
<1>3. ASSUME NEW s \in Sessions, Select(s) PROVE \A x, y \in Sessions : Apart(x, y)'
  <2>1. lapses \subseteq lapses'
    BY <1>3 DEF Select, rowVars, turnVars, history, records
  <2>2. ASSUME NEW x \in Sessions
        PROVE  memory'[x] \subseteq memory[x] /\ Mine(x)' \subseteq Mine(x)
    BY <1>3 DEF Mine, Pending, NoClaim, Select, rowVars, turnVars, history, records
  <2> QED BY <2>1, <2>2, ShrinkKeepsApart
<1>4. ASSUME NEW s \in Sessions, NEW o \in Sessions, LockRow(s, o)
     PROVE  \A x, y \in Sessions : Apart(x, y)'
  <2>1. lapses \subseteq lapses'
    BY <1>4 DEF LockRow, Lapse, rowVars, turnVars, records
  <2>2. ASSUME NEW x \in Sessions
        PROVE  memory'[x] \subseteq memory[x] /\ Mine(x)' \subseteq Mine(x)
    BY <1>4 DEF Mine, Pending, NoClaim, LockRow, Lapse, rowVars, turnVars, records
  <2> QED BY <2>1, <2>2, ShrinkKeepsApart
<1>5. ASSUME NEW s \in Sessions, Commit(s) PROVE \A x, y \in Sessions : Apart(x, y)'
  <2> SUFFICES ASSUME "stale" \notin lapses', NEW x \in Sessions, NEW y \in Sessions, x # y
               PROVE  /\ memory'[x] \cap memory'[y] = {}
                      /\ memory'[x] \cap Mine(y)' = {}
                      /\ Mine(x)' \cap Mine(y)' = {}
    BY DEF Apart
  <2>1. "stale" \notin lapses
    BY <1>5 DEF Commit, Lapse
  <2>2. \A z \in Sessions \ {s} : memory'[z] = {}
    BY <1>5 DEF Commit, Emptied
  <2>3. memory'[s] = claim[s].found
    BY <1>5 DEF Commit
  <2>4. Mine(s)' \subseteq Mine(s) \cup claim[s].found
    BY <1>5 DEF Commit, Mine, Pending, turnVars
  <2>5. \A z \in Sessions \ {s} : Mine(z)' = Mine(z) \ memory[z]
    BY <1>5 DEF Commit, Mine, Pending, turnVars
  <2>6. \A z \in Sessions \ {s} : claim[s].found \cap Mine(z)' = {}
    <3> SUFFICES ASSUME NEW z \in Sessions \ {s}, NEW i \in claim[s].found PROVE i \notin Mine(z)'
      OBVIOUS
    <3>1. PICK o \in claim[s].held : i \in memory[o]
      BY <1>5 DEF Commit
    <3>2. o \in Sessions
      OBVIOUS
    <3>3. CASE o = z
      BY <2>5, <3>1, <3>3
    <3>4. CASE o # z
      BY <2>1, <2>5, <3>1, <3>2, <3>4 DEF Apart
    <3> QED BY <3>3, <3>4
  <2>7. Mine(x) \cap Mine(y) = {}
    BY <2>1 DEF Apart
  <2> QED BY <2>2, <2>3, <2>4, <2>5, <2>6, <2>7
<1>6. ASSUME NEW s \in Sessions, Merge(s) PROVE \A x, y \in Sessions : Apart(x, y)'
  <2>1. lapses \subseteq lapses'
    BY <1>6 DEF Merge, rowVars, turnVars, history, records
  <2>2. ASSUME NEW x \in Sessions
        PROVE  memory'[x] \subseteq memory[x] /\ Mine(x)' \subseteq Mine(x)
    BY <1>6 DEF Mine, Pending, NoClaim, Merge, rowVars, turnVars, history, records
  <2> QED BY <2>1, <2>2, ShrinkKeepsApart
<1>7. ASSUME NEW s \in Sessions, Deadlock(s) PROVE \A x, y \in Sessions : Apart(x, y)'
  <2>1. lapses \subseteq lapses'
    BY <1>7 DEF Deadlock, Abort, rowVars, turnVars, history, records
  <2>2. ASSUME NEW x \in Sessions
        PROVE  memory'[x] \subseteq memory[x] /\ Mine(x)' \subseteq Mine(x)
    BY <1>7
       DEF Mine, Pending, NoClaim, Deadlock, Abort, rowVars, turnVars, history, records
  <2> QED BY <2>1, <2>2, ShrinkKeepsApart
<1>8. ASSUME NEW s \in Sessions, CreateFails(s)
     PROVE  \A x, y \in Sessions : Apart(x, y)'
  <2>1. lapses \subseteq lapses'
    BY <1>8 DEF CreateFails, Abort, rowVars, turnVars, history, records
  <2>2. ASSUME NEW x \in Sessions
        PROVE  memory'[x] \subseteq memory[x] /\ Mine(x)' \subseteq Mine(x)
    BY <1>8
       DEF Mine, Pending, NoClaim, CreateFails, Abort, rowVars, turnVars, history,
           records
  <2> QED BY <2>1, <2>2, ShrinkKeepsApart
<1>9. ASSUME NEW s \in Sessions, Admit(s) PROVE \A x, y \in Sessions : Apart(x, y)'
  <2>1. lapses \subseteq lapses'
    BY <1>9 DEF Admit, Lapse, openVars, rowVars, records
  <2>2. ASSUME NEW x \in Sessions
        PROVE  memory'[x] \subseteq memory[x] /\ Mine(x)' \subseteq Mine(x)
    BY <1>9 DEF Mine, Pending, NoClaim, Admit, Lapse, openVars, rowVars, records
  <2> QED BY <2>1, <2>2, ShrinkKeepsApart
<1>10. ASSUME NEW s \in Sessions, Open(s) PROVE \A x, y \in Sessions : Apart(x, y)'
  <2>1. PICK i \in Items \ asked : Write(s, carried[s] \cup {i}) /\ UNCHANGED lapses
    BY <1>10 DEF Open
  <2>2. UNCHANGED memory
    BY <2>1 DEF Write, rowVars
  <2>3. \A x \in Sessions : Mine(x)' \subseteq Mine(x) \cup (IF x = s THEN {i} ELSE {})
    BY <2>1 DEF Mine, Pending, Write, openVars
  <2>4. \A x \in Sessions : i \notin memory[x] /\ i \notin Mine(x)
    BY <2>1 DEF AskedState, Mine, Pending
  <2> QED BY <2>1, <2>2, <2>3, <2>4 DEF Apart
<1>11. ASSUME NEW s \in Sessions, Settle(s) PROVE \A x, y \in Sessions : Apart(x, y)'
  <2>1. lapses \subseteq lapses'
    BY <1>11 DEF Settle, Write, Free, Lapse, openVars, rowVars
  <2>2. ASSUME NEW x \in Sessions
        PROVE  memory'[x] \subseteq memory[x] /\ Mine(x)' \subseteq Mine(x)
    BY <1>11 DEF Mine, Pending, NoClaim, Settle, Write, Free, Lapse, openVars, rowVars
  <2> QED BY <2>1, <2>2, ShrinkKeepsApart
<1>12. ASSUME NEW s \in Sessions, HandOff(s) PROVE \A x, y \in Sessions : Apart(x, y)'
  <2>1. lapses \subseteq lapses'
    BY <1>12 DEF HandOff, Write, Free, Lapse, openVars, rowVars
  <2>2. ASSUME NEW x \in Sessions
        PROVE  memory'[x] \subseteq memory[x] /\ Mine(x)' \subseteq Mine(x)
    BY <1>12 DEF Mine, Pending, NoClaim, HandOff, Write, Free, Lapse, openVars, rowVars
  <2> QED BY <2>1, <2>2, ShrinkKeepsApart
<1>13. ASSUME NEW s \in Sessions, Chat(s) PROVE \A x, y \in Sessions : Apart(x, y)'
  <2>1. lapses \subseteq lapses'
    BY <1>13 DEF Chat, Write, Free, openVars, rowVars
  <2>2. ASSUME NEW x \in Sessions
        PROVE  memory'[x] \subseteq memory[x] /\ Mine(x)' \subseteq Mine(x)
    BY <1>13 DEF Mine, Pending, NoClaim, Chat, Write, Free, openVars, rowVars
  <2> QED BY <2>1, <2>2, ShrinkKeepsApart
<1>14. ASSUME NEW s \in Sessions, ReadWork(s) PROVE \A x, y \in Sessions : Apart(x, y)'
  <2>1. lapses \subseteq lapses'
    BY <1>14 DEF ReadWork, openVars, rowVars, history, records
  <2>2. ASSUME NEW x \in Sessions
        PROVE  memory'[x] \subseteq memory[x] /\ Mine(x)' \subseteq Mine(x)
    BY <1>14 DEF Mine, Pending, NoClaim, ReadWork, openVars, rowVars, history, records
  <2> QED BY <2>1, <2>2, ShrinkKeepsApart
<1>15. ASSUME NEW s \in Sessions, StoreWork(s) PROVE \A x, y \in Sessions : Apart(x, y)'
  <2> SUFFICES ASSUME "stale" \notin lapses', NEW x \in Sessions, NEW y \in Sessions, x # y
               PROVE  /\ memory'[x] \cap memory'[y] = {}
                      /\ memory'[x] \cap Mine(y)' = {}
                      /\ Mine(x)' \cap Mine(y)' = {}
    BY DEF Apart
  <2>1. "stale" \notin lapses /\ copy[s] \subseteq Mine(s)
    BY <1>15 DEF StoreWork, Mine
  <2>2. memory' = [memory EXCEPT ![s] = copy[s]]
    BY <1>15 DEF StoreWork
  <2>3. \A z \in Sessions : Mine(z)' \subseteq Mine(z)
    BY <1>15 DEF StoreWork, Idle, Free, openVars, records, Mine, Pending
  <2>4. \A u, z \in Sessions : u # z =>
          memory[u] \cap memory[z] = {} /\ memory[u] \cap Mine(z) = {} /\ Mine(u) \cap Mine(z) = {}
    BY <2>1 DEF Apart
  <2> QED BY <2>1, <2>2, <2>3, <2>4
<1>16. ASSUME NEW s \in Sessions, RefreshFails(s)
      PROVE  \A x, y \in Sessions : Apart(x, y)'
  <2>1. lapses \subseteq lapses'
    BY <1>16 DEF RefreshFails, Idle, Lapse, openVars, rowVars, records
  <2>2. ASSUME NEW x \in Sessions
        PROVE  memory'[x] \subseteq memory[x] /\ Mine(x)' \subseteq Mine(x)
    BY <1>16
       DEF Mine, Pending, NoClaim, RefreshFails, Idle, Lapse, openVars, rowVars, records
  <2> QED BY <2>1, <2>2, ShrinkKeepsApart
<1>17. ASSUME Crash PROVE \A x, y \in Sessions : Apart(x, y)'
  <2>1. lapses \subseteq lapses'
    BY <1>17 DEF Crash, Abort, Lapse, rowVars, records
  <2>2. ASSUME NEW x \in Sessions
        PROVE  memory'[x] \subseteq memory[x] /\ Mine(x)' \subseteq Mine(x)
    BY <1>17 DEF Mine, Pending, NoClaim, Crash, Abort, Lapse, rowVars, records
  <2> QED BY <2>1, <2>2, ShrinkKeepsApart
<1> QED
  BY <1>1, <1>2, <1>3, <1>4, <1>5, <1>6, <1>7, <1>8, <1>9,
     <1>10, <1>11, <1>12, <1>13, <1>14, <1>15, <1>16, <1>17 DEF Next, Creation, Turn

\* What a claim takes was in a row of another session, so apart from the claimer.
LEMMA MergeStep ==
  Structure /\ Disjoint /\ Next => \A x \in Sessions : MergeState(x)'
<1> SUFFICES ASSUME Structure, \A s, o \in Sessions : Apart(s, o),
                    NEW x \in Sessions, MergeState(x), Next
             PROVE  MergeState(x)'
  BY DEF Disjoint
<1> USE DEF Structure, TypeOK, MergeState, Pending, UnderWay
<1>1. ASSUME NEW s \in Sessions, Begin(s) PROVE MergeState(x)'
  BY <1>1 DEF Begin, rowVars, turnVars, history, records, NoClaim
<1>2. ASSUME NEW s \in Sessions, Supersede(s) PROVE MergeState(x)'
  BY <1>2 DEF Supersede, rowVars, turnVars, history, records, NoClaim
<1>3. ASSUME NEW s \in Sessions, Select(s) PROVE MergeState(x)'
  BY <1>3 DEF Select, rowVars, turnVars, history, records, NoClaim
<1>4. ASSUME NEW s \in Sessions, NEW o \in Sessions, LockRow(s, o) PROVE MergeState(x)'
  BY <1>4 DEF LockRow, Lapse, rowVars, turnVars, records, NoClaim
<1>5. ASSUME NEW s \in Sessions, Commit(s) PROVE MergeState(x)'
  <2>1. CASE x # s
    BY <1>5, <2>1 DEF Commit, Lapse
  <2>2. CASE x = s
    <3> SUFFICES ASSUME "stale" \notin lapses', NEW i \in carried[s] \cap claim[s].found
                 PROVE  i \in taken[s]
      BY <1>5, <2>2 DEF Commit
    <3>1. PICK o \in claim[s].held : i \in memory[o]
      BY <1>5 DEF Commit, LockState
    <3>2. o \in Sessions /\ o # s
      BY DEF LockState
    <3>3. "stale" \notin lapses
      BY <1>5 DEF Commit, Lapse
    <3> QED BY <3>1, <3>2, <3>3 DEF Apart, Mine
  <2> QED BY <2>1, <2>2
<1>6. ASSUME NEW s \in Sessions, Merge(s) PROVE MergeState(x)'
  BY <1>6 DEF Merge, rowVars, turnVars, history, records, NoClaim
<1>7. ASSUME NEW s \in Sessions, Deadlock(s) PROVE MergeState(x)'
  BY <1>7 DEF Deadlock, Abort, rowVars, turnVars, history, records, NoClaim
<1>8. ASSUME NEW s \in Sessions, CreateFails(s) PROVE MergeState(x)'
  BY <1>8 DEF CreateFails, Abort, rowVars, turnVars, history, records, NoClaim
<1>9. ASSUME NEW s \in Sessions, Admit(s) PROVE MergeState(x)'
  BY <1>9 DEF Admit, Lapse, openVars, rowVars, records, NoClaim
<1>10. ASSUME NEW s \in Sessions, Open(s) PROVE MergeState(x)'
  <2>1. PICK i \in Items \ asked : Write(s, carried[s] \cup {i}) /\ UNCHANGED lapses
    BY <1>10 DEF Open
  <2>2. i \notin claim[s].found
    BY <2>1 DEF AskedState
  <2> QED BY <2>1, <2>2 DEF Write, openVars
<1>11. ASSUME NEW s \in Sessions, Settle(s) PROVE MergeState(x)'
  BY <1>11 DEF Settle, Write, Free, Lapse, openVars, rowVars, NoClaim
<1>12. ASSUME NEW s \in Sessions, HandOff(s) PROVE MergeState(x)'
  BY <1>12 DEF HandOff, Write, Free, Lapse, openVars, rowVars, NoClaim
<1>13. ASSUME NEW s \in Sessions, Chat(s) PROVE MergeState(x)'
  BY <1>13 DEF Chat, Write, Free, openVars, rowVars, NoClaim
<1>14. ASSUME NEW s \in Sessions, ReadWork(s) PROVE MergeState(x)'
  BY <1>14 DEF ReadWork, openVars, rowVars, history, records, NoClaim
<1>15. ASSUME NEW s \in Sessions, StoreWork(s) PROVE MergeState(x)'
  BY <1>15 DEF StoreWork, Idle, Free, openVars, records, NoClaim
<1>16. ASSUME NEW s \in Sessions, RefreshFails(s) PROVE MergeState(x)'
  BY <1>16 DEF RefreshFails, Idle, Lapse, openVars, rowVars, records, NoClaim
<1>17. ASSUME Crash PROVE MergeState(x)'
  BY <1>17 DEF Crash, Abort, Lapse, rowVars, records, NoClaim
<1> QED
  BY <1>1, <1>2, <1>3, <1>4, <1>5, <1>6, <1>7, <1>8, <1>9,
     <1>10, <1>11, <1>12, <1>13, <1>14, <1>15, <1>16, <1>17 DEF Next, Creation, Turn


-----------------------------------------------------------------------------
(* Approvals are answered once.                                            *)

\* Who answers an approval has it alone, and no claim has read it by then: a
\* turn cannot write while a claim has its session locked.
LEMMA AnswerStep ==
  Structure /\ Disjoint /\ Answers /\ Next
     => \A s \in Sessions, i \in Approvals : <<s, i>> \in answered' => AnswerState(s, i)'
<1> SUFFICES ASSUME Structure, Disjoint, Answers, Next,
                    lapses' \cap {"stale", "behind", "unsaved"} = {},
                    NEW r \in Sessions, NEW p \in Approvals, <<r, p>> \in answered'
             PROVE  AnswerState(r, p)'
  BY DEF AnswerState
<1> USE DEF Structure, TypeOK, LockState, AskedState, UnderWay, Items
<1>1. ASSUME NEW s \in Sessions, Begin(s) PROVE AnswerState(r, p)'
  <2>1. AnswerState(r, p)
    BY <1>1 DEF Answers, Begin, rowVars, turnVars, history, records
  <2> QED BY <1>1, <2>1
     DEF AnswerState, Mine, Pending, NoClaim, Begin, rowVars, turnVars, history, records
<1>2. ASSUME NEW s \in Sessions, Supersede(s) PROVE AnswerState(r, p)'
  <2>1. AnswerState(r, p)
    BY <1>2 DEF Answers, Supersede, rowVars, turnVars, history, records
  <2> QED BY <1>2, <2>1
     DEF AnswerState, Mine, Pending, NoClaim, Supersede, rowVars, turnVars, history,
         records
<1>3. ASSUME NEW s \in Sessions, Select(s) PROVE AnswerState(r, p)'
  <2>1. AnswerState(r, p)
    BY <1>3 DEF Answers, Select, rowVars, turnVars, history, records
  <2> QED BY <1>3, <2>1
     DEF AnswerState, Mine, Pending, NoClaim, Select, rowVars, turnVars, history,
         records
<1>4. ASSUME NEW s \in Sessions, NEW o \in Sessions, LockRow(s, o)
     PROVE  AnswerState(r, p)'
  <2>1. AnswerState(r, p)
    BY <1>4 DEF Answers, LockRow, Lapse, rowVars, turnVars, records
  <2> QED BY <1>4, <2>1
     DEF AnswerState, Mine, Pending, NoClaim, LockRow, Lapse, rowVars, turnVars, records
<1>5. ASSUME NEW s \in Sessions, Commit(s) PROVE AnswerState(r, p)'
  <2>1. AnswerState(r, p)
    BY <1>5 DEF Answers, Commit, Lapse, Free, Emptied, turnVars
  <2> QED BY <1>5, <2>1
     DEF AnswerState, Mine, Pending, NoClaim, Commit, Lapse, Free, Emptied, turnVars
<1>6. ASSUME NEW s \in Sessions, Merge(s) PROVE AnswerState(r, p)'
  <2>1. AnswerState(r, p)
    BY <1>6 DEF Answers, Merge, rowVars, turnVars, history, records
  <2> QED BY <1>6, <2>1
     DEF AnswerState, Mine, Pending, NoClaim, Merge, rowVars, turnVars, history, records
<1>7. ASSUME NEW s \in Sessions, Deadlock(s) PROVE AnswerState(r, p)'
  <2>1. AnswerState(r, p)
    BY <1>7 DEF Answers, Deadlock, Abort, rowVars, turnVars, history, records
  <2> QED BY <1>7, <2>1
     DEF AnswerState, Mine, Pending, NoClaim, Deadlock, Abort, rowVars, turnVars,
         history, records
<1>8. ASSUME NEW s \in Sessions, CreateFails(s) PROVE AnswerState(r, p)'
  <2>1. AnswerState(r, p)
    BY <1>8 DEF Answers, CreateFails, Abort, rowVars, turnVars, history, records
  <2> QED BY <1>8, <2>1
     DEF AnswerState, Mine, Pending, NoClaim, CreateFails, Abort, rowVars, turnVars,
         history, records
<1>9. ASSUME NEW s \in Sessions, Admit(s) PROVE AnswerState(r, p)'
  <2>1. AnswerState(r, p)
    BY <1>9 DEF Answers, Admit, Lapse, openVars, rowVars, records
  <2> QED BY <1>9, <2>1
     DEF AnswerState, Mine, Pending, NoClaim, Admit, Lapse, openVars, rowVars, records
<1>10. ASSUME NEW s \in Sessions, Open(s) PROVE AnswerState(r, p)'
  <2>1. PICK i \in Items \ asked : Write(s, carried[s] \cup {i}) /\ UNCHANGED <<answered, lapses>>
    BY <1>10 DEF Open
  <2>2. AnswerState(r, p) /\ p # i
    BY <2>1 DEF Answers, AnswerState
  <2>3. UNCHANGED <<memory, copy, taken, claim, opening>> /\ asked \subseteq asked'
    BY <1>10, <2>1 DEF Open, Write, rowVars, openVars
  <2>4. \A x \in Sessions : p \in carried'[x] => p \in carried[x]
    BY <2>1, <2>2 DEF Write
  <2>5. \A x \in Sessions : turn[x] \in {"read", "store"} => turn'[x] \in {"read", "store"}
    BY <2>1 DEF Write
  <2> QED BY <2>1, <2>2, <2>3, <2>4, <2>5 DEF AnswerState, Mine, Pending
<1>11. ASSUME NEW s \in Sessions, Settle(s) PROVE AnswerState(r, p)'
  <2>1. PICK i \in carried[s] :
          /\ Write(s, carried[s] \ {i})
          /\ Lapse("stale", i \in taken[s])
          /\ answered' = IF i \in Approvals THEN answered \cup {<<s, i>>} ELSE answered
    BY <1>11 DEF Settle
  <2>2. i \notin taken[s] /\ lapses \cap {"stale", "behind", "unsaved"} = {}
    BY <2>1 DEF Lapse
  <2>3. UNCHANGED <<memory, copy, taken, claim, opening, asked>>
    BY <1>11, <2>1 DEF Settle, Write, rowVars, openVars
  <2>4. \A x \in Sessions : carried'[x] \subseteq carried[x]
    BY <2>1 DEF Write
  <2>5. turn'[s] = "read" /\ \A x \in Sessions \ {s} : turn'[x] = turn[x]
    BY <2>1 DEF Write
  <2>6. CASE <<r, p>> \in answered
    <3>1. AnswerState(r, p)
      BY <2>6 DEF Answers
    <3> QED BY <2>2, <2>3, <2>4, <2>5, <3>1 DEF AnswerState, Mine, Pending
  <2>7. CASE <<r, p>> \notin answered
    <3>1. r = s /\ p = i
      BY <2>1, <2>7
    <3>2. i \in Mine(s)
      BY <2>2 DEF Mine
    <3>3. \A x \in Sessions \ {s} : i \notin Mine(x) /\ i \notin memory[x]
      BY <2>2, <3>2 DEF Disjoint, Apart
    <3>4. i \notin Pending(s)
      BY <2>2 DEF Disjoint, MergeState
    <3>5. copy[s] = {} /\ i \notin carried'[s]
      BY <2>1 DEF Write
    <3>6. \A x \in Sessions : s \notin claim[x].held
      BY <2>1 DEF Write, Free
    <3>7. \A x \in Sessions : opening[x] = "lock" => i \notin claim[x].found
      <4> SUFFICES ASSUME NEW x \in Sessions, opening[x] = "lock", i \in claim[x].found
                   PROVE  FALSE
        OBVIOUS
      <4>1. PICK o \in claim[x].held : i \in memory[o]
        OBVIOUS
      <4>2. o \in Sessions /\ o # s
        BY <3>6
      <4> QED BY <3>3, <4>1, <4>2
    <3>8. \A x \in Sessions : i \notin Mine(x)'
      BY <2>3, <2>4, <3>3, <3>4, <3>5 DEF Mine, Pending
    <3>9. i \notin Pending(s)'
      BY <2>3, <3>4 DEF Pending
    <3> QED BY <2>3, <2>5, <3>1, <3>3, <3>5, <3>7, <3>8, <3>9 DEF AnswerState
  <2> QED BY <2>6, <2>7
<1>12. ASSUME NEW s \in Sessions, HandOff(s) PROVE AnswerState(r, p)'
  <2>1. AnswerState(r, p)
    BY <1>12 DEF Answers, HandOff, Write, Free, Lapse, openVars, rowVars
  <2> QED BY <1>12, <2>1
     DEF AnswerState, Mine, Pending, NoClaim, HandOff, Write, Free, Lapse, openVars,
         rowVars
<1>13. ASSUME NEW s \in Sessions, Chat(s) PROVE AnswerState(r, p)'
  <2>1. AnswerState(r, p)
    BY <1>13 DEF Answers, Chat, Write, Free, openVars, rowVars
  <2> QED BY <1>13, <2>1
     DEF AnswerState, Mine, Pending, NoClaim, Chat, Write, Free, openVars, rowVars
<1>14. ASSUME NEW s \in Sessions, ReadWork(s) PROVE AnswerState(r, p)'
  <2>1. AnswerState(r, p)
    BY <1>14 DEF Answers, ReadWork, openVars, rowVars, history, records
  <2> QED BY <1>14, <2>1
     DEF AnswerState, Mine, Pending, NoClaim, ReadWork, openVars, rowVars, history,
         records
<1>15. ASSUME NEW s \in Sessions, StoreWork(s) PROVE AnswerState(r, p)'
  <2>1. AnswerState(r, p) /\ lapses \cap {"stale", "behind", "unsaved"} = {}
    BY <1>15 DEF Answers, StoreWork, records
  <2>2. copy[s] \cap taken[s] = {}
    BY <1>15 DEF StoreWork
  <2>3. p \notin copy[s]
    BY <2>1, <2>2 DEF AnswerState, Mine
  <2>4. UNCHANGED <<carried, taken, claim, opening, asked>>
    BY <1>15 DEF StoreWork, records, openVars
  <2>5. memory' = [memory EXCEPT ![s] = copy[s]]
    BY <1>15 DEF StoreWork
  <2>6. copy' = [copy EXCEPT ![s] = {}] /\ turn' = [turn EXCEPT ![s] = "idle"]
    BY <1>15 DEF StoreWork, Idle
  <2> QED BY <2>1, <2>3, <2>4, <2>5, <2>6 DEF AnswerState, Mine, Pending
<1>16. ASSUME NEW s \in Sessions, RefreshFails(s) PROVE AnswerState(r, p)'
  <2>1. AnswerState(r, p)
    BY <1>16 DEF Answers, RefreshFails, Idle, Lapse, openVars, rowVars, records
  <2> QED BY <1>16, <2>1
     DEF AnswerState, Mine, Pending, NoClaim, RefreshFails, Idle, Lapse, openVars,
         rowVars, records
<1>17. ASSUME Crash PROVE AnswerState(r, p)'
  <2>1. AnswerState(r, p)
    BY <1>17 DEF Answers, Crash, Abort, Lapse, rowVars, records
  <2> QED BY <1>17, <2>1
     DEF AnswerState, Mine, Pending, NoClaim, Crash, Abort, Lapse, rowVars, records
<1> QED
  BY <1>1, <1>2, <1>3, <1>4, <1>5, <1>6, <1>7, <1>8, <1>9,
     <1>10, <1>11, <1>12, <1>13, <1>14, <1>15, <1>16, <1>17 DEF Next, Creation, Turn

\* A second session cannot answer, since the first answer left it nothing.
LEMMA OnceStep ==
  ASSUME Structure, Disjoint, Answers, Next,
         lapses' \cap {"stale", "behind", "unsaved"} = {},
         NEW r \in Sessions, NEW q \in Sessions, NEW p \in Approvals,
         <<r, p>> \in answered', <<q, p>> \in answered'
  PROVE  q = r
<1> USE DEF Structure, TypeOK, Answers
<1>1. ASSUME NEW s \in Sessions, Begin(s) PROVE q = r
  BY <1>1 DEF Begin, rowVars, turnVars, history, records
<1>2. ASSUME NEW s \in Sessions, Supersede(s) PROVE q = r
  BY <1>2 DEF Supersede, rowVars, turnVars, history, records
<1>3. ASSUME NEW s \in Sessions, Select(s) PROVE q = r
  BY <1>3 DEF Select, rowVars, turnVars, history, records
<1>4. ASSUME NEW s \in Sessions, NEW o \in Sessions, LockRow(s, o) PROVE q = r
  BY <1>4 DEF LockRow, Lapse, rowVars, turnVars, records
<1>5. ASSUME NEW s \in Sessions, Commit(s) PROVE q = r
  BY <1>5 DEF Commit, Lapse, Free, Emptied, turnVars
<1>6. ASSUME NEW s \in Sessions, Merge(s) PROVE q = r
  BY <1>6 DEF Merge, rowVars, turnVars, history, records
<1>7. ASSUME NEW s \in Sessions, Deadlock(s) PROVE q = r
  BY <1>7 DEF Deadlock, Abort, rowVars, turnVars, history, records
<1>8. ASSUME NEW s \in Sessions, CreateFails(s) PROVE q = r
  BY <1>8 DEF CreateFails, Abort, rowVars, turnVars, history, records
<1>9. ASSUME NEW s \in Sessions, Admit(s) PROVE q = r
  BY <1>9 DEF Admit, Lapse, openVars, rowVars, records
<1>10. ASSUME NEW s \in Sessions, Open(s) PROVE q = r
  BY <1>10 DEF Open, Write, Free, openVars, rowVars
<1>11. ASSUME NEW s \in Sessions, Settle(s) PROVE q = r
  <2>1. PICK i \in carried[s] :
          /\ Lapse("stale", i \in taken[s])
          /\ answered' = IF i \in Approvals THEN answered \cup {<<s, i>>} ELSE answered
    BY <1>11 DEF Settle
  <2>2. i \notin taken[s] /\ lapses \cap {"stale", "behind", "unsaved"} = {}
    BY <2>1 DEF Lapse
  <2>3. i \in Mine(s)
    BY <2>2 DEF Mine
  <2>4. \A x \in Sessions : <<x, i>> \in answered /\ i \in Approvals => FALSE
    BY <2>2, <2>3 DEF AnswerState
  <2> QED BY <2>1, <2>2, <2>4
<1>12. ASSUME NEW s \in Sessions, HandOff(s) PROVE q = r
  BY <1>12 DEF HandOff, Write, Free, Lapse, openVars, rowVars
<1>13. ASSUME NEW s \in Sessions, Chat(s) PROVE q = r
  BY <1>13 DEF Chat, Write, Free, openVars, rowVars
<1>14. ASSUME NEW s \in Sessions, ReadWork(s) PROVE q = r
  BY <1>14 DEF ReadWork, openVars, rowVars, history, records
<1>15. ASSUME NEW s \in Sessions, StoreWork(s) PROVE q = r
  BY <1>15 DEF StoreWork, Idle, Free, openVars, records
<1>16. ASSUME NEW s \in Sessions, RefreshFails(s) PROVE q = r
  BY <1>16 DEF RefreshFails, Idle, Lapse, openVars, rowVars, records
<1>17. ASSUME Crash PROVE q = r
  BY <1>17 DEF Crash, Abort, Lapse, rowVars, records
<1> QED
  BY <1>1, <1>2, <1>3, <1>4, <1>5, <1>6, <1>7, <1>8, <1>9,
     <1>10, <1>11, <1>12, <1>13, <1>14, <1>15, <1>16, <1>17 DEF Next, Creation, Turn


-----------------------------------------------------------------------------
(* Unsettled work is kept.                                                 *)

\* A refresh stores all of the metadata, a claim empties the row it takes from.
LEMMA RowStep ==
  Structure /\ Work /\ Next => \A x \in Sessions : RowState(x)'
<1> SUFFICES ASSUME Structure, \A s \in Sessions : RowState(s), Next, NEW x \in Sessions
             PROVE  RowState(x)'
  BY DEF Work
<1> USE DEF Structure, TypeOK, RowState, UnderWay
<1>1. ASSUME NEW s \in Sessions, Begin(s) PROVE RowState(x)'
  BY <1>1 DEF Begin, rowVars, turnVars, history, records, NoClaim
<1>2. ASSUME NEW s \in Sessions, Supersede(s) PROVE RowState(x)'
  BY <1>2 DEF Supersede, rowVars, turnVars, history, records, NoClaim
<1>3. ASSUME NEW s \in Sessions, Select(s) PROVE RowState(x)'
  BY <1>3 DEF Select, rowVars, turnVars, history, records, NoClaim
<1>4. ASSUME NEW s \in Sessions, NEW o \in Sessions, LockRow(s, o) PROVE RowState(x)'
  BY <1>4 DEF LockRow, Lapse, rowVars, turnVars, records, NoClaim
<1>5. ASSUME NEW s \in Sessions, Commit(s) PROVE RowState(x)'
  BY <1>5 DEF Commit, Lapse, Free, Emptied, turnVars, NoClaim
<1>6. ASSUME NEW s \in Sessions, Merge(s) PROVE RowState(x)'
  BY <1>6 DEF Merge, rowVars, turnVars, history, records, NoClaim
<1>7. ASSUME NEW s \in Sessions, Deadlock(s) PROVE RowState(x)'
  BY <1>7 DEF Deadlock, Abort, rowVars, turnVars, history, records, NoClaim
<1>8. ASSUME NEW s \in Sessions, CreateFails(s) PROVE RowState(x)'
  BY <1>8 DEF CreateFails, Abort, rowVars, turnVars, history, records, NoClaim
<1>9. ASSUME NEW s \in Sessions, Admit(s) PROVE RowState(x)'
  BY <1>9 DEF Admit, Lapse, openVars, rowVars, records, NoClaim
<1>10. ASSUME NEW s \in Sessions, Open(s) PROVE RowState(x)'
  <2>1. PICK i \in Items \ asked :
          /\ Write(s, carried[s] \cup {i})
          /\ owed' = owed \cup {i}
          /\ UNCHANGED <<active, lapses>>
    BY <1>10 DEF Open
  <2>2. UNCHANGED <<memory, opening, claim, copy>>
    BY <2>1 DEF Write, rowVars, openVars
  <2>3. i \notin memory[x]
    BY <2>1 DEF AskedState
  <2>4. carried[x] \subseteq carried'[x] /\ (turn'[x] = "store" => x # s /\ turn[x] = "store")
    BY <2>1 DEF Write
  <2>5. x # s => turn'[x] = turn[x] /\ carried'[x] = carried[x]
    BY <2>1 DEF Write
  <2>6. turn[s] = "work"
    BY <2>1 DEF Write
  <2> QED BY <2>1, <2>2, <2>3, <2>4, <2>5, <2>6
<1>11. ASSUME NEW s \in Sessions, Settle(s) PROVE RowState(x)'
  BY <1>11 DEF Settle, Write, Free, Lapse, openVars, rowVars, NoClaim
<1>12. ASSUME NEW s \in Sessions, HandOff(s) PROVE RowState(x)'
  BY <1>12 DEF HandOff, Write, Free, Lapse, openVars, rowVars, NoClaim
<1>13. ASSUME NEW s \in Sessions, Chat(s) PROVE RowState(x)'
  BY <1>13 DEF Chat, Write, Free, openVars, rowVars, NoClaim
<1>14. ASSUME NEW s \in Sessions, ReadWork(s) PROVE RowState(x)'
  BY <1>14 DEF ReadWork, openVars, rowVars, history, records, NoClaim
<1>15. ASSUME NEW s \in Sessions, StoreWork(s) PROVE RowState(x)'
  BY <1>15 DEF StoreWork, Idle, Free, openVars, records, NoClaim
<1>16. ASSUME NEW s \in Sessions, RefreshFails(s) PROVE RowState(x)'
  BY <1>16 DEF RefreshFails, Idle, Lapse, openVars, rowVars, records, NoClaim
<1>17. ASSUME Crash PROVE RowState(x)'
  BY <1>17 DEF Crash, Abort, Lapse, rowVars, records, NoClaim
<1> QED
  BY <1>1, <1>2, <1>3, <1>4, <1>5, <1>6, <1>7, <1>8, <1>9,
     <1>10, <1>11, <1>12, <1>13, <1>14, <1>15, <1>16, <1>17 DEF Next, Creation, Turn

\* Only Commit and StoreWork take work out of a row: the first keeps what it has
\* read, the second what the metadata had.
LEMMA WorkStep ==
  Structure /\ Work /\ Next => Work'
<1> SUFFICES ASSUME Structure, Work, Next,
                    lapses' \cap {"unread", "early", "torn", "unsaved"} = {}, NEW w \in owed'
             PROVE  Kept(w)'
  BY RowStep DEF Work
<1> USE DEF Structure, TypeOK
<1>1. ASSUME NEW s \in Sessions, Begin(s) PROVE Kept(w)'
  <2>1. Kept(w)
    BY <1>1 DEF Work, Begin, rowVars, turnVars, history, records
  <2> QED BY <1>1, <2>1 DEF Kept, Begin, rowVars, turnVars, history, records
<1>2. ASSUME NEW s \in Sessions, Supersede(s) PROVE Kept(w)'
  <2>1. Kept(w)
    BY <1>2 DEF Work, Supersede, rowVars, turnVars, history, records
  <2> QED BY <1>2, <2>1 DEF Kept, Supersede, rowVars, turnVars, history, records
<1>3. ASSUME NEW s \in Sessions, Select(s) PROVE Kept(w)'
  <2>1. Kept(w)
    BY <1>3 DEF Work, Select, rowVars, turnVars, history, records
  <2> QED BY <1>3, <2>1 DEF Kept, Select, rowVars, turnVars, history, records
<1>4. ASSUME NEW s \in Sessions, NEW o \in Sessions, LockRow(s, o) PROVE Kept(w)'
  <2>1. Kept(w)
    BY <1>4 DEF Work, LockRow, Lapse, rowVars, turnVars, records
  <2> QED BY <1>4, <2>1 DEF Kept, LockRow, Lapse, rowVars, turnVars, records
<1>5. ASSUME NEW s \in Sessions, Commit(s) PROVE Kept(w)'
  <2>1. Kept(w) /\ lapses \cap {"unread", "early", "torn", "unsaved"} = {}
    BY <1>5 DEF Work, Commit, Lapse
  <2>2. memory[s] = {}
    BY <1>5, <2>1 DEF Work, RowState, UnderWay, Commit
  <2>3. Emptied(s) \subseteq claim[s].held
    BY <1>5 DEF Commit, Lapse
  <2>4. PICK x \in Sessions : w \in memory[x] \/ (w \in carried[x] /\ turn[x] \in {"read", "store"})
    BY <2>1 DEF Kept
  <2>5. CASE w \in memory[x]
    <3>1. x \in claim[s].held
      BY <2>2, <2>3, <2>5 DEF Emptied
    <3>2. w \in memory'[s]
      BY <1>5, <2>5, <3>1 DEF Commit, LockState
    <3> QED BY <1>5, <3>2 DEF Kept
  <2>6. CASE w \in carried[x] /\ turn[x] \in {"read", "store"}
    BY <1>5, <2>6 DEF Commit, Kept, turnVars
  <2> QED BY <2>4, <2>5, <2>6
<1>6. ASSUME NEW s \in Sessions, Merge(s) PROVE Kept(w)'
  <2>1. Kept(w)
    BY <1>6 DEF Work, Merge, history, records
  <2>2. PICK x \in Sessions : w \in memory[x] \/ (w \in carried[x] /\ turn[x] \in {"read", "store"})
    BY <2>1 DEF Kept
  <2>3. UNCHANGED <<memory, turn>>
    BY <1>6 DEF Merge, rowVars, turnVars
  <2>4. CASE w \in memory[x]
    BY <2>3, <2>4 DEF Kept
  <2>5. CASE w \in carried[x] /\ turn[x] \in {"read", "store"}
    <3>1. x # s
      BY <1>6, <2>5 DEF Work, RowState, UnderWay, Merge, history
    <3>2. w \in carried'[x]
      BY <1>6, <2>5, <3>1 DEF Merge
    <3> QED BY <2>3, <2>5, <3>2 DEF Kept
  <2> QED BY <2>2, <2>4, <2>5
<1>7. ASSUME NEW s \in Sessions, Deadlock(s) PROVE Kept(w)'
  <2>1. Kept(w)
    BY <1>7 DEF Work, Deadlock, Abort, rowVars, turnVars, history, records
  <2> QED BY <1>7, <2>1 DEF Kept, Deadlock, Abort, rowVars, turnVars, history, records
<1>8. ASSUME NEW s \in Sessions, CreateFails(s) PROVE Kept(w)'
  <2>1. Kept(w)
    BY <1>8 DEF Work, CreateFails, Abort, rowVars, turnVars, history, records
  <2> QED BY <1>8, <2>1
     DEF Kept, CreateFails, Abort, rowVars, turnVars, history, records
<1>9. ASSUME NEW s \in Sessions, Admit(s) PROVE Kept(w)'
  <2>1. Kept(w)
    BY <1>9 DEF Work, Admit, Lapse, openVars, rowVars, records
  <2> QED BY <1>9, <2>1 DEF Kept, Admit, Lapse, openVars, rowVars, records
<1>10. ASSUME NEW s \in Sessions, Open(s) PROVE Kept(w)'
  <2>1. PICK i \in Items \ asked :
          Write(s, carried[s] \cup {i}) /\ owed' = owed \cup {i} /\ UNCHANGED lapses
    BY <1>10 DEF Open
  <2>2. CASE w = i
    BY <2>1, <2>2 DEF Kept, Write
  <2>3. CASE w # i
    <3>1. Kept(w)
      BY <2>1, <2>3 DEF Work
    <3> QED BY <2>1, <3>1 DEF Kept, Write, rowVars
  <2> QED BY <2>2, <2>3
<1>11. ASSUME NEW s \in Sessions, Settle(s) PROVE Kept(w)'
  <2>1. Kept(w)
    BY <1>11 DEF Work, Settle, Write, Free, Lapse, openVars, rowVars
  <2> QED BY <1>11, <2>1 DEF Kept, Settle, Write, Free, Lapse, openVars, rowVars
<1>12. ASSUME NEW s \in Sessions, HandOff(s) PROVE Kept(w)'
  <2>1. Kept(w)
    BY <1>12 DEF Work, HandOff, Write, Free, Lapse, openVars, rowVars
  <2> QED BY <1>12, <2>1 DEF Kept, HandOff, Write, Free, Lapse, openVars, rowVars
<1>13. ASSUME NEW s \in Sessions, Chat(s) PROVE Kept(w)'
  <2>1. Kept(w)
    BY <1>13 DEF Work, Chat, Write, Free, openVars, rowVars
  <2> QED BY <1>13, <2>1 DEF Kept, Chat, Write, Free, openVars, rowVars
<1>14. ASSUME NEW s \in Sessions, ReadWork(s) PROVE Kept(w)'
  <2>1. Kept(w)
    BY <1>14 DEF Work, ReadWork, openVars, rowVars, history, records
  <2> QED BY <1>14, <2>1 DEF Kept, ReadWork, openVars, rowVars, history, records
<1>15. ASSUME NEW s \in Sessions, StoreWork(s) PROVE Kept(w)'
  <2>1. Kept(w) /\ lapses \cap {"unread", "early", "torn", "unsaved"} = {}
    BY <1>15 DEF Work, StoreWork, records
  <2>2. copy[s] = carried[s]
    BY <1>15, <2>1 DEF Work, RowState, StoreWork
  <2>3. memory[s] \cap owed \subseteq carried[s]
    <3>1. opening[s] \in {"open", "unclaimed"}
      BY <1>15, <2>1 DEF Work, RowState, StoreWork, UnderWay, Ended
    <3> QED BY <2>1, <3>1 DEF Work, RowState
  <2>4. PICK x \in Sessions : w \in memory[x] \/ (w \in carried[x] /\ turn[x] \in {"read", "store"})
    BY <2>1 DEF Kept
  <2>5. w \in owed
    BY <1>15 DEF StoreWork, records
  <2>6. CASE x = s
    <3>1. w \in memory'[s]
      BY <1>15, <2>2, <2>3, <2>4, <2>5, <2>6 DEF StoreWork
    <3> QED BY <1>15, <3>1 DEF Kept
  <2>7. CASE x # s
    BY <1>15, <2>4, <2>7 DEF StoreWork, Idle, Kept
  <2> QED BY <2>6, <2>7
<1>16. ASSUME NEW s \in Sessions, RefreshFails(s) PROVE Kept(w)'
  <2>1. Kept(w)
    BY <1>16 DEF Work, RefreshFails, Idle, Lapse, openVars, rowVars, records
  <2> QED BY <1>16, <2>1 DEF Kept, RefreshFails, Idle, Lapse, openVars, rowVars, records
<1>17. ASSUME Crash PROVE Kept(w)'
  <2>1. Kept(w)
    BY <1>17 DEF Work, Crash, Abort, Lapse, rowVars, records
  <2> QED BY <1>17, <2>1 DEF Kept, Crash, Abort, Lapse, rowVars, records
<1> QED
  BY <1>1, <1>2, <1>3, <1>4, <1>5, <1>6, <1>7, <1>8, <1>9,
     <1>10, <1>11, <1>12, <1>13, <1>14, <1>15, <1>16, <1>17 DEF Next, Creation, Turn


-----------------------------------------------------------------------------
(* The invariant and the properties.                                       *)

LEMMA InitState == Init => MemoryInv
<1> SUFFICES ASSUME Init PROVE MemoryInv
  OBVIOUS
<1> USE MemoryAssumption DEF Init
<1>1. TypeOK
  BY DEF TypeOK, Items, NoClaim, UnderWay, Ended
<1>2. \A s \in Sessions : LockState(s) /\ AskedState(s)
  BY DEF LockState, AskedState, NoClaim
<1>3. Disjoint
  BY DEF Disjoint, Apart, MergeState, Mine, Pending
<1>4. Answers
  BY DEF Answers
<1>5. Work
  <2>1. ASSUME NEW s \in Sessions PROVE RowState(s)
    BY DEF RowState, UnderWay
  <2>2. ASSUME NEW i \in owed PROVE Kept(i)
    <3>1. memory[First] = Inherited
      OBVIOUS
    <3> QED BY <3>1 DEF Kept
  <2> QED BY <2>1, <2>2 DEF Work
<1> QED BY <1>1, <1>2, <1>3, <1>4, <1>5 DEF MemoryInv, Structure

THEOREM MemoryInvariant == Spec => []MemoryInv
<1>1. MemoryInv /\ Next => MemoryInv'
  <2> SUFFICES ASSUME MemoryInv, Next PROVE MemoryInv'
    OBVIOUS
  <2>1. Structure'
    BY TypeStep, LockStep, AskedStep DEF MemoryInv, Structure
  <2>2. Disjoint'
    BY ApartStep, MergeStep DEF MemoryInv, Disjoint
  <2>3. Answers'
    BY AnswerStep, OnceStep DEF MemoryInv, Answers
  <2>4. Work'
    BY WorkStep DEF MemoryInv
  <2> QED BY <2>1, <2>2, <2>3, <2>4 DEF MemoryInv
<1>2. MemoryInv /\ UNCHANGED vars => MemoryInv'
  BY DEF MemoryInv, Structure, TypeOK, LockState, AskedState, Disjoint,
         Apart, MergeState, Mine, Pending, Answers, AnswerState, Work, RowState,
         Kept, vars, openVars, rowVars, turnVars, history, records
<1> QED BY InitState, <1>1, <1>2, PTL DEF Spec

\* Types, and that only an open transaction holds locks.
THEOREM TypeCorrect == Spec => []TypeOK
<1>1. MemoryInv => TypeOK
  BY DEF MemoryInv, Structure
<1> QED BY <1>1, MemoryInvariant, PTL

\* However claims, turns, failures and crashes interleave, unsettled work is in
\* a row or about to be stored, but for the four lapses it names.
THEOREM WorkIsKept == Spec => []WorkSurvives
<1>1. MemoryInv => WorkSurvives
  <2> SUFFICES ASSUME MemoryInv, lapses \cap {"unread", "early", "torn", "unsaved"} = {},
                      NEW i \in owed
               PROVE  i \in Stored \cup Unsaved
    BY DEF WorkSurvives
  <2>1. PICK s \in Sessions :
          i \in memory[s] \/ (i \in carried[s] /\ turn[s] \in {"read", "store"})
    BY DEF MemoryInv, Work, Kept
  <2> QED BY <2>1 DEF Stored, Unsaved
<1> QED BY <1>1, MemoryInvariant, PTL

\* No two memory rows share work unless a session went on with what was taken.
THEOREM WorkIsMoved == Spec => []HeldOnce
<1>1. MemoryInv => HeldOnce
  BY DEF MemoryInv, Disjoint, Apart, HeldOnce
<1> QED BY <1>1, MemoryInvariant, PTL

\* No approval is answered in two sessions, but for the three lapses it names.
THEOREM AnswersAreUnique == Spec => []AnsweredOnce
<1>1. MemoryInv => AnsweredOnce
  <2> SUFFICES ASSUME MemoryInv, lapses \cap {"stale", "behind", "unsaved"} = {},
                      NEW x \in answered, NEW y \in answered, x[2] = y[2]
               PROVE  x = y
    BY DEF AnsweredOnce
  <2>1. answered \subseteq Sessions \X Approvals
    BY DEF MemoryInv, Structure, TypeOK
  <2>2. PICK s \in Sessions, o \in Sessions, i \in Approvals : x = <<s, i>> /\ y = <<o, i>>
    BY <2>1
  <2> QED BY <2>2 DEF MemoryInv, Answers
<1> QED BY <1>1, MemoryInvariant, PTL
=============================================================================
