--------------------------- MODULE CustomerMemory ---------------------------
(***************************************************************************)
(* The open work of one customer account and the sessions that carry it.  *)
(* A new session claims the work of the older ones: in one READ COMMITTED *)
(* transaction it reads and locks their memory rows, empties them and     *)
(* writes its own; afterwards it merges what it read into its metadata.   *)
(* After every turn a session copies the work in its metadata to its row. *)
(* Neither side knows of the other: the claim leaves the metadata of the  *)
(* old session alone, and the refresh does not ask whether its row has    *)
(* been claimed.                                                          *)
(*                                                                        *)
(* Work is a set of items, since who holds an item is all that is told    *)
(* apart here; its order is the matter of module Approvals, and rows are  *)
(* locked in any order.  One source; every session is identified for the  *)
(* account; a session has one turn at a time.  Open tickets are listed    *)
(* anew from their own table by every refresh and are left out.           *)
(***************************************************************************)
EXTENDS Naturals, FiniteSets

CONSTANTS
    Sessions,   \* session ids the database may hand out
    First,      \* the session that exists at the start
    Inherited,  \* the work it has by then
    Superseding,  \* the sessions whose creator asks to supersede (as the console does)
    Approvals,  \* write actions a turn may queue for the customer's yes
    Topics,     \* topics a customer may turn to
    MaxTurns,   \* bound on the turns
    MaxFaults   \* bound on database errors and crashes

ASSUME MemoryAssumption ==
    /\ First \in Sessions
    /\ Superseding \subseteq Sessions
    /\ Inherited \subseteq Approvals \cup Topics
    /\ Approvals \cap Topics = {}
    /\ MaxTurns \in Nat
    /\ MaxFaults \in Nat

VARIABLES
    active,   \* the sessions whose status is active
    opening,  \* where create_session is with each session
    carried,  \* the work in a session's metadata
    rows,     \* the sessions that have a memory row
    memory,   \* the work in that row (unresolved_tasks)
    claim,    \* the claim transaction: rows to lock, rows locked, work read
    turn,     \* where the turn of a session is
    copy,     \* the work its refresh has read
    taken,    \* history: what claims have taken from a session's row
    asked,    \* history: the approvals that were ever queued
    owed,     \* history: the work no customer has settled
    answered,    \* history: who answered which approval
    lapses,   \* history: what went wrong, by name
    turns, faults

records   == <<taken, asked, owed, answered>>
history   == <<records, lapses>>
openVars  == <<opening, claim>>
turnVars  == <<turn, copy, turns>>
rowVars   == <<rows, memory>>
vars      == <<active, openVars, carried, rowVars, turnVars, history, faults>>

Items == Approvals \cup Topics

NoClaim == [todo |-> {}, held |-> {}, found |-> {}]

UnderWay == {"supersede", "select", "lock", "merge"}
Ended    == {"open", "unclaimed", "torn"}

\* The first session has had its turns and has stored its work.
Init ==
    /\ active = {First}
    /\ opening = [s \in Sessions |-> IF s = First THEN "open" ELSE "none"]
    /\ carried = [s \in Sessions |-> IF s = First THEN Inherited ELSE {}]
    /\ rows = {First}
    /\ memory = carried
    /\ claim = [s \in Sessions |-> NoClaim]
    /\ turn = [s \in Sessions |-> "idle"]
    /\ copy = [s \in Sessions |-> {}]
    /\ taken = [s \in Sessions |-> {}]
    /\ asked = Inherited
    /\ owed = Inherited
    /\ answered = {}
    /\ lapses = {}
    /\ turns = 0
    /\ faults = 0

\* No other transaction has locked one of these rows.
FreeNever(ss, s) == TRUE                                               \* mutant
Free(ss, s) == \A o \in Sessions \ {s} : claim[o].held \cap ss = {}

Lapse(name, happened) == lapses' = lapses \cup (IF happened THEN {name} ELSE {})

-----------------------------------------------------------------------------
(* create_session for an identified customer. *)

\* The row is inserted and attached to the account: from here on the other
\* sessions of the account, and the session list, see it.
Begin(s) ==
    /\ opening[s] = "none"
    /\ active' = active \cup {s}
    /\ opening' = [opening EXCEPT ![s] =
                     IF s \in Superseding THEN "supersede" ELSE "select"]
    /\ UNCHANGED <<claim, carried, rowVars, turnVars, history, faults>>

\* One UPDATE closes the others; it waits for sessions a claim has locked.
Supersede(s) ==
    /\ opening[s] = "supersede"
    /\ Free(active, s)
    /\ active' = active \cap {s}
    /\ opening' = [opening EXCEPT ![s] = "select"]
    /\ UNCHANGED <<claim, carried, rowVars, turnVars, history, faults>>

\* SELECT ... FOR UPDATE: the snapshot decides which rows it will lock,
Select(s) ==
    /\ opening[s] = "select"
    /\ claim' = [claim EXCEPT ![s].todo = rows \ {s}]
    /\ opening' = [opening EXCEPT ![s] = "lock"]
    /\ UNCHANGED <<active, carried, rowVars, turnVars, history, faults>>

\* A turn has settled work that its row still lists.
RowIsBehind(o) == turn[o] \in {"read", "store"} /\ ~(memory[o] \subseteq carried[o])

\* mutant: tasks are taken from the latest row only, as summaries are
LockRowLatestOnly(s, o) ==
    /\ opening[s] = "lock"
    /\ o \in claim[s].todo
    /\ Free({o}, s)
    /\ claim' = [claim EXCEPT ![s].todo = @ \ {o}, ![s].held = @ \cup {o},
                              ![s].found = IF claim[s].held = {} THEN memory[o] ELSE @]
    /\ Lapse("behind", RowIsBehind(o))
    /\ UNCHANGED <<active, opening, carried, rowVars, turnVars, records, faults>>

\* and after the wait for a lock the latest version of the row is read.  The
\* locks also cover the session rows of the join.
LockRow(s, o) ==
    /\ opening[s] = "lock"
    /\ o \in claim[s].todo
    /\ Free({o}, s)
    /\ claim' = [claim EXCEPT ![s].todo = @ \ {o}, ![s].held = @ \cup {o},
                              ![s].found = @ \cup memory[o]]
    /\ Lapse("behind", RowIsBehind(o))
    /\ UNCHANGED <<active, opening, carried, rowVars, turnVars, records, faults>>

\* The rows the UPDATE empties: those of a new snapshot, read or not.
Emptied(s) == {o \in Sessions \ {s} : memory[o] # {}}

\* UPDATE, INSERT and COMMIT.
CommitKeepsOld(s) ==                                                   \* mutant
    /\ opening[s] = "lock"
    /\ claim[s].todo = {}
    /\ memory' = [memory EXCEPT ![s] = claim[s].found]
    /\ rows' = rows \cup {s}
    /\ claim' = [claim EXCEPT ![s].held = {}]
    /\ opening' = [opening EXCEPT ![s] = "merge"]
    /\ UNCHANGED <<active, carried, turnVars, history, faults>>

Commit(s) ==
    /\ opening[s] = "lock"
    /\ claim[s].todo = {}
    /\ Free(Emptied(s) \cup {s}, s)
    /\ memory' = [o \in Sessions |-> IF o = s THEN claim[s].found
                                     ELSE IF o \in Emptied(s) THEN {} ELSE memory[o]]
    /\ rows' = rows \cup {s}
    /\ taken' = [o \in Sessions |-> IF o = s THEN taken[o] ELSE taken[o] \cup memory[o]]
    /\ Lapse("unread", ~(Emptied(s) \subseteq claim[s].held))
    /\ claim' = [claim EXCEPT ![s].held = {}]
    /\ opening' = [opening EXCEPT ![s] = "merge"]
    /\ UNCHANGED <<active, carried, turnVars, asked, owed, answered, faults>>

\* The claimed work replaces what the metadata has of the same kind.
Kind(i) == IF i \in Approvals THEN Approvals ELSE Topics

Merge(s) ==
    /\ opening[s] = "merge"
    /\ Free({s}, s)
    /\ carried' = [carried EXCEPT ![s] =
                     {i \in @ : Kind(i) \cap claim[s].found = {}} \cup claim[s].found]
    /\ claim' = [claim EXCEPT ![s] = NoClaim]
    /\ opening' = [opening EXCEPT ![s] = "open"]
    /\ UNCHANGED <<active, rowVars, turnVars, history, faults>>

\* create_session ends early; an open transaction is rolled back.
AbortKeepsLocks(ss) ==                                                 \* mutant
    /\ opening' = [s \in Sessions |->
                     IF s \notin ss \/ opening[s] \notin UnderWay THEN opening[s]
                     ELSE IF opening[s] = "merge" THEN "torn" ELSE "unclaimed"]
    /\ UNCHANGED claim

Abort(ss) ==
    /\ opening' = [s \in Sessions |->
                     IF s \notin ss \/ opening[s] \notin UnderWay THEN opening[s]
                     ELSE IF opening[s] = "merge" THEN "torn" ELSE "unclaimed"]
    /\ claim' = [s \in Sessions |-> IF s \in ss THEN NoClaim ELSE claim[s]]

CreateFails(s) ==
    /\ opening[s] \in UnderWay
    /\ faults < MaxFaults
    /\ faults' = faults + 1
    /\ Abort({s})
    /\ UNCHANGED <<active, carried, rowVars, turnVars, history>>

\* The rows s has yet to lock, all of them locked by others.
Wanted(s)  == IF claim[s].todo = {} THEN Emptied(s) \cup {s} ELSE claim[s].todo
Blocked(s) == /\ opening[s] = "lock"
              /\ IF claim[s].todo = {} THEN ~Free(Wanted(s), s)
                 ELSE \A o \in Wanted(s) : ~Free({o}, s)

WaitsFor(s, o) == s # o /\ Blocked(s) /\ claim[o].held \cap Wanted(s) # {}

\* Each of them waits for another of them, and no fewer do.
Stuck(ss) == ss # {} /\ \A s \in ss : \E o \in ss : WaitsFor(s, o)
Cycle(ss) == Stuck(ss) /\ \A part \in SUBSET ss \ {ss} : ~Stuck(part)

\* Postgres aborts one of the transactions that wait for each other.
Deadlock(s) ==
    /\ Blocked(s)
    /\ \E ss \in SUBSET Sessions : s \in ss /\ Cycle(ss)
    /\ Abort({s})
    /\ UNCHANGED <<active, carried, rowVars, turnVars, history, faults>>

-----------------------------------------------------------------------------
(* A turn: what it does to the work in the metadata, then the refresh.     *)

\* The message is admitted; the session may still be under construction.  A
\* session that is closed or expires is one that gets no more turns.
Admit(s) ==
    /\ s \in active
    /\ turn[s] = "idle"
    /\ turns < MaxTurns
    /\ turns' = turns + 1
    /\ turn' = [turn EXCEPT ![s] = "work"]
    /\ Lapse("early", opening[s] \in UnderWay)
    /\ UNCHANGED <<active, openVars, carried, rowVars, copy, records, faults>>

\* A turn writes the metadata of its session, and settles or opens work.
Write(s, work) ==
    /\ turn[s] = "work"
    /\ Free({s}, s)
    /\ turn' = [turn EXCEPT ![s] = "read"]
    /\ carried' = [carried EXCEPT ![s] = work]
    /\ UNCHANGED <<openVars, rowVars, copy, turns, taken, faults>>

\* It queues an approval or turns to a topic.
Open(s) ==
    \E i \in Items \ asked :
        /\ Write(s, carried[s] \cup {i})
        /\ asked' = asked \cup {i}
        /\ owed' = owed \cup {i}
        /\ UNCHANGED <<active, answered, lapses>>

\* An approval is carried out, an approval is rejected or a topic is done.
Settle(s) ==
    \E i \in carried[s] :
        /\ Write(s, carried[s] \ {i})
        /\ owed' = owed \ {i}
        /\ Lapse("stale", i \in taken[s])
        /\ answered' = IF i \in Approvals THEN answered \cup {<<s, i>>} ELSE answered
        /\ UNCHANGED <<active, asked>>

\* A handoff ends the session and drops its approvals, not its topics.
HandOff(s) ==
    /\ Write(s, carried[s] \ Approvals)
    /\ owed' = owed \ (carried[s] \cap Approvals)
    /\ Lapse("stale", carried[s] \cap Approvals \cap taken[s] # {})
    /\ active' = active \ {s}
    /\ UNCHANGED <<asked, answered>>

Chat(s) ==
    /\ Write(s, carried[s])
    /\ UNCHANGED <<active, asked, owed, answered, lapses>>

ReadWork(s) ==
    /\ turn[s] = "read"
    /\ turn' = [turn EXCEPT ![s] = "store"]
    /\ copy' = [copy EXCEPT ![s] = carried[s]]
    /\ UNCHANGED <<active, openVars, carried, rowVars, turns, history, faults>>

Idle(s) ==
    /\ turn' = [turn EXCEPT ![s] = "idle"]
    /\ copy' = [copy EXCEPT ![s] = {}]
    /\ UNCHANGED turns

\* The upsert waits for a claim that has locked the row, and then overwrites
\* whatever the claim made of it.
StoreWork(s) ==
    /\ turn[s] = "store"
    /\ Free({s}, s)
    /\ memory' = [memory EXCEPT ![s] = copy[s]]
    /\ rows' = rows \cup {s}
    /\ lapses' = lapses \cup (IF copy[s] \cap taken[s] # {} THEN {"stale"} ELSE {})
                        \cup (IF opening[s] = "torn" THEN {"torn"} ELSE {})
    /\ Idle(s)
    /\ UNCHANGED <<active, openVars, carried, records, faults>>

\* The refresh is best effort: its error is logged, the reply is kept.
RefreshFails(s) ==
    /\ turn[s] \in {"read", "store"}
    /\ faults < MaxFaults
    /\ faults' = faults + 1
    /\ Lapse("unsaved", TRUE)
    /\ Idle(s)
    /\ UNCHANGED <<active, openVars, carried, rowVars, records>>

-----------------------------------------------------------------------------
\* The API process dies: creations and turns are gone where they stand.
Crash ==
    /\ faults < MaxFaults
    /\ faults' = faults + 1
    /\ Abort(Sessions)
    /\ turn' = [s \in Sessions |-> "idle"]
    /\ copy' = [s \in Sessions |-> {}]
    /\ Lapse("unsaved", \E s \in Sessions : turn[s] \in {"read", "store"})
    /\ UNCHANGED <<active, carried, rowVars, turns, records>>

Creation(s) ==
    \/ Supersede(s) \/ Select(s) \/ Commit(s) \/ Merge(s) \/ Deadlock(s)
    \/ \E o \in Sessions : LockRow(s, o)

Turn(s) == Open(s) \/ Settle(s) \/ HandOff(s) \/ Chat(s) \/ ReadWork(s) \/ StoreWork(s)

Next ==
    \/ \E s \in Sessions : \/ Begin(s) \/ Creation(s) \/ CreateFails(s)
                           \/ Admit(s) \/ Turn(s) \/ RefreshFails(s)
    \/ Crash

Spec == Init /\ [][Next]_vars

\* The event loop goes on with whatever creation can go on, and Postgres finds
\* deadlocks.
FairSpec == Spec /\ WF_vars(\E s \in Sessions : Creation(s))

-----------------------------------------------------------------------------
\* Types, and that only an open transaction holds locks.
TypeOK ==
    /\ active \subseteq Sessions
    /\ opening \in [Sessions -> {"none"} \cup UnderWay \cup Ended]
    /\ carried \in [Sessions -> SUBSET Items]
    /\ rows \subseteq Sessions
    /\ memory \in [Sessions -> SUBSET Items]
    /\ claim \in [Sessions -> [todo : SUBSET Sessions, held : SUBSET Sessions,
                               found : SUBSET Items]]
    /\ \A s \in Sessions : claim[s].held # {} => opening[s] = "lock"
    /\ turn \in [Sessions -> {"idle", "work", "read", "store"}]
    /\ copy \in [Sessions -> SUBSET Items]
    /\ taken \in [Sessions -> SUBSET Items]
    /\ asked \subseteq Items /\ owed \subseteq Items
    /\ answered \subseteq Sessions \X Approvals
    /\ lapses \subseteq {"unread", "early", "torn", "stale", "behind", "unsaved"}
    /\ turns \in 0..MaxTurns
    /\ faults \in 0..MaxFaults

Stored == UNION {memory[s] : s \in Sessions}
Unsaved == UNION {carried[s] : s \in {t \in Sessions : turn[t] \in {"read", "store"}}}

\* Unsettled work is in a memory row, where the next session will find it, or
\* a refresh is about to put it there - whatever creations, turns, rollbacks
\* and crashes overlap.  The code has four ways to lose it, all named: a claim
\* emptied a row it had not locked, a turn ran in a session still being
\* created, a refresh was lost, or a session whose creation ended between the
\* commit and the merge was talked to (it refreshes from metadata that lacks
\* what its row has).
WorkSurvives ==
    lapses \cap {"unread", "early", "torn", "unsaved"} = {} => owed \subseteq Stored \cup Unsaved

\* An item is in at most one memory row: a claim moves work, it does not copy
\* it.  That fails only if a session goes on with work a claim has taken from
\* it, since the claim leaves its metadata alone.
HeldOnce ==
    "stale" \notin lapses =>
        \A s, o \in Sessions : s # o => memory[s] \cap memory[o] = {}

\* No approval is answered (carried out or rejected) in two sessions - unless a
\* session went on with work a claim had taken from it, or a claim found a row
\* that did not yet, or will never, show what its session's last turn settled.
AnsweredOnce ==
    lapses \cap {"stale", "behind", "unsaved"} = {} =>
        \A x, y \in answered : x[2] = y[2] => x = y

\* Every creation ends: no two of them wait for each other's row locks for
\* ever, however turns come in between, and none waits for one that is gone.
Creating == \E s \in Sessions : opening[s] \in UnderWay
CreationEnds == Creating ~> ~Creating
=============================================================================
