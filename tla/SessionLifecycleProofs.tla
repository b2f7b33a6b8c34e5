----------------------- MODULE SessionLifecycleProofs -----------------------
(* Proofs of the safety properties of SessionLifecycle, for any sets of    *)
(* sessions, customers, requests and sweepers and any TTLs and bounds.     *)
EXTENDS SessionLifecycle, TLAPS

USE LifecycleAssumption

\* SetStatus changes the status of the named rows and nothing else.
LEMMA SetStatusEffect ==
    ASSUME TypeOK, NEW ss \in SUBSET Sessions, NEW st \in Statuses, SetStatus(ss, st)
    PROVE  /\ rows' \in [Sessions -> Row]
           /\ \A s \in Sessions :
                 /\ rows'[s].status = IF s \in ss THEN st ELSE rows[s].status
                 /\ rows'[s].owner = rows[s].owner
                 /\ rows'[s].created = rows[s].created
                 /\ rows'[s].last = rows[s].last
                 /\ rows'[s].expires = rows[s].expires
<1>1. rows \in [Sessions -> Row]
  BY DEF TypeOK
<1>2. \A s \in Sessions :
         rows'[s] = IF s \in ss THEN [rows[s] EXCEPT !.status = st] ELSE rows[s]
  BY DEF SetStatus
<1>3. \A s \in Sessions : rows'[s] \in Row
  BY <1>1, <1>2 DEF Row
<1>4. rows' \in [Sessions -> Row]
  BY <1>3 DEF SetStatus
<1> QED
  BY <1>1, <1>2, <1>4 DEF Row

\* The empty database satisfies the invariant.
LEMMA InitInv == Init => LifecycleInv
  BY DEF Init, LifecycleInv, TypeOK, Row, NoRow, Statuses, Terminal, Owners,
         SnapshotIsOld, ClockIsAhead, OwnerIsAccount, AtMostOneSole

\* The value a request's snapshot is reset to is a row.
LEMMA NoRowIsRow == NoRow \in Row
  BY DEF NoRow, Row, Statuses, Owners

\* Every step preserves the type invariant; SnapshotIsOld names the session a
\* busy request works on.
LEMMA TypeStep == TypeOK /\ SnapshotIsOld /\ [Next]_vars => TypeOK'
<1> SUFFICES ASSUME TypeOK, SnapshotIsOld, [Next]_vars PROVE TypeOK'
  OBVIOUS
<1> USE NoRowIsRow DEF TypeOK, openVars, reqVars, sweepVars
<1>0. ASSUME NEW r \in Requests, pc[r] # "idle" PROVE target[r] \in Sessions
  BY <1>0 DEF SnapshotIsOld
<1>1. CASE Tick
  BY <1>1 DEF Tick
<1>2. ASSUME NEW s \in Sessions, NEW c \in Owners, Insert(s, c) PROVE TypeOK'
  BY <1>2 DEF Insert, Row, Statuses, Owners
<1>3. ASSUME NEW s \in Sessions, Attach(s) PROVE TypeOK'
  BY <1>3 DEF Attach, Row
<1>4. ASSUME NEW s \in Sessions, Supersede(s) PROVE TypeOK'
  <2>1. rows' \in [Sessions -> Row]
    BY <1>4, SetStatusEffect DEF Supersede, OtherActive, Statuses, Terminal
  <2> QED
    BY <1>4, <2>1 DEF Supersede
<1>5. ASSUME NEW s \in Sessions, Close(s) PROVE TypeOK'
  <2>1. rows' \in [Sessions -> Row]
    BY <1>5, SetStatusEffect DEF Close, Statuses, Terminal
  <2> QED
    BY <1>5, <2>1 DEF Close
<1>6. ASSUME NEW r \in Requests, NEW s \in Sessions, Fetch(r, s) PROVE TypeOK'
  BY <1>6 DEF Fetch
<1>7. ASSUME NEW r \in Requests, Judge(r) PROVE TypeOK'
  <2>1. CASE Verdict(seen[r], now) = "rejected"
    BY <1>7, <2>1 DEF Judge, Leave
  <2>2. CASE Verdict(seen[r], now) # "rejected"
    <3>1. Verdict(seen[r], now) \in {"lapse", "admitted"}
      BY <2>2 DEF Verdict
    <3> QED
      BY <1>7, <2>2, <3>1 DEF Judge
  <2> QED
    BY <2>1, <2>2
<1>8. ASSUME NEW r \in Requests, Lapse(r) \/ Escalate(r) PROVE TypeOK'
  <2>1. rows' \in [Sessions -> Row]
    <3>1. target[r] \in Sessions
      BY <1>0, <1>8 DEF Lapse, Escalate
    <3>2. SetStatus({target[r]}, "expired") \/ SetStatus({target[r]}, "escalated")
      BY <1>8 DEF Lapse, Escalate
    <3>3. {target[r]} \in SUBSET Sessions /\ {"expired", "escalated"} \subseteq Statuses
      BY <3>1 DEF Statuses, Terminal
    <3> QED
      BY <3>2, <3>3, SetStatusEffect
  <2> QED
    BY <1>8, <2>1 DEF Lapse, Escalate, Leave
<1>9. ASSUME NEW r \in Requests, Touch(r) PROVE TypeOK'
  <2>1. target[r] \in Sessions
    BY <1>0, <1>9 DEF Touch
  <2>2. rows' \in [Sessions -> Row]
    BY <1>9, <2>1 DEF Touch, Row
  <2> QED
    BY <1>9, <2>2 DEF Touch
<1>10. ASSUME NEW r \in Requests, NEW c \in Customers, Identify(r, c) PROVE TypeOK'
  <2>0. target[r] \in Sessions
    BY <1>0, <1>10 DEF Identify
  <2>1. rows' \in [Sessions -> Row]
    BY <1>10, <2>0 DEF Identify, Row, Owners
  <2>2. moved' \subseteq Sessions
    BY <1>10, <2>0 DEF Identify
  <2> QED
    BY <1>10, <2>1, <2>2 DEF Identify
<1>11. ASSUME NEW r \in Requests, Finish(r) PROVE TypeOK'
  BY <1>11 DEF Finish, Leave
<1>12. ASSUME NEW w \in Sweepers, ReadClock(w) PROVE TypeOK'
  BY <1>12 DEF ReadClock
<1>13. ASSUME NEW w \in Sweepers, ExpireStale(w) PROVE TypeOK'
  <2>1. rows' \in [Sessions -> Row]
    BY <1>13, SetStatusEffect DEF ExpireStale, Stale, Statuses, Terminal
  <2> QED
    BY <1>13, <2>1 DEF ExpireStale
<1>14. ASSUME NEW w \in Sweepers, SweepFails(w) PROVE TypeOK'
  BY <1>14 DEF SweepFails
<1>15. CASE UNCHANGED vars
  BY <1>15 DEF vars
<1> QED
  BY <1>1, <1>2, <1>3, <1>4, <1>5, <1>6, <1>7, <1>8, <1>9, <1>10, <1>11, <1>12,
     <1>13, <1>14, <1>15 DEF Next, Opening, Request, Sweep

\* What any step does to a row that exists: it stays, its activity moves only
\* forward, its absolute end stays, and an ended session stays ended.
LEMMA RowsAdvance ==
    ASSUME TypeOK, SnapshotIsOld, ClockIsAhead, [Next]_vars,
           NEW s \in Sessions, Exists(s)
    PROVE  /\ rows'[s].status # "absent"
           /\ rows[s].last <= rows'[s].last
           /\ rows'[s].expires = rows[s].expires
           /\ rows[s].status \in Terminal => rows'[s].status \in Terminal
<1> DEFINE Advance == /\ rows'[s].status # "absent"
                      /\ rows[s].last <= rows'[s].last
                      /\ rows'[s].expires = rows[s].expires
                      /\ rows[s].status \in Terminal => rows'[s].status \in Terminal
<1>0. rows \in [Sessions -> Row] /\ rows[s] \in Row /\ rows[s].last \in Nat /\ now \in Nat
  BY DEF TypeOK, Row
<1>a. ASSUME NEW r \in Requests, pc[r] # "idle" PROVE target[r] \in Sessions
  BY <1>a DEF SnapshotIsOld
<1>b. ASSUME NEW ss \in SUBSET Sessions, NEW st \in Terminal, SetStatus(ss, st)
      PROVE  Advance
  <2>1. st \in Statuses /\ st # "absent"
    BY DEF Statuses, Terminal
  <2> QED
    BY <1>0, <1>b, <2>1, SetStatusEffect DEF Exists
<1>c. "expired" \in Terminal /\ "escalated" \in Terminal /\ "closed" \in Terminal
  BY DEF Terminal
<1>d. CASE rows' = rows
  BY <1>0, <1>d DEF Exists
<1>1. CASE Tick
  BY <1>1, <1>d DEF Tick
<1>2. ASSUME NEW q \in Sessions, NEW c \in Owners, Insert(q, c) PROVE Advance
  <2>1. q # s
    BY <1>2 DEF Insert
  <2>2. rows'[s] = rows[s]
    BY <1>0, <1>2, <2>1 DEF Insert
  <2> QED
    BY <1>0, <2>2 DEF Exists
<1>3. ASSUME NEW q \in Sessions, Attach(q) PROVE Advance
  <2>1. /\ rows'[s].status = rows[s].status /\ rows'[s].last = rows[s].last
        /\ rows'[s].expires = rows[s].expires
    BY <1>0, <1>3 DEF Attach, Row
  <2> QED
    BY <1>0, <2>1 DEF Exists
<1>4. ASSUME NEW q \in Sessions, Supersede(q) PROVE Advance
  BY <1>4, <1>b, <1>c DEF Supersede, OtherActive
<1>5. ASSUME NEW q \in Sessions, Close(q) PROVE Advance
  BY <1>5, <1>b, <1>c DEF Close
<1>6. ASSUME NEW r \in Requests, NEW q \in Sessions, Fetch(r, q) PROVE Advance
  BY <1>6, <1>d DEF Fetch
<1>7. ASSUME NEW r \in Requests, Judge(r) \/ Finish(r) PROVE Advance
  BY <1>7, <1>d DEF Judge, Finish
<1>8. ASSUME NEW r \in Requests, Lapse(r) \/ Escalate(r) PROVE Advance
  <2>1. target[r] \in Sessions
    BY <1>a, <1>8 DEF Lapse, Escalate
  <2>2. SetStatus({target[r]}, "expired") \/ SetStatus({target[r]}, "escalated")
    BY <1>8 DEF Lapse, Escalate
  <2>3. {target[r]} \in SUBSET Sessions
    BY <2>1
  <2> QED
    BY <2>2, <2>3, <1>b, <1>c
<1>9. ASSUME NEW r \in Requests, Touch(r) PROVE Advance
  <2>1. /\ rows'[s].status = rows[s].status /\ rows'[s].last \in {rows[s].last, now}
        /\ rows'[s].expires = rows[s].expires
    BY <1>0, <1>9 DEF Touch, Row
  <2>2. rows[s].last <= now
    BY DEF ClockIsAhead
  <2> QED
    BY <1>0, <2>1, <2>2 DEF Exists
<1>10. ASSUME NEW r \in Requests, NEW c \in Customers, Identify(r, c) PROVE Advance
  <2>1. /\ rows'[s].status = rows[s].status /\ rows'[s].last = rows[s].last
        /\ rows'[s].expires = rows[s].expires
    BY <1>0, <1>10 DEF Identify, Row
  <2> QED
    BY <1>0, <2>1 DEF Exists
<1>11. ASSUME NEW w \in Sweepers, ReadClock(w) \/ SweepFails(w) PROVE Advance
  BY <1>11, <1>d DEF ReadClock, SweepFails
<1>12. ASSUME NEW w \in Sweepers, ExpireStale(w) PROVE Advance
  BY <1>12, <1>b, <1>c DEF ExpireStale, Stale
<1>13. CASE UNCHANGED vars
  BY <1>13, <1>d DEF vars
<1> QED
  BY <1>1, <1>2, <1>3, <1>4, <1>5, <1>6, <1>7, <1>8, <1>9, <1>10, <1>11, <1>12,
     <1>13 DEF Next, Opening, Request, Sweep

\* A request keeps working on a session that exists, and the row it judges stays
\* behind the stored one.
LEMMA SnapshotStep ==
    TypeOK /\ SnapshotIsOld /\ ClockIsAhead /\ [Next]_vars => SnapshotIsOld'
<1> SUFFICES ASSUME TypeOK, SnapshotIsOld, ClockIsAhead, [Next]_vars,
                    NEW q \in Requests
             PROVE  /\ pc'[q] # "idle" => target'[q] \in Sessions /\ rows'[target'[q]].status # "absent"
                    /\ pc'[q] = "judge" =>
                           /\ seen'[q].last <= rows'[target'[q]].last
                           /\ seen'[q].expires = rows'[target'[q]].expires
  BY DEF SnapshotIsOld, Exists
<1> DEFINE Kept == pc'[q] = pc[q] /\ target'[q] = target[q] /\ seen'[q] = seen[q]
           Working == /\ pc[q] # "idle" /\ pc'[q] # "judge" /\ target'[q] = target[q]
<1>0. TypeOK' /\ seen[q] \in Row
  BY TypeStep DEF TypeOK
<1>1. CASE pc'[q] = "idle"
  BY <1>1
<1>2. CASE Kept
  <2>1. CASE pc[q] = "idle"
    BY <1>2, <2>1
  <2>2. CASE pc[q] # "idle"
    <3>1. target[q] \in Sessions /\ Exists(target[q])
      BY <2>2 DEF SnapshotIsOld
    <3>2. /\ rows'[target[q]].status # "absent"
          /\ rows[target[q]].last <= rows'[target[q]].last
          /\ rows'[target[q]].expires = rows[target[q]].expires
      BY <3>1, RowsAdvance
    <3>3. pc[q] = "judge" => /\ seen[q].last <= rows[target[q]].last
                            /\ seen[q].expires = rows[target[q]].expires
      BY DEF SnapshotIsOld
    <3>4. /\ seen[q].last \in Int /\ rows[target[q]].last \in Int
          /\ rows'[target[q]].last \in Int
      BY <1>0, <3>1 DEF TypeOK, Row
    <3> QED
      BY <1>2, <3>1, <3>2, <3>3, <3>4 DEF Exists
  <2> QED
    BY <2>1, <2>2
<1>3. CASE Working
  <2>1. target[q] \in Sessions /\ Exists(target[q])
    BY <1>3 DEF SnapshotIsOld
  <2>2. rows'[target[q]].status # "absent"
    BY <2>1, RowsAdvance
  <2> QED
    BY <1>3, <2>1, <2>2 DEF Exists
<1>4. ASSUME NEW s \in Sessions, Fetch(q, s)
      PROVE  /\ target'[q] \in Sessions /\ rows'[target'[q]].status # "absent"
             /\ seen'[q].last <= rows'[target'[q]].last
             /\ seen'[q].expires = rows'[target'[q]].expires
  <2>1. target'[q] = s /\ seen'[q] = rows[s] /\ rows' = rows
    BY <1>4 DEF Fetch, TypeOK
  <2>2. rows[s].last \in Nat
    BY DEF TypeOK, Row
  <2> QED
    BY <1>4, <2>1, <2>2 DEF Fetch, Exists
<1>5. \/ pc'[q] = "idle" \/ Kept \/ Working
      \/ \E s \in Sessions : Fetch(q, s)
  <2> USE DEF TypeOK, reqVars
  <2>1. CASE UNCHANGED reqVars
    BY <2>1
  <2>2. ASSUME NEW r \in Requests, r # q, Request(r) PROVE Kept
    BY <2>2 DEF Request, Fetch, Judge, Lapse, Touch, Identify, Escalate, Finish, Leave
  <2>3. ASSUME Request(q)
        PROVE  \/ pc'[q] = "idle" \/ Kept \/ Working
               \/ \E s \in Sessions : Fetch(q, s)
    <3>1. CASE Judge(q)
      BY <3>1 DEF Judge, Leave, Verdict
    <3>2. CASE Touch(q)
      BY <3>2 DEF Touch
    <3>3. CASE \E c \in Customers : Identify(q, c)
      BY <3>3 DEF Identify
    <3>4. CASE Lapse(q) \/ Escalate(q) \/ Finish(q)
      BY <3>4 DEF Lapse, Escalate, Finish, Leave
    <3> QED
      BY <2>3, <3>1, <3>2, <3>3, <3>4 DEF Request
  <2>4. \/ UNCHANGED reqVars \/ \E r \in Requests : Request(r)
    BY DEF Next, vars, Tick, Opening, Insert, Attach, Supersede, Close, Sweep,
           ReadClock, ExpireStale, SweepFails
  <2> QED
    BY <2>1, <2>2, <2>3, <2>4
<1> QED
  BY <1>1, <1>2, <1>3, <1>4, <1>5

\* Activity and cutoffs are never dated after the clock.
LEMMA ClockStep ==
    TypeOK /\ SnapshotIsOld /\ ClockIsAhead /\ [Next]_vars => ClockIsAhead'
<1> SUFFICES ASSUME TypeOK, SnapshotIsOld, ClockIsAhead, [Next]_vars
             PROVE  ClockIsAhead'
  OBVIOUS
<1> USE DEF openVars, reqVars, sweepVars
<1>0. /\ now \in Nat /\ rows \in [Sessions -> Row]
      /\ cut \in [Sweepers -> Nat] /\ \A s \in Sessions : rows[s].last \in Nat
      /\ \A s \in Sessions : rows[s].last <= now
      /\ \A w \in Sweepers : cut[w] <= now
  BY DEF TypeOK, Row, ClockIsAhead
<1>a. ASSUME NEW ss \in SUBSET Sessions, NEW st \in Terminal, SetStatus(ss, st),
             now' = now, \A w \in Sweepers : cut'[w] <= now
      PROVE  ClockIsAhead'
  <2>1. st \in Statuses
    BY DEF Statuses
  <2> QED
    BY <1>0, <1>a, <2>1, SetStatusEffect DEF ClockIsAhead
<1>b. "expired" \in Terminal /\ "escalated" \in Terminal /\ "closed" \in Terminal
  BY DEF Terminal
<1>c. ASSUME rows' = rows, now' = now, cut' = cut PROVE ClockIsAhead'
  BY <1>0, <1>c DEF ClockIsAhead
<1>1. CASE Tick
  BY <1>0, <1>1 DEF Tick, ClockIsAhead
<1>2. ASSUME NEW q \in Sessions, NEW c \in Owners, Insert(q, c) PROVE ClockIsAhead'
  BY <1>0, <1>2 DEF Insert, ClockIsAhead
<1>3. ASSUME NEW q \in Sessions, Attach(q) PROVE ClockIsAhead'
  <2>1. \A s \in Sessions : rows'[s].last = rows[s].last
    BY <1>0, <1>3 DEF Attach, Row
  <2> QED
    BY <1>0, <1>3, <2>1 DEF Attach, ClockIsAhead
<1>4. ASSUME NEW q \in Sessions, Supersede(q) PROVE ClockIsAhead'
  BY <1>0, <1>4, <1>a, <1>b DEF Supersede, OtherActive
<1>5. ASSUME NEW q \in Sessions, Close(q) PROVE ClockIsAhead'
  BY <1>0, <1>5, <1>a, <1>b DEF Close
<1>6. ASSUME NEW r \in Requests, NEW q \in Sessions, Fetch(r, q) PROVE ClockIsAhead'
  BY <1>6, <1>c DEF Fetch
<1>7. ASSUME NEW r \in Requests, Judge(r) \/ Finish(r) PROVE ClockIsAhead'
  BY <1>7, <1>c DEF Judge, Finish
<1>8. ASSUME NEW r \in Requests, Lapse(r) \/ Escalate(r) PROVE ClockIsAhead'
  <2>1. target[r] \in Sessions
    BY <1>8 DEF Lapse, Escalate, SnapshotIsOld
  <2>2. SetStatus({target[r]}, "expired") \/ SetStatus({target[r]}, "escalated")
    BY <1>8 DEF Lapse, Escalate
  <2>3. {target[r]} \in SUBSET Sessions
    BY <2>1
  <2>4. now' = now /\ \A w \in Sweepers : cut'[w] <= now
    BY <1>0, <1>8 DEF Lapse, Escalate
  <2> QED
    BY <2>2, <2>3, <2>4, <1>a, <1>b
<1>9. ASSUME NEW r \in Requests, Touch(r) PROVE ClockIsAhead'
  <2>1. \A s \in Sessions : rows'[s].last \in {rows[s].last, now}
    BY <1>0, <1>9 DEF Touch, Row
  <2> QED
    BY <1>0, <1>9, <2>1 DEF Touch, ClockIsAhead
<1>10. ASSUME NEW r \in Requests, NEW c \in Customers, Identify(r, c)
       PROVE  ClockIsAhead'
  <2>1. \A s \in Sessions : rows'[s].last = rows[s].last
    BY <1>0, <1>10 DEF Identify, Row
  <2> QED
    BY <1>0, <1>10, <2>1 DEF Identify, ClockIsAhead
<1>11. ASSUME NEW w \in Sweepers, ReadClock(w) \/ SweepFails(w) PROVE ClockIsAhead'
  BY <1>0, <1>11 DEF ReadClock, SweepFails, ClockIsAhead
<1>12. ASSUME NEW w \in Sweepers, ExpireStale(w) PROVE ClockIsAhead'
  <2>1. now' = now /\ \A x \in Sweepers : cut'[x] <= now
    BY <1>0, <1>12 DEF ExpireStale
  <2>2. Stale(cut[w]) \in SUBSET Sessions
    BY DEF Stale
  <2> QED
    BY <1>12, <2>1, <2>2, <1>a, <1>b DEF ExpireStale
<1>13. CASE UNCHANGED vars
  BY <1>13, <1>c DEF vars
<1> QED
  BY <1>1, <1>2, <1>3, <1>4, <1>5, <1>6, <1>7, <1>8, <1>9, <1>10, <1>11, <1>12,
     <1>13 DEF Next, Opening, Request, Sweep

\* A session that no turn moved keeps the account create_session bound it to.
LEMMA OwnerStep ==
    TypeOK /\ SnapshotIsOld /\ OwnerIsAccount /\ [Next]_vars => OwnerIsAccount'
<1> SUFFICES ASSUME TypeOK, SnapshotIsOld, OwnerIsAccount, [Next]_vars,
                    NEW s \in Sessions
             PROVE  /\ opening'[s] \in {"attach", "supersede", "sole"}
                           => account'[s] \in Customers
                    /\ opening'[s] \in {"supersede", "sole"} /\ s \notin moved'
                           => rows'[s].owner = account'[s]
  BY DEF OwnerIsAccount
<1> USE DEF openVars, reqVars, sweepVars
<1> DEFINE Goal == /\ opening'[s] \in {"attach", "supersede", "sole"}
                         => account'[s] \in Customers
                   /\ opening'[s] \in {"supersede", "sole"} /\ s \notin moved'
                         => rows'[s].owner = account'[s]
<1>0. /\ rows \in [Sessions -> Row] /\ account \in [Sessions -> Owners]
      /\ opening \in [Sessions -> {"none", "attach", "supersede", "open", "sole"}]
      /\ opening[s] \in {"attach", "supersede", "sole"} => account[s] \in Customers
      /\ opening[s] \in {"supersede", "sole"} /\ s \notin moved
               => rows[s].owner = account[s]
  BY DEF TypeOK, OwnerIsAccount
<1>a. ASSUME NEW ss \in SUBSET Sessions, NEW st \in Terminal, SetStatus(ss, st),
             UNCHANGED openVars
      PROVE  Goal
  <2>1. st \in Statuses
    BY DEF Statuses
  <2>2. rows'[s].owner = rows[s].owner
    BY <1>a, <2>1, SetStatusEffect
  <2> QED
    BY <1>0, <1>a, <2>2
<1>b. "expired" \in Terminal /\ "escalated" \in Terminal /\ "closed" \in Terminal
  BY DEF Terminal
<1>c. ASSUME rows' = rows, UNCHANGED openVars PROVE Goal
  BY <1>0, <1>c
<1>2. ASSUME NEW q \in Sessions, NEW c \in Owners, Insert(q, c) PROVE Goal
  BY <1>0, <1>2 DEF Insert, Owners
<1>3. ASSUME NEW q \in Sessions, Attach(q) PROVE Goal
  <2>1. CASE q = s
    <3>1. rows'[s].owner = account[s]
      BY <1>0, <1>3, <2>1 DEF Attach, Row
    <3> QED
      BY <1>0, <1>3, <2>1, <3>1 DEF Attach
  <2>2. CASE q # s
    BY <1>0, <1>3, <2>2 DEF Attach
  <2> QED
    BY <2>1, <2>2
<1>4. ASSUME NEW q \in Sessions, Supersede(q) PROVE Goal
  <2>1. OtherActive(q) \in SUBSET Sessions /\ SetStatus(OtherActive(q), "closed")
    BY <1>4 DEF Supersede, OtherActive
  <2>2. "closed" \in Statuses
    BY DEF Statuses, Terminal
  <2>3. rows'[s].owner = rows[s].owner
    BY <2>1, <2>2, SetStatusEffect
  <2> QED
    BY <1>0, <1>4, <2>3 DEF Supersede
<1>5. ASSUME NEW q \in Sessions, Close(q) PROVE Goal
  BY <1>5, <1>a, <1>b DEF Close
<1>6. ASSUME NEW r \in Requests, NEW q \in Sessions, Fetch(r, q) PROVE Goal
  BY <1>6, <1>c DEF Fetch
<1>7. ASSUME NEW r \in Requests, Judge(r) \/ Finish(r) PROVE Goal
  BY <1>7, <1>c DEF Judge, Finish
<1>8. ASSUME NEW r \in Requests, Lapse(r) \/ Escalate(r) PROVE Goal
  <2>1. target[r] \in Sessions
    BY <1>8 DEF Lapse, Escalate, SnapshotIsOld
  <2>2. SetStatus({target[r]}, "expired") \/ SetStatus({target[r]}, "escalated")
    BY <1>8 DEF Lapse, Escalate
  <2>3. {target[r]} \in SUBSET Sessions /\ UNCHANGED openVars
    BY <1>8, <2>1 DEF Lapse, Escalate
  <2> QED
    BY <2>2, <2>3, <1>a, <1>b
<1>9. ASSUME NEW r \in Requests, Touch(r) PROVE Goal
  <2>1. rows'[s].owner = rows[s].owner
    BY <1>0, <1>9 DEF Touch, Row
  <2> QED
    BY <1>0, <1>9, <2>1 DEF Touch
<1>10. ASSUME NEW r \in Requests, NEW c \in Customers, Identify(r, c) PROVE Goal
  <2>0. target[r] \in Sessions
    BY <1>10 DEF Identify, SnapshotIsOld
  <2>1. CASE target[r] # s
    <3>1. rows'[s] = rows[s] /\ (s \in moved' <=> s \in moved)
      BY <1>0, <1>10, <2>0, <2>1 DEF Identify
    <3> QED
      BY <1>0, <1>10, <3>1 DEF Identify
  <2>2. CASE target[r] = s
    <3>1. rows'[s].owner = c
      BY <1>0, <1>10, <2>2 DEF Identify, Row
    <3>2. s \notin moved' => s \notin moved /\ rows[s].owner \in {None, c}
      BY <1>10, <2>2 DEF Identify
    <3>3. None \notin Customers
      OBVIOUS
    <3> QED
      BY <1>0, <1>10, <3>1, <3>2, <3>3 DEF Identify
  <2> QED
    BY <2>1, <2>2
<1>11. ASSUME NEW w \in Sweepers, ReadClock(w) \/ SweepFails(w) PROVE Goal
  BY <1>11, <1>c DEF ReadClock, SweepFails
<1>12. ASSUME NEW w \in Sweepers, ExpireStale(w) PROVE Goal
  BY <1>12, <1>a, <1>b DEF ExpireStale, Stale
<1>13. CASE UNCHANGED vars \/ Tick
  BY <1>13, <1>c DEF vars, Tick
<1> QED
  BY <1>2, <1>3, <1>4, <1>5, <1>6, <1>7, <1>8, <1>9, <1>10, <1>11, <1>12,
     <1>13 DEF Next, Opening, Request, Sweep

\* No step other than its own Supersede makes a session sole, and none makes a
\* sole one active, moves it to another account of create_session or takes it
\* out of moved.
LEMMA SoleSessionStep ==
    ASSUME TypeOK, SnapshotIsOld, ClockIsAhead, [Next]_vars, NEW s \in Sessions,
           opening'[s] = "sole", ~Supersede(s)
    PROVE  /\ opening[s] = "sole"
           /\ account'[s] = account[s]
           /\ s \in moved => s \in moved'
           /\ rows[s].status # "active" => rows'[s].status # "active"
<1> USE DEF openVars, reqVars, sweepVars
<1> DEFINE Goal == /\ opening[s] = "sole"
                   /\ account'[s] = account[s]
                   /\ s \in moved => s \in moved'
                   /\ rows[s].status # "active" => rows'[s].status # "active"
<1>0. /\ rows \in [Sessions -> Row] /\ account \in [Sessions -> Owners]
      /\ opening \in [Sessions -> {"none", "attach", "supersede", "open", "sole"}]
  BY DEF TypeOK
<1>a. ASSUME NEW ss \in SUBSET Sessions, NEW st \in Terminal, SetStatus(ss, st),
             opening'[s] = opening[s], account' = account, moved' = moved
      PROVE  Goal
  <2>1. st \in Statuses /\ st # "active"
    BY DEF Statuses, Terminal
  <2>2. rows'[s].status = IF s \in ss THEN st ELSE rows[s].status
    BY <1>a, <2>1, SetStatusEffect
  <2> QED
    BY <1>a, <2>1, <2>2
<1>b. "expired" \in Terminal /\ "escalated" \in Terminal /\ "closed" \in Terminal
  BY DEF Terminal
<1>c. ASSUME rows' = rows, UNCHANGED openVars PROVE Goal
  BY <1>0, <1>c
<1>2. ASSUME NEW q \in Sessions, NEW c \in Owners, Insert(q, c) PROVE Goal
  BY <1>0, <1>2 DEF Insert
<1>3. ASSUME NEW q \in Sessions, Attach(q) PROVE Goal
  BY <1>0, <1>3 DEF Attach
<1>4. ASSUME NEW q \in Sessions, Supersede(q) PROVE Goal
  <2>1. q # s
    BY <1>4
  <2>2. OtherActive(q) \in SUBSET Sessions /\ SetStatus(OtherActive(q), "closed")
    BY <1>4 DEF Supersede, OtherActive
  <2>3. opening'[s] = opening[s] /\ account' = account /\ moved' = moved
    BY <1>0, <1>4, <2>1 DEF Supersede
  <2> QED
    BY <2>2, <2>3, <1>a, <1>b
<1>5. ASSUME NEW q \in Sessions, Close(q) PROVE Goal
  BY <1>5, <1>a, <1>b DEF Close
<1>6. ASSUME NEW r \in Requests, NEW q \in Sessions, Fetch(r, q) PROVE Goal
  BY <1>6, <1>c DEF Fetch
<1>7. ASSUME NEW r \in Requests, Judge(r) \/ Finish(r) PROVE Goal
  BY <1>7, <1>c DEF Judge, Finish
<1>8. ASSUME NEW r \in Requests, Lapse(r) \/ Escalate(r) PROVE Goal
  <2>1. target[r] \in Sessions
    BY <1>8 DEF Lapse, Escalate, SnapshotIsOld
  <2>2. SetStatus({target[r]}, "expired") \/ SetStatus({target[r]}, "escalated")
    BY <1>8 DEF Lapse, Escalate
  <2>3. {target[r]} \in SUBSET Sessions /\ UNCHANGED openVars
    BY <1>8, <2>1 DEF Lapse, Escalate
  <2> QED
    BY <2>2, <2>3, <1>a, <1>b
<1>9. ASSUME NEW r \in Requests, Touch(r) PROVE Goal
  <2>1. rows'[s].status = rows[s].status
    BY <1>0, <1>9 DEF Touch, Row
  <2> QED
    BY <1>9, <2>1 DEF Touch
<1>10. ASSUME NEW r \in Requests, NEW c \in Customers, Identify(r, c) PROVE Goal
  <2>1. rows'[s].status = rows[s].status
    BY <1>0, <1>10 DEF Identify, Row
  <2> QED
    BY <1>10, <2>1 DEF Identify
<1>11. ASSUME NEW w \in Sweepers, ReadClock(w) \/ SweepFails(w) PROVE Goal
  BY <1>11, <1>c DEF ReadClock, SweepFails
<1>12. ASSUME NEW w \in Sweepers, ExpireStale(w) PROVE Goal
  BY <1>12, <1>a, <1>b DEF ExpireStale, Stale
<1>13. CASE UNCHANGED vars \/ Tick
  BY <1>13, <1>c DEF vars, Tick
<1> QED
  BY <1>2, <1>3, <1>4, <1>5, <1>6, <1>7, <1>8, <1>9, <1>10, <1>11, <1>12,
     <1>13 DEF Next, Opening, Request, Sweep

\* Supersede(s) leaves no unmoved sole session of the same account active but s.
LEMMA SupersedeClosesSole ==
    ASSUME TypeOK, OwnerIsAccount, NEW s \in Sessions, NEW o \in Sessions, s # o,
           Supersede(s), opening'[o] = "sole", o \notin moved',
           account'[s] = account'[o]
    PROVE  rows'[o].status # "active"
<1>1. /\ opening[o] = "sole" /\ o \notin moved /\ account[s] = account[o]
      /\ SetStatus(OtherActive(s), "closed")
  BY DEF Supersede, TypeOK
<1>2. rows[o].owner = account[s]
  BY <1>1 DEF OwnerIsAccount
<1>3. rows[o].status = "active" => o \in OtherActive(s)
  BY <1>2 DEF OtherActive
<1>4. "closed" \in Statuses /\ OtherActive(s) \in SUBSET Sessions
  BY DEF Statuses, Terminal, OtherActive
<1>5. rows'[o].status = IF o \in OtherActive(s) THEN "closed" ELSE rows[o].status
  BY <1>1, <1>4, SetStatusEffect
<1> QED
  BY <1>3, <1>5

\* Every step keeps a customer's superseding conversations from being active two
\* at a time.
LEMMA SoleStep ==
    LifecycleInv /\ [Next]_vars => AtMostOneSole'
<1> SUFFICES ASSUME LifecycleInv, [Next]_vars,
                    NEW s \in Sessions, NEW o \in Sessions, s # o,
                    s \notin moved', o \notin moved',
                    opening'[s] = "sole", opening'[o] = "sole", account'[s] = account'[o]
             PROVE  rows'[s].status # "active" \/ rows'[o].status # "active"
  BY DEF AtMostOneSole
<1> USE DEF LifecycleInv
<1>1. CASE Supersede(s)
  BY <1>1, SupersedeClosesSole
<1>2. CASE Supersede(o)
  BY <1>2, SupersedeClosesSole
<1>3. CASE ~Supersede(s) /\ ~Supersede(o)
  <2>1. /\ opening[s] = "sole" /\ account'[s] = account[s] /\ s \notin moved
        /\ rows[s].status # "active" => rows'[s].status # "active"
    BY <1>3, SoleSessionStep
  <2>2. /\ opening[o] = "sole" /\ account'[o] = account[o] /\ o \notin moved
        /\ rows[o].status # "active" => rows'[o].status # "active"
    BY <1>3, SoleSessionStep
  <2> QED
    BY <2>1, <2>2 DEF AtMostOneSole
<1> QED
  BY <1>1, <1>2, <1>3

\* Every step preserves the inductive invariant.
LEMMA InvStep == LifecycleInv /\ [Next]_vars => LifecycleInv'
  BY TypeStep, SnapshotStep, ClockStep, OwnerStep, SoleStep DEF LifecycleInv

-----------------------------------------------------------------------------
\* The invariant the safety properties follow from holds in every behaviour.
THEOREM LifecycleInvariant == Spec => []LifecycleInv
  BY InitInv, InvStep, PTL DEF Spec

\* Type correctness of the tables, the requests and the sweeps.
THEOREM TypeCorrect == Spec => []TypeOK
<1>1. LifecycleInv => TypeOK
  BY DEF LifecycleInv
<1> QED
  BY <1>1, LifecycleInvariant, PTL

\* A customer is never left with two active superseding conversations, however
\* many are opened at once.
THEOREM SoleConversation == Spec => []AtMostOneSole
<1>1. LifecycleInv => AtMostOneSole
  BY DEF LifecycleInv
<1> QED
  BY <1>1, LifecycleInvariant, PTL

\* An ended session never becomes active again (set_status and touch carry no
\* condition on the old status, so this rests on who calls them with what).
THEOREM EndIsFinal == Spec => NeverRevived
<1>1. LifecycleInv /\ [Next]_vars =>
        [\A s \in Sessions :
            rows[s].status \in Terminal => rows'[s].status \in Terminal]_vars
  <2> SUFFICES ASSUME LifecycleInv, [Next]_vars, NEW s \in Sessions,
                      rows[s].status \in Terminal
               PROVE  rows'[s].status \in Terminal
    OBVIOUS
  <2>1. Exists(s)
    BY DEF Exists, Terminal
  <2> QED
    BY <2>1, RowsAdvance DEF LifecycleInv
<1> QED
  BY <1>1, LifecycleInvariant, PTL DEF Spec, NeverRevived

\* Admission lets no message into a session past a TTL, although it judges a
\* row fetched before an await.
THEOREM AdmissionIsSound == Spec => AdmittedIsLive
<1>1. LifecycleInv /\ [Next]_vars =>
        [\A r \in Requests : Admits(r) =>
            /\ now < rows[target[r]].expires
            /\ now - rows[target[r]].last < IdleTTL]_vars
  <2> SUFFICES ASSUME LifecycleInv, [Next]_vars, NEW r \in Requests, Admits(r)
               PROVE  /\ now < rows[target[r]].expires
                      /\ now - rows[target[r]].last < IdleTTL
    OBVIOUS
  <2>1. Judge(r)
    BY DEF Admits, Next, vars, Opening, Request, Sweep, Tick, Insert, Attach, Supersede,
           Close, Fetch, Judge, Lapse, Touch, Identify, Escalate, Finish, Leave,
           ReadClock, ExpireStale, SweepFails, reqVars, LifecycleInv, TypeOK
  <2>2. Verdict(seen[r], now) = "admitted"
    BY <2>1 DEF Admits, Judge, Leave, LifecycleInv, TypeOK
  <2>3. now < seen[r].expires /\ now - seen[r].last < IdleTTL
    <3>1. ~(seen[r].expires <= now) /\ ~(seen[r].last <= now - IdleTTL)
      BY <2>2 DEF Verdict, IsExpired
    <3>2. seen[r].expires \in Nat /\ seen[r].last \in Nat /\ now \in Nat
      BY DEF LifecycleInv, TypeOK, Row
    <3> QED
      BY <3>1, <3>2
  <2>4. /\ seen[r].last <= rows[target[r]].last /\ target[r] \in Sessions
        /\ seen[r].expires = rows[target[r]].expires
    BY DEF Admits, LifecycleInv, SnapshotIsOld
  <2>5. seen[r].last \in Nat /\ rows[target[r]].last \in Nat /\ now \in Nat
    BY <2>4 DEF LifecycleInv, TypeOK, Row
  <2> QED
    BY <2>3, <2>4, <2>5
<1> QED
  BY <1>1, LifecycleInvariant, PTL DEF Spec, AdmittedIsLive

\* A sweep expires no session that admission would still accept, although its
\* cutoffs are computed before the UPDATE runs.
THEOREM SweepIsSound == Spec => SweepExpiresOnlyStale
<1>1. LifecycleInv /\ [Next]_vars =>
        [\A w \in Sweepers : \A s \in Sessions :
            sweeper[w] = "update" /\ sweeper'[w] = "asleep" /\ Expires(s)
                => IsExpired(rows[s], now)]_vars
  <2> SUFFICES ASSUME LifecycleInv, [Next]_vars, NEW w \in Sweepers, NEW s \in Sessions,
                      sweeper[w] = "update", sweeper'[w] = "asleep", Expires(s)
               PROVE  IsExpired(rows[s], now)
    OBVIOUS
  <2>1. ExpireStale(w)
    <3>1. ExpireStale(w) \/ SweepFails(w)
      BY DEF Next, vars, Opening, Request, Sweep, Tick, Insert, Attach, Supersede,
             Close, Fetch, Judge, Lapse, Touch, Identify, Escalate, Finish,
             ReadClock, ExpireStale, SweepFails, sweepVars, LifecycleInv, TypeOK
    <3>2. ~SweepFails(w)
      BY DEF SweepFails, Expires
    <3> QED
      BY <3>1, <3>2
  <2>2. s \in Stale(cut[w])
    BY <2>1 DEF ExpireStale, SetStatus, Expires
  <2>3. rows[s].last < cut[w] - IdleTTL \/ rows[s].expires <= cut[w]
    BY <2>2 DEF Stale
  <2>4. cut[w] <= now /\ cut[w] \in Nat /\ now \in Nat
        /\ rows[s].last \in Nat /\ rows[s].expires \in Nat
    BY DEF LifecycleInv, TypeOK, ClockIsAhead, Row
  <2> QED
    BY <2>3, <2>4 DEF IsExpired
<1> QED
  BY <1>1, LifecycleInvariant, PTL DEF Spec, SweepExpiresOnlyStale

=============================================================================
