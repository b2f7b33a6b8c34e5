-------------------------- MODULE SessionLifecycle --------------------------
(***************************************************************************)
(* The life of the session rows: creation and supersession, admission of  *)
(* messages with the lazy expiry check, the expiry sweep, the close route *)
(* and the handoff.  Every database round trip is one step, so whatever   *)
(* the code keeps in a local variable across an await (the fetched row,   *)
(* the sweep's clock reading) is state of the process that keeps it.      *)
(*                                                                        *)
(* One clock serves Postgres and the API process; a tick is the grain in  *)
(* which the two TTLs are measured.  All sessions have the same source.   *)
(***************************************************************************)
EXTENDS Integers

CONSTANTS
    Sessions,      \* session ids the database may hand out
    Customers,     \* customer accounts
    None,          \* NULL: no customer, no session
    Requests,      \* slots for message requests in flight
    Sweepers,      \* callers of sweep_once: the background task, list requests
    Background,    \* the one of them that runs for the life of the process
    IdleTTL,       \* settings.session_idle_ttl_minutes
    AbsoluteTTL,   \* settings.session_absolute_ttl_hours
    MaxTime,       \* bound on the clock
    MaxSweepFaults \* bound on the database errors that hit a sweep

ASSUME LifecycleAssumption ==
    /\ None \notin Customers \cup Sessions
    /\ Background \in Sweepers
    /\ IdleTTL \in Nat \ {0}
    /\ AbsoluteTTL \in Nat \ {0}
    /\ MaxTime \in Nat
    /\ MaxSweepFaults \in Nat

VARIABLES
    now,      \* the clock
    rows,     \* the sessions table
    opened,   \* how many rows were inserted: the order of created_at
    opening,  \* where create_session is with each session
    account,  \* the customer it looked up for that session
    moved,    \* history: sessions a turn bound to another customer
    pc,       \* where each message request is
    target,   \* the session a request is for
    seen,     \* the row get_active_session fetched for it
    sweeper,  \* where each sweep_once call is
    cut,      \* the clock reading a sweep works with
    sweepFaults

openVars  == <<opened, opening, account, moved>>
reqVars   == <<pc, target, seen>>
sweepVars == <<sweeper, cut, sweepFaults>>
vars      == <<now, rows, openVars, reqVars, sweepVars>>

Terminal == {"expired", "escalated", "closed"}
Statuses == {"absent", "active"} \cup Terminal
Owners   == Customers \cup {None}

Row   == [status : Statuses, owner : Owners, created : Nat, last : Nat, expires : Nat]
NoRow == [status |-> "absent", owner |-> None, created |-> 0, last |-> 0, expires |-> 0]

Exists(s) == rows[s].status # "absent"

Init ==
    /\ now = 0
    /\ rows = [s \in Sessions |-> NoRow]
    /\ opened = 0
    /\ opening = [s \in Sessions |-> "none"]
    /\ account = [s \in Sessions |-> None]
    /\ moved = {}
    /\ pc = [r \in Requests |-> "idle"]
    /\ target = [r \in Requests |-> None]
    /\ seen = [r \in Requests |-> NoRow]
    /\ sweeper = [w \in Sweepers |-> "asleep"]
    /\ cut = [w \in Sweepers |-> 0]
    /\ sweepFaults = 0

Tick ==
    /\ now < MaxTime
    /\ now' = now + 1
    /\ UNCHANGED <<rows, openVars, reqVars, sweepVars>>

-----------------------------------------------------------------------------
(* create_session: insert the row, attach the customer, close the others. *)

\* A session whose absolute end the bounded clock would hide is left out.
Insert(s, c) ==
    /\ ~Exists(s)
    /\ now + AbsoluteTTL <= MaxTime
    /\ rows' = [rows EXCEPT ![s] = [status |-> "active", owner |-> None,
                                    created |-> opened, last |-> now,
                                    expires |-> now + AbsoluteTTL]]
    /\ opened' = opened + 1
    /\ opening' = [opening EXCEPT ![s] = IF c = None THEN "open" ELSE "attach"]
    /\ account' = [account EXCEPT ![s] = c]
    /\ UNCHANGED <<now, moved, reqVars, sweepVars>>

Attach(s) ==
    /\ opening[s] = "attach"
    /\ rows' = [rows EXCEPT ![s].owner = account[s]]
    /\ \E supersede \in BOOLEAN :
           opening' = [opening EXCEPT ![s] = IF supersede THEN "supersede" ELSE "open"]
    /\ UNCHANGED <<now, opened, account, moved, reqVars, sweepVars>>

OlderActive(s) ==                                                      \* mutant
    {o \in Sessions \ {s} : /\ rows[o].status = "active" /\ rows[o].owner = account[s]
                            /\ rows[o].created < rows[s].created}

\* The rows close_other_active matches.
OtherActive(s) ==
    {o \in Sessions \ {s} : rows[o].status = "active" /\ rows[o].owner = account[s]}

SetStatus(ss, status) ==
    rows' = [s \in Sessions |->
               IF s \in ss THEN [rows[s] EXCEPT !.status = status] ELSE rows[s]]

Supersede(s) ==
    /\ opening[s] = "supersede"
    /\ SetStatus(OtherActive(s), "closed")
    /\ opening' = [opening EXCEPT ![s] = "sole"]
    /\ UNCHANGED <<now, opened, account, moved, reqVars, sweepVars>>

-----------------------------------------------------------------------------
(* A message request: fetch the row, judge it, then work on the session.  *)

IsExpiredNoCap(row, t) == row.last <= t - IdleTTL                      \* mutant
IsExpired(row, t) == row.expires <= t \/ row.last <= t - IdleTTL

Fetch(r, s) ==
    /\ pc[r] = "idle"
    /\ Exists(s)
    /\ target' = [target EXCEPT ![r] = s]
    /\ seen' = [seen EXCEPT ![r] = rows[s]]
    /\ pc' = [pc EXCEPT ![r] = "judge"]
    /\ UNCHANGED <<now, rows, openVars, sweepVars>>

\* The request answers, and its locals are gone.
Leave(r) ==
    /\ pc' = [pc EXCEPT ![r] = "idle"]
    /\ target' = [target EXCEPT ![r] = None]
    /\ seen' = [seen EXCEPT ![r] = NoRow]

\* Where get_active_session goes with the row it holds at time t.
Verdict(row, t) ==
    IF row.status = "active"
    THEN IF IsExpired(row, t) THEN "lapse" ELSE "admitted"
    ELSE "rejected"

Judge(r) ==
    /\ pc[r] = "judge"
    /\ IF Verdict(seen[r], now) = "rejected"
       THEN Leave(r)
       ELSE /\ pc' = [pc EXCEPT ![r] = Verdict(seen[r], now)]
            /\ seen' = [seen EXCEPT ![r] = NoRow]
            /\ UNCHANGED target
    /\ UNCHANGED <<now, rows, openVars, sweepVars>>

\* The lazy transition: an unconditional write, judged from the fetched row.
Lapse(r) ==
    /\ pc[r] = "lapse"
    /\ SetStatus({target[r]}, "expired")
    /\ Leave(r)
    /\ UNCHANGED <<now, openVars, sweepVars>>

TouchRevives(r) ==                                                     \* mutant
    /\ pc[r] = "admitted"
    /\ rows' = [rows EXCEPT ![target[r]].last = now, ![target[r]].status = "active"]
    /\ pc' = [pc EXCEPT ![r] = "working"]
    /\ UNCHANGED <<now, openVars, target, seen, sweepVars>>

Touch(r) ==
    /\ pc[r] = "admitted"
    /\ rows' = [rows EXCEPT ![target[r]].last = now]
    /\ pc' = [pc EXCEPT ![r] = "working"]
    /\ UNCHANGED <<now, openVars, target, seen, sweepVars>>

\* attach_customer from within a turn: the lookup named the account c.
Identify(r, c) ==
    /\ pc[r] = "working"
    /\ rows' = [rows EXCEPT ![target[r]].owner = c]
    /\ moved' = IF rows[target[r]].owner \in {None, c} THEN moved ELSE moved \cup {target[r]}
    /\ UNCHANGED <<now, opened, opening, account, reqVars, sweepVars>>

Escalate(r) ==
    /\ pc[r] = "working"
    /\ SetStatus({target[r]}, "escalated")
    /\ Leave(r)
    /\ UNCHANGED <<now, openVars, sweepVars>>

\* The request ends without a handoff, normally or with an error; an error can
\* also come instead of the lazy transition.
Finish(r) ==
    /\ pc[r] \in {"lapse", "admitted", "working"}
    /\ Leave(r)
    /\ UNCHANGED <<now, rows, openVars, sweepVars>>

\* The close route asks only that the session exists.
Close(s) ==
    /\ Exists(s)
    /\ SetStatus({s}, "closed")
    /\ UNCHANGED <<now, openVars, reqVars, sweepVars>>

-----------------------------------------------------------------------------
(* sweep_once: read the clock, then one conditional UPDATE.               *)

ReadClock(w) ==
    /\ sweeper[w] = "asleep"
    /\ cut' = [cut EXCEPT ![w] = now]
    /\ sweeper' = [sweeper EXCEPT ![w] = "update"]
    /\ UNCHANGED <<now, rows, openVars, reqVars, sweepFaults>>

StaleOffByOne(t) ==                                                    \* mutant
    {s \in Sessions : /\ rows[s].status = "active"
                      /\ rows[s].last < t - IdleTTL + 2 \/ rows[s].expires <= t}

\* The rows expire_stale matches; idle is strict here, unlike IsExpired.
Stale(t) ==
    {s \in Sessions : /\ rows[s].status = "active"
                      /\ rows[s].last < t - IdleTTL \/ rows[s].expires <= t}

ExpireStale(w) ==
    /\ sweeper[w] = "update"
    /\ SetStatus(Stale(cut[w]), "expired")
    /\ sweeper' = [sweeper EXCEPT ![w] = "asleep"]
    /\ cut' = [cut EXCEPT ![w] = 0]
    /\ UNCHANGED <<now, openVars, reqVars, sweepFaults>>

SweepFailsForGood(w) ==                                                \* mutant
    /\ sweeper[w] = "update"
    /\ sweepFaults < MaxSweepFaults
    /\ sweepFaults' = sweepFaults + 1
    /\ sweeper' = [sweeper EXCEPT ![w] = "dead"]
    /\ UNCHANGED <<now, rows, openVars, reqVars, cut>>

\* run_sweeper logs the error and waits for its next tick.
SweepFails(w) ==
    /\ sweeper[w] = "update"
    /\ sweepFaults < MaxSweepFaults
    /\ sweepFaults' = sweepFaults + 1
    /\ sweeper' = [sweeper EXCEPT ![w] = "asleep"]
    /\ cut' = [cut EXCEPT ![w] = 0]
    /\ UNCHANGED <<now, rows, openVars, reqVars>>

-----------------------------------------------------------------------------
Opening(s) == (\E c \in Owners : Insert(s, c)) \/ Attach(s) \/ Supersede(s)

Request(r) ==
    \/ \E s \in Sessions : Fetch(r, s)
    \/ Judge(r) \/ Lapse(r) \/ Touch(r) \/ Escalate(r) \/ Finish(r)
    \/ \E c \in Customers : Identify(r, c)

Sweep(w) == ReadClock(w) \/ ExpireStale(w) \/ SweepFails(w)

Next ==
    \/ Tick
    \/ \E s \in Sessions : Opening(s) \/ Close(s)
    \/ \E r \in Requests : Request(r)
    \/ \E w \in Sweepers : Sweep(w)

Spec == Init /\ [][Next]_vars

\* Time passes, and the task start_sweeper launched keeps sweeping: its loop
\* ends only at shutdown and its failures are followed by another round.
FairSpec ==
    /\ Spec
    /\ WF_now(Tick)
    /\ WF_vars(ReadClock(Background))
    /\ WF_vars(ExpireStale(Background))

-----------------------------------------------------------------------------
(* Properties *)

TypeOK ==
    /\ now \in Nat
    /\ rows \in [Sessions -> Row]
    /\ opened \in Nat
    /\ opening \in [Sessions -> {"none", "attach", "supersede", "open", "sole"}]
    /\ account \in [Sessions -> Owners]
    /\ moved \in SUBSET Sessions
    /\ pc \in [Requests -> {"idle", "judge", "lapse", "admitted", "working"}]
    /\ target \in [Requests -> Sessions \cup {None}]
    /\ seen \in [Requests -> Row]
    /\ sweeper \in [Sweepers -> {"asleep", "update"}]
    /\ cut \in [Sweepers -> Nat]
    /\ sweepFaults \in 0..MaxSweepFaults

\* An expired, escalated or closed session never takes messages again: no
\* touch, sweep, supersession or late write of a turn makes it active.
NeverRevived ==
    [][\A s \in Sessions :
           rows[s].status \in Terminal => rows'[s].status \in Terminal]_vars

Admits(r) == pc[r] = "judge" /\ pc'[r] = "admitted"

\* get_active_session judges a row fetched before an await, yet what it
\* admits is within both TTLs by the row as it now stands: activity only
\* moves forward and the absolute end never moves.
AdmittedIsLive ==
    [][\A r \in Requests : Admits(r) =>
           /\ now < rows[target[r]].expires
           /\ now - rows[target[r]].last < IdleTTL]_vars

Expires(s) == rows[s].status = "active" /\ rows'[s].status = "expired"

\* Whatever a sweep expires is past a TTL at the moment of the UPDATE, although
\* the cutoffs were computed earlier: no sweep ends a session that admission
\* would still accept.
SweepExpiresOnlyStale ==
    [][\A w \in Sweepers : \A s \in Sessions :
           sweeper[w] = "update" /\ sweeper'[w] = "asleep" /\ Expires(s)
               => IsExpired(rows[s], now)]_vars

\* Two conversations that each superseded the customer's others are not both
\* active, however their creations interleave: whichever closes the others
\* last finds the earlier one attached.
AtMostOneSole ==
    \A s, o \in Sessions \ moved :
        /\ s # o
        /\ opening[s] = "sole" /\ opening[o] = "sole"
        /\ account[s] = account[o]
        => rows[s].status # "active" \/ rows[o].status # "active"

\* Strengthenings the safety properties rest on.  The row a request is judging
\* is no fresher than the stored one and has the same absolute end.
SnapshotIsOld ==
    \A r \in Requests :
        /\ pc[r] # "idle" => target[r] \in Sessions /\ Exists(target[r])
        /\ pc[r] = "judge" =>
               /\ seen[r].last <= rows[target[r]].last
               /\ seen[r].expires = rows[target[r]].expires

\* Neither a recorded activity nor a sweep's cutoff is in the future.
ClockIsAhead ==
    /\ \A s \in Sessions : rows[s].last <= now
    /\ \A w \in Sweepers : cut[w] <= now

\* An identified session that no turn moved is bound to its own account.
OwnerIsAccount ==
    \A s \in Sessions :
        /\ opening[s] \in {"attach", "supersede", "sole"} => account[s] \in Customers
        /\ opening[s] \in {"supersede", "sole"} /\ s \notin moved
               => rows[s].owner = account[s]

\* The inductive invariant.
LifecycleInv ==
    TypeOK /\ SnapshotIsOld /\ ClockIsAhead /\ OwnerIsAccount /\ AtMostOneSole

\* An abandoned conversation does not stay active for ever: the sweep ends it
\* even if nobody sends another message, and despite failing sweeps.
ActiveEnds ==
    \A s \in Sessions : rows[s].status = "active" ~> rows[s].status # "active"
=============================================================================
