# A verification project for the Ravenna support agent

TLA+ modules, TLC configurations and TLAPS proofs for the customer-support agent
under `src/` (paths below are relative to `src/src/support_agent/` unless they
begin with `src/`). The service is a FastAPI process over PostgreSQL. A customer
opens a session, posts messages, and each message is answered by one *turn*: an
asyncio coroutine that alternates between local decisions and awaits on the
database or the model. A Streamlit page talks to it, and a launcher starts both.
The two questions that recur everywhere are *what may change while somebody
waits* and *what the waiting side still believes afterwards*.

## 1. Inventory

| Component | State it keeps | Operations | Where |
|---|---|---|---|
| Session lifecycle | `sessions` row: status, customer, `last_activity_at`, `expires_at`, metadata | create, attach, supersede, admit with lazy expiry, touch, hand off, close | `services/sessions.py`, `db/repositories/sessions.py` |
| Expiry sweeper | its cutoffs between clock reading and UPDATE | `sweep_once`, the background loop, the list route | `services/expiry.py`, `main.py` |
| Conversation orchestration | locals of a turn: session snapshot, trace, recorder | `handle_message`, `_answer` and its branches | `services/conversation.py` |
| Approvals and topics | two LIFO stacks in `sessions.metadata` | queue, consume, reject, clear; shift, resume | same file |
| Model and tool loop | iteration budget, failure counter in the metadata | `_model_answer` | same file, `tools/registry.py`, `tools/base.py` |
| Write tools | `tickets` rows, session status | `create_ticket`, `escalate_to_human` | `tools/tickets.py`, `tools/escalation.py` |
| Transcript and traces | `messages`, `agent_traces` | append, next index, save | `db/repositories/messages.py`, `traces.py` |
| Customer memory | `customer_session_memories`; a claim's transaction: snapshot, row locks, what it read | `refresh` after a turn; claim and merge at session creation | `services/customer_memory.py`, its repository, `services/sessions.py` |
| LangGraph reference agent | graph state, checkpointed history | guardrail, llm, tools, escalation, finalize | `agent/` |
| API routes | none | map requests to the above, active-sessions gauge | `api/` |
| Streamlit console | `st.session_state` of a tab: selected customer, session, status, messages, error | pick a customer, open or resume, start fresh, history, end, chat | `src/ui/` |
| Launcher | processes, the two ports, `main`'s variables | prepare, check ports, spawn, wait, watch, stop | `src/scripts/start_all.py` |
| Knowledge base, customer lookup | read-only tables | search, lookup | `tools/`, `db/repositories/` |
| Pool, observability, configuration, prompts, checkpointer, seeding | connections, counters | — | `db/`, `observability/`, `config.py`, `src/scripts/` |

How they interact. A route admits a message through the lifecycle, which hands the
turn a **snapshot** of the session row. The turn appends to the transcript, reads
and rewrites whole JSON values in `sessions.metadata`, calls tools that insert
tickets or change the status, and finally copies the session's open work to the
customer memory, from which the next session of the customer **claims** it.
Nothing locks a session for the length of a turn: two turns of one session, the
sweep, the close route, a claim and a new session of the same customer all run
against the same rows. Only single statements (and the claim's transaction) are
atomic. A page waits at most a minute for a turn that does not notice that nobody
waits, and a launcher judges by a health URL that anybody may answer.

What is hard here, and what makes each part correct:

* *Lifecycle*: a status judged from an old row, unconditional status writes, a
  sweep with an old cutoff, sessions that supersede one another concurrently. An
  ended session must stay ended, admission and sweep must agree with the TTLs,
  only one superseding conversation of a customer may stay active, and an
  abandoned one must end.
* *Approvals*: the stack is read at admission and written whole several awaits
  later. Every approval must be carried out at most once, lost for a reason
  only, and a "yes" must mean what the agent asked last.
* *Turns*: an error or crash can hit between any two statements. The transcript
  must never hold an orphan reply, no ticket may exist for an unrecorded
  question, what a reply claims must be true, who asks for a person must reach
  one, and every turn must end.
* *Memory*: claims of concurrent creations, refreshes of sessions that were
  claimed, row locks that wait for one another, a crash between the commit of a
  claim and its merge. Open work must be neither lost nor held twice, and no
  approval answered in two sessions.
* *Graph*: the checkpointer restores everything, so whatever is per turn must be
  reset, a search through the history must not find an earlier turn's answer, and
  no tool call may be left open in the middle of the history.
* *Console*: a handler is several calls, each of which may fail before or after
  its effect, while other tabs, turns and the sweep go on. A page must show its
  session's transcript, to the right customer, and never reopen what has ended.
* *Launcher*: ports that change hands between the check and the bind, services
  that die, interrupts in the `finally` block. Nothing it started may outlive it.

`PROJECT.json` lists each hazard at its line.

## 2. Modules

```
SessionLifecycle ── SessionLifecycleProofs          (EXTENDS, TLAPS)
       └─────────── MC_SessionLifecycle
CustomerMemory ──── CustomerMemoryProofs
Console ─────────── ConsoleProofs
       └─────────── MC_Console
Launcher ────────── LauncherProofs

Approvals ── Conversation ── ConversationProperties ── MC_Conversation
    │                               │        └─────────┐
ApprovalsProofs ────────────────────┼─────── ConversationProofs ── TurnProofs
                                    │ Agent == INSTANCE
BoundedAgent ◄──────────────────────┤
                                    │ Agent == INSTANCE
                             AgentGraph ── AgentGraphProofs
```

**SessionLifecycle** — the table of session rows and everybody who writes status,
owner or times. One action is one database round trip; what the code keeps in a
local variable across an await is a variable of the process that keeps it.

| TLA+ | Code |
|---|---|
| `rows[s]` | a `sessions` row; `owner` is `customer_id`, `last` is `last_activity_at`, `expires` is `expires_at` |
| `opening[s]`, `account[s]` | where `create_session` is, and the customer it looked up |
| `Insert`, `Attach`, `Supersede` | `create`, `attach_customer`, `close_other_active` |
| `Fetch`, `Judge`, `Lapse` | `get_active_session`: the SELECT, the decision on the fetched row (`seen`), the lazy `set_status("expired")` |
| `Touch`, `Identify`, `Escalate`, `Finish` | what the turn does to the row; `moved` is a history variable |
| `ReadClock`, `ExpireStale`, `SweepFails` | `sweep_once` and the error branch of `run_sweeper` |
| `Close` | the close route, which checks nothing but existence |

**CustomerMemory** — the open work of one account. It begins where
`SessionLifecycle` leaves a creation: the row is inserted and attached.

| TLA+ | Code |
|---|---|
| `carried[s]` | what the session's metadata has of approvals and topics |
| `rows`, `memory[s]` | its row in `customer_session_memories` and the tasks in it |
| `Select`, `LockRow`, `Commit` | the claim's transaction: `SELECT ... FOR UPDATE` takes a snapshot, waits for one row lock after the other and reads the latest version of each; the UPDATE empties the rows of a *new* snapshot, the INSERT writes the new session's row |
| `Merge` | the later `update_metadata`, in no transaction with the claim |
| `Free`, `Deadlock` | row locks of others; Postgres aborts one of a cycle of waiting transactions |
| `Open`, `Settle`, `HandOff`, `Chat` | what a turn does to the work in the metadata, in one step each |
| `ReadWork`, `StoreWork`, `RefreshFails` | `CustomerMemory.refresh`, best effort, and its upsert |
| `CreateFails`, `Crash` | an error or the end of the process; an open transaction rolls back |

Work is a set of items here, since who holds an item is all these properties tell
apart; its order is the matter of `Approvals`. `lapses` is a history variable that
names each way the code has to lose or double work; section 6 lists them.

**Conversation** — one session and its turns. `pc[t]` names the await a turn is at
and `loc[t]` the locals it carries, above all `meta` and `customer` of its
admission. A label is a statement that reads or writes shared rows, or a model
call; the local decisions after it belong to its step. `Branch` is `_answer`'s
decision list, in the order of the code. A message is a record of what the
classifiers say of it, and a ticket, a claim or an offer is a record of who made
it and why. `Init` is the session as `create_session` returns it: a guest's with
nothing, or a customer's with what was claimed of the customer's earlier sessions
in its metadata and in its memory row (`Starts`, a constant; `StartType` says what
a claim can produce). The first message may therefore be the yes to an offer of an
earlier session, two sessions may have left the same approval or topic, and the
current topic may also be waiting, because only the topics behind the first are
freed of repetitions (`services/sessions.py:80-82`). `inherited` remembers the start. `Raise` says, label by label, which `except` sees a database error:
the tool wrapper, the model loop, the best-effort tail or nobody. The title, the
miss counter, contact fields and the memory summary are left out, since no
decision that is modelled reads them.

**Approvals** — the pure operations on the two stacks: `Queue` is
`_queue_pending_action`, `Rest` the pop of a rejection or a consumption, `Shift`
and `Resume` the topic operations, `OpenTopics` the topics as a memory row lists them. Their list comprehensions are `Without`, which
says by counting what `SelectSeq` says by recursion, so that the proofs can use it;
`ShownIsStored` in `Console` says "subsequence" without `SelectSeq` for the same
reason.

**ConversationProperties** — the promises of `Conversation`, and its refinement of
`BoundedAgent`. **MC_Conversation** defines the messages of the instances; each is
the classification of a sentence given beside it.

**BoundedAgent** — the abstract promise both agents make: an agent begins, asks for
work at most `Budget` times and comes to rest, several agents may be torn down at
once (a crash), and one that works always comes to rest.

**AgentGraph** — the nodes and edges of the LangGraph agent, over several turns of
one checkpointed thread. `Invoke` is `initial_state` plus the customer's message,
`RouteAfterLlm`, `RouteAfterTools` and `ShouldEscalate` are the conditional edges,
`Abort` a pass that ends without its node's update.

**Console** — several browser tabs against the service, of which only what a tab
can see is kept (`status`, `owner`, `log`, the turn of each prompt). An API call is
one step; `SessionLifecycle` has the steps inside it.

| TLA+ | Code |
|---|---|
| `selected[t]`, `view[t]` | `selected_customer_id`; `session_id`, `session_status`, `current_customer_id`, `messages`, `api_error` of `st.session_state` |
| `Switch`, `Open`, `OpenHistory`, `End` | `_switch_selected_customer`, the sidebar's buttons and the history widget up to their first call |
| `CloseOne`, `Create`, `Load` | the calls a handler makes, in the order of `_open_selected_customer`, `_create_conversation`, `_load_conversation` |
| `Caught`, `CallFails` | a handler's `except SupportAgentAPIError`; the call may have taken effect (`CloseOne`, `Create`, `End`) or not |
| `CutShort` | the user touches another widget during a call: Streamlit ends the run at its next access to `st.session_state`, without an error; what the calls so far did stands (`cut` remembers who had just ended the session on the page) |
| `Send`, `Receive`, `SendFails` | the chat input: the prompt is shown at once, the reply appended; 409, 500, no connection or 60 s without an answer |
| `PickerFallsBack` | the picker without its list of customers |
| `Accept`, `Answer`, `Expire` | the service |

**Launcher** — several runs of `start_all.py`. `proc` is the service process a run
has spawned, `known` what `main` has in `api_process` and `ui_process`, `port` who
listens. `Check`, `Spawn`, `Ready` and `GiveUp` are `start_or_reuse` and
`wait_for`; `Watch` the polling loop; `Skip`, `Terminate` and `Reap` the `finally`
block with `stop_process`. Interrupts, a SIGTERM, dying services and foreign
processes come at any moment.

Definitions marked `\* mutant` are wrong variants of the definition that follows.
They occur in no specification: each is a plausible bug that some property of the
project is known to catch.

## 3. Runs

| Run | Question | Bounds |
|---|---|---|
| `lifecycle_races` | Do admission and sweep respect the TTLs although both judge old data, and does every active session end? | 1 session, 2 requests, 1 sweeper with 1 failure, idle TTL 2, absolute TTL 4, 5 ticks |
| `lifecycle_supersede` | Does any interleaving of creations leave two superseding conversations of a customer active, or revive an ended one? | 2 sessions, 2 customers, 1 request, 1 sweeper, both TTLs 1, 1 tick |
| `conversation_serial` | Once per approval? Lost only for a reason? Does a yes mean, and do, what was named last? Is a person reached on request, the memory current between turns, the handoff the end? | 3 turns one at a time, all 16 messages and 4 tools, 2 outages; a guest, a customer, a customer with 2 approvals and 2 topics left, one with 3 and 2 |
| `conversation_overlap` | Are claims true and topics sound while turns overlap? | 2 overlapping turns, 10 messages, no API key, session may end; the same four starts |
| `conversation_faults` | Transcript, tickets, the tail after the reply and termination under faults | 2 overlapping turns, 1 database error or crash, 1 outage, budget 1 |
| `agent_graph` | Does a pass answer its own turn, leave no call open behind it, escalate for its own reasons, and implement the bounded agent? | 2 turns, 3 iterations, 2 calls, threshold 2 |
| `customer_memory` | Is work lost, held twice or answered twice when creations and turns overlap, and does every creation end? | 1 old and 2 new sessions, one of them superseding, 1 inherited approval, 1 topic, 2 turns, 1 fault |
| `launcher` | Does a launcher leave a process behind, call a foreign service its own, or watch for ever? | 2 launchers, 2 ports, any foreign processes and signals |
| `console` | Does a page show the right customer's session, what its tab has ended, and keep ended conversations closed? | 2 tabs, 1 customer and 2 guests, 2 sessions, 1 prompt |
| `console_chat` | Does a page show what its session has, however many tabs write to it? | 2 tabs, 1 customer and 2 guests, 1 session, 2 prompts |
| `violation_*` | The two disagreements of section 6 | the smallest instance that shows each |

What each property says stands in a comment above it. The ones that carry most:

* `AdmittedIsLive`, `SweepExpiresOnlyStale`: both hold *although* the code judges a
  stale row or cutoff, because activity only moves forward, the absolute end never
  moves, and the later judgement is the stricter one. The sweep uses `<` where the
  admission uses `<=`; `SweepExpiresOnlyStale` says the difference is harmless.
* `AtMostOneSole`: `attach_customer` and `close_other_active` are two statements.
  Whichever closes last finds the earlier one attached, so at most one survives
  (both may be closed by one another). Sessions that a turn re-bound
  to another customer are excepted, since nothing supersedes them again.
* `ApprovalsConserved`, `OncePerApproval`, `YesMeansLastAsk`: the LIFO discipline
  of the approvals over long sequences of turns that do not overlap, whatever the
  session inherited. With overlapping turns the second and third fail in the code;
  see section 6.
* `PerformsLastAsk`: what a yes carried out is what the agent had named last when
  the customer wrote it; before it has named anything, the inherited top. Offers of
  a person that queue no approval name none, and are passed over: see section 6.
* `TopicsSound`: nothing waits twice; the current topic may wait behind itself only
  as the session was opened, until a turn writes the topics.
* `PersonOnRequest`: a request for a person is answered by a handoff, or it was
  taken for an answer to a pending approval and then left that approval as it was.
* `ReplyFollowsQuestion`, `ActsOnTranscript`, `TailIsBestEffort`: hold with
  overlapping turns, a crash and a database error anywhere.
* `WorkSurvives`, `HeldOnce`, `AnsweredOnce`: each says that a claim moves work
  *except* after lapses it names. The exceptions are the code's; that there is no
  other is what the run checks and the proof shows.
* `CreationEnds`: row locks are taken in two statements and in any order, so claims
  do wait for one another in cycles; a victim's creation ends with an error.
* `NoOrphan`, `ReadyIsOwn`: again up to the named ways; a *failed* start is not one
  of them, whatever service failed.
* `ShownIsStored`: what a page shows is a subsequence of the stored transcript, in
  its order, but for prompts whose call failed.
* `OwnEndIsShown`: a handler that closes the conversation on the page and then
  fails leaves an error beside the input it still offers; one the user interrupts
  leaves the input without an error; in both cases nothing sent there is taken.
* `TurnsAreBounded`, `ImplementsBoundedAgent`: refinement, safety and liveness.

Why the bounds suffice. *Lifecycle*: an idle TTL of 2 and an absolute TTL of 4
allow a renewal before either limit, after which the idle limit, and not the
absolute one, still decides on both sides of its boundary, in the sweep (`<`) as in
the admission (`<=`), and the reverse; two requests are needed for a touch between
the fetch and the judgement of the other. A session whose absolute end would lie
beyond `MaxTime` is not created, since the clock stops there and it could never end;
a fault count of one is enough for a sweep to fail between two that succeed.
*Turns in sequence*: three turns let a push or a re-ask be followed by a rejection
and a yes, and the starts put them on an empty stack, on two offers that an earlier
session has left, and on three of which the outer two are the same offer, with the
current topic waiting again. Longer conversations are the proofs' matter. *Overlap*:
two turns are enough for every lost update between a snapshot and a write, and the
starts are what earlier turns may have prepared; that an overlapping model's handoff
is claimed truthfully, and what more turns do, is left to `RepliesAreTrue` and
`TopicsStaySound`. *Faults*: an iteration budget and failure threshold of one reach
the spent budget and the queued handoff within one round; larger values are in the
serial run. `MayEnd` is set in `conversation_overlap` only: the one test of the status
in a turn is at admission, and `ApprovalsConserved` needs a session that only a
handoff ends. *Graph*: three rounds let a failed round be
followed by a good one and the threshold of two be reached inside the budget, and
two turns are enough for a leftover of the first to be mistaken in the second.
*Memory*: two claims beside an old session are what it takes for one to empty a
row the other has just inserted and for two of them to wait for each other, and
one superseding creation is enough to close the other two sessions at any point;
two turns let a session be settled and another ask again, and one fault
hits every point between the commit and the merge. An approval is inherited,
a topic is opened in the run, so that both kinds meet in a merge. Longer cycles
of claims and more turns are the proofs' matter, but for `CreationEnds`.
*Launcher*: the second launcher is the one who takes a port, answers a
health check or is refused; a third has nothing to add, since ports have one
owner. *Console*: the second tab writes to, closes or supersedes what the first
shows; two sessions allow a switch away and back. The transcripts are `console_chat`'s
matter: two prompts to one session, by one tab after the other or by both at once,
which is what it takes for a line of another's to stand between two of a page's own.
Its properties do not compare sessions, so one is enough; in `console` no property
reads a transcript, so one prompt is. `console` leaves the transcripts and
`console_chat` the shown error and some history out of what TLC tells apart (`VIEW`):
no step reads them, and the run's properties nothing but their types.

Symmetry (over turn slots; over sessions and request slots in
`lifecycle_supersede`; over tabs, sessions and prompts in the console runs) is used in runs without liveness
only. `CHECK_DEADLOCK FALSE` stands in every configuration because the
instances really stop: the clock, the turn slots, the turns of a thread, the
prompts and the launchers are bounded.

## 4. Fairness

* `SessionLifecycle`: weak fairness on `Tick` and on the two steps of the
  **background** sweeper. `start_sweeper` creates a task whose loop is left at
  shutdown only, and it catches and logs whatever a sweep raises. Failing sweeps
  are bounded by `MaxSweepFaults`: a database that never answers again expires
  nothing, and the code does not claim otherwise. Requests, the close route and
  the list route have no fairness, so `ActiveEnds` rests on the sweep alone.
* `Conversation`: weak fairness on the steps of every turn in flight: a coroutine
  whose await returns is resumed. Waits for a connection end after two seconds
  (`db/pool.py:31`) and the model call after its client library's limit; that every
  statement returns is assumed of the database, since the code sets no statement
  timeout. Nothing makes a customer write, a provider fail or a session end.
* `AgentGraph`: weak fairness on `Run`: LangGraph runs the next node of a pass.
* `CustomerMemory`: weak fairness on *some* step of *some* creation: the event loop
  resumes a coroutine whose statement has returned, and Postgres finds a deadlock.
  Turns have none: only a creation that is under way holds locks, so a turn can
  neither block a creation nor is it needed to free one.
* `Launcher`: weak fairness on the launcher's own steps except the preparation,
  whose loop around `pg_isready` has no limit. Nothing makes a user press Ctrl+C,
  a service bind its port or a process die.
* `Console` states no fairness: nothing obliges a user or a tab to go on.

## 5. Proofs

Checked by TLAPS for every value of the constants, from the modules' named
assumptions (`LifecycleAssumption`, `ConversationAssumption`, `GraphAssumption`,
`MemoryAssumption`, `LauncherAssumption`, `ConsoleAssumption`) only, except for
the theorems of `TurnProofs`, which name a hypothesis more.

*SessionLifecycleProofs.* `LifecycleInv` is the inductive invariant. The safety
properties are not inductive alone: `AdmittedIsLive` needs to know that the row a
request judges is no fresher than the stored one and has the same end
(`SnapshotIsOld`), `SweepExpiresOnlyStale` that no cutoff lies in the future
(`ClockIsAhead`), and `AtMostOneSole` that an identified session which no turn moved
is bound to its own account (`OwnerIsAccount`), so that a session attached
earlier is found by the later `close_other_active`. `LifecycleInvariant` proves it
with one step per action; `TypeCorrect`, `SoleConversation`, `EndIsFinal`,
`AdmissionIsSound` and `SweepIsSound` follow from it.

*CustomerMemoryProofs.* `MemoryInv` has four parts, proved in this order.
`Structure`: an open claim has read exactly what the rows it holds locked have, and
only a refresh has a copy of the work. `Disjoint`: as long as no session went on
with what had been taken from it, the rows of different sessions, and what
sessions may still write to them (`Mine`: metadata, copy and unmerged claim,
without what was taken), share nothing. This is what makes `HeldOnce` inductive:
a claim must not bring what a refresh could bring too. `Answers`: an answered
approval is nobody's any more, and only in the row of the turn that answered it
until that turn has stored. `Work`: before its first turn a session has in its row
at most what it claimed, afterwards its metadata has all the unsettled work of the
row, so that a refresh loses nothing. `WorkIsKept`, `WorkIsMoved` and
`AnswersAreUnique` follow, for any number of concurrent claims.

*AgentGraphProofs.* `GraphInv` adds to the type invariant what is known of a pass
at each node (`PassState`: an llm node has budget left, a tools node has a call to
run, a finalize node without refusal or escalation has this turn's answer at the
end of the history) and of the history (`HistoryState`: only the last response of
the turn may wait for results), and `OpenCallsEndTurn` for the earlier turns.
From it `TypeCorrect`, `AnswerBelongsToTurn`, `ModelSeesResults` and
`OpenCallsAreLast`. `HandoffIsEarned` needs to know more: the failed rounds that the
counter counts are the last ones of this turn in the history, one after the other,
and each step lengthens or ends them (`HandoffState`). `GraphRefinesAgent` maps
initial states to initial states and every step to a step of `BoundedAgent` or a
stutter, the safety half of the refinement the run checks.

*ApprovalsProofs.* What the stack operations return for any stack: `WithoutKeeps`
(a filter keeps the others, all of them, and repeats nothing that was not
repeated), `QueueKeeps`, `ShiftSound` and `ResumeSound`. The last two also take
topics as a session inherits them: the first change puts them in order.

*ConversationProofs.* For any turns, messages and customers, whatever overlaps, fails
or crashes. Every action is first shown to be one of a few kinds of move
(`StepIs`), and the proofs about the transcript and the refinement read only those.
`Types` is `TypeOK` made inductive: it knows which locals a turn has at which label
(`Fits`) and that every topic state, stored or in a snapshot, is proper or the
inherited one (`Held`), which is why turns that write the topics of old snapshots
cannot put them out of order (`TopicsStaySound`). `QuestionFirst` says that who acts has its question in the
transcript under its index, and who has not replied has no reply there; `RepliesFollowQuestions`, `ActsAreOnTranscript` and `OnlyTheGaugeFails`
follow. `TurnsRefineAgent` is the safety half of `TurnsAreBounded`.

*TurnProofs.* What needs a hypothesis about the turns, because the code does not
promise it otherwise; each hypothesis stands in its theorem.

* *Until a statement fails* (`faults = 0` in the state): `RepliesAreTrue`, however
  many turns overlap. `violation_false_handoff` shows why the hypothesis is needed.
* *Turns one at a time* (`MaxInFlight = 1`), and until a statement fails:
  `ApprovalsAreUsedOnce`, `PerformedWasAskedLast`, `YesIsUnderstood`, `MemoryStaysCurrent`.
  Two overlapping turns break the first (`violation_double_yes`), and a crash between
  a ticket and the consumption of its approval does too. `SerialInv` is the inductive
  invariant. Its heart is `Certain`: a turn that has not decided holds what is stored,
  and what it carries out is the top of that. The others follow the approval: every
  one on the stack or carried out was inherited or comes from a turn that has decided
  (`OriginDecided`), a used one is gone from the stack unless its own turn is about to
  remove it (`UsedIsGone`), and the top is the last one named, or about to be
  (`TopIsAsked`). For
  `PerformedWasAskedLast` this is combined with the fact that while a turn is on its
  way its question is the last line of the transcript (`QuestionIsLast`), so that
  what was named last when the customer wrote is still what was named last when the
  ticket is opened; lines that follow do not change what came before a question.
* *One at a time and no faults at all* (`MaxFaults = 0`; the properties are about
  steps, so the hypothesis is about the behaviour): `YesTakesTheTop`, which is
  `YesPerformsTop`, the property overlapping turns violate, `HandoffIsTheLastWord`
  and, with a session that only a handoff ends (`~MayEnd`, since the close
  route may overwrite `escalated` before the handoff has cleared the stack),
  `ApprovalsAreConserved`.
* *One at a time, whatever fails*: `PersonIsReached`. It assumes of the messages that
  one which asks for a person answers no approval, ends no topic, and is neither
  refused, nor a greeting, nor about a ticket's status. `_answer` looks at all of
  these first, so for other messages the statement is false; the messages of the
  runs satisfy it. `Attended` follows such a turn label by label.

*LauncherProofs.* `StartState` says that `main` knows precisely the services before
the current one, and that nothing runs beyond it except while it waits;
`StopState` that in the `finally` block only what `main` knows may run;
`PortState` that who serves holds the port, and that a port found free is free or
its own unless somebody overtook it. `NothingIsLeft` and `ReadinessIsOwn` follow.

*ConsoleProofs.* A page is related to the sessions (`TabState`, `EndState`: what is
shown as ended has ended), to the picker (`OwnerState`: also what a handler is
about to load is the selected customer's) and to the tab's own deeds
(`OwnEndState`: the prompt typed into an ended page is never accepted, so that no
reply clears its error). `Grows` is what no step undoes; with it `Elsewhere` shows
that other tabs are not disturbed, and each action has a lemma for its own tab.
`TypeCorrect`, `PagesAreIsolated`, `OwnEndsAreShown` and the action property
`EndedIsReadOnly` follow. `PagesShowTheRecord` has an invariant of its own,
`TranscriptInv`: each line is in a session's log once, and only of turns that have
come as far (`LogState`); a prompt is there once its turn is accepted, its reply
behind it (`AskState`); what a page shows, but for failed prompts and the one it
waits for, is in the log in that order, and the awaited prompt is its last line
(`PageState`). A reply appended to the page is then behind all that the
page shows, although other tabs have written to the log meanwhile.

Model-checked only: liveness (`ActiveEnds`, `CreationEnds`, `LauncherDecides` and
the fair half of both refinements), which the prover cannot treat. Every invariant
and every other action property of a passing run is the subject of a theorem.

## 6. Where code and documents disagree

Two runs end in a counterexample, each against a sentence of the repository:

1. `violation_double_yes` — two overlapping affirmatives perform the same approval
   twice. ARCHITECTURE.md:79 says only the top action is performed.
2. `violation_false_handoff` — a database error inside `escalate_to_human` is
   ignored by `_perform_escalation`, and the customer is told of a handoff that did
   not take place, with approvals cleared (`services/conversation.py:1224`).

Noticed while modelling, represented by the modules as the code has it and not
claimed as defects by any run:

* Lifecycle. The lazy expiry writes `expired` without a condition, from a fetched
  row, so it can end a session that was touched in between and overwrite `closed` or
  `escalated` (`services/sessions.py:107`). `close_other_active` closes *newer*
  sessions too and is not part of the same database operation as the creation,
  contrary to ARCHITECTURE.md:94-97. A row that is closed or escalated between a
  request's SELECT and its judgement is admitted; `AdmittedIsLive` is about time.
* Turns. A rejection writes the stack of its own snapshot without its top
  (`services/conversation.py:344`), and so removes an approval that an overlapping
  turn has just queued and asked for. A turn in flight answers after another turn
  handed the session off, since the status is checked at admission only
  (`services/conversation.py:89`): `HandoffEndsChat` holds for turns in sequence. A
  spent iteration budget (`services/conversation.py:734`) and a missing Slack article
  offer a person without queueing the approval: the yes to that carries out what an
  earlier turn had left on the stack, or nothing. A yes that overlaps another turn pops from the row it has
  read again, whatever is on top there (`services/conversation.py:1261`). When two
  earlier sessions left the same approval it is on the inherited stack twice, and
  counts as two: each may be carried out once. `next_turn_index` is read in one statement
  and used in another, so overlapping turns may share an index
  (`db/repositories/messages.py:97`).
* A short "talk to a human" while an approval pends is taken for an unclear
  confirmation (`services/conversation.py:374`; DESIGN_DECISIONS.md:83-84 lets an
  explicit request for a person win). `PersonOnRequest` states what remains true.
* An error in the active-sessions gauge fails a request whose reply is already
  persisted (`api/routes.py:165`, against DESIGN_DECISIONS.md:128-129);
  `TailIsBestEffort` says that nothing else after the reply does.
* Memory; each is a member of `lapses`. *unread*: the claim's UPDATE empties a row
  that appeared after its SELECT, so the work of the session that lost it is
  nowhere. *early*: a session can be messaged before the claim is merged, and its
  refresh then stores metadata without the claimed work. *torn*: after a crash
  between commit and merge the work is in the row of a session whose metadata
  lacks it, and the first refresh overwrites it. *stale*: the metadata of a claimed
  session keeps its work, so a turn there can carry out an approval that has moved
  on, or bring it back to its row. *behind*: a claim reads a row before the turn
  that settled an item has stored that. *unsaved*: a refresh fails or dies.
  README.md:71 lets unresolved work "carry into the next session" without any of
  these.
* Console. A prompt stays on the page after its call failed, and after the client's
  60 seconds its reply is stored and not shown (`src/ui/api_client.py:20`). Touching
  another widget ends the script run at its next access to `st.session_state`: no
  reply, no error; and after End or Start fresh has closed the conversation
  (`src/ui/streamlit_app.py:350`, `:112`) a page that still offers it for input
  (`OwnEndIsShown` excepts it, and says that nothing sent there is taken).
  `get_session` after a reply is outside the `try` (`src/ui/streamlit_app.py:429`ff.).
  Start fresh may close the old conversation and create none. End from an old
  view overwrites `escalated` or `expired` with `closed`. When the customers cannot
  be listed the picker falls back to Guest with the customer's conversation on the
  page (`src/ui/streamlit_app.py:190`): `ViewIsIsolated` excepts it.
* Launcher. If waiting for readiness raises or is interrupted, `main` has no
  variable for the spawned process and leaves it running
  (`src/scripts/start_all.py:92`); so do a second Ctrl+C and a SIGTERM. The health
  check precedes the look at the process, and another launcher's service may answer
  it. The schema and the seed data are written before the ports are checked, so
  also by a second `make start` that is then refused. `proc` stands for a process
  group: neither a dead `uvicorn --reload` parent that leaves its worker behind nor a
  dead worker under a living parent, which `main` does not notice, is represented.
  The port probe asks 127.0.0.1 and the health URL localhost; they are one port here.
* Graph. The escalation node changes no database row although its docstring
  says that the session flips and a ticket is opened; `should_escalate`'s reason is
  discarded; `agent/graph.py:93` says an exhausted budget goes to finalize but the
  edge escalates; a budget handoff or an aborted pass leaves tool calls without
  results in the checkpointed history, at the end of their turn
  (`OpenCallsEndTurn`), which the next turn sends to the provider.
* Refreshes of overlapping turns may store the older copy last: `MemoryIsCurrent`
  is about turns in sequence.

## 7. Not modelled

* Ranking, embeddings and text matching: floating-point scores over text. A search
  is a read with one of three outcomes.
* Classifiers and message texts: what they decide is data of a message, so the
  modules hold for any classification the instances enumerate, not for particular
  sentences. Combinations no listed message has are not explored.
* Customer lookup: ambiguity and not-found change no state and are one outcome.
  Which customer a name or address matches is a text query.
* Connection pool: its queue is the library's; a statement may fail anywhere.
* Logs and counters, wire formats and schemas, prompts and the model client, the
  rendering of the pages, seeding and the demo script: write-only, textual, or
  sequential.
* The checkpointer: two calls into a library, represented by what survives `Invoke`.
* Customer memory: summaries, contact fields and the list of open tickets, which
  every refresh reads anew; a session that changes its account (`Identify` in
  `SessionLifecycle`) takes its row along, and the module has one account.
* Composition: `SessionLifecycle` has the sessions of all customers with an abstract
  turn; `Conversation` one session whose end is `EndSession`; `CustomerMemory` the
  sessions of one account with turns reduced to what they do to the work; `Console`
  calls that are atomic. What another component does is represented by the steps
  named here and no more: `Conversation` starts when the creation has merged the
  claimed work into the metadata (a turn before that is `CustomerMemory`'s *early*),
  and no claim of a later session takes its work while its turns run.

## 8. Plan

Done: the lifecycle with its sweep, turns with approvals, tools, model loop and
transcript, the claim of open work, the reference graph, the abstract agent, the
console, the launcher, and the proofs above.

1. **Composition** of `SessionLifecycle` with `Conversation`: the conversation's
   status changes as steps of the lifecycle, so that the proofs of the first
   carry over to the second.
2. **CustomerMemory** as an implementation of a sequential "claim" that is
   executed in one step, for behaviours without lapses.
