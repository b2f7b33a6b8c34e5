------------------------------ MODULE Console ------------------------------
(***************************************************************************)
(* The Streamlit console (ui/streamlit_app.py, ui/api_client.py) in       *)
(* several browser tabs, against the service.  A tab keeps a view of one  *)
(* session; its handlers are sequences of API calls, each of which may    *)
(* fail before it takes effect, or after (the client gives up waiting).   *)
(* A message that was posted goes on in the service whatever becomes of   *)
(* the tab that waits for it.                                             *)
(*                                                                        *)
(* Of the service only what a tab can see is modelled: status, owner and  *)
(* transcript of each session.  An API call is one step here; module      *)
(* SessionLifecycle has the steps inside it.  The owner of a session is a *)
(* customer or, for a guest's session, the tab whose client_id it bears,  *)
(* which therefore also stands for GUEST_ID in the tab's picker.          *)
(***************************************************************************)
EXTENDS Integers, Sequences, SequencesExt

CONSTANTS
    Tabs,       \* browser tabs, each with its own client_id
    Customers,  \* demo customers of the picker
    Sessions,   \* session ids the database may hand out
    Prompts,    \* messages that will be typed, each once
    None

ASSUME ConsoleAssumption ==
    /\ Tabs \cap Customers = {}
    /\ None \notin Sessions \cup Prompts \cup Customers \cup Tabs

VARIABLES
    status,    \* the sessions' status
    owner,     \* their customer, or the tab of the guest
    log,       \* their transcripts: <<prompt, role>>
    turn, to,  \* how far the service is with a prompt, and for which session
    pc,        \* where a tab's handler is
    selected,  \* selected_customer_id
    view,      \* what the tab shows: session, status, customer, messages, error
    goal,      \* the session a handler is about to load
    todo,      \* the sessions Start fresh has yet to close
    prompt,    \* the prompt a tab waits for
    failed,    \* history: prompts whose call failed or was cut short
    rebound,   \* history: sessions a turn bound to a customer
    detached,  \* history: tabs whose selection was reset under their view
    ended,     \* history: tabs that have ended the session they show
    cut        \* history: those of them whose run the user then interrupted

server == <<status, owner, log>>
turns  == <<turn, to>>
tab    == <<pc, goal, todo, prompt>>
own    == <<ended, cut>>
vars   == <<server, turns, tab, selected, view, failed, rebound, detached, own>>

Final    == {"escalated", "expired", "closed"}
Blank(c) == [session |-> None, status |-> "not started", customer |-> c,
             messages |-> <<>>, error |-> FALSE]

Init ==
    /\ status = [s \in Sessions |-> "absent"]
    /\ owner = [s \in Sessions |-> None]
    /\ log = [s \in Sessions |-> <<>>]
    /\ turn = [p \in Prompts |-> "unsent"]
    /\ to = [p \in Prompts |-> None]
    /\ pc = [t \in Tabs |-> "ready"]
    /\ selected = [t \in Tabs |-> t]
    /\ view = [t \in Tabs |-> Blank(t)]
    /\ goal = [t \in Tabs |-> None]
    /\ todo = [t \in Tabs |-> {}]
    /\ prompt = [t \in Tabs |-> None]
    /\ failed = {} /\ rebound = {} /\ detached = {} /\ ended = {} /\ cut = {}

Goto(t, label, g, ss) ==
    /\ pc' = [pc EXCEPT ![t] = label]
    /\ goal' = [goal EXCEPT ![t] = g]
    /\ todo' = [todo EXCEPT ![t] = ss]
    /\ UNCHANGED prompt

\* The handler is over; its except clause.
Done(t) ==
    /\ pc' = [pc EXCEPT ![t] = "ready"]
    /\ goal' = [goal EXCEPT ![t] = None]
    /\ todo' = [todo EXCEPT ![t] = {}]
    /\ prompt' = [prompt EXCEPT ![t] = None]
Caught(t) == Done(t) /\ view' = [view EXCEPT ![t].error = TRUE]

\* The tab has ended the sessions ss.
Ended(t, ss) ==
    /\ ended' = IF view[t].session \in ss THEN ended \cup {t} ELSE ended
    /\ UNCHANGED cut

\* The page of the tab is replaced.
Fresh(t) == ended' = ended \ {t} /\ cut' = cut \ {t}

-----------------------------------------------------------------------------
(* The handlers.                                                           *)

\* The active conversations of the customer, or of this browser's guest.
Listed(c) == {s \in Sessions : status[s] = "active" /\ owner[s] = c}

\* Resume the latest, or create one if there is none.
Resume(t, c) ==
    \/ Listed(c) = {} /\ Goto(t, "create", None, {})
    \/ \E s \in Listed(c) : Goto(t, "load", s, {})

SwitchKeepsView(t) ==                                                  \* mutant
    /\ pc[t] = "ready"
    /\ \E c \in (Customers \cup {t}) \ {selected[t]} :
           /\ selected' = [selected EXCEPT ![t] = c]
           /\ Resume(t, c)
    /\ detached' = detached \ {t}
    /\ UNCHANGED <<server, turns, view, failed, rebound, own>>

SwitchKeepsStatus(t) ==                                                \* mutant
    /\ pc[t] = "ready"
    /\ \E c \in (Customers \cup {t}) \ {selected[t]} :
           /\ selected' = [selected EXCEPT ![t] = c]
           /\ view' = [view EXCEPT ![t].session = None, ![t].customer = c,
                                   ![t].messages = <<>>]
           /\ Resume(t, c)
    /\ detached' = detached \ {t}
    /\ Fresh(t)
    /\ UNCHANGED <<server, turns, failed, rebound>>

\* The picker: the view is cleared before anything is loaded, its error only
\* by the loading or when the list cannot be fetched.
Switch(t) ==
    /\ pc[t] = "ready"
    /\ \E c \in (Customers \cup {t}) \ {selected[t]} :
           /\ selected' = [selected EXCEPT ![t] = c]
           /\ \/ /\ view' = [view EXCEPT ![t] = [Blank(c) EXCEPT !.error = view[t].error]]
                 /\ Resume(t, c)
              \/ /\ view' = [view EXCEPT ![t] = [Blank(c) EXCEPT !.error = TRUE]]
                 /\ Done(t)
    /\ detached' = detached \ {t}
    /\ Fresh(t)
    /\ UNCHANGED <<server, turns, failed, rebound>>

\* "Open / resume latest", or "Start fresh conversation", which first closes
\* what is listed.
Open(t) ==
    /\ pc[t] = "ready"
    /\ \/ Resume(t, selected[t]) /\ UNCHANGED view
       \/ Goto(t, "fresh", None, Listed(selected[t])) /\ UNCHANGED view
       \/ Caught(t)
    /\ UNCHANGED <<server, turns, selected, failed, rebound, detached, own>>

\* POST /sessions/{id}/close asks for no particular status.
Close(t, s) == status' = [status EXCEPT ![s] = "closed"] /\ Ended(t, {s})

CloseOne(t, s) ==
    /\ pc[t] = "fresh"
    /\ s \in todo[t]
    /\ Close(t, s)
    /\ \/ Goto(t, "fresh", None, todo[t] \ {s}) /\ UNCHANGED view
       \/ Caught(t)
    /\ UNCHANGED <<owner, log, turns, selected, failed, rebound, detached>>

\* A session for a customer supersedes the customer's active ones.
Create(t) ==
    /\ \/ pc[t] = "create"
       \/ pc[t] = "fresh" /\ todo[t] = {}
    /\ \E s \in Sessions :
           LET old == IF selected[t] = t THEN {} ELSE Listed(selected[t]) IN
           /\ status[s] = "absent"
           /\ status' = [o \in Sessions |-> IF o = s THEN "active"
                                            ELSE IF o \in old THEN "closed" ELSE status[o]]
           /\ Ended(t, old)
           /\ owner' = [owner EXCEPT ![s] = selected[t]]
           /\ \/ Goto(t, "load", s, {}) /\ UNCHANGED view
              \/ Caught(t)
    /\ UNCHANGED <<log, turns, selected, failed, rebound, detached>>

Opened(t, v) ==
    /\ pc[t] = "load"
    /\ view' = [view EXCEPT ![t] = v]
    /\ Done(t)
    /\ IF goal[t] = view[t].session THEN UNCHANGED <<detached, own>>
       ELSE detached' = detached \ {t} /\ Fresh(t)
    /\ UNCHANGED <<server, turns, selected, failed, rebound>>

\* What GET /sessions/{id} answers, as the page would show it.
Detail(s) == [session |-> s, status |-> status[s], customer |-> owner[s],
              messages |-> log[s], error |-> FALSE]

LoadAppends(t) ==                                                      \* mutant
    Opened(t, [Detail(goal[t]) EXCEPT !.messages = view[t].messages \o @])

LoadKeepsStatus(t) ==                                                  \* mutant
    Opened(t, [Detail(goal[t]) EXCEPT !.status = "active"])

\* _load_conversation replaces every part of the view, and the error.
Load(t) == Opened(t, Detail(goal[t]))

\* A conversation of the customer's history, as the sidebar last listed it.
OpenHistory(t) ==
    /\ pc[t] = "ready"
    /\ selected[t] # t
    /\ \E s \in Sessions : /\ owner[s] = selected[t] \/ s \in rebound
                           /\ Goto(t, "load", s, {})
    /\ UNCHANGED <<server, turns, selected, view, failed, rebound, detached, own>>

EndUnseen(t) ==                                                        \* mutant
    /\ pc[t] = "ready"
    /\ view[t].status = "active"
    /\ Close(t, view[t].session)
    /\ Done(t)
    /\ UNCHANGED <<owner, log, turns, selected, view, failed, rebound, detached>>

\* "End conversation": the session is closed, then the view is reloaded.
End(t) ==
    /\ pc[t] = "ready"
    /\ view[t].status = "active"
    /\ Close(t, view[t].session)
    /\ \/ Goto(t, "load", view[t].session, {}) /\ UNCHANGED view
       \/ Caught(t)
    /\ UNCHANGED <<owner, log, turns, selected, failed, rebound, detached>>

\* A call does not reach the service, or its answer does not reach the tab.
CallFails(t) ==
    /\ pc[t] \in {"fresh", "create", "load"}
    /\ Caught(t)
    /\ UNCHANGED <<server, turns, selected, failed, rebound, detached, own>>

\* The user touches another widget while the tab waits for a call.  Streamlit
\* ends the run at its next access to st.session_state: what the calls so far
\* did stands, the page stays as it is, and no error is shown.
CutShort(t) ==
    /\ pc[t] \in {"fresh", "create", "load"}
    /\ Done(t)
    /\ cut' = IF t \in ended THEN cut \cup {t} ELSE cut
    /\ UNCHANGED <<server, turns, selected, view, failed, rebound, detached, ended>>

\* The sidebar fetches the customers anew.  Without them the picker falls back
\* to Guest, and the conversation stays on the page.
PickerFallsBack(t) ==
    /\ pc[t] = "ready"
    /\ selected[t] # t
    /\ selected' = [selected EXCEPT ![t] = t]
    /\ detached' = detached \cup {t}
    /\ view' = [view EXCEPT ![t].error = TRUE] \/ UNCHANGED view
    /\ UNCHANGED <<server, turns, tab, failed, rebound, own>>

-----------------------------------------------------------------------------
(* The chat input.                                                         *)

\* The prompt is shown at once and posted.
Send(t, p) ==
    /\ pc[t] = "ready"
    /\ view[t].status = "active"
    /\ turn[p] = "unsent"
    /\ turn' = [turn EXCEPT ![p] = "posted"]
    /\ to' = [to EXCEPT ![p] = view[t].session]
    /\ view' = [view EXCEPT ![t].messages = Append(@, <<p, "customer">>)]
    /\ prompt' = [prompt EXCEPT ![t] = p]
    /\ pc' = [pc EXCEPT ![t] = "await"]
    /\ UNCHANGED <<server, goal, todo, selected, failed, rebound, detached, own>>

\* The reply is shown, and a handoff; then the metadata is fetched.  An error
\* of that call is in no try block: it ends the script run, and the error shown
\* stays what it was.
Receive(t) ==
    LET p == prompt[t] IN
    /\ pc[t] = "await"
    /\ turn[p] \in {"answered", "handed off"}
    /\ \E kept \in {view[t].error, FALSE} :
           view' = [view EXCEPT ![t].messages = Append(@, <<p, "agent">>),
                                ![t].status = IF turn[p] = "handed off" THEN "escalated" ELSE @,
                                ![t].error = kept]
    /\ Done(t)
    /\ UNCHANGED <<server, turns, selected, failed, rebound, detached, own>>

\* A 409, a 500, no connection, or sixty seconds are over - at any time, since
\* the service does not notice that nobody waits.  If the user has touched
\* another widget meanwhile, Streamlit ends the run and no error is shown.
SendFails(t) ==
    /\ pc[t] = "await"
    /\ \/ Caught(t)
       \/ Done(t) /\ UNCHANGED view
    /\ failed' = failed \cup {prompt[t]}
    /\ UNCHANGED <<server, turns, selected, rebound, detached, own>>

-----------------------------------------------------------------------------
(* The service.  A turn that is refused or breaks stays where it is.       *)

Accept(p) ==
    /\ turn[p] = "posted"
    /\ status[to[p]] = "active"
    /\ turn' = [turn EXCEPT ![p] = "asked"]
    /\ log' = [log EXCEPT ![to[p]] = Append(@, <<p, "customer">>)]
    /\ UNCHANGED <<status, owner, to, tab, selected, view, failed, rebound, detached, own>>

\* The turn replies; it may hand the session off or bind it to a customer.
Answer(p) ==
    /\ turn[p] = "asked"
    /\ log' = [log EXCEPT ![to[p]] = Append(@, <<p, "agent">>)]
    /\ \/ /\ turn' = [turn EXCEPT ![p] = "handed off"]
          /\ status' = [status EXCEPT ![to[p]] = "escalated"]
          /\ UNCHANGED <<owner, rebound>>
       \/ /\ turn' = [turn EXCEPT ![p] = "answered"]
          /\ \/ UNCHANGED <<owner, rebound>>
             \/ \E c \in Customers : /\ owner' = [owner EXCEPT ![to[p]] = c]
                                     /\ rebound' = rebound \cup {to[p]}
          /\ UNCHANGED status
    /\ UNCHANGED <<to, tab, selected, view, failed, detached, own>>

Expire(s) ==
    /\ status[s] = "active"
    /\ status' = [status EXCEPT ![s] = "expired"]
    /\ UNCHANGED <<owner, log, turns, tab, selected, view, failed, rebound, detached, own>>

Handler(t) == \/ Create(t) \/ Load(t) \/ CallFails(t) \/ CutShort(t) \/ Receive(t) \/ SendFails(t)
              \/ \E s \in Sessions : CloseOne(t, s)

User(t) == \/ Switch(t) \/ Open(t) \/ OpenHistory(t) \/ End(t) \/ PickerFallsBack(t)
           \/ \E p \in Prompts : Send(t, p)

Service == \/ \E p \in Prompts : Accept(p) \/ Answer(p)
           \/ \E s \in Sessions : Expire(s)

Next == Service \/ \E t \in Tabs : User(t) \/ Handler(t)

Spec == Init /\ [][Next]_vars

-----------------------------------------------------------------------------
\* Types; a page has a status exactly when it has a session.
TypeOK ==
    /\ status \in [Sessions -> {"absent", "active"} \cup Final]
    /\ owner \in [Sessions -> Customers \cup Tabs \cup {None}]
    /\ \A s \in Sessions : log[s] \in Seq(Prompts \X {"customer", "agent"})
    /\ turn \in [Prompts -> {"unsent", "posted", "asked", "answered", "handed off"}]
    /\ to \in [Prompts -> Sessions \cup {None}]
    /\ pc \in [Tabs -> {"ready", "fresh", "create", "load", "await"}]
    /\ \A t \in Tabs :
           /\ selected[t] \in Customers \cup {t}
           /\ view[t].session \in Sessions \cup {None}
           /\ view[t].status \in {"not started", "active"} \cup Final
           /\ view[t].session = None <=> view[t].status = "not started"
           /\ view[t].messages \in Seq(Prompts \X {"customer", "agent"})
           /\ pc[t] = "load" <=> goal[t] \in Sessions
           /\ pc[t] = "await" <=> prompt[t] \in Prompts

\* Lines of a page that are not about the prompt it waits for, or a failed one.
Settled(t, m) == m[1] \notin failed /\ m[1] # prompt[t]

\* What a page shows is in the transcript of the session it names, once and in
\* that order, except for prompts whose call failed - whatever other tabs write
\* to the same session, and whatever was shown before.
ShownIsStored ==
    \A t \in Tabs : view[t].session # None =>
        LET shown  == view[t].messages
            stored == log[view[t].session]
        IN  /\ IsInjective(stored)
            /\ \A i \in DOMAIN shown : Settled(t, shown[i]) =>
                   \E j \in DOMAIN stored :
                       /\ stored[j] = shown[i]
                       /\ \A k \in 1..(i - 1) : Settled(t, shown[k]) =>
                              \E l \in 1..(j - 1) : stored[l] = shown[k]

\* The page never shows one customer's conversation under another's name -
\* unless a turn bound the session to a customer, or the picker fell back.
ViewIsIsolated ==
    \A t \in Tabs \ detached :
        LET s == view[t].session IN
        s # None /\ s \notin rebound =>
            view[t].customer = selected[t] /\ owner[s] = selected[t]

\* A conversation once shown as ended is never offered for input again.
EndedStaysReadOnly ==
    [][\A t \in Tabs : view'[t].session = view[t].session /\ view[t].status \in Final
           => view'[t].status # "active"]_vars

\* A tab that has itself ended the conversation it shows - by its button, by
\* Start fresh, or by superseding it - shows that, or an error, unless the user
\* interrupted it; and whatever its page still lets the user send to that
\* conversation is never taken, so that it does not look as if it went on.
OwnEndIsShown ==
    \A t \in Tabs : t \in ended =>
        /\ pc[t] = "ready" /\ view[t].status = "active" => view[t].error \/ t \in cut
        /\ prompt[t] # None => turn[prompt[t]] = "posted"
=============================================================================
