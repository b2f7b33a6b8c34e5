---------------------------- MODULE ConsoleProofs ----------------------------
(***************************************************************************)
(* Proofs about Console, for any number of tabs, customers, sessions and  *)
(* prompts: whose conversation a page shows, and whether it has ended.    *)
(***************************************************************************)
EXTENDS Console, TLAPS

Statuses == {"absent", "active"} \cup Final
Lines    == Seq(Prompts \X {"customer", "agent"})
Page     == [session : Sessions \cup {None}, status : {"not started", "active"} \cup Final,
             customer : Customers \cup Tabs \cup {None}, messages : Lines, error : BOOLEAN]

ServiceTypes ==
    /\ status \in [Sessions -> Statuses]
    /\ owner \in [Sessions -> Customers \cup Tabs \cup {None}]
    /\ log \in [Sessions -> Lines]
    /\ turn \in [Prompts -> {"unsent", "posted", "asked", "answered", "handed off"}]
    /\ to \in [Prompts -> Sessions \cup {None}]
    /\ rebound \subseteq Sessions

HandlerTypes ==
    /\ pc \in [Tabs -> {"ready", "fresh", "create", "load", "await"}]
    /\ goal \in [Tabs -> Sessions \cup {None}]
    /\ todo \in [Tabs -> SUBSET Sessions]
    /\ prompt \in [Tabs -> Prompts \cup {None}]

PageTypes == selected \in [Tabs -> Customers \cup Tabs] /\ view \in [Tabs -> Page]

Types == ServiceTypes /\ HandlerTypes /\ PageTypes

\* A page and its handler are about sessions that exist, and one message.
TabState(t) ==
    /\ selected[t] \in Customers \cup {t}
    /\ view[t].session = None <=> view[t].status = "not started"
    /\ view[t].session # None => status[view[t].session] # "absent"
    /\ pc[t] = "load" <=> goal[t] # None
    /\ goal[t] # None => status[goal[t]] # "absent"
    /\ \A s \in todo[t] : status[s] # "absent"
    /\ pc[t] = "await" <=> prompt[t] # None
    /\ prompt[t] # None => turn[prompt[t]] # "unsent" /\ to[prompt[t]] = view[t].session

\* A turn is for a session that exists; a handoff has ended it.
TurnState(p) ==
    /\ turn[p] # "unsent" => to[p] # None /\ status[to[p]] # "absent"
    /\ turn[p] = "handed off" => status[to[p]] \in Final

\* What is shown as ended has ended.
EndState(t) == view[t].status \in Final => status[view[t].session] \in Final

\* What a handler is about to load is the selected customer's, or what the page
\* shows already.
OwnerState(t) ==
    /\ t \notin detached /\ view[t].session \notin rebound \cup {None} =>
           view[t].customer = selected[t] /\ owner[view[t].session] = selected[t]
    /\ pc[t] = "load" =>
           \/ goal[t] \in rebound
           \/ owner[goal[t]] = selected[t]
           \/ goal[t] = view[t].session /\ t \in detached

\* A tab that ended what it shows and still offers an input shows an error or was
\* interrupted, and what is typed there is not accepted.
OwnEndState(t) ==
    t \in ended =>
        /\ view[t].session # None /\ status[view[t].session] \in Final
        /\ pc[t] \in {"ready", "await"} /\ view[t].status = "active" =>
               view[t].error \/ t \in cut
        /\ pc[t] = "await" => turn[prompt[t]] = "posted"

\* Only a session that exists has an owner.
RowState(s) == owner[s] # None \/ s \in rebound => status[s] # "absent"

ConsoleInv ==
    /\ Types
    /\ \A t \in Tabs : TabState(t)
    /\ \A t \in Tabs : EndState(t)
    /\ \A t \in Tabs : OwnerState(t)
    /\ \A t \in Tabs : OwnEndState(t)
    /\ \A p \in Prompts : TurnState(p)
    /\ \A s \in Sessions : RowState(s)

-----------------------------------------------------------------------------
\* What no step undoes, of the sessions and of the turns.
Grows ==
    /\ \A s \in Sessions : status[s] # "absent" => status'[s] # "absent"
    /\ \A s \in Sessions : status[s] \in Final => status'[s] \in Final
    /\ \A s \in Sessions : status[s] # "absent" => s \in rebound' \/ owner'[s] = owner[s]
    /\ rebound \subseteq rebound'
    /\ \A p \in Prompts : turn[p] # "unsent" => turn'[p] # "unsent" /\ to'[p] = to[p]
    /\ \A p \in Prompts : turn[p] = "posted" /\ status[to[p]] \in Final => turn'[p] = "posted"

\* A step that leaves tab u alone.
Same(u) ==
    /\ selected'[u] = selected[u] /\ view'[u] = view[u]
    /\ pc'[u] = pc[u] /\ goal'[u] = goal[u] /\ todo'[u] = todo[u] /\ prompt'[u] = prompt[u]
    /\ u \in detached' <=> u \in detached
    /\ u \in ended' => u \in ended
    /\ u \in cut => u \in cut'

TabInv(u) == TabState(u) /\ EndState(u) /\ OwnerState(u) /\ OwnEndState(u)

LEMMA Elsewhere ==
    ASSUME ConsoleInv, Types', Grows, NEW u \in Tabs, Same(u)
    PROVE  TabInv(u)'
<1> USE ConsoleAssumption
<1>0. TabState(u) /\ EndState(u) /\ OwnerState(u) /\ OwnEndState(u) /\ Types
  BY DEF ConsoleInv
<1>v. view[u].session \in Sessions \cup {None} /\ goal[u] \in Sessions \cup {None}
      /\ prompt[u] \in Prompts \cup {None} /\ todo[u] \subseteq Sessions
  BY <1>0 DEF Types, ServiceTypes, HandlerTypes, PageTypes, Page
<1>1. TabState(u)'
  BY <1>0, <1>v DEF TabState, Same, Grows
<1>2. EndState(u)'
  <2>1. view[u].status \in Final => view[u].session \in Sessions
    BY <1>0, <1>v DEF TabState, Final
  <2> QED BY <2>1, <1>0 DEF EndState, Same, Grows
<1>3. OwnerState(u)'
  <2>1. view[u].session # None => status[view[u].session] # "absent"
    BY <1>0 DEF TabState
  <2>2. pc[u] = "load" => goal[u] \in Sessions /\ status[goal[u]] # "absent"
    BY <1>0, <1>v DEF TabState
  <2> QED BY <2>1, <2>2, <1>0, <1>v DEF OwnerState, Same, Grows
<1>4. OwnEndState(u)'
  <2>1. pc[u] = "await" => prompt[u] \in Prompts /\ to[prompt[u]] = view[u].session
    BY <1>0, <1>v DEF TabState
  <2> QED BY <2>1, <1>0, <1>v DEF OwnEndState, Same, Grows
<1> QED BY <1>1, <1>2, <1>3, <1>4 DEF TabInv

LEMMA HandlerFails ==
    ASSUME ConsoleInv, Types', Grows, NEW t \in Tabs, Done(t),
           selected'[t] = selected[t], t \in detached' <=> t \in detached,
           view'[t] = [view[t] EXCEPT !.error = TRUE],
           t \in ended' => t \in ended \/ /\ view[t].session # None
                                          /\ status'[view[t].session] \in Final
    PROVE  TabInv(t)'
<1> USE ConsoleAssumption
<1>0. TabState(t) /\ EndState(t) /\ OwnerState(t) /\ OwnEndState(t) /\ Types
  BY DEF ConsoleInv
<1>p. /\ pc'[t] = "ready" /\ goal'[t] = None /\ todo'[t] = {} /\ prompt'[t] = None
  BY <1>0 DEF Done, Types, ServiceTypes, HandlerTypes, PageTypes
<1>v. /\ view'[t].session = view[t].session /\ view'[t].status = view[t].status
      /\ view'[t].customer = view[t].customer /\ view'[t].error
      /\ view[t].session \in Sessions \cup {None}
  <2>1. view[t] \in Page
    BY <1>0 DEF Types, ServiceTypes, HandlerTypes, PageTypes
  <2> QED BY <2>1 DEF Page
<1>1. TabState(t)'
  <2>1. view[t].session # None => status'[view[t].session] # "absent"
    BY <1>0, <1>v DEF TabState, Grows
  <2> QED BY <2>1, <1>0, <1>p, <1>v DEF TabState
<1>2. EndState(t)'
  <2>1. view[t].status \in Final => view[t].session \in Sessions
    BY <1>0, <1>v DEF TabState, Final
  <2> QED BY <2>1, <1>0, <1>v DEF EndState, Grows
<1>3. OwnerState(t)'
  <2>1. view[t].session # None => status[view[t].session] # "absent"
    BY <1>0 DEF TabState
  <2> QED BY <2>1, <1>0, <1>v, <1>p DEF OwnerState, Grows
<1>4. OwnEndState(t)'
  BY <1>0, <1>v, <1>p DEF OwnEndState, Grows
<1> QED BY <1>1, <1>2, <1>3, <1>4 DEF TabInv

LEMMA HandlerGoesOn ==
    ASSUME ConsoleInv, Types', Grows, NEW t \in Tabs, pc[t] # "await",
           NEW label \in {"fresh", "create", "load"}, NEW g \in Sessions \cup {None}, NEW ss,
           Goto(t, label, g, ss), \A s \in ss : s \in Sessions /\ status'[s] # "absent",
           label = "load" <=> g # None, g # None => status'[g] # "absent",
           selected'[t] = selected[t], t \in detached' <=> t \in detached, view'[t] = view[t],
           t \in ended' => t \in ended \/ /\ view[t].session # None
                                          /\ status'[view[t].session] \in Final,
           g # None => \/ g \in rebound'
                       \/ owner'[g] = selected[t]
                       \/ g = view[t].session /\ t \in detached
    PROVE  TabInv(t)'
<1> USE ConsoleAssumption
<1>0. TabState(t) /\ EndState(t) /\ OwnerState(t) /\ OwnEndState(t) /\ Types
  BY DEF ConsoleInv
<1>p. pc'[t] = label /\ goal'[t] = g /\ todo'[t] = ss /\ prompt'[t] = None
  <2>1. prompt[t] = None
    BY <1>0 DEF TabState
  <2>2. HandlerTypes
    BY <1>0 DEF Types, ServiceTypes, HandlerTypes, PageTypes
  <2> QED BY <2>1, <2>2 DEF Goto, HandlerTypes
<1>v. view[t].session \in Sessions \cup {None}
  BY <1>0 DEF Types, ServiceTypes, HandlerTypes, PageTypes, Page
<1>1. TabState(t)'
  <2>1. selected'[t] \in Customers \cup {t} /\ (view'[t].session = None <=> view'[t].status = "not started")
    BY <1>0 DEF TabState
  <2>2. view'[t].session # None => status'[view'[t].session] # "absent"
    BY <1>0, <1>v DEF TabState, Grows
  <2>3. (pc'[t] = "load" <=> goal'[t] # None) /\ (goal'[t] # None => status'[goal'[t]] # "absent")
    BY <1>p
  <2>4. \A s \in todo'[t] : status'[s] # "absent"
    BY <1>p
  <2>5. /\ pc'[t] = "await" <=> prompt'[t] # None
        /\ prompt'[t] # None => turn'[prompt'[t]] # "unsent" /\ to'[prompt'[t]] = view'[t].session
    BY <1>p
  <2> QED BY <2>1, <2>2, <2>3, <2>4, <2>5 DEF TabState
<1>2. EndState(t)'
  <2>1. view[t].status \in Final => view[t].session \in Sessions
    BY <1>0, <1>v DEF TabState, Final
  <2> QED BY <2>1, <1>0, <1>v DEF EndState, Grows
<1>3. OwnerState(t)'
  <2>1. view[t].session # None => status[view[t].session] # "absent"
    BY <1>0 DEF TabState
  <2> QED BY <2>1, <1>0, <1>v, <1>p DEF OwnerState, Grows
<1>4. OwnEndState(t)'
  BY <1>0, <1>v, <1>p DEF OwnEndState, Grows
<1> QED BY <1>1, <1>2, <1>3, <1>4 DEF TabInv

\* Steps that change nothing of the turns, and no row that exists but to end it.
LEMMA TurnsStay ==
    ASSUME ConsoleInv, Types', Grows, UNCHANGED turns, NEW p \in Prompts
    PROVE  TurnState(p)'
<1>1. TurnState(p) /\ to[p] \in Sessions \cup {None}
  BY DEF ConsoleInv, Types, ServiceTypes
<1> QED BY <1>1, ConsoleAssumption DEF TurnState, turns, Grows

LEMMA RowsStay ==
    ASSUME ConsoleInv, Types', Grows, UNCHANGED <<owner, rebound>>, NEW s \in Sessions
    PROVE  RowState(s)'
BY DEF ConsoleInv, RowState, Grows

-----------------------------------------------------------------------------
(* One lemma per action.                                                   *)

\* A step of tab t: the other tabs are as they were.
LEMMA StepOfTab ==
    ASSUME ConsoleInv, Types', Grows, UNCHANGED <<turns, owner, rebound>>,
           NEW t \in Tabs, TabInv(t)', \A u \in Tabs \ {t} : Same(u)
    PROVE  ConsoleInv'
<1>1. ASSUME NEW u \in Tabs PROVE TabInv(u)'
  BY Elsewhere
<1>2. ASSUME NEW p \in Prompts PROVE TurnState(p)'
  BY TurnsStay
<1>3. ASSUME NEW s \in Sessions PROVE RowState(s)'
  BY RowsStay
<1> QED BY <1>1, <1>2, <1>3 DEF ConsoleInv, TabInv

LEMMA LineAdded ==
    ASSUME NEW ls \in Lines, NEW p \in Prompts, NEW role \in {"customer", "agent"}
    PROVE  Append(ls, <<p, role>>) \in Lines
<1> DEFINE Line == Prompts \X {"customer", "agent"}
<1>1. <<p, role>> \in Line /\ ls \in Seq(Line)
  BY DEF Lines
<1> HIDE DEF Line
<1>2. Append(ls, <<p, role>>) \in Seq(Line)
  BY <1>1
<1> QED BY <1>2 DEF Line, Lines

LEMMA InitState == Init => ConsoleInv
<1> SUFFICES ASSUME Init PROVE ConsoleInv
  OBVIOUS
<1> USE ConsoleAssumption
<1>1. Types
  <2>1. <<>> \in Lines
    BY DEF Lines
  <2> QED BY <2>1 DEF Init, Types, ServiceTypes, HandlerTypes, PageTypes, Page, Blank, Statuses
<1>2. ASSUME NEW t \in Tabs PROVE TabState(t) /\ EndState(t) /\ OwnerState(t) /\ OwnEndState(t)
  BY <1>2 DEF Init, Blank, TabState, EndState, OwnerState, OwnEndState, Final
<1>3. ASSUME NEW p \in Prompts PROVE TurnState(p)
  BY <1>3 DEF Init, TurnState
<1>4. ASSUME NEW s \in Sessions PROVE RowState(s)
  BY <1>4 DEF Init, RowState
<1> QED BY <1>1, <1>2, <1>3, <1>4 DEF ConsoleInv

LEMMA HandlerIsTyped ==
    ASSUME Types, NEW t \in Tabs,
           \/ Done(t)
           \/ \E label \in {"fresh", "create", "load"}, g \in Sessions \cup {None},
                 ss \in SUBSET Sessions : Goto(t, label, g, ss)
    PROVE  HandlerTypes'
<1>1. HandlerTypes
  BY DEF Types, ServiceTypes, HandlerTypes, PageTypes
<1>2. CASE Done(t)
  BY <1>1, <1>2 DEF Done, HandlerTypes
<1>3. ASSUME NEW label \in {"fresh", "create", "load"}, NEW g \in Sessions \cup {None},
             NEW ss \in SUBSET Sessions, Goto(t, label, g, ss)
      PROVE  HandlerTypes'
  BY <1>1, <1>3 DEF Goto, HandlerTypes
<1> QED BY <1>2, <1>3

LEMMA PageIsTyped ==
    ASSUME Types, NEW t \in Tabs, NEW v \in Page, view' = [view EXCEPT ![t] = v],
           UNCHANGED selected
    PROVE  PageTypes'
BY DEF Types, ServiceTypes, HandlerTypes, PageTypes

LEMMA ErrorIsTyped ==
    ASSUME Types, NEW t \in Tabs, view' = [view EXCEPT ![t].error = TRUE], UNCHANGED selected
    PROVE  PageTypes'
<1>1. view[t] \in Page
  BY DEF Types, ServiceTypes, HandlerTypes, PageTypes
<1>2. [view[t] EXCEPT !.error = TRUE] \in Page
  BY <1>1 DEF Page
<1> QED BY <1>2, PageIsTyped

LEMMA OpenHistoryStep ==
    ASSUME ConsoleInv, NEW t \in Tabs, OpenHistory(t)
    PROVE  ConsoleInv'
<1> USE ConsoleAssumption
<1>0. Types /\ TabState(t)
  BY DEF ConsoleInv
<1>1. PICK s \in Sessions : (owner[s] = selected[t] \/ s \in rebound) /\ Goto(t, "load", s, {})
  BY DEF OpenHistory
<1>2. Types'
  BY <1>0, <1>1 DEF Types, ServiceTypes, HandlerTypes, PageTypes, OpenHistory, Goto,
    server, turns
<1>3. Grows
  BY DEF OpenHistory, Grows, server, turns
<1>4. selected[t] # None
  <2>1. selected[t] \in Customers \cup Tabs
    BY <1>0 DEF Types, PageTypes
  <2> QED BY <2>1
<1>7. status[s] # "absent"
  BY <1>1, <1>4 DEF ConsoleInv, RowState
<1>5. TabInv(t)'
  BY <1>1, <1>2, <1>3, <1>7, HandlerGoesOn DEF OpenHistory, server, turns, own, Fresh
<1>6. \A u \in Tabs \ {t} : Same(u)
  BY <1>0, <1>1 DEF OpenHistory, Goto, Same, Types, ServiceTypes, HandlerTypes, PageTypes,
      own, Fresh
<1> QED BY <1>2, <1>3, <1>5, <1>6, StepOfTab DEF OpenHistory, server

LEMMA CallFailsStep ==
    ASSUME ConsoleInv, NEW t \in Tabs, CallFails(t)
    PROVE  ConsoleInv'
<1> USE ConsoleAssumption
<1>0. Types
  BY DEF ConsoleInv
<1>2. Types'
  <2>1. HandlerTypes' /\ PageTypes'
    BY <1>0, HandlerIsTyped, ErrorIsTyped DEF CallFails, Caught
  <2> QED BY <1>0, <2>1 DEF Types, ServiceTypes, HandlerTypes, PageTypes, CallFails,
    server, turns
<1>3. Grows
  BY DEF CallFails, Grows, server, turns
<1>5. TabInv(t)'
  BY <1>0, <1>2, <1>3, HandlerFails DEF CallFails, Caught, Types, ServiceTypes,
    HandlerTypes, PageTypes,
      own, Fresh
<1>6. \A u \in Tabs \ {t} : Same(u)
  BY <1>0 DEF CallFails, Caught, Done, Same, Types, ServiceTypes, HandlerTypes, PageTypes,
      own, Fresh
<1> QED BY <1>2, <1>3, <1>5, <1>6, StepOfTab DEF CallFails, server

LEMMA CutShortStep ==
    ASSUME ConsoleInv, NEW t \in Tabs, CutShort(t)
    PROVE  ConsoleInv'
<1> USE ConsoleAssumption
<1>0. /\ Types /\ TabState(t) /\ EndState(t) /\ OwnerState(t) /\ OwnEndState(t)
      /\ pc[t] \in {"fresh", "create", "load"} /\ Done(t)
  BY DEF ConsoleInv, CutShort
<1>1. Grows
  BY DEF CutShort, Grows, server, turns
<1>s. /\ UNCHANGED <<server, turns, selected, view, rebound, detached, ended>>
      /\ t \in ended => t \in cut'
      /\ cut \subseteq cut'
  BY DEF CutShort
<1>2. Types'
  <2>1. HandlerTypes'
    BY <1>0, HandlerIsTyped
  <2> QED BY <1>0, <1>s, <2>1 DEF Types, ServiceTypes, PageTypes, server, turns
<1>4. TabInv(t)'
  <2>1. pc'[t] = "ready" /\ goal'[t] = None /\ todo'[t] = {} /\ prompt'[t] = None
    BY <1>0 DEF Done, Types, HandlerTypes
  <2>2. TabState(t)'
    BY <1>0, <1>s, <2>1 DEF TabState, server, turns
  <2>3. EndState(t)' /\ OwnerState(t)'
    BY <1>0, <1>s, <2>1 DEF EndState, OwnerState, server, turns
  <2>4. OwnEndState(t)'
    BY <1>0, <1>s, <2>1 DEF OwnEndState, server, turns
  <2> QED BY <2>2, <2>3, <2>4 DEF TabInv
<1>5. \A u \in Tabs \ {t} : Same(u)
  BY <1>0, <1>s DEF Done, Same, Types, HandlerTypes, PageTypes
<1> QED BY <1>1, <1>2, <1>4, <1>5, <1>s, StepOfTab DEF server

LEMMA OpenStep ==
    ASSUME ConsoleInv, NEW t \in Tabs, Open(t)
    PROVE  ConsoleInv'
<1> USE ConsoleAssumption
<1>0. Types /\ TabState(t) /\ pc[t] = "ready"
  BY DEF ConsoleInv, Open
<1>1. Grows
  BY DEF Open, Grows, server, turns
<1>2. ServiceTypes' /\ PageTypes'
  <2>1. PageTypes'
    BY <1>0, ErrorIsTyped DEF Types, PageTypes, Open, Resume, Caught
  <2> QED BY <2>1, <1>0 DEF Types, ServiceTypes, Open, server, turns
<1>3. CASE Caught(t)
  <2>1. Types'
    BY <1>0, <1>2, <1>3, HandlerIsTyped DEF Types, HandlerTypes, Caught
  <2>2. TabInv(t)'
    BY <1>0, <1>1, <1>3, <2>1, HandlerFails DEF Open, Caught, Types, ServiceTypes,
      HandlerTypes, PageTypes,
      own, Fresh
  <2>3. \A u \in Tabs \ {t} : Same(u)
    BY <1>0, <1>3 DEF Open, Caught, Done, Same, Types, ServiceTypes, HandlerTypes, PageTypes,
      own, Fresh
  <2> QED BY <1>1, <2>1, <2>2, <2>3, StepOfTab DEF Open, server
<1>4. ASSUME NEW label \in {"fresh", "create", "load"}, NEW g \in Sessions \cup {None},
             NEW ss \in SUBSET Sessions, Goto(t, label, g, ss), UNCHANGED view,
             \A s \in ss : status[s] # "absent", label = "load" <=> g # None,
             g # None => status[g] # "absent" /\ owner[g] = selected[t]
      PROVE  ConsoleInv'
  <2>1. Types'
    <3>1. HandlerTypes'
      BY <1>0, <1>4, HandlerIsTyped
    <3> QED BY <3>1, <1>2 DEF Types, HandlerTypes
  <2>2. TabInv(t)'
    BY <1>0, <1>1, <1>4, <2>1, HandlerGoesOn DEF Open, server, own, Fresh
  <2>3. \A u \in Tabs \ {t} : Same(u)
    BY <1>0, <1>4 DEF Open, Goto, Same, Types, ServiceTypes, HandlerTypes, PageTypes,
      own, Fresh
  <2> QED BY <1>1, <2>1, <2>2, <2>3, StepOfTab DEF Open, server
<1>5. CASE Resume(t, selected[t]) /\ UNCHANGED view
  BY <1>4, <1>5 DEF Resume, Listed
<1>6. CASE Goto(t, "fresh", None, Listed(selected[t])) /\ UNCHANGED view
  BY <1>4, <1>6 DEF Listed
<1> QED BY <1>3, <1>5, <1>6 DEF Open

\* A step that ends sessions, and then goes on or fails.
LEMMA Closing ==
    ASSUME ConsoleInv, NEW t \in Tabs, pc[t] \notin {"await"},
           UNCHANGED <<turns, log, selected, failed, rebound, detached>>,
           status' \in [Sessions -> Statuses],
           owner' \in [Sessions -> Customers \cup Tabs \cup {None}],
           Grows,
           \A s \in Sessions : RowState(s)',
           cut' = cut,
           \A u \in Tabs \ {t} : u \in ended' => u \in ended,
           t \in ended' => t \in ended \/ /\ view[t].session # None
                                          /\ status'[view[t].session] \in Final,
           \/ Caught(t)
           \/ \E label \in {"fresh", "create", "load"}, g \in Sessions \cup {None},
                 ss \in SUBSET Sessions :
                  /\ Goto(t, label, g, ss) /\ UNCHANGED view
                  /\ \A s \in ss : status'[s] # "absent"
                  /\ label = "load" <=> g # None
                  /\ g # None => /\ status'[g] # "absent"
                                 /\ \/ g \in rebound
                                    \/ owner'[g] = selected[t]
                                    \/ g = view[t].session /\ t \in detached
    PROVE  ConsoleInv'
<1> USE ConsoleAssumption
<1>0. Types /\ TabState(t)
  BY DEF ConsoleInv
<1>1. Types'
  <2>1. HandlerTypes'
    BY <1>0, HandlerIsTyped DEF Caught
  <2>2. PageTypes'
    BY <1>0, ErrorIsTyped DEF Caught, Types, PageTypes
  <2> QED BY <2>1, <2>2, <1>0 DEF Types, ServiceTypes, turns
<1>2. TabInv(t)'
  <2>1. CASE Caught(t)
    BY <1>0, <1>1, <2>1, HandlerFails DEF Caught, Types, PageTypes
  <2>2. ASSUME NEW label \in {"fresh", "create", "load"}, NEW g \in Sessions \cup {None},
               NEW ss \in SUBSET Sessions, Goto(t, label, g, ss), UNCHANGED view,
               \A s \in ss : status'[s] # "absent",
               label = "load" <=> g # None,
               g # None => /\ status'[g] # "absent"
                           /\ \/ g \in rebound
                              \/ owner'[g] = selected[t]
                              \/ g = view[t].session /\ t \in detached
        PROVE  TabInv(t)'
    BY <1>1, <2>2, HandlerGoesOn
  <2> QED BY <2>1, <2>2
<1>3. ASSUME NEW u \in Tabs PROVE TabInv(u)'
  <2>1. CASE u # t
    <3>1. Same(u)
      BY <1>0, <1>3, <2>1 DEF Same, Caught, Done, Goto, Types, ServiceTypes, HandlerTypes,
        PageTypes, own, Fresh
    <3> QED BY <3>1, <1>1, Elsewhere
  <2> QED BY <2>1, <1>2
<1>4. ASSUME NEW p \in Prompts PROVE TurnState(p)'
  BY <1>1, TurnsStay
<1> QED BY <1>1, <1>3, <1>4 DEF ConsoleInv, TabInv

LEMMA CloseOneStep ==
    ASSUME ConsoleInv, NEW t \in Tabs, NEW s \in Sessions, CloseOne(t, s)
    PROVE  ConsoleInv'
<1>0. Types /\ TabState(t) /\ RowState(s) /\ s \in todo[t] /\ status[s] # "absent"
  BY DEF ConsoleInv, CloseOne, TabState
<1>1. status' = [status EXCEPT ![s] = "closed"]
  BY DEF CloseOne, Close
<1>2. /\ status' \in [Sessions -> Statuses]
      /\ owner' \in [Sessions -> Customers \cup Tabs \cup {None}]
  BY <1>0, <1>1 DEF Types, ServiceTypes, Statuses, Final, CloseOne
<1>3. Grows
  BY <1>0, <1>1 DEF Grows, CloseOne, turns, Types, ServiceTypes, HandlerTypes, PageTypes, Final
<1>4. \A x \in Sessions : RowState(x)'
  BY <1>0, <1>1 DEF ConsoleInv, RowState, CloseOne, Types, ServiceTypes, HandlerTypes, PageTypes
<1>5. /\ \A u \in Tabs \ {t} : u \in ended' => u \in ended
      /\ cut' = cut
      /\ t \in ended' => t \in ended \/ view[t].session = s
  BY DEF CloseOne, Close, Ended
<1>6. s # None /\ status'[s] \in Final
  BY <1>0, <1>1, ConsoleAssumption DEF Types, ServiceTypes, HandlerTypes, PageTypes, Final
<1>7. \/ Caught(t)
      \/ Goto(t, "fresh", None, todo[t] \ {s}) /\ UNCHANGED view
  BY DEF CloseOne
<1>8. todo[t] \ {s} \in SUBSET Sessions /\ \A x \in todo[t] \ {s} : status'[x] # "absent"
  BY <1>0, <1>3 DEF Types, ServiceTypes, HandlerTypes, PageTypes, TabState, Grows
<1> QED BY <1>2, <1>3, <1>4, <1>5, <1>6, <1>7, <1>8, Closing DEF CloseOne

LEMMA EndStep ==
    ASSUME ConsoleInv, NEW t \in Tabs, End(t)
    PROVE  ConsoleInv'
<1> DEFINE s == view[t].session
<1>0. Types /\ TabState(t) /\ OwnerState(t)
  BY DEF ConsoleInv
<1>s. s \in Sessions /\ s # None /\ status[s] # "absent"
  <2>1. view[t] \in Page /\ view[t].status = "active"
    BY <1>0 DEF Types, ServiceTypes, HandlerTypes, PageTypes, End
  <2> QED BY <1>0, <2>1 DEF Page, TabState
<1>1. status' = [status EXCEPT ![s] = "closed"]
  BY DEF End, Close
<1> HIDE DEF s
<1>2. /\ status' \in [Sessions -> Statuses]
      /\ owner' \in [Sessions -> Customers \cup Tabs \cup {None}]
  BY <1>0, <1>1 DEF Types, ServiceTypes, Statuses, Final, End
<1>3. Grows
  BY <1>0, <1>1, <1>s DEF Grows, End, turns, Types, ServiceTypes, HandlerTypes, PageTypes, Final
<1>4. \A x \in Sessions : RowState(x)'
  BY <1>0, <1>1 DEF ConsoleInv, RowState, End, Types, ServiceTypes, HandlerTypes, PageTypes
<1>5. /\ \A u \in Tabs \ {t} : u \in ended' => u \in ended
      /\ cut' = cut
      /\ t \in ended' => t \in ended \/ view[t].session = s
  BY DEF End, Close, Ended, s
<1>6. status'[s] \in Final
  BY <1>0, <1>1, <1>s DEF Types, ServiceTypes, HandlerTypes, PageTypes, Final
<1>7. \/ Caught(t)
      \/ Goto(t, "load", s, {}) /\ UNCHANGED view
  BY DEF End, s
<1>8. s \in rebound \/ owner'[s] = selected[t] \/ (s = view[t].session /\ t \in detached)
  BY <1>0, <1>s DEF OwnerState, End, s
<1>9. status'[s] # "absent" /\ pc[t] = "ready"
  BY <1>s, <1>3 DEF Grows, End
<1> QED BY <1>s, <1>2, <1>3, <1>4, <1>5, <1>6, <1>7, <1>8, <1>9, Closing DEF End

LEMMA CreateStep ==
    ASSUME ConsoleInv, NEW t \in Tabs, Create(t)
    PROVE  ConsoleInv'
<1> DEFINE old == IF selected[t] = t THEN {} ELSE Listed(selected[t])
<1>0. Types /\ TabState(t) /\ pc[t] # "await"
  BY DEF ConsoleInv, Create
<1>s. PICK s \in Sessions :
        /\ status[s] = "absent"
        /\ status' = [o \in Sessions |-> IF o = s THEN "active"
                                         ELSE IF o \in old THEN "closed" ELSE status[o]]
        /\ Ended(t, old)
        /\ owner' = [owner EXCEPT ![s] = selected[t]]
        /\ (Goto(t, "load", s, {}) /\ UNCHANGED view) \/ Caught(t)
  BY DEF Create
<1>o. old \subseteq Sessions /\ \A x \in old : status[x] = "active"
  BY DEF Listed
<1> HIDE DEF old
<1>1. selected[t] \in Customers \cup Tabs
  BY <1>0 DEF Types, PageTypes
<1>2. /\ status' \in [Sessions -> Statuses]
      /\ owner' \in [Sessions -> Customers \cup Tabs \cup {None}]
  BY <1>0, <1>s, <1>1 DEF Types, ServiceTypes, Statuses, Final
<1>3. Grows
  BY <1>0, <1>s, <1>o DEF Grows, Create, turns, Types, ServiceTypes, Final
<1>4. \A x \in Sessions : RowState(x)'
  BY <1>0, <1>s DEF ConsoleInv, RowState, Create, Types, ServiceTypes
<1>5. /\ \A u \in Tabs \ {t} : u \in ended' => u \in ended
      /\ cut' = cut
      /\ t \in ended' => t \in ended \/ view[t].session \in old
  BY <1>s DEF Ended
<1>6. \A x \in old : x # None /\ status'[x] \in Final
  BY <1>s, <1>o, ConsoleAssumption DEF Final
<1>7. s # None /\ status'[s] # "absent" /\ owner'[s] = selected[t]
  BY <1>0, <1>s, ConsoleAssumption DEF Types, ServiceTypes
<1> QED BY <1>0, <1>s, <1>2, <1>3, <1>4, <1>5, <1>6, <1>7, Closing DEF Create

LEMMA SwitchStep ==
    ASSUME ConsoleInv, NEW t \in Tabs, Switch(t)
    PROVE  ConsoleInv'
<1> USE ConsoleAssumption
<1>0. Types /\ TabState(t) /\ pc[t] = "ready" /\ prompt[t] = None
  BY DEF ConsoleInv, Switch, TabState
<1>1. Grows
  BY DEF Switch, Grows, server, turns
<1>c. PICK c \in (Customers \cup {t}) \ {selected[t]} :
        /\ selected' = [selected EXCEPT ![t] = c]
        /\ \/ /\ view' = [view EXCEPT ![t] = [Blank(c) EXCEPT !.error = view[t].error]]
              /\ Resume(t, c)
           \/ /\ view' = [view EXCEPT ![t] = [Blank(c) EXCEPT !.error = TRUE]]
              /\ Done(t)
  BY DEF Switch
<1>v. PICK e \in BOOLEAN : view' = [view EXCEPT ![t] = [Blank(c) EXCEPT !.error = e]]
  <2>1. view[t].error \in BOOLEAN
    BY <1>0 DEF Types, PageTypes, Page
  <2> QED BY <2>1, <1>c
<1>e. PICK label \in {"ready", "create", "load"}, g \in Sessions \cup {None} :
        /\ pc' = [pc EXCEPT ![t] = label]
        /\ goal' = [goal EXCEPT ![t] = g]
        /\ todo' = [todo EXCEPT ![t] = {}]
        /\ prompt' = [prompt EXCEPT ![t] = None]
        /\ label = "load" <=> g # None
        /\ g # None => status[g] = "active" /\ owner[g] = c
  <2>1. CASE Done(t)
    BY <2>1 DEF Done
  <2>2. prompt' = prompt => prompt' = [prompt EXCEPT ![t] = None]
    BY <1>0 DEF Types, HandlerTypes
  <2>3. CASE Resume(t, c)
    BY <2>2, <2>3 DEF Resume, Goto, Listed
  <2> QED BY <1>c, <2>1, <2>3
<1>2. Types'
  <2>1. HandlerTypes'
    BY <1>0, <1>e DEF Types, HandlerTypes
  <2>2. <<>> \in Lines
    BY DEF Lines
  <2>3. [Blank(c) EXCEPT !.error = e] \in Page
    BY <1>c, <2>2 DEF Page, Blank
  <2>4. PageTypes'
    BY <1>0, <1>c, <1>v, <2>3 DEF Types, PageTypes
  <2> QED BY <1>0, <2>1, <2>4 DEF Types, ServiceTypes, Switch, server, turns
<1>3. /\ selected'[t] = c /\ view'[t].session = None /\ view'[t].status = "not started"
      /\ pc'[t] = label /\ goal'[t] = g /\ todo'[t] = {} /\ prompt'[t] = None
      /\ t \notin ended'
  BY <1>0, <1>c, <1>v, <1>e DEF Types, ServiceTypes, HandlerTypes, PageTypes, Blank, Switch,
      own, Fresh
<1>4. TabInv(t)'
  <2>1. TabState(t)'
    BY <1>c, <1>3, <1>e DEF TabState, Switch, server, turns
  <2>2. EndState(t)' /\ OwnEndState(t)'
    BY <1>3 DEF EndState, OwnEndState, Final
  <2>3. OwnerState(t)'
    BY <1>3, <1>e DEF OwnerState, Switch, server
  <2> QED BY <2>1, <2>2, <2>3 DEF TabInv
<1>5. \A u \in Tabs \ {t} : Same(u)
  BY <1>0, <1>c, <1>v, <1>e DEF Switch, Same, Types, ServiceTypes, HandlerTypes, PageTypes,
      own, Fresh
<1> QED BY <1>1, <1>2, <1>4, <1>5, StepOfTab DEF Switch, server

LEMMA LoadStep ==
    ASSUME ConsoleInv, NEW t \in Tabs, Load(t)
    PROVE  ConsoleInv'
<1> USE ConsoleAssumption
<1> DEFINE g == goal[t]
<1>0. Types /\ TabState(t) /\ EndState(t) /\ OwnerState(t) /\ OwnEndState(t) /\ pc[t] = "load"
  BY DEF ConsoleInv, Load, Opened
<1>g. g \in Sessions /\ status[g] # "absent"
  BY <1>0 DEF Types, HandlerTypes, TabState
<1>1. Grows
  BY DEF Load, Opened, Grows, server, turns
<1>v. Detail(g) \in Page
  <2>1. status[g] \in {"active"} \cup Final /\ log[g] \in Lines
    BY <1>0, <1>g DEF Types, ServiceTypes, Statuses
  <2>2. owner[g] \in Customers \cup Tabs \cup {None}
    BY <1>0, <1>g DEF Types, ServiceTypes
  <2> QED BY <1>g, <2>1, <2>2 DEF Detail, Page
<1>2. Types'
  <2>1. HandlerTypes'
    BY <1>0, HandlerIsTyped DEF Load, Opened
  <2>2. PageTypes'
    BY <1>0, <1>v, PageIsTyped DEF Load, Opened
  <2> QED BY <1>0, <2>1, <2>2 DEF Types, ServiceTypes, Load, Opened, server, turns
<1>3. /\ view'[t].session = g /\ view'[t].status = status[g] /\ view'[t].customer = owner[g]
      /\ pc'[t] = "ready" /\ goal'[t] = None /\ todo'[t] = {} /\ prompt'[t] = None
  BY <1>0 DEF Types, ServiceTypes, HandlerTypes, PageTypes, Load, Opened, Detail, Done
<1>s. UNCHANGED <<server, turns, selected, rebound>>
  BY DEF Load, Opened
<1>d. IF g = view[t].session THEN detached' = detached /\ ended' = ended
      ELSE detached' = detached \ {t} /\ ended' = ended \ {t}
  BY DEF Load, Opened, own, Fresh
<1>5. \A u \in Tabs \ {t} : Same(u)
  BY <1>0, <1>d DEF Load, Opened, Done, Same, Types, ServiceTypes, HandlerTypes, PageTypes,
      own, Fresh
<1> HIDE DEF g
<1>4. TabInv(t)'
  <2>1. TabState(t)'
    <3>1. status[g] # "not started"
      BY <1>0, <1>g DEF Types, ServiceTypes, Statuses, Final
    <3> QED BY <1>0, <1>3, <1>g, <1>s, <3>1 DEF TabState, server
  <2>2. EndState(t)'
    BY <1>3, <1>s DEF EndState, server
  <2>3. OwnerState(t)'
    <3>1. t \notin detached' => g \in rebound \/ owner[g] = selected[t]
      BY <1>0, <1>d, <1>g DEF OwnerState, g
    <3> QED BY <3>1, <1>3, <1>s, <1>g DEF OwnerState, server
  <2>4. OwnEndState(t)'
    <3>1. t \in ended' => g = view[t].session /\ t \in ended
      BY <1>d
    <3> QED BY <3>1, <1>0, <1>3, <1>s, <1>g DEF OwnEndState, server, Final
  <2> QED BY <2>1, <2>2, <2>3, <2>4 DEF TabInv
<1> QED BY <1>1, <1>2, <1>4, <1>5, StepOfTab DEF Load, Opened, server

LEMMA PickerFallsBackStep ==
    ASSUME ConsoleInv, NEW t \in Tabs, PickerFallsBack(t)
    PROVE  ConsoleInv'
<1> USE ConsoleAssumption
<1>0. Types /\ TabState(t) /\ EndState(t) /\ OwnerState(t) /\ OwnEndState(t) /\ pc[t] = "ready"
  BY DEF ConsoleInv, PickerFallsBack
<1>1. Grows
  BY DEF PickerFallsBack, Grows, server, turns
<1>p. view[t] \in Page
  BY <1>0 DEF Types, PageTypes
<1>v. PICK w \in Page : /\ view' = [view EXCEPT ![t] = w]
                        /\ w.session = view[t].session /\ w.status = view[t].status
                        /\ view[t].error => w.error
  <2>1. CASE view' = [view EXCEPT ![t].error = TRUE]
    <3> DEFINE w == [view[t] EXCEPT !.error = TRUE]
    <3>1. w \in Page /\ w.session = view[t].session /\ w.status = view[t].status /\ w.error
      BY <1>p DEF Page
    <3> HIDE DEF w
    <3>2. view' = [view EXCEPT ![t] = w]
      BY <2>1 DEF w
    <3> QED BY <3>1, <3>2
  <2>2. CASE UNCHANGED view
    <3>1. view' = [view EXCEPT ![t] = view[t]]
      BY <2>2, <1>0 DEF Types, PageTypes
    <3> QED BY <3>1, <1>p
  <2> QED BY <2>1, <2>2 DEF PickerFallsBack
<1>2. Types'
  BY <1>0, <1>v DEF Types, ServiceTypes, HandlerTypes, PageTypes, PickerFallsBack, server,
    turns, tab
<1>3. /\ view'[t] = w /\ selected'[t] = t /\ t \in detached'
  BY <1>0, <1>v DEF Types, PageTypes, PickerFallsBack
<1>s. UNCHANGED <<server, turns, tab, rebound, own>>
  BY DEF PickerFallsBack
<1>4. TabInv(t)'
  <2>1. TabState(t)'
    BY <1>0, <1>v, <1>3, <1>s DEF TabState, server, turns, tab
  <2>2. EndState(t)'
    BY <1>0, <1>v, <1>3, <1>s DEF EndState, server
  <2>3. OwnerState(t)'
    <3>1. goal'[t] = None /\ pc'[t] = "ready"
      BY <1>0, <1>s DEF tab, TabState
    <3> QED BY <3>1, <1>3 DEF OwnerState
  <2>4. OwnEndState(t)'
    BY <1>0, <1>v, <1>3, <1>s DEF OwnEndState, server, turns, tab, own, Fresh
  <2> QED BY <2>1, <2>2, <2>3, <2>4 DEF TabInv
<1>5. \A u \in Tabs \ {t} : Same(u)
  BY <1>0, <1>v DEF PickerFallsBack, Same, Types, PageTypes, tab, own, Fresh
<1> QED BY <1>1, <1>2, <1>4, <1>5, StepOfTab DEF PickerFallsBack, server

LEMMA SendFailsStep ==
    ASSUME ConsoleInv, NEW t \in Tabs, SendFails(t)
    PROVE  ConsoleInv'
<1> USE ConsoleAssumption
<1>0. Types /\ TabState(t) /\ EndState(t) /\ OwnerState(t) /\ OwnEndState(t) /\ pc[t] = "await"
  BY DEF ConsoleInv, SendFails
<1>1. Grows
  BY DEF SendFails, Grows, server, turns
<1>s. UNCHANGED <<server, turns, selected, rebound, detached, own>>
  BY DEF SendFails
<1>d. Done(t) /\ (UNCHANGED view \/ view' = [view EXCEPT ![t].error = TRUE])
  BY DEF SendFails, Caught
<1>2. Types'
  <2>1. HandlerTypes'
    BY <1>0, <1>d, HandlerIsTyped
  <2>2. PageTypes'
    BY <1>0, <1>d, <1>s, ErrorIsTyped DEF Types, PageTypes
  <2> QED BY <1>0, <1>s, <2>1, <2>2 DEF Types, ServiceTypes, server, turns
<1>4. TabInv(t)'
  <2>1. CASE view' = [view EXCEPT ![t].error = TRUE]
    BY <1>0, <1>1, <1>2, <1>d, <1>s, <2>1, HandlerFails DEF Types, PageTypes,
      own, Fresh
  <2>2. CASE UNCHANGED view
    <3>1. pc'[t] = "ready" /\ goal'[t] = None /\ todo'[t] = {} /\ prompt'[t] = None
      BY <1>0, <1>d DEF Done, Types, HandlerTypes
    <3>2. TabState(t)'
      BY <1>0, <1>s, <2>2, <3>1 DEF TabState, server, turns
    <3>3. EndState(t)' /\ OwnerState(t)' /\ OwnEndState(t)'
      BY <1>0, <1>s, <2>2, <3>1 DEF EndState, OwnerState, OwnEndState, server, turns, own, Fresh
    <3> QED BY <3>2, <3>3 DEF TabInv
  <2> QED BY <1>d, <2>1, <2>2
<1>5. \A u \in Tabs \ {t} : Same(u)
  BY <1>0, <1>d, <1>s DEF Done, Same, Types, HandlerTypes, PageTypes,
      own, Fresh
<1> QED BY <1>1, <1>2, <1>4, <1>5, <1>s, StepOfTab DEF server

LEMMA ReceiveStep ==
    ASSUME ConsoleInv, NEW t \in Tabs, Receive(t)
    PROVE  ConsoleInv'
<1> USE ConsoleAssumption
<1> DEFINE p == prompt[t]
<1>0. /\ Types /\ TabState(t) /\ EndState(t) /\ OwnerState(t) /\ OwnEndState(t)
      /\ pc[t] = "await" /\ turn[p] \in {"answered", "handed off"}
  BY DEF ConsoleInv, Receive
<1>p. /\ p \in Prompts /\ to[p] = view[t].session /\ view[t].session # None
      /\ turn[p] = "handed off" => status[view[t].session] \in Final
  <2>1. p \in Prompts
    BY <1>0 DEF TabState, Types, HandlerTypes
  <2>2. TurnState(p)
    BY <2>1 DEF ConsoleInv
  <2> QED BY <1>0, <2>1, <2>2 DEF TurnState, TabState
<1>1. Grows
  BY DEF Receive, Grows, server, turns
<1>s. UNCHANGED <<server, turns, selected, rebound, detached, own>> /\ Done(t)
  BY DEF Receive
<1>w. PICK kept \in {view[t].error, FALSE} :
        view' = [view EXCEPT ![t].messages = Append(@, <<p, "agent">>),
                             ![t].status = IF turn[p] = "handed off" THEN "escalated" ELSE @,
                             ![t].error = kept]
  BY DEF Receive
<1>g. view[t] \in Page
  BY <1>0 DEF Types, PageTypes
<1>v. PICK w \in Page :
        /\ view' = [view EXCEPT ![t] = w]
        /\ w.session = view[t].session /\ w.customer = view[t].customer
        /\ w.status = IF turn[p] = "handed off" THEN "escalated" ELSE view[t].status
  <2> DEFINE w == [view[t] EXCEPT !.messages = Append(@, <<p, "agent">>),
                      !.status = IF turn[p] = "handed off" THEN "escalated" ELSE @,
                      !.error = kept]
  <2>1. Append(view[t].messages, <<p, "agent">>) \in Lines
    BY <1>g, <1>p, LineAdded DEF Page
  <2>2. w \in Page
    BY <1>g, <2>1 DEF Page, Final
  <2>3. /\ w.session = view[t].session /\ w.customer = view[t].customer
        /\ w.status = IF turn[p] = "handed off" THEN "escalated" ELSE view[t].status
    BY <1>g DEF Page
  <2>4. view' = [view EXCEPT ![t] = w]
    BY <1>w
  <2> QED BY <2>2, <2>3, <2>4
<1>2. Types'
  <2>1. HandlerTypes'
    BY <1>0, <1>s, HandlerIsTyped
  <2>2. PageTypes'
    BY <1>0, <1>v, <1>s, PageIsTyped
  <2> QED BY <1>0, <1>s, <2>1, <2>2 DEF Types, ServiceTypes, server, turns
<1>3. /\ pc'[t] = "ready" /\ goal'[t] = None /\ todo'[t] = {} /\ prompt'[t] = None
      /\ view'[t] = w
  BY <1>0, <1>s, <1>v DEF Done, Types, HandlerTypes, PageTypes
<1> HIDE DEF p
<1>4. TabInv(t)'
  <2>1. TabState(t)'
    BY <1>0, <1>3, <1>s, <1>v, <1>p DEF TabState, server, turns
  <2>2. EndState(t)'
    BY <1>0, <1>3, <1>s, <1>v, <1>p DEF EndState, server
  <2>3. OwnerState(t)'
    BY <1>0, <1>3, <1>s, <1>v DEF OwnerState, server
  <2>4. OwnEndState(t)'
    <3>1. t \notin ended
      BY <1>0 DEF OwnEndState, p
    <3> QED BY <3>1, <1>s DEF OwnEndState, own, Fresh
  <2> QED BY <2>1, <2>2, <2>3, <2>4 DEF TabInv
<1>5. \A u \in Tabs \ {t} : Same(u)
  BY <1>0, <1>v, <1>s DEF Done, Same, Types, HandlerTypes, PageTypes,
      own, Fresh
<1> QED BY <1>1, <1>2, <1>4, <1>5, <1>s, StepOfTab DEF server

LEMMA SendStep ==
    ASSUME ConsoleInv, NEW t \in Tabs, NEW p \in Prompts, Send(t, p)
    PROVE  ConsoleInv'
<1> USE ConsoleAssumption
<1>0. /\ Types /\ TabState(t) /\ EndState(t) /\ OwnerState(t) /\ OwnEndState(t)
      /\ pc[t] = "ready" /\ view[t].status = "active" /\ turn[p] = "unsent"
  BY DEF ConsoleInv, Send
<1>g. view[t] \in Page /\ view[t].session \in Sessions /\ status[view[t].session] # "absent"
  <2>1. view[t] \in Page
    BY <1>0 DEF Types, PageTypes
  <2> QED BY <1>0, <2>1 DEF TabState, Page
<1>s. /\ UNCHANGED <<server, goal, todo, selected, rebound, detached, own>>
      /\ turn' = [turn EXCEPT ![p] = "posted"]
      /\ to' = [to EXCEPT ![p] = view[t].session]
      /\ prompt' = [prompt EXCEPT ![t] = p]
      /\ pc' = [pc EXCEPT ![t] = "await"]
  BY DEF Send
<1>1. Grows
  BY <1>0, <1>s DEF Grows, server, Types, ServiceTypes
<1>v. PICK w \in Page :
        /\ view' = [view EXCEPT ![t] = w]
        /\ w.session = view[t].session /\ w.customer = view[t].customer
        /\ w.status = view[t].status /\ w.error = view[t].error
  <2> DEFINE w == [view[t] EXCEPT !.messages = Append(@, <<p, "customer">>)]
  <2>1. Append(view[t].messages, <<p, "customer">>) \in Lines
    BY <1>g, LineAdded DEF Page
  <2>2. w \in Page
    BY <1>g, <2>1 DEF Page
  <2>3. /\ w.session = view[t].session /\ w.customer = view[t].customer
        /\ w.status = view[t].status /\ w.error = view[t].error
    BY <1>g DEF Page
  <2>4. view' = [view EXCEPT ![t] = w]
    BY DEF Send
  <2> QED BY <2>2, <2>3, <2>4
<1>2. Types'
  <2>1. HandlerTypes'
    BY <1>0, <1>s DEF Types, HandlerTypes
  <2>2. PageTypes'
    BY <1>0, <1>v, <1>s, PageIsTyped
  <2>3. ServiceTypes'
    BY <1>0, <1>s, <1>g DEF Types, ServiceTypes, server
  <2> QED BY <2>1, <2>2, <2>3 DEF Types, ServiceTypes, HandlerTypes, PageTypes
<1>3. /\ pc'[t] = "await" /\ prompt'[t] = p /\ turn'[p] = "posted" /\ to'[p] = view[t].session
      /\ view'[t] = w /\ p # None
  BY <1>0, <1>s, <1>v DEF Types, HandlerTypes, PageTypes, ServiceTypes
<1>4. TabInv(t)'
  <2>1. TabState(t)'
    BY <1>0, <1>3, <1>s, <1>v DEF TabState, server
  <2>2. EndState(t)'
    BY <1>0, <1>3, <1>s, <1>v DEF EndState, server
  <2>3. OwnerState(t)'
    BY <1>0, <1>3, <1>s, <1>v DEF OwnerState, server
  <2>4. OwnEndState(t)'
    BY <1>0, <1>3, <1>s, <1>v, <1>g DEF OwnEndState, server, own, Fresh
  <2> QED BY <2>1, <2>2, <2>3, <2>4 DEF TabInv
<1>5. ASSUME NEW u \in Tabs PROVE TabInv(u)'
  <2>1. CASE u # t
    <3>1. Same(u)
      BY <2>1, <1>5, <1>0, <1>v, <1>s DEF Same, Types, HandlerTypes, PageTypes,
      own, Fresh
    <3> QED BY <3>1, <1>1, <1>2, Elsewhere
  <2> QED BY <2>1, <1>4
<1>6. ASSUME NEW q \in Prompts PROVE TurnState(q)'
  <2>1. CASE q = p
    BY <2>1, <1>3, <1>g, <1>s DEF TurnState, server
  <2>2. CASE q # p
    <3>1. TurnState(q) /\ turn'[q] = turn[q] /\ to'[q] = to[q]
      BY <2>2, <1>6, <1>0, <1>s DEF ConsoleInv, Types, ServiceTypes
    <3> QED BY <3>1, <1>s DEF TurnState, server
  <2> QED BY <2>1, <2>2
<1>7. ASSUME NEW s \in Sessions PROVE RowState(s)'
  BY <1>1, <1>2, <1>7, <1>s, RowsStay DEF server
<1> QED BY <1>2, <1>5, <1>6, <1>7 DEF ConsoleInv, TabInv

\* A step of the service: the pages are as they were.
LEMMA StepOfService ==
    ASSUME ConsoleInv, Types', Grows, UNCHANGED <<tab, selected, view, detached, own>>,
           \A p \in Prompts : TurnState(p)', \A s \in Sessions : RowState(s)'
    PROVE  ConsoleInv'
<1>1. ASSUME NEW u \in Tabs PROVE TabInv(u)'
  <2>1. Same(u)
    BY DEF Same, tab, own, Fresh
  <2> QED BY <2>1, Elsewhere
<1> QED BY <1>1 DEF ConsoleInv, TabInv

LEMMA AcceptStep ==
    ASSUME ConsoleInv, NEW p \in Prompts, Accept(p)
    PROVE  ConsoleInv'
<1> USE ConsoleAssumption
<1>0. Types /\ TurnState(p) /\ turn[p] = "posted" /\ status[to[p]] = "active"
  BY DEF ConsoleInv, Accept
<1>p. to[p] \in Sessions
  BY <1>0 DEF TurnState, Types, ServiceTypes
<1>s. /\ UNCHANGED <<status, owner, to, tab, selected, view, rebound, detached, own>>
      /\ turn' = [turn EXCEPT ![p] = "asked"]
      /\ log' = [log EXCEPT ![to[p]] = Append(@, <<p, "customer">>)]
  BY DEF Accept
<1>1. Types'
  <2>1. Append(log[to[p]], <<p, "customer">>) \in Lines
    BY <1>0, <1>p, LineAdded DEF Types, ServiceTypes
  <2>2. ServiceTypes'
    BY <1>0, <1>p, <1>s, <2>1 DEF Types, ServiceTypes
  <2> QED BY <1>0, <1>s, <2>2 DEF Types, HandlerTypes, PageTypes, tab
<1>2. Grows
  BY <1>0, <1>s DEF Grows, Types, ServiceTypes, Final
<1>3. ASSUME NEW q \in Prompts PROVE TurnState(q)'
  <2>1. TurnState(q)
    BY <1>3 DEF ConsoleInv
  <2>2. turn'[q] = turn[q] \/ (q = p /\ turn'[q] = "asked")
    BY <1>0, <1>3, <1>s DEF Types, ServiceTypes
  <2> QED BY <1>0, <1>s, <2>1, <2>2 DEF TurnState
<1>4. ASSUME NEW s \in Sessions PROVE RowState(s)'
  BY <1>1, <1>2, <1>4, <1>s, RowsStay
<1> QED BY <1>1, <1>2, <1>3, <1>4, <1>s, StepOfService

LEMMA AnswerStep ==
    ASSUME ConsoleInv, NEW p \in Prompts, Answer(p)
    PROVE  ConsoleInv'
<1> USE ConsoleAssumption
<1>0. Types /\ TurnState(p) /\ turn[p] = "asked"
  BY DEF ConsoleInv, Answer
<1>p. to[p] \in Sessions /\ status[to[p]] # "absent"
  BY <1>0 DEF TurnState, Types, ServiceTypes
<1>s. /\ UNCHANGED <<to, tab, selected, view, detached, own>>
      /\ log' = [log EXCEPT ![to[p]] = Append(@, <<p, "agent">>)]
      /\ \/ /\ turn' = [turn EXCEPT ![p] = "handed off"]
            /\ status' = [status EXCEPT ![to[p]] = "escalated"]
            /\ UNCHANGED <<owner, rebound>>
         \/ /\ turn' = [turn EXCEPT ![p] = "answered"]
            /\ \/ UNCHANGED <<owner, rebound>>
               \/ \E c \in Customers : /\ owner' = [owner EXCEPT ![to[p]] = c]
                                       /\ rebound' = rebound \cup {to[p]}
            /\ UNCHANGED status
  BY DEF Answer
<1>1. Types'
  <2>1. Append(log[to[p]], <<p, "agent">>) \in Lines
    BY <1>0, <1>p, LineAdded DEF Types, ServiceTypes
  <2>2. \A x \in {"answered", "handed off"} :
            [turn EXCEPT ![p] = x] \in [Prompts -> {"unsent", "posted", "asked", "answered",
                                                   "handed off"}]
    BY <1>0 DEF Types, ServiceTypes
  <2>3. [status EXCEPT ![to[p]] = "escalated"] \in [Sessions -> Statuses]
    BY <1>0, <1>p DEF Types, ServiceTypes, Statuses, Final
  <2>5. \A c \in Customers :
            [owner EXCEPT ![to[p]] = c] \in [Sessions -> Customers \cup Tabs \cup {None}]
    BY <1>0, <1>p DEF Types, ServiceTypes
  <2>6. /\ turn' \in [Prompts -> {"unsent", "posted", "asked", "answered", "handed off"}]
        /\ status' \in [Sessions -> Statuses]
    BY <1>0, <1>s, <2>2, <2>3 DEF Types, ServiceTypes
  <2>7. owner' \in [Sessions -> Customers \cup Tabs \cup {None}] /\ rebound' \subseteq Sessions
    <3>1. /\ owner \in [Sessions -> Customers \cup Tabs \cup {None}]
          /\ rebound \subseteq Sessions /\ to[p] \in Sessions
      BY <1>0, <1>p DEF Types, ServiceTypes
    <3>2. CASE UNCHANGED <<owner, rebound>>
      BY <3>1, <3>2
    <3>3. ASSUME NEW c \in Customers, owner' = [owner EXCEPT ![to[p]] = c],
                 rebound' = rebound \cup {to[p]}
          PROVE  /\ owner' \in [Sessions -> Customers \cup Tabs \cup {None}]
                 /\ rebound' \subseteq Sessions
      BY <2>5, <3>1, <3>3
    <3> QED BY <1>s, <3>2, <3>3
  <2>8. log' \in [Sessions -> Lines] /\ to' \in [Prompts -> Sessions \cup {None}]
    BY <1>0, <1>s, <2>1 DEF Types, ServiceTypes
  <2>4. ServiceTypes'
    BY <2>6, <2>7, <2>8 DEF ServiceTypes
  <2> QED BY <1>0, <1>s, <2>4 DEF Types, HandlerTypes, PageTypes, tab
<1>2. Grows
  BY <1>0, <1>s DEF Grows, Types, ServiceTypes, Final
<1>3. ASSUME NEW q \in Prompts PROVE TurnState(q)'
  <2>1. TurnState(q)
    BY <1>3 DEF ConsoleInv
  <2>2. turn'[q] = "handed off" => \/ turn[q] = "handed off"
                                   \/ q = p /\ status'[to[p]] \in Final
    BY <1>0, <1>3, <1>s, <1>p DEF Types, ServiceTypes, Final
  <2>3. turn'[q] # "unsent" => turn[q] # "unsent"
    BY <1>0, <1>3, <1>s DEF Types, ServiceTypes
  <2>4. to[q] \in Sessions \cup {None} /\ to'[q] = to[q]
    BY <1>0, <1>3, <1>s DEF Types, ServiceTypes
  <2> QED BY <1>2, <2>1, <2>2, <2>3, <2>4 DEF TurnState, Grows
<1>4. ASSUME NEW s \in Sessions PROVE RowState(s)'
  <2>1. RowState(s) /\ (status[s] # "absent" => status'[s] # "absent")
    BY <1>2, <1>4 DEF ConsoleInv, Grows
  <2>2. /\ owner'[s] # None => owner[s] # None \/ s = to[p]
        /\ s \in rebound' => s \in rebound \/ s = to[p]
    BY <1>0, <1>4, <1>s DEF Types, ServiceTypes
  <2> QED BY <2>1, <2>2, <1>p, <1>2 DEF RowState, Grows
<1> QED BY <1>1, <1>2, <1>3, <1>4, <1>s, StepOfService

LEMMA ExpireStep ==
    ASSUME ConsoleInv, NEW s \in Sessions, Expire(s)
    PROVE  ConsoleInv'
<1>0. Types /\ status[s] = "active"
  BY DEF ConsoleInv, Expire
<1>s. /\ UNCHANGED <<owner, log, turns, tab, selected, view, rebound, detached, own>>
      /\ status' = [status EXCEPT ![s] = "expired"]
  BY DEF Expire
<1>1. Types'
  BY <1>0, <1>s DEF Types, ServiceTypes, HandlerTypes, PageTypes, turns, tab, Statuses, Final
<1>2. Grows
  BY <1>0, <1>s DEF Grows, Types, ServiceTypes, turns, Final
<1>3. ASSUME NEW q \in Prompts PROVE TurnState(q)'
  BY <1>1, <1>2, <1>3, <1>s, TurnsStay
<1>4. ASSUME NEW x \in Sessions PROVE RowState(x)'
  BY <1>1, <1>2, <1>4, <1>s, RowsStay
<1> QED BY <1>1, <1>2, <1>3, <1>4, <1>s, StepOfService

-----------------------------------------------------------------------------
(* The theorems.                                                           *)

LEMMA NextStep == ConsoleInv /\ [Next]_vars => ConsoleInv'
<1> SUFFICES ASSUME ConsoleInv, [Next]_vars PROVE ConsoleInv'
  OBVIOUS
<1>1. CASE \E p \in Prompts : Accept(p) \/ Answer(p)
  BY <1>1, AcceptStep, AnswerStep
<1>2. CASE \E s \in Sessions : Expire(s)
  BY <1>2, ExpireStep
<1>3. ASSUME NEW t \in Tabs, User(t) PROVE ConsoleInv'
  BY <1>3, SwitchStep, OpenStep, OpenHistoryStep, EndStep, PickerFallsBackStep,
    SendStep DEF User
<1>4. ASSUME NEW t \in Tabs, Handler(t) PROVE ConsoleInv'
  BY <1>4, CreateStep, LoadStep, CallFailsStep, CutShortStep, ReceiveStep,
     SendFailsStep, CloseOneStep
     DEF Handler
<1>5. CASE UNCHANGED vars
  <2>1. UNCHANGED <<server, turns, tab, selected, view, rebound, detached, own>>
    BY <1>5 DEF vars
  <2>2. Types'
    BY <2>1 DEF ConsoleInv, Types, ServiceTypes, HandlerTypes, PageTypes, server, turns, tab
  <2>3. Grows
    BY <2>1 DEF Grows, server, turns
  <2>4. ASSUME NEW q \in Prompts PROVE TurnState(q)'
    BY <2>1, <2>2, <2>3, <2>4, TurnsStay
  <2>5. ASSUME NEW x \in Sessions PROVE RowState(x)'
    BY <2>1, <2>2, <2>3, <2>5, RowsStay DEF server
  <2> QED BY <2>1, <2>2, <2>3, <2>4, <2>5, StepOfService
<1> QED BY <1>1, <1>2, <1>3, <1>4, <1>5 DEF Next, Service

\* What the invariant says of every page, handler, turn and row holds always.
THEOREM ConsoleInvariant == Spec => []ConsoleInv
<1>1. Init => ConsoleInv
  BY InitState
<1>2. ConsoleInv /\ [Next]_vars => ConsoleInv'
  BY NextStep
<1> QED BY <1>1, <1>2, PTL DEF Spec

\* No page shows one customer's conversation under another's name
\* (_load_conversation, the picker).
THEOREM PagesAreIsolated == Spec => []ViewIsIsolated
<1>1. ConsoleInv => ViewIsIsolated
  BY DEF ConsoleInv, OwnerState, ViewIsIsolated
<1> QED BY <1>1, ConsoleInvariant, PTL

\* A tab that ended its own conversation shows it, or an error, or was interrupted
\* by its user; and what it sends there is never taken (the End button, Start fresh,
\* and opening a conversation, which supersedes).
THEOREM OwnEndsAreShown == Spec => []OwnEndIsShown
<1>1. ASSUME ConsoleInv, NEW t \in Tabs, t \in ended
      PROVE  /\ pc[t] = "ready" /\ view[t].status = "active" => view[t].error \/ t \in cut
             /\ prompt[t] # None => turn[prompt[t]] = "posted"
  <2>1. TabState(t) /\ OwnEndState(t)
    BY <1>1 DEF ConsoleInv
  <2> QED BY <1>1, <2>1 DEF TabState, OwnEndState
<1>2. ConsoleInv => OwnEndIsShown
  BY <1>1 DEF OwnEndIsShown
<1> QED BY <1>2, ConsoleInvariant, PTL

\* The status a page shows next is the one it shows, "not started", a handoff,
\* or the stored status of the session it names.
LEMMA StatusShown ==
    ASSUME ConsoleInv, [Next]_vars, NEW u \in Tabs
    PROVE  view'[u].status \in {view[u].status, "not started", "escalated",
                                status[view'[u].session]}
<1>0. Types
  BY DEF ConsoleInv
<1>g. \A t \in Tabs : view[t] \in Page
  BY <1>0 DEF Types, PageTypes
<1>e. ASSUME NEW t \in Tabs, view' = [view EXCEPT ![t].error = TRUE]
      PROVE  view'[u].status = view[u].status
  BY <1>0, <1>g, <1>e DEF Types, PageTypes, Page
<1>1. CASE UNCHANGED view
  BY <1>1
<1>2. ASSUME NEW t \in Tabs, User(t) PROVE view'[u].status \in {view[u].status, "not started"}
  <2>1. CASE Switch(t)
    <3>1. PICK c \in Customers \cup Tabs, e \in {view[t].error, TRUE} :
             view' = [view EXCEPT ![t] = [Blank(c) EXCEPT !.error = e]]
      BY <2>1 DEF Switch
    <3> QED BY <3>1, <1>0 DEF Types, PageTypes, Blank
  <2>2. CASE Open(t) \/ OpenHistory(t) \/ End(t) \/ PickerFallsBack(t)
    BY <2>2, <1>2, <1>e DEF Open, OpenHistory, End, PickerFallsBack, Caught
  <2>3. ASSUME NEW p \in Prompts, Send(t, p) PROVE view'[u].status = view[u].status
    <3>1. view' = [view EXCEPT ![t].messages = Append(@, <<p, "customer">>)]
      BY <2>3 DEF Send
    <3> QED BY <3>1, <1>0, <1>g DEF Types, PageTypes, Page
  <2> QED BY <1>2, <2>1, <2>2, <2>3 DEF User
<1>3. ASSUME NEW t \in Tabs, Handler(t)
      PROVE  view'[u].status \in {view[u].status, "escalated", status[view'[u].session]}
  <2>1. CASE Load(t)
    BY <2>1, <1>0 DEF Load, Opened, Detail, Types, PageTypes
  <2>2. CASE \/ Create(t) \/ CallFails(t) \/ CutShort(t) \/ SendFails(t)
             \/ \E s \in Sessions : CloseOne(t, s)
    BY <2>2, <1>3, <1>e DEF Create, CallFails, CutShort, SendFails, CloseOne, Caught
  <2>3. CASE Receive(t)
    <3> DEFINE p == prompt[t]
    <3>1. PICK kept \in {view[t].error, FALSE} :
            view' = [view EXCEPT ![t].messages = Append(@, <<p, "agent">>),
                                 ![t].status = IF turn[p] = "handed off" THEN "escalated" ELSE @,
                                 ![t].error = kept]
      BY <2>3 DEF Receive
    <3> QED BY <3>1, <1>0, <1>g DEF Types, PageTypes, Page
  <2> QED BY <1>3, <2>1, <2>2, <2>3 DEF Handler
<1>4. Service => UNCHANGED view
  BY DEF Service, Accept, Answer, Expire
<1> QED BY <1>1, <1>2, <1>3, <1>4 DEF Next, vars

\* A conversation once shown as ended is never offered for input again: it has
\* ended, and nothing revives it (_load_conversation, the chat input).
THEOREM EndedIsReadOnly == Spec => EndedStaysReadOnly
<1>1. ASSUME ConsoleInv, [Next]_vars, NEW t \in Tabs, view'[t].session = view[t].session,
             view[t].status \in Final
      PROVE  view'[t].status # "active"
  <2>1. status[view[t].session] \in Final
    BY <1>1 DEF ConsoleInv, EndState
  <2> QED BY <1>1, <2>1, StatusShown DEF Final
<1>2. ConsoleInv /\ [Next]_vars => [\A t \in Tabs :
         view'[t].session = view[t].session /\ view[t].status \in Final
             => view'[t].status # "active"]_vars
  BY <1>1
<1> QED BY <1>2, ConsoleInvariant, PTL DEF Spec, EndedStaysReadOnly

\* A page has a status exactly when it has a session, waits only for a message that
\* was sent, and loads only a session that exists (streamlit's session_state).
THEOREM TypeCorrect == Spec => []TypeOK
<1>1. ASSUME ConsoleInv PROVE TypeOK
  <2>0. Types
    BY <1>1 DEF ConsoleInv
  <2>1. /\ status \in [Sessions -> {"absent", "active"} \cup Final]
        /\ owner \in [Sessions -> Customers \cup Tabs \cup {None}]
        /\ \A s \in Sessions : log[s] \in Seq(Prompts \X {"customer", "agent"})
        /\ turn \in [Prompts -> {"unsent", "posted", "asked", "answered", "handed off"}]
        /\ to \in [Prompts -> Sessions \cup {None}]
    BY <2>0 DEF Types, ServiceTypes, Statuses, Lines
  <2>2. pc \in [Tabs -> {"ready", "fresh", "create", "load", "await"}]
    BY <2>0 DEF Types, HandlerTypes
  <2>3. ASSUME NEW t \in Tabs
        PROVE  /\ selected[t] \in Customers \cup {t}
               /\ view[t].session \in Sessions \cup {None}
               /\ view[t].status \in {"not started", "active"} \cup Final
               /\ view[t].session = None <=> view[t].status = "not started"
               /\ view[t].messages \in Seq(Prompts \X {"customer", "agent"})
               /\ pc[t] = "load" <=> goal[t] \in Sessions
               /\ pc[t] = "await" <=> prompt[t] \in Prompts
    <3>1. TabState(t)
      BY <1>1 DEF ConsoleInv
    <3>2. view[t] \in Page
      BY <2>0 DEF Types, PageTypes
    <3>3. goal[t] \in Sessions \cup {None} /\ prompt[t] \in Prompts \cup {None}
      BY <2>0 DEF Types, HandlerTypes
    <3>4. pc[t] = "load" <=> goal[t] \in Sessions
      BY <3>1, <3>3, ConsoleAssumption DEF TabState
    <3>5. pc[t] = "await" <=> prompt[t] \in Prompts
      BY <3>1, <3>3, ConsoleAssumption DEF TabState
    <3>6. /\ view[t].session \in Sessions \cup {None}
          /\ view[t].status \in {"not started", "active"} \cup Final
          /\ view[t].messages \in Seq(Prompts \X {"customer", "agent"})
      BY <3>2 DEF Page, Lines
    <3>7. selected[t] \in Customers \cup {t}
      BY <3>1 DEF TabState
    <3>8. view[t].session = None <=> view[t].status = "not started"
      BY <3>1 DEF TabState
    <3> QED BY <3>4, <3>5, <3>6, <3>7, <3>8
  <2> QED BY <2>1, <2>2, <2>3 DEF TypeOK
<1> QED BY <1>1, ConsoleInvariant, PTL

-----------------------------------------------------------------------------
(* What a page shows, line by line, against the stored transcript.         *)

Customer(p) == <<p, "customer">>
Agent(p)    == <<p, "agent">>

\* Every line of shown about a prompt in P is in stored, and behind the lines
\* about prompts in P that it is shown behind.
Keeps(shown, stored, P) ==
    \A i \in DOMAIN shown : shown[i][1] \in P =>
        \E j \in DOMAIN stored :
            /\ stored[j] = shown[i]
            /\ \A k \in 1..(i - 1) : shown[k][1] \in P => \E l \in 1..(j - 1) : stored[l] = shown[k]

\* The prompts whose lines on page t are settled.
Live(t) == Prompts \ (failed \cup {prompt[t]})

\* A stored line is of a turn that has come as far, each once.
Once(ls) == \A i, j \in DOMAIN ls : ls[i] = ls[j] => i = j

LogState(s) ==
    /\ Once(log[s])
    /\ \A j \in DOMAIN log[s] : \A p \in Prompts :
           /\ log[s][j] = Customer(p) => to[p] = s /\ turn[p] \in {"asked", "answered", "handed off"}
           /\ log[s][j] = Agent(p) => to[p] = s /\ turn[p] \in {"answered", "handed off"}

\* A question is stored when its turn is accepted, the reply behind it.
AskState(p) ==
    /\ turn[p] = "asked" => \E j \in DOMAIN log[to[p]] : log[to[p]][j] = Customer(p)
    /\ turn[p] \in {"answered", "handed off"} =>
           \E k \in DOMAIN log[to[p]] : \E j \in 1..(k - 1) :
               log[to[p]][j] = Customer(p) /\ log[to[p]][k] = Agent(p)

\* A page shows the settled lines as they are stored.  The prompt it waits for is its
\* last line, and is stored, once it is, behind all that is shown before it.
Waits(shown, stored, P, p) ==
    /\ shown # <<>> /\ shown[Len(shown)] = Customer(p)
    /\ \A i \in 1..(Len(shown) - 1) : shown[i][1] # p
    /\ \A j \in DOMAIN stored : stored[j] = Customer(p) =>
           \A k \in 1..(Len(shown) - 1) :
               shown[k][1] \in P => \E l \in 1..(j - 1) : stored[l] = shown[k]

PageState(t) ==
    /\ \A i \in DOMAIN view[t].messages : turn[view[t].messages[i][1]] # "unsent"
    /\ view[t].session # None => Keeps(view[t].messages, log[view[t].session], Live(t))
    /\ prompt[t] # None => Waits(view[t].messages, log[view[t].session], Live(t), prompt[t])

TranscriptInv ==
    /\ \A s \in Sessions : LogState(s)
    /\ \A p \in Prompts : AskState(p)
    /\ \A t \in Tabs : PageState(t)

LEMMA LinesAre ==
    ASSUME NEW ls \in Lines
    PROVE  /\ Len(ls) \in Nat /\ DOMAIN ls = 1..Len(ls)
           /\ \A i \in DOMAIN ls : \E p \in Prompts : ls[i] = Customer(p) \/ ls[i] = Agent(p)
           /\ \A i \in DOMAIN ls : ls[i][1] \in Prompts
<1>1. ls \in Seq(Prompts \X {"customer", "agent"})
  BY DEF Lines
<1>2. Len(ls) \in Nat /\ DOMAIN ls = 1..Len(ls)
  BY <1>1
<1>3. ASSUME NEW i \in DOMAIN ls
      PROVE  /\ \E p \in Prompts : ls[i] = Customer(p) \/ ls[i] = Agent(p)
             /\ ls[i][1] \in Prompts
  <2>1. ls[i] \in Prompts \X {"customer", "agent"}
    BY <1>1, <1>2, <1>3
  <2>2. PICK p \in Prompts, r \in {"customer", "agent"} : ls[i] = <<p, r>>
    BY <2>1
  <2> QED BY <2>2 DEF Customer, Agent
<1> QED BY <1>2, <1>3

LEMMA Added ==
    ASSUME NEW ls \in Lines, NEW p \in Prompts, NEW line \in {Customer(p), Agent(p)},
           NEW new, new = Append(ls, line)
    PROVE  /\ new \in Lines /\ Len(new) = Len(ls) + 1 /\ Len(ls) \in Nat
           /\ DOMAIN new = 1..(Len(ls) + 1) /\ DOMAIN ls = 1..Len(ls)
           /\ \A i \in 1..Len(ls) : new[i] = ls[i]
           /\ new[Len(ls) + 1] = line
<1> DEFINE Line == Prompts \X {"customer", "agent"}
<1>1. line \in Line /\ ls \in Seq(Line)
  BY DEF Lines, Customer, Agent
<1> HIDE DEF Line
<1>2. new \in Seq(Line) /\ Len(new) = Len(ls) + 1 /\ Len(ls) \in Nat
  BY <1>1
<1>3. DOMAIN new = 1..(Len(ls) + 1) /\ DOMAIN ls = 1..Len(ls)
  BY <1>1, <1>2
<1>4. /\ \A i \in 1..Len(ls) : new[i] = ls[i]
      /\ new[Len(ls) + 1] = line
  BY <1>1, <1>2
<1> QED BY <1>2, <1>3, <1>4 DEF Line, Lines

\* A transcript keeps itself.
LEMMA KeepsSelf ==
    ASSUME NEW ls \in Lines, NEW P
    PROVE  Keeps(ls, ls, P)
BY LinesAre DEF Keeps

\* Fewer settled prompts ask less.
LEMMA KeepsFewer ==
    ASSUME NEW shown, NEW stored, NEW P, NEW Q, Q \subseteq P, Keeps(shown, stored, P)
    PROVE  Keeps(shown, stored, Q)
<1> SUFFICES ASSUME NEW i \in DOMAIN shown, shown[i][1] \in Q
             PROVE  \E j \in DOMAIN stored :
                        /\ stored[j] = shown[i]
                        /\ \A k \in 1..(i - 1) : shown[k][1] \in Q =>
                               \E l \in 1..(j - 1) : stored[l] = shown[k]
  BY DEF Keeps
<1>1. PICK j \in DOMAIN stored :
          /\ stored[j] = shown[i]
          /\ \A k \in 1..(i - 1) : shown[k][1] \in P =>
                 \E l \in 1..(j - 1) : stored[l] = shown[k]
  BY DEF Keeps
<1> QED BY <1>1

\* What else is stored takes nothing away.
LEMMA KeepsStored ==
    ASSUME NEW shown \in Lines, NEW stored \in Lines, NEW P, NEW p \in Prompts,
           NEW line \in {Customer(p), Agent(p)}, Keeps(shown, stored, P)
    PROVE  Keeps(shown, Append(stored, line), P)
<1>0. PICK new : new = Append(stored, line)
  OBVIOUS
<1>1. /\ Len(stored) \in Nat /\ DOMAIN new = 1..(Len(stored) + 1) /\ DOMAIN stored = 1..Len(stored)
      /\ \A i \in 1..Len(stored) : new[i] = stored[i]
  BY <1>0, Added
<1>2. ASSUME NEW i \in DOMAIN shown, shown[i][1] \in P
      PROVE  \E j \in DOMAIN new :
                 /\ new[j] = shown[i]
                 /\ \A k \in 1..(i - 1) : shown[k][1] \in P =>
                        \E l \in 1..(j - 1) : new[l] = shown[k]
  <2>1. PICK j \in DOMAIN stored :
            /\ stored[j] = shown[i]
            /\ \A k \in 1..(i - 1) : shown[k][1] \in P =>
                   \E l \in 1..(j - 1) : stored[l] = shown[k]
    BY <1>2 DEF Keeps
  <2>2. j \in DOMAIN new /\ new[j] = shown[i]
    BY <1>1, <2>1
  <2>3. \A l \in 1..(j - 1) : new[l] = stored[l]
    BY <1>1
  <2> QED BY <2>1, <2>2, <2>3
<1> QED BY <1>0, <1>2 DEF Keeps

\* A line that is not settled may be shown.
LEMMA KeepsShown ==
    ASSUME NEW shown \in Lines, NEW stored, NEW P, NEW p \in Prompts \ P,
           NEW line \in {Customer(p), Agent(p)}, Keeps(shown, stored, P)
    PROVE  Keeps(Append(shown, line), stored, P)
<1>0. PICK new : new = Append(shown, line)
  OBVIOUS
<1>1. /\ Len(shown) \in Nat /\ DOMAIN new = 1..(Len(shown) + 1) /\ DOMAIN shown = 1..Len(shown)
      /\ \A i \in 1..Len(shown) : new[i] = shown[i]
      /\ new[Len(shown) + 1] = line
  BY <1>0, Added
<1>2. line[1] \notin P
  BY DEF Customer, Agent
<1>3. ASSUME NEW i \in DOMAIN new, new[i][1] \in P
      PROVE  \E j \in DOMAIN stored :
                 /\ stored[j] = new[i]
                 /\ \A k \in 1..(i - 1) : new[k][1] \in P =>
                        \E l \in 1..(j - 1) : stored[l] = new[k]
  <2>1. i \in DOMAIN shown /\ new[i] = shown[i]
    BY <1>1, <1>2, <1>3
  <2>2. PICK j \in DOMAIN stored :
            /\ stored[j] = shown[i]
            /\ \A k \in 1..(i - 1) : shown[k][1] \in P =>
                   \E l \in 1..(j - 1) : stored[l] = shown[k]
    BY <1>3, <2>1 DEF Keeps
  <2>3. \A k \in 1..(i - 1) : new[k] = shown[k]
    BY <1>1, <2>1
  <2> QED BY <2>1, <2>2, <2>3
<1> QED BY <1>0, <1>3 DEF Keeps

\* The reply to the prompt a page waits for settles the question, and is stored
\* behind it.
LEMMA KeepsReply ==
    ASSUME NEW shown \in Lines, NEW stored \in Lines, NEW p \in Prompts, NEW P, NEW Q,
           Q \subseteq P \cup {p}, Keeps(shown, stored, P), Waits(shown, stored, P, p),
           NEW k \in DOMAIN stored, NEW j \in 1..(k - 1),
           stored[j] = Customer(p), stored[k] = Agent(p)
    PROVE  Keeps(Append(shown, Agent(p)), stored, Q)
<1>0. PICK new : new = Append(shown, Agent(p))
  OBVIOUS
<1> DEFINE n == Len(shown)
<1>1. /\ n \in Nat /\ DOMAIN new = 1..(n + 1) /\ DOMAIN shown = 1..n
      /\ \A i \in 1..n : new[i] = shown[i]
      /\ new[n + 1] = Agent(p)
  BY <1>0, Added
<1>2. Len(stored) \in Nat /\ DOMAIN stored = 1..Len(stored)
  BY LinesAre
<1>3. n # 0 /\ shown[n] = Customer(p) /\ \A i \in 1..(n - 1) : shown[i][1] # p
  <2>1. shown # <<>> /\ shown[n] = Customer(p) /\ \A i \in 1..(n - 1) : shown[i][1] # p
    BY DEF Waits
  <2>2. shown \in Seq(Prompts \X {"customer", "agent"})
    BY DEF Lines
  <2> QED BY <2>1, <2>2
<1>4. j \in DOMAIN stored /\ k \in Nat /\ j \in Nat /\ j < k
  BY <1>2
<1>5. \A i \in 1..(n - 1) : shown[i][1] \in P => \E l \in 1..(j - 1) : stored[l] = shown[i]
  BY <1>4 DEF Waits
<1> HIDE DEF n
<1>6. ASSUME NEW i \in DOMAIN new, new[i][1] \in Q
      PROVE  \E x \in DOMAIN stored :
                 /\ stored[x] = new[i]
                 /\ \A y \in 1..(i - 1) : new[y][1] \in Q =>
                        \E l \in 1..(x - 1) : stored[l] = new[y]
  <2>0. \A y \in 1..(n - 1) : new[y] = shown[y] /\ (new[y][1] \in Q => shown[y][1] \in P)
    BY <1>1, <1>3
  <2>1. CASE i = n + 1
    <3>1. ASSUME NEW y \in 1..(i - 1), new[y][1] \in Q
          PROVE  \E l \in 1..(k - 1) : stored[l] = new[y]
      <4>1. CASE y = n
        BY <1>1, <1>3, <1>4, <4>1
      <4>2. CASE y # n
        <5>1. y \in 1..(n - 1)
          BY <1>1, <2>1, <4>2
        <5>2. PICK l \in 1..(j - 1) : stored[l] = shown[y]
          BY <5>1, <2>0, <3>1, <1>5
        <5>3. l \in 1..(k - 1)
          BY <1>4
        <5> QED BY <5>1, <5>2, <5>3, <2>0
      <4> QED BY <4>1, <4>2
    <3>2. stored[k] = new[i]
      BY <2>1, <1>1
    <3> QED BY <3>1, <3>2
  <2>2. CASE i = n
    <3>1. stored[j] = new[i]
      BY <2>2, <1>1, <1>3
    <3>2. \A y \in 1..(i - 1) : new[y][1] \in Q => \E l \in 1..(j - 1) : stored[l] = new[y]
      BY <2>2, <2>0, <1>5
    <3> QED BY <3>1, <3>2, <1>4
  <2>3. CASE i \in 1..(n - 1)
    <3>1. i \in DOMAIN shown /\ new[i] = shown[i] /\ shown[i][1] \in P
      BY <2>0, <2>3, <1>1, <1>6
    <3>2. PICK x \in DOMAIN stored :
              /\ stored[x] = shown[i]
              /\ \A y \in 1..(i - 1) : shown[y][1] \in P =>
                     \E l \in 1..(x - 1) : stored[l] = shown[y]
      BY <3>1 DEF Keeps
    <3>3. \A y \in 1..(i - 1) : y \in 1..(n - 1)
      BY <2>3, <1>1
    <3> QED BY <3>1, <3>2, <3>3, <2>0
  <2> QED BY <1>1, <2>1, <2>2, <2>3
<1> QED BY <1>0, <1>6 DEF Keeps
LEMMA WaitsFewer ==
    ASSUME NEW shown, NEW stored, NEW P, NEW Q, NEW p, Q \subseteq P, Waits(shown, stored, P, p)
    PROVE  Waits(shown, stored, Q, p)
<1>1. ASSUME NEW j \in DOMAIN stored, stored[j] = Customer(p), NEW k \in 1..(Len(shown) - 1),
             shown[k][1] \in Q
      PROVE  \E l \in 1..(j - 1) : stored[l] = shown[k]
  <2>1. shown[k][1] \in P
    BY <1>1
  <2> QED BY <1>1, <2>1 DEF Waits
<1> QED BY <1>1 DEF Waits

LEMMA WaitsStored ==
    ASSUME NEW shown \in Lines, NEW stored \in Lines, NEW P, NEW q, NEW p \in Prompts,
           NEW line \in {Customer(p), Agent(p)}, Waits(shown, stored, P, q),
           line = Customer(q) => Keeps(shown, stored, P)
    PROVE  Waits(shown, Append(stored, line), P, q)
<1>0. PICK new : new = Append(stored, line)
  OBVIOUS
<1>1. /\ Len(stored) \in Nat /\ DOMAIN new = 1..(Len(stored) + 1) /\ DOMAIN stored = 1..Len(stored)
      /\ \A i \in 1..Len(stored) : new[i] = stored[i]
      /\ new[Len(stored) + 1] = line
  BY <1>0, Added
<1>2. Len(shown) \in Nat /\ DOMAIN shown = 1..Len(shown)
  BY LinesAre
<1>3. ASSUME NEW j \in DOMAIN new, new[j] = Customer(q), NEW k \in 1..(Len(shown) - 1),
             shown[k][1] \in P
      PROVE  \E l \in 1..(j - 1) : new[l] = shown[k]
  <2>1. CASE j \in 1..Len(stored)
    <3>1. PICK l \in 1..(j - 1) : stored[l] = shown[k]
      BY <1>1, <1>3, <2>1 DEF Waits
    <3>2. l \in 1..Len(stored)
      BY <1>1, <2>1
    <3> QED BY <3>1, <3>2, <1>1
  <2>2. CASE j = Len(stored) + 1
    <3>1. Keeps(shown, stored, P)
      BY <1>1, <1>3, <2>2
    <3>2. k \in DOMAIN shown
      BY <1>2
    <3>3. PICK l \in DOMAIN stored : stored[l] = shown[k]
      BY <3>1, <3>2, <1>3 DEF Keeps
    <3> QED BY <3>3, <1>1, <2>2
  <2> QED BY <1>1, <2>1, <2>2
<1> QED BY <1>0, <1>3 DEF Waits

-----------------------------------------------------------------------------
(* The transcript, step by step.                                           *)

\* A page that is as it was, is empty, or has just been loaded.
Shows(u) ==
    \/ /\ view'[u].session = view[u].session /\ view'[u].messages = view[u].messages
       /\ prompt'[u] = prompt[u]
    \/ view'[u].session = None /\ view'[u].messages = <<>> /\ prompt'[u] = None
    \/ view'[u].session \in Sessions /\ view'[u].messages = log[view'[u].session] /\ prompt'[u] = None

LEMMA ErrorOnly ==
    ASSUME view \in [Tabs -> Page], NEW t \in Tabs, NEW u \in Tabs,
           view' = view \/ view' = [view EXCEPT ![t].error = TRUE]
    PROVE  view'[u].session = view[u].session /\ view'[u].messages = view[u].messages
<1>1. view[t] \in Page
  OBVIOUS
<1>2. CASE view' = view
  BY <1>2
<1>3. CASE view' = [view EXCEPT ![t].error = TRUE]
  <2>1. view'[u] = IF u = t THEN [view[t] EXCEPT !.error = TRUE] ELSE view[u]
    BY <1>3
  <2> QED BY <1>1, <2>1 DEF Page
<1> QED BY <1>2, <1>3

LEMMA LogsStay ==
    ASSUME TranscriptInv, UNCHANGED <<log, turn, to>>
    PROVE  (\A s \in Sessions : LogState(s)') /\ (\A p \in Prompts : AskState(p)')
<1>1. ASSUME NEW s \in Sessions PROVE LogState(s)'
  <2>1. LogState(s)
    BY DEF TranscriptInv
  <2> QED BY <2>1 DEF LogState
<1>2. ASSUME NEW p \in Prompts PROVE AskState(p)'
  <2>1. AskState(p)
    BY DEF TranscriptInv
  <2> QED BY <2>1 DEF AskState
<1> QED BY <1>1, <1>2

LEMMA PageShows ==
    ASSUME ConsoleInv, TranscriptInv, UNCHANGED <<log, turn, to, failed>>,
           NEW u \in Tabs, Shows(u)
    PROVE  PageState(u)'
<1>0. Types /\ PageState(u)
  BY DEF ConsoleInv, TranscriptInv
<1>1. CASE /\ view'[u].session = view[u].session /\ view'[u].messages = view[u].messages
           /\ prompt'[u] = prompt[u]
  <2>1. Live(u)' = Live(u)
    BY <1>1 DEF Live
  <2> QED BY <1>0, <1>1, <2>1 DEF PageState
<1>2. CASE view'[u].session = None /\ view'[u].messages = <<>> /\ prompt'[u] = None
  BY <1>2 DEF PageState
<1>3. ASSUME NEW s \in Sessions, view'[u].session = s, view'[u].messages = log[s], prompt'[u] = None
      PROVE  PageState(u)'
  <2>1. log[s] \in Lines
    BY <1>0 DEF Types, ServiceTypes
  <2>2. PICK P : P = Live(u)'
    OBVIOUS
  <2>3. Keeps(log[s], log[s], P)
    BY <2>1, KeepsSelf
  <2>4. ASSUME NEW i \in DOMAIN log[s] PROVE turn[log[s][i][1]] # "unsent"
    <3>1. PICK p \in Prompts : log[s][i] = Customer(p) \/ log[s][i] = Agent(p)
      BY <2>1, <2>4, LinesAre
    <3>2. LogState(s)
      BY DEF TranscriptInv
    <3>3. turn[p] \in {"asked", "answered", "handed off"}
      BY <3>1, <3>2, <2>4 DEF LogState
    <3>4. log[s][i][1] = p
      BY <3>1 DEF Customer, Agent
    <3> QED BY <3>3, <3>4
  <2> QED BY <1>3, <2>2, <2>3, <2>4 DEF PageState
<1> QED BY <1>1, <1>2, <1>3 DEF Shows

LEMMA PagesShow ==
    ASSUME ConsoleInv, TranscriptInv, UNCHANGED <<log, turn, to, failed>>,
           \A u \in Tabs : Shows(u)
    PROVE  TranscriptInv'
<1>3. ASSUME NEW u \in Tabs PROVE PageState(u)'
  BY <1>3, PageShows
<1> QED BY <1>3, LogsStay DEF TranscriptInv

\* The steps of a tab other than Send, Receive and SendFails, and Expire.
LEMMA OtherShows ==
    ASSUME ConsoleInv, NEW t \in Tabs,
           \/ Switch(t) \/ Open(t) \/ OpenHistory(t) \/ End(t) \/ PickerFallsBack(t)
           \/ Create(t) \/ Load(t) \/ CallFails(t) \/ CutShort(t)
           \/ \E s \in Sessions : CloseOne(t, s)
    PROVE  UNCHANGED <<log, turn, to, failed>> /\ \A u \in Tabs : Shows(u)
<1>0. /\ Types /\ TabState(t) /\ view \in [Tabs -> Page] /\ prompt \in [Tabs -> Prompts \cup {None}]
      /\ view[t] \in Page
  BY DEF ConsoleInv, Types, PageTypes, HandlerTypes
<1>1. UNCHANGED <<log, turn, to, failed>>
  BY DEF Switch, Open, OpenHistory, End, PickerFallsBack, Create, Load, Opened, CallFails,
    CutShort, CloseOne, server, turns
<1>2. pc[t] # "await" /\ prompt[t] = None
  BY <1>0 DEF TabState, Switch, Open, OpenHistory, End, PickerFallsBack, Create, Load, Opened,
    CallFails, CutShort, CloseOne
<1>3. prompt' = prompt \/ prompt' = [prompt EXCEPT ![t] = None]
  BY DEF Switch, Open, OpenHistory, End, PickerFallsBack, Create, Load, Opened, CallFails,
    CutShort, CloseOne, Resume, Goto, Done, Caught, tab
<1>4. \A u \in Tabs : prompt'[u] = prompt[u]
  BY <1>0, <1>2, <1>3
<1>5. CASE view' = view \/ view' = [view EXCEPT ![t].error = TRUE]
  <2>1. ASSUME NEW u \in Tabs
        PROVE  view'[u].session = view[u].session /\ view'[u].messages = view[u].messages
    BY <1>0, <1>5, <2>1, ErrorOnly
  <2> QED BY <1>1, <1>4, <2>1 DEF Shows
<1>6. CASE Switch(t)
  <2>1. PICK c \in Customers \cup Tabs, e \in {view[t].error, TRUE} :
           view' = [view EXCEPT ![t] = [Blank(c) EXCEPT !.error = e]]
    BY <1>6 DEF Switch
  <2>2. view'[t].session = None /\ view'[t].messages = <<>>
    BY <2>1, <1>0 DEF Blank
  <2>3. \A u \in Tabs \ {t} : view'[u] = view[u]
    BY <2>1, <1>0
  <2> QED BY <1>1, <1>2, <1>4, <2>2, <2>3 DEF Shows
<1>7. CASE Load(t)
  <2>1. goal[t] \in Sessions
    BY <1>0, <1>7 DEF Types, HandlerTypes, TabState, Load, Opened
  <2>2. view' = [view EXCEPT ![t] = Detail(goal[t])]
    BY <1>7 DEF Load, Opened
  <2>3. view'[t].session = goal[t] /\ view'[t].messages = log[goal[t]]
    BY <2>2, <1>0 DEF Detail
  <2>4. \A u \in Tabs \ {t} : view'[u] = view[u]
    BY <2>2, <1>0
  <2> QED BY <1>1, <1>2, <1>4, <2>1, <2>3, <2>4 DEF Shows
<1> QED BY <1>5, <1>6, <1>7 DEF Open, OpenHistory, End, PickerFallsBack, Create, CallFails,
      CutShort, CloseOne, Resume, Caught

LEMMA SendShows ==
    ASSUME ConsoleInv, TranscriptInv, Types', NEW t \in Tabs, NEW p \in Prompts, Send(t, p)
    PROVE  TranscriptInv'
<1> USE ConsoleAssumption
<1>0. /\ Types /\ TabState(t) /\ PageState(t) /\ view[t] \in Page /\ view \in [Tabs -> Page]
      /\ pc[t] = "ready" /\ view[t].status = "active" /\ turn[p] = "unsent"
  BY DEF ConsoleInv, TranscriptInv, Send, Types, PageTypes
<1>s. /\ log' = log /\ failed' = failed
      /\ turn' = [turn EXCEPT ![p] = "posted"]
      /\ to' = [to EXCEPT ![p] = view[t].session]
      /\ prompt' = [prompt EXCEPT ![t] = p]
      /\ view' = [view EXCEPT ![t].messages = Append(@, <<p, "customer">>)]
  BY DEF Send, server
<1>p. prompt[t] = None /\ view[t].session \in Sessions
  BY <1>0 DEF TabState, Page
<1>q. /\ \A q \in Prompts \ {p} : turn'[q] = turn[q] /\ to'[q] = to[q]
      /\ turn'[p] = "posted"
  BY <1>0, <1>s DEF Types, ServiceTypes
<1>l. \A s \in Sessions : \A j \in DOMAIN log[s] : log[s][j] # Customer(p) /\ log[s][j] # Agent(p)
  <2>1. ASSUME NEW s \in Sessions, NEW j \in DOMAIN log[s]
        PROVE  log[s][j] # Customer(p) /\ log[s][j] # Agent(p)
    <3>1. LogState(s)
      BY DEF TranscriptInv
    <3> QED BY <3>1, <2>1, <1>0 DEF LogState
  <2> QED BY <2>1
<1>1. ASSUME NEW s \in Sessions PROVE LogState(s)'
  <2>1. LogState(s)
    BY DEF TranscriptInv
  <2>2. ASSUME NEW j \in DOMAIN log[s], NEW q \in Prompts
        PROVE  /\ log[s][j] = Customer(q) => to'[q] = s /\ turn'[q] \in {"asked", "answered", "handed off"}
               /\ log[s][j] = Agent(q) => to'[q] = s /\ turn'[q] \in {"answered", "handed off"}
    <3>1. CASE q = p
      BY <3>1, <2>2, <1>l
    <3>2. CASE q # p
      BY <3>2, <2>1, <2>2, <1>q DEF LogState
    <3> QED BY <3>1, <3>2
  <2> QED BY <2>1, <2>2, <1>s DEF LogState
<1>2. ASSUME NEW q \in Prompts PROVE AskState(q)'
  <2>1. AskState(q)
    BY DEF TranscriptInv
  <2> QED BY <2>1, <1>q, <1>s DEF AskState
<1>3. ASSUME NEW u \in Tabs PROVE PageState(u)'
  <2>1. CASE u # t
    <3>1. view'[u] = view[u] /\ prompt'[u] = prompt[u]
      BY <1>0, <1>s, <2>1 DEF Types, HandlerTypes
    <3>2. PageState(u) /\ Live(u)' = Live(u)
      BY <3>1, <1>s DEF TranscriptInv, Live
    <3>3. view[u].messages \in Lines
      BY <1>0 DEF Page
    <3>4. \A i \in DOMAIN view[u].messages : turn'[view[u].messages[i][1]] # "unsent"
      BY <3>2, <3>3, <1>q, LinesAre DEF PageState
    <3> QED BY <3>1, <3>2, <3>4, <1>s DEF PageState
  <2>2. CASE u = t
    <3>1. PICK old, new, stored : /\ old = view[t].messages /\ stored = log[view[t].session]
                                  /\ new = Append(old, Customer(p))
      OBVIOUS
    <3>2. old \in Lines /\ stored \in Lines
      BY <3>1, <1>0, <1>p DEF Page, Types, ServiceTypes
    <3>3. view'[t].messages = new /\ view'[t].session = view[t].session /\ prompt'[t] = p
      BY <1>0, <1>s, <3>1 DEF Page, Customer, Types, HandlerTypes
    <3>4. \A i \in DOMAIN old : old[i][1] # p
      BY <1>0, <3>1 DEF PageState
    <3>5. PICK P, Q : P = Live(t) /\ Q = Live(t)'
      OBVIOUS
    <3>6. Q \subseteq P /\ p \notin Q
      BY <3>5, <3>3, <1>p, <1>s DEF Live
    <3>7. Keeps(old, stored, P)
      BY <1>0, <1>p, <3>1, <3>5 DEF PageState
    <3>8. Keeps(new, stored, Q)
      BY <3>1, <3>2, <3>6, <3>7, KeepsFewer, KeepsShown
    <3>9. /\ Len(old) \in Nat /\ DOMAIN new = 1..(Len(old) + 1) /\ DOMAIN old = 1..Len(old)
          /\ \A i \in 1..Len(old) : new[i] = old[i]
          /\ new[Len(old) + 1] = Customer(p) /\ Len(new) = Len(old) + 1
      BY <3>1, <3>2, Added
    <3>10. Waits(new, stored, Q, p)
      <4>1. new # <<>> /\ new[Len(new)] = Customer(p)
        BY <3>9
      <4>2. \A i \in 1..(Len(new) - 1) : new[i][1] # p
        BY <3>4, <3>9
      <4>3. \A j \in DOMAIN stored : stored[j] # Customer(p)
        BY <1>l, <1>p, <3>1
      <4> QED BY <4>1, <4>2, <4>3 DEF Waits
    <3>11. ASSUME NEW i \in DOMAIN new PROVE turn'[new[i][1]] # "unsent"
      <4>1. CASE i \in DOMAIN old
        <5>1. new[i] = old[i] /\ old[i][1] \in Prompts \ {p} /\ turn[old[i][1]] # "unsent"
          BY <4>1, <3>1, <3>2, <3>4, <3>9, <1>0, LinesAre DEF PageState
        <5> QED BY <5>1, <1>q
      <4>2. CASE i = Len(old) + 1
        BY <4>2, <3>9, <1>q DEF Customer
      <4> QED BY <3>9, <4>1, <4>2
    <3>12. view'[t].session = view[t].session /\ log'[view'[t].session] = stored
      BY <3>1, <3>3, <1>s
    <3> QED BY <2>2, <3>3, <3>5, <3>8, <3>10, <3>11, <3>12 DEF PageState
  <2> QED BY <2>1, <2>2
<1> QED BY <1>1, <1>2, <1>3 DEF TranscriptInv

LEMMA ReceiveShows ==
    ASSUME ConsoleInv, TranscriptInv, Types', NEW t \in Tabs, Receive(t)
    PROVE  TranscriptInv'
<1> USE ConsoleAssumption
<1>0. /\ Types /\ TabState(t) /\ PageState(t) /\ view[t] \in Page /\ view \in [Tabs -> Page]
      /\ pc[t] = "await"
  BY DEF ConsoleInv, TranscriptInv, Receive, Types, PageTypes
<1>p. PICK p \in Prompts : /\ p = prompt[t] /\ to[p] = view[t].session
                           /\ turn[p] \in {"answered", "handed off"} /\ view[t].session \in Sessions
  <2>0. prompt[t] \in Prompts
    BY <1>0 DEF TabState, Types, HandlerTypes
  <2>1. prompt[t] \in Prompts /\ turn[prompt[t]] \in {"answered", "handed off"}
    BY <2>0 DEF Receive
  <2>2. TurnState(prompt[t]) /\ to[prompt[t]] = view[t].session
    BY <2>1, <1>0 DEF ConsoleInv, TabState
  <2> QED BY <1>0, <2>1, <2>2 DEF TurnState, Page
<1>s. UNCHANGED <<log, turn, to, failed>> /\ prompt' = [prompt EXCEPT ![t] = None]
  BY DEF Receive, server, turns, Done
<1>v. /\ view'[t].messages = Append(view[t].messages, Agent(p))
      /\ view'[t].session = view[t].session
      /\ \A u \in Tabs \ {t} : view'[u] = view[u]
  <2>1. PICK kept \in {view[t].error, FALSE} :
          view' = [view EXCEPT ![t].messages = Append(@, <<p, "agent">>),
                               ![t].status = IF turn[p] = "handed off" THEN "escalated" ELSE @,
                               ![t].error = kept]
    BY <1>p DEF Receive
  <2> QED BY <1>0, <2>1 DEF Page, Agent
<1>3. ASSUME NEW u \in Tabs PROVE PageState(u)'
  <2>1. CASE u # t
    <3>1. view'[u] = view[u] /\ prompt'[u] = prompt[u]
      BY <1>0, <1>s, <1>v, <2>1 DEF Types, HandlerTypes
    <3> QED BY <3>1, <1>s, PageShows DEF Shows
  <2>2. CASE u = t
    <3>1. PICK old, new, stored : /\ old = view[t].messages /\ stored = log[view[t].session]
                                  /\ new = Append(old, Agent(p))
      OBVIOUS
    <3>2. old \in Lines /\ stored \in Lines
      BY <3>1, <1>0, <1>p DEF Page, Types, ServiceTypes
    <3>3. prompt'[t] = None
      BY <1>0, <1>s DEF Types, HandlerTypes
    <3>5. PICK P, Q : P = Live(t) /\ Q = Live(t)'
      OBVIOUS
    <3>6. Q \subseteq P \cup {p}
      BY <3>5, <3>3, <1>p, <1>s DEF Live
    <3>7. Keeps(old, stored, P) /\ Waits(old, stored, P, p)
      BY <1>0, <1>p, <3>1, <3>5 DEF PageState
    <3>k. PICK k \in DOMAIN stored : \E j \in 1..(k - 1) :
              stored[j] = Customer(p) /\ stored[k] = Agent(p)
      <4>1. AskState(p)
        BY DEF TranscriptInv
      <4> QED BY <4>1, <1>p, <3>1 DEF AskState
    <3>8. PICK j \in 1..(k - 1) : stored[j] = Customer(p) /\ stored[k] = Agent(p)
      BY <3>k
    <3>9. Keeps(new, stored, Q)
      BY <3>1, <3>2, <3>6, <3>7, <3>k, <3>8, KeepsReply
    <3>10. /\ Len(old) \in Nat /\ DOMAIN new = 1..(Len(old) + 1) /\ DOMAIN old = 1..Len(old)
           /\ \A i \in 1..Len(old) : new[i] = old[i]
           /\ new[Len(old) + 1] = Agent(p)
      BY <3>1, <3>2, Added
    <3>11. ASSUME NEW i \in DOMAIN new PROVE turn[new[i][1]] # "unsent"
      <4>1. CASE i \in DOMAIN old
        BY <4>1, <3>1, <3>10, <1>0 DEF PageState
      <4>2. CASE i = Len(old) + 1
        <5>1. new[i][1] = p
          BY <4>2, <3>10 DEF Agent
        <5> QED BY <5>1, <1>p
      <4> QED BY <3>10, <4>1, <4>2
    <3>12. view'[t].messages = new /\ log'[view'[t].session] = stored
      BY <3>1, <1>v, <1>s
    <3> QED BY <2>2, <3>3, <3>5, <3>9, <3>11, <3>12, <1>s DEF PageState
  <2> QED BY <2>1, <2>2
<1> QED BY <1>s, <1>3, LogsStay DEF TranscriptInv

LEMMA SendFailsShows ==
    ASSUME ConsoleInv, TranscriptInv, Types', NEW t \in Tabs, SendFails(t)
    PROVE  TranscriptInv'
<1>0. Types /\ view \in [Tabs -> Page] /\ prompt \in [Tabs -> Prompts \cup {None}]
  BY DEF ConsoleInv, Types, PageTypes, HandlerTypes
<1>s. /\ UNCHANGED <<log, turn, to>> /\ failed' = failed \cup {prompt[t]}
      /\ prompt' = [prompt EXCEPT ![t] = None]
      /\ view' = view \/ view' = [view EXCEPT ![t].error = TRUE]
  BY DEF SendFails, server, turns, Done, Caught
<1>v. \A u \in Tabs : view'[u].session = view[u].session /\ view'[u].messages = view[u].messages
  BY <1>0, <1>s, ErrorOnly
<1>3. ASSUME NEW u \in Tabs PROVE PageState(u)'
  <2>1. PICK P, Q : P = Live(u) /\ Q = Live(u)'
    OBVIOUS
  <2>2. prompt'[u] = IF u = t THEN None ELSE prompt[u]
    BY <1>0, <1>s
  <2>3. Q \subseteq P
    BY <2>1, <2>2, <1>s DEF Live
  <2>4. PageState(u)
    BY DEF TranscriptInv
  <2>5. view[u].session # None => Keeps(view[u].messages, log[view[u].session], Q)
    BY <2>1, <2>3, <2>4, KeepsFewer DEF PageState
  <2>6. prompt'[u] # None => Waits(view[u].messages, log[view[u].session], Q, prompt[u])
    BY <2>1, <2>2, <2>3, <2>4, WaitsFewer DEF PageState
  <2> QED BY <1>s, <1>v, <2>1, <2>2, <2>4, <2>5, <2>6 DEF PageState
<1> QED BY <1>s, <1>3, LogsStay DEF TranscriptInv
\* The service stores a line of p behind the others of its session.
Stores(p, s, line, x) ==
    /\ s = to[p]
    /\ log' = [log EXCEPT ![s] = Append(@, line)]
    /\ turn' = [turn EXCEPT ![p] = x]
    /\ UNCHANGED <<to, view, prompt, failed>>
    /\ x \in {"asked", "answered", "handed off"}
    /\ line = Agent(p) => turn[p] = "asked" /\ x \in {"answered", "handed off"}
    /\ line = Customer(p) => turn[p] = "posted" /\ x = "asked"

LEMMA LineStored ==
    ASSUME ConsoleInv, TranscriptInv, NEW p \in Prompts, NEW s \in Sessions,
           NEW line \in {Customer(p), Agent(p)}, NEW x, Stores(p, s, line, x)
    PROVE  TranscriptInv'
<1>u. /\ s = to[p] /\ UNCHANGED <<to, view, prompt, failed>>
      /\ x \in {"asked", "answered", "handed off"}
      /\ line = Agent(p) => turn[p] = "asked" /\ x \in {"answered", "handed off"}
      /\ line = Customer(p) => turn[p] = "posted" /\ x = "asked"
  BY DEF Stores
<1>0. /\ Types /\ log \in [Sessions -> Lines] /\ view \in [Tabs -> Page]
      /\ turn \in [Prompts -> {"unsent", "posted", "asked", "answered", "handed off"}]
  BY DEF ConsoleInv, Types, ServiceTypes, PageTypes
<1>1. PICK old \in Lines, new \in Lines : old = log[s] /\ new = Append(old, line)
  <2>1. \A ls \in Lines : Append(ls, line) \in Lines
    BY Added
  <2> QED BY <2>1, <1>0
<1>2. /\ Len(old) \in Nat
      /\ DOMAIN new = 1..(Len(old) + 1) /\ DOMAIN old = 1..Len(old)
      /\ \A i \in 1..Len(old) : new[i] = old[i]
      /\ new[Len(old) + 1] = line
  BY <1>1, Added
<1>3. log'[s] = new /\ \A y \in Sessions \ {s} : log'[y] = log[y]
  BY <1>0, <1>1 DEF Stores
<1>4. turn'[p] = x /\ \A q \in Prompts \ {p} : turn'[q] = turn[q]
  BY <1>0 DEF Stores
<1>5. line = Customer(p) \/ line = Agent(p)
  OBVIOUS
<1>6. Customer(p) # Agent(p) /\ \A q \in Prompts : /\ Customer(q) = line => q = p
                                                   /\ Agent(q) = line => q = p
  BY DEF Customer, Agent
<1>7. \A j \in DOMAIN old : old[j] # line
  <2>1. LogState(s)
    BY DEF TranscriptInv
  <2> QED BY <2>1, <1>1, <1>5, <1>u DEF LogState
<1>8. ASSUME NEW y \in Sessions, NEW j \in DOMAIN log[y], NEW q \in Prompts
      PROVE  /\ log[y][j] = Customer(q) => to[q] = y /\ turn'[q] \in {"asked", "answered", "handed off"}
             /\ log[y][j] = Agent(q) => to[q] = y /\ turn'[q] \in {"answered", "handed off"}
  <2>1. LogState(y)
    BY DEF TranscriptInv
  <2>2. CASE q = p
    BY <2>1, <2>2, <1>8, <1>4, <1>5, <1>u DEF LogState
  <2>3. CASE q # p
    BY <2>1, <2>3, <1>8, <1>4 DEF LogState
  <2> QED BY <2>2, <2>3
<1>9. ASSUME NEW y \in Sessions PROVE LogState(y)'
  <2>0. LogState(y)
    BY DEF TranscriptInv
  <2>1. CASE y # s
    <3>1. log'[y] = log[y] /\ Once(log[y])
      BY <2>0, <2>1, <1>3 DEF LogState
    <3>2. \A j \in DOMAIN log[y] : \A q \in Prompts :
             /\ log[y][j] = Customer(q) => to[q] = y /\ turn'[q] \in {"asked", "answered", "handed off"}
             /\ log[y][j] = Agent(q) => to[q] = y /\ turn'[q] \in {"answered", "handed off"}
      BY <1>8
    <3> QED BY <3>1, <3>2, <1>u DEF LogState
  <2>2. CASE y = s
    <3>1. Once(new)
      <4>1. ASSUME NEW i \in DOMAIN new, NEW j \in DOMAIN new, new[i] = new[j]
            PROVE  i = j
        <5>1. CASE i \in DOMAIN old /\ j \in DOMAIN old
          BY <4>1, <5>1, <2>0, <2>2, <1>1, <1>2 DEF LogState, Once
        <5>2. CASE i \notin DOMAIN old \/ j \notin DOMAIN old
          BY <4>1, <5>2, <1>2, <1>7
        <5> QED BY <5>1, <5>2
      <4> QED BY <4>1 DEF Once
    <3>2. ASSUME NEW j \in DOMAIN new, NEW q \in Prompts
          PROVE  /\ new[j] = Customer(q) => to[q] = s /\ turn'[q] \in {"asked", "answered", "handed off"}
                 /\ new[j] = Agent(q) => to[q] = s /\ turn'[q] \in {"answered", "handed off"}
      <4>1. CASE j \in DOMAIN old
        <5>1. new[j] = old[j]
          BY <4>1, <1>2
        <5>2. j \in DOMAIN log[s] /\ new[j] = log[s][j]
          BY <4>1, <5>1, <1>1
        <5>3. /\ log[s][j] = Customer(q) => to[q] = s /\ turn'[q] \in {"asked", "answered", "handed off"}
              /\ log[s][j] = Agent(q) => to[q] = s /\ turn'[q] \in {"answered", "handed off"}
          BY <5>2, <1>8, Zenon
        <5> QED BY <5>2, <5>3, Zenon
      <4>2. CASE j = Len(old) + 1
        <5>1. new[j] = line
          BY <4>2, <1>2
        <5>2. Customer(q) = line \/ Agent(q) = line => q = p
          BY <1>6
        <5>3. line = Agent(p) => turn'[p] \in {"answered", "handed off"}
          BY <1>4, <1>u
        <5>4. turn'[p] \in {"asked", "answered", "handed off"}
          BY <1>4, <1>u
        <5>5. CASE q = p
          BY <5>1, <5>3, <5>4, <5>5, <1>u
        <5>6. CASE q # p
          BY <5>1, <5>2, <5>6
        <5> QED BY <5>5, <5>6
      <4>3. j \in DOMAIN old \/ j = Len(old) + 1
        BY <3>2, <1>2
      <4> QED BY <4>1, <4>2, <4>3
    <3> QED BY <2>2, <3>1, <3>2, <1>3, <1>u DEF LogState
  <2> QED BY <2>1, <2>2
<1>10. ASSUME NEW q \in Prompts PROVE AskState(q)'
  <2>0. AskState(q)
    BY DEF TranscriptInv
  <2>1. CASE q = p
    <3>1. CASE line = Customer(p)
      <4>1. x = "asked" /\ Len(old) + 1 \in DOMAIN new /\ new[Len(old) + 1] = Customer(p)
        BY <3>1, <1>2, <1>u
      <4> QED BY <4>1, <2>1, <1>3, <1>4, <1>u DEF AskState
    <3>2. CASE line = Agent(p)
      <4>0. Len(old) + 1 \in DOMAIN new /\ new[Len(old) + 1] = Agent(p)
        BY <3>2, <1>2
      <4>x. x # "asked" /\ turn[p] = "asked"
        BY <3>2, <1>u
      <4>1. x # "asked" /\ Len(old) + 1 \in DOMAIN new /\ new[Len(old) + 1] = Agent(p)
        BY <4>0, <4>x
      <4>2. PICK j \in DOMAIN old : old[j] = Customer(p)
        BY <3>2, <2>0, <2>1, <1>1, <1>u DEF AskState
      <4>3. j \in 1..((Len(old) + 1) - 1) /\ new[j] = Customer(p)
        BY <4>2, <1>2
      <4> QED BY <4>1, <4>3, <2>1, <1>3, <1>4, <1>u DEF AskState
    <3> QED BY <3>1, <3>2, <1>5
  <2>2. CASE q # p
    <3>1. CASE turn[q] \in {"asked", "answered", "handed off"} /\ to[q] = s
      <4>1. turn'[q] = "asked" => \E j \in DOMAIN new : new[j] = Customer(q)
        <5>1. turn'[q] = "asked" => \E j \in DOMAIN old : old[j] = Customer(q)
          BY <2>0, <2>2, <3>1, <1>1, <1>4 DEF AskState
        <5>2. \A j \in DOMAIN old : j \in DOMAIN new /\ new[j] = old[j]
          BY <1>2
        <5> QED BY <5>1, <5>2
      <4>2. ASSUME turn'[q] \in {"answered", "handed off"}
            PROVE  \E k \in DOMAIN new : \E j \in 1..(k - 1) :
                       new[j] = Customer(q) /\ new[k] = Agent(q)
        <5>1. PICK k \in DOMAIN old : \E j \in 1..(k - 1) : old[j] = Customer(q) /\ old[k] = Agent(q)
          BY <2>0, <2>2, <4>2, <3>1, <1>1, <1>4 DEF AskState
        <5>2. PICK j \in 1..(k - 1) : old[j] = Customer(q) /\ old[k] = Agent(q)
          BY <5>1
        <5>3. j \in 1..Len(old) /\ k \in DOMAIN new /\ k \in 1..Len(old)
          BY <1>2
        <5> QED BY <5>2, <5>3, <1>2
      <4> QED BY <4>1, <4>2, <3>1, <1>3, <1>u DEF AskState
    <3>2. CASE turn[q] \notin {"asked", "answered", "handed off"}
      BY <2>2, <3>2, <1>4, <1>u DEF AskState
    <3>3. CASE turn[q] \in {"asked", "answered", "handed off"} /\ to[q] # s
      <4>1. to[q] \in Sessions
        <5>1. TurnState(q) /\ to[q] \in Sessions \cup {None}
          BY DEF ConsoleInv, Types, ServiceTypes
        <5> QED BY <5>1, <3>3 DEF TurnState
      <4>2. log'[to[q]] = log[to[q]]
        BY <4>1, <3>3, <1>3, <1>u
      <4> QED BY <2>0, <2>2, <4>2, <1>4, <1>u DEF AskState
    <3> QED BY <3>1, <3>2, <3>3
  <2> QED BY <2>1, <2>2
<1>11. ASSUME NEW u \in Tabs PROVE PageState(u)'
  <2>0. PageState(u) /\ TabState(u)
    BY DEF TranscriptInv, ConsoleInv
  <2>1. view[u] \in Page
    BY <1>0
  <2>2. PICK shown, P : shown = view[u].messages /\ P = Live(u) /\ P = Live(u)'
    BY <1>u DEF Live
  <2>3. shown \in Lines
    BY <2>1, <2>2 DEF Page
  <2>4. ASSUME NEW i \in DOMAIN shown PROVE turn'[shown[i][1]] # "unsent"
    <3>1. shown[i][1] \in Prompts /\ turn[shown[i][1]] # "unsent"
      BY <2>0, <2>2, <2>3, <2>4, LinesAre DEF PageState
    <3> QED BY <3>1, <1>4, <1>u
  <2>5. CASE view[u].session # s
    <3>1. log'[view[u].session] = log[view[u].session] \/ view[u].session = None
      BY <2>1, <2>5, <1>3 DEF Page
    <3>2. CASE view[u].session = None
      <4>1. prompt[u] = None
        <5>1. prompt[u] # None => prompt[u] \in Prompts
          BY <1>0 DEF Types, HandlerTypes
        <5>2. prompt[u] # None => TurnState(prompt[u])
          BY <5>1 DEF ConsoleInv
        <5> QED BY <5>2, <2>0, <3>2 DEF TabState, TurnState
      <4> QED BY <4>1, <3>2, <2>2, <2>4, <1>u DEF PageState
    <3>3. CASE log'[view[u].session] = log[view[u].session]
      BY <3>3, <2>0, <2>2, <2>4, <1>u DEF PageState
    <3> QED BY <3>1, <3>2, <3>3
  <2>6. CASE view[u].session = s
    <3>1. Keeps(shown, old, P) /\ (prompt[u] # None => Waits(shown, old, P, prompt[u]))
      <4>1. view[u].session # None
        BY <2>6, ConsoleAssumption
      <4> QED BY <4>1, <2>0, <2>2, <2>6, <1>1 DEF PageState
    <3>2. Keeps(shown, new, P) /\ (prompt[u] # None => Waits(shown, new, P, prompt[u]))
      BY <3>1, <2>3, <1>1, <1>2, KeepsStored, WaitsStored
    <3>3. log'[view'[u].session] = new /\ view'[u].messages = shown
      BY <2>2, <2>6, <1>3, <1>u
    <3> QED BY <2>2, <2>4, <3>2, <3>3, <1>u DEF PageState
  <2> QED BY <2>5, <2>6
<1> QED BY <1>9, <1>10, <1>11 DEF TranscriptInv

LEMMA StoreStep ==
    ASSUME ConsoleInv, TranscriptInv, NEW p \in Prompts, Accept(p) \/ Answer(p)
    PROVE  TranscriptInv'
<1>1. Types /\ TurnState(p)
  BY DEF ConsoleInv
<1>2. turn[p] # "unsent"
  BY DEF Accept, Answer
<1>3. PICK s \in Sessions : s = to[p]
  BY <1>1, <1>2 DEF TurnState, Types, ServiceTypes
<1>4. CASE Accept(p)
  <2>1. log' = [log EXCEPT ![s] = Append(@, Customer(p))]
    BY <1>3, <1>4 DEF Accept, Customer
  <2>2. turn[p] = "posted" /\ turn' = [turn EXCEPT ![p] = "asked"]
    BY <1>4 DEF Accept
  <2>3. UNCHANGED <<to, view, prompt, failed>>
    BY <1>4 DEF Accept, tab
  <2>4. Customer(p) # Agent(p)
    BY DEF Customer, Agent
  <2> QED BY <1>3, <2>1, <2>2, <2>3, <2>4, LineStored DEF Stores
<1>5. CASE Answer(p)
  <2>1. log' = [log EXCEPT ![s] = Append(@, Agent(p))]
    BY <1>3, <1>5 DEF Answer, Agent
  <2>2. turn[p] = "asked" /\ \E x \in {"answered", "handed off"} : turn' = [turn EXCEPT ![p] = x]
    BY <1>5 DEF Answer
  <2>3. UNCHANGED <<to, view, prompt, failed>>
    BY <1>5 DEF Answer, tab
  <2>4. Customer(p) # Agent(p)
    BY DEF Customer, Agent
  <2>5. PICK x \in {"answered", "handed off"} : turn' = [turn EXCEPT ![p] = x]
    BY <2>2
  <2> QED BY <1>3, <2>1, <2>2, <2>3, <2>4, <2>5, LineStored DEF Stores
<1> QED BY <1>4, <1>5

LEMMA TranscriptStep == ConsoleInv /\ TranscriptInv /\ [Next]_vars => TranscriptInv'
<1> SUFFICES ASSUME ConsoleInv, TranscriptInv, [Next]_vars PROVE TranscriptInv'
  OBVIOUS
<1>0. Types'
  <2>1. ConsoleInv'
    BY NextStep
  <2> QED BY <2>1 DEF ConsoleInv
<1>1. CASE \E p \in Prompts : Accept(p) \/ Answer(p)
  BY <1>1, StoreStep
<1>2. CASE (\E s \in Sessions : Expire(s)) \/ UNCHANGED vars
  <2>1. UNCHANGED <<log, turn, to, failed, view, prompt>>
    BY <1>2 DEF Expire, vars, server, turns, tab
  <2> QED BY <2>1, PagesShow DEF Shows
<1>3. ASSUME NEW t \in Tabs, User(t) PROVE TranscriptInv'
  BY <1>0, <1>3, OtherShows, PagesShow, SendShows DEF User
<1>4. ASSUME NEW t \in Tabs, Handler(t) PROVE TranscriptInv'
  BY <1>0, <1>4, OtherShows, PagesShow, ReceiveShows, SendFailsShows DEF Handler
<1> QED BY <1>1, <1>2, <1>3, <1>4 DEF Next, Service

\* What a page shows of a conversation is what is stored, once and in that order,
\* up to the prompt it waits for and those whose call failed - whatever the other
\* tabs write there (_load_conversation, the chat input, chat's two add calls).
THEOREM PagesShowTheRecord == Spec => []ShownIsStored
<1>1. Init => TranscriptInv
  <2> SUFFICES ASSUME Init PROVE TranscriptInv
    OBVIOUS
  <2>1. ASSUME NEW s \in Sessions PROVE LogState(s)
    BY <2>1 DEF Init, LogState, Once
  <2>2. ASSUME NEW p \in Prompts PROVE AskState(p)
    BY <2>2 DEF Init, AskState
  <2>3. ASSUME NEW t \in Tabs PROVE PageState(t)
    <3>1. view[t].messages = <<>> /\ view[t].session = None /\ prompt[t] = None
      BY <2>3 DEF Init, Blank
    <3>2. DOMAIN view[t].messages = {}
      BY <3>1
    <3> QED BY <3>1, <3>2 DEF PageState
  <2> QED BY <2>1, <2>2, <2>3 DEF TranscriptInv
<1>2. ConsoleInv /\ TranscriptInv => ShownIsStored
  <2> SUFFICES ASSUME ConsoleInv, TranscriptInv, NEW t \in Tabs, view[t].session # None,
                      NEW stored, stored = log[view[t].session]
               PROVE  /\ IsInjective(stored)
                      /\ \A i \in DOMAIN view[t].messages : Settled(t, view[t].messages[i]) =>
                             \E j \in DOMAIN stored :
                                 /\ stored[j] = view[t].messages[i]
                                 /\ \A k \in 1..(i - 1) : Settled(t, view[t].messages[k]) =>
                                        \E l \in 1..(j - 1) : stored[l] = view[t].messages[k]
    BY DEF ShownIsStored
  <2>1. Types /\ PageState(t)
    BY DEF ConsoleInv, TranscriptInv
  <2>2. view[t].session \in Sessions /\ view[t].messages \in Lines
    BY <2>1 DEF Types, PageTypes, Page
  <2>3. Once(stored)
    BY <2>2 DEF TranscriptInv, LogState
  <2>4. PICK shown : shown = view[t].messages
    OBVIOUS
  <2>5. Len(shown) \in Nat /\ DOMAIN shown = 1..Len(shown)
    BY <2>2, <2>4, LinesAre
  <2>6. \A i \in DOMAIN shown : Settled(t, shown[i]) <=> shown[i][1] \in Live(t)
    BY <2>2, <2>4, LinesAre DEF Settled, Live
  <2>7. \A i \in DOMAIN shown : \A k \in 1..(i - 1) : k \in DOMAIN shown
    BY <2>5
  <2>8. Keeps(shown, stored, Live(t))
    BY <2>1, <2>4 DEF PageState
  <2>9. ASSUME NEW i \in DOMAIN shown, Settled(t, shown[i])
        PROVE  \E j \in DOMAIN stored :
                   /\ stored[j] = shown[i]
                   /\ \A k \in 1..(i - 1) : Settled(t, shown[k]) =>
                          \E l \in 1..(j - 1) : stored[l] = shown[k]
    <3>1. PICK j \in DOMAIN stored :
              /\ stored[j] = shown[i]
              /\ \A k \in 1..(i - 1) : shown[k][1] \in Live(t) =>
                     \E l \in 1..(j - 1) : stored[l] = shown[k]
      BY <2>6, <2>8, <2>9 DEF Keeps
    <3> QED BY <3>1, <2>6, <2>7
  <2>10. IsInjective(stored)
    BY <2>3 DEF Once, IsInjective
  <2> QED BY <2>4, <2>9, <2>10
<1> QED BY <1>1, <1>2, TranscriptStep, ConsoleInvariant, PTL DEF Spec

=============================================================================
