--------------------------- MODULE LauncherProofs ---------------------------
(***************************************************************************)
(* Proofs about Launcher, for any number of launchers: what the finally   *)
(* block stops is all there is to stop, and what main reports as ready is *)
(* its own.                                                               *)
(***************************************************************************)
EXTENDS Launcher, TLAPS

States == {"none", "dead"} \cup Running

Types ==
    /\ pc \in [Launchers -> Labels]
    /\ at \in [Launchers -> Services]
    /\ proc \in [Launchers -> [Services -> States]]
    /\ known \in [Launchers -> SUBSET Services]
    /\ port \in [Services -> Launchers \cup {Other, None}]
    /\ raced \in [Launchers -> SUBSET Services]
    /\ lapse \in [Launchers -> {"none", "unassigned", "twice", "killed"}]

\* What main has in its variables while it starts the services in order, and
\* that the services after the current one have not been touched.
Earlier(v) == IF v = "api" THEN {} ELSE {"api"}

StartState(l) ==
    /\ pc[l] \in {"idle", "prepare"} => at[l] = "api"
    /\ pc[l] \in {"idle", "prepare", "check", "spawn", "wait"} =>
           /\ known[l] = Earlier(at[l])
           /\ \A v \in Services \ known[l] : proc[l][v] # "none" => pc[l] = "wait" /\ v = at[l]
    /\ pc[l] = "wait" => proc[l][at[l]] # "none"
    /\ pc[l] = "watch" => known[l] = Services
    /\ \A v \in known[l] : proc[l][v] # "none"

\* In the finally block only what main knows of may still run, and the UI is
\* stopped before the API is looked at.
StopState(l) ==
    lapse[l] = "none" =>
        /\ pc[l] \in {"stop", "reap", "exit"} =>
               \A v \in Services \ known[l] : proc[l][v] \notin Running
        /\ pc[l] \in {"stop", "reap"} /\ at[l] = "api" => proc[l]["ui"] \notin Running
        /\ pc[l] = "exit" => \A v \in Services : proc[l][v] \notin Running

\* Who serves holds the port, and a port found free is free or taken by the
\* launcher's own process unless the launcher was overtaken.
PortState(l) ==
    /\ \A v \in Services : port[v] = l <=> proc[l][v] = "serving"
    /\ pc[l] \in {"spawn", "wait"} /\ at[l] \notin raced[l] => port[at[l]] \in {None, l}
    /\ \A v \in known[l] \ raced[l] : port[v] = l \/ proc[l][v] = "dead"

LauncherInv ==
    /\ Types
    /\ \A l \in Launchers : StartState(l) /\ StopState(l) /\ PortState(l)

-----------------------------------------------------------------------------
(* The inductive invariant.                                                *)

LEMMA InitState == Init => LauncherInv
  BY LauncherAssumption
     DEF Init, LauncherInv, Types, States, StartState, StopState, PortState,
     Earlier, Labels, Services, Running

LEMMA NestedUpdate ==
  ASSUME NEW A, NEW B, NEW S, NEW f \in [A -> [B -> S]],
         NEW a \in A, NEW b \in B, NEW x \in S
  PROVE  [f EXCEPT ![a][b] = x] \in [A -> [B -> S]]
<1>1. [f[a] EXCEPT ![b] = x] \in [B -> S]
  OBVIOUS
<1> QED BY <1>1

\* What becomes of a process keeps the type of the processes.
LEMMA ProcUpdate ==
  ASSUME Types, NEW l \in Launchers, NEW v \in Services, NEW x \in States
  PROVE  [proc EXCEPT ![l][v] = x] \in [Launchers -> [Services -> States]]
  BY NestedUpdate DEF Types

\* One step per action, and under it one per part of the invariant.
LEMMA StepKeepsInv == LauncherInv /\ Next => LauncherInv'
<1> SUFFICES ASSUME LauncherInv, Next PROVE LauncherInv'
  OBVIOUS
<1> USE DEF LauncherInv
<1>1. ASSUME NEW l \in Launchers, Start(l) PROVE LauncherInv'
  <2>1. Types'
    BY <1>1 DEF Types, Labels, Services, Start, Goto
  <2>2. ASSUME NEW m \in Launchers PROVE StartState(m)'
    BY <1>1 DEF Types, Services, StartState, Earlier, Start, Goto
  <2>3. ASSUME NEW m \in Launchers PROVE StopState(m)'
    BY <1>1 DEF Types, Services, Running, StartState, StopState, Earlier, Start, Goto
  <2>4. ASSUME NEW m \in Launchers PROVE PortState(m)'
    BY <1>1, LauncherAssumption
       DEF Types, Services, StartState, PortState, Earlier, Start, Goto
  <2> QED BY <2>1, <2>2, <2>3, <2>4
<1>2. ASSUME NEW l \in Launchers, Prepare(l) PROVE LauncherInv'
  <2>1. Types'
    BY <1>2 DEF Types, Labels, Services, Prepare, Goto, Leave
  <2>2. ASSUME NEW m \in Launchers PROVE StartState(m)'
    BY <1>2 DEF Types, Services, StartState, Earlier, Prepare, Goto, Leave
  <2>3. ASSUME NEW m \in Launchers PROVE StopState(m)'
    BY <1>2
       DEF Types, Services, Running, StartState, StopState, Earlier, Prepare, Goto, Leave
  <2>4. ASSUME NEW m \in Launchers PROVE PortState(m)'
    BY <1>2, LauncherAssumption
       DEF Types, Services, StartState, PortState, Earlier, Prepare, Goto, Leave
  <2> QED BY <2>1, <2>2, <2>3, <2>4
<1>3. ASSUME NEW l \in Launchers, Check(l) PROVE LauncherInv'
  <2>1. Types'
    BY <1>3 DEF Types, Labels, Services, Check, Goto, Leave
  <2>2. ASSUME NEW m \in Launchers PROVE StartState(m)'
    BY <1>3 DEF Types, Services, StartState, Earlier, Check, Goto, Leave
  <2>3. ASSUME NEW m \in Launchers PROVE StopState(m)'
    BY <1>3 DEF Types, Services, Running, StartState, StopState, Earlier, Check, Goto, Leave
  <2>4. ASSUME NEW m \in Launchers PROVE PortState(m)'
    BY <1>3, LauncherAssumption
       DEF Types, Services, StartState, PortState, Earlier, Check, Goto, Leave
  <2> QED BY <2>1, <2>2, <2>3, <2>4
<1>4. ASSUME NEW l \in Launchers, Spawn(l) PROVE LauncherInv'
  <2>1. Types'
    <3>1. at[l] \in Services /\ "starting" \in States
      BY <1>4 DEF Types, States, Running
    <3>2. [proc EXCEPT ![l][at[l]] = "starting"] \in [Launchers -> [Services -> States]]
      BY <3>1, ProcUpdate
    <3> QED BY <1>4, <3>2 DEF Types, Labels, Services, Spawn, Goto, Leave
  <2>2. ASSUME NEW m \in Launchers PROVE StartState(m)'
    BY <1>4 DEF Types, Services, StartState, Earlier, Spawn, Goto, Leave
  <2>3. ASSUME NEW m \in Launchers PROVE StopState(m)'
    BY <1>4 DEF Types, Services, Running, StartState, StopState, Earlier, Spawn, Goto, Leave
  <2>4. ASSUME NEW m \in Launchers PROVE PortState(m)'
    BY <1>4, LauncherAssumption
       DEF Types, Services, StartState, PortState, Earlier, Spawn, Goto, Leave
  <2> QED BY <2>1, <2>2, <2>3, <2>4
<1>5. ASSUME NEW l \in Launchers, Ready(l) PROVE LauncherInv'
  <2>1. Types'
    BY <1>5 DEF Types, Labels, Services, Ready, Goto
  <2>2. ASSUME NEW m \in Launchers PROVE StartState(m)'
    <3>1. CASE m = l
      <4>1. known'[l] = known[l] \cup {at[l]} /\ UNCHANGED proc
        BY <1>5 DEF Types, Ready
      <4>2. CASE at[l] = "api"
        BY <1>5, <3>1, <4>1, <4>2 DEF Types, Services, StartState, Earlier, Ready, Goto
      <4>3. CASE at[l] = "ui"
        BY <1>5, <3>1, <4>1, <4>3 DEF Types, Services, StartState, Earlier, Ready, Goto
      <4> QED BY <4>2, <4>3 DEF Types, Services
    <3>2. CASE m # l
      BY <1>5, <3>2 DEF Types, StartState, Ready, Goto
    <3> QED BY <3>1, <3>2
  <2>3. ASSUME NEW m \in Launchers PROVE StopState(m)'
    BY <1>5 DEF Types, Services, Running, StartState, StopState, Earlier, Ready, Goto
  <2>4. ASSUME NEW m \in Launchers PROVE PortState(m)'
    BY <1>5, LauncherAssumption
       DEF Types, Services, StartState, PortState, Earlier, Ready, Goto
  <2> QED BY <2>1, <2>2, <2>3, <2>4
<1>6. ASSUME NEW l \in Launchers, GiveUp(l) PROVE LauncherInv'
  <2>1. Types'
    BY <1>6 DEF Types, Labels, Services, GiveUp, Goto, Leave, Lapse, Unassigned
  <2>2. ASSUME NEW m \in Launchers PROVE StartState(m)'
    BY <1>6 DEF Types, Services, StartState, Earlier,
           GiveUp, Goto, Leave, Lapse, Unassigned
  <2>3. ASSUME NEW m \in Launchers PROVE StopState(m)'
    BY <1>6
       DEF Types, Services, Running, StartState, StopState, Earlier,
           GiveUp, Goto, Leave, Lapse, Unassigned
  <2>4. ASSUME NEW m \in Launchers PROVE PortState(m)'
    BY <1>6, LauncherAssumption
       DEF Types, Services, StartState, PortState, Earlier,
           GiveUp, Goto, Leave, Lapse, Unassigned
  <2> QED BY <2>1, <2>2, <2>3, <2>4
<1>7. ASSUME NEW l \in Launchers, Watch(l) PROVE LauncherInv'
  <2>1. Types'
    BY <1>7 DEF Types, Labels, Services, Watch, Goto, Leave
  <2>2. ASSUME NEW m \in Launchers PROVE StartState(m)'
    BY <1>7 DEF Types, Services, StartState, Earlier, Watch, Goto, Leave
  <2>3. ASSUME NEW m \in Launchers PROVE StopState(m)'
    BY <1>7 DEF Types, Services, Running, StartState, StopState, Earlier, Watch, Goto, Leave
  <2>4. ASSUME NEW m \in Launchers PROVE PortState(m)'
    BY <1>7, LauncherAssumption
       DEF Types, Services, StartState, PortState, Earlier, Watch, Goto, Leave
  <2> QED BY <2>1, <2>2, <2>3, <2>4
<1>8. ASSUME NEW l \in Launchers, Skip(l) PROVE LauncherInv'
  <2>1. Types'
    BY <1>8 DEF Types, Labels, Services, Skip, Goto, StopsNext
  <2>2. ASSUME NEW m \in Launchers PROVE StartState(m)'
    BY <1>8 DEF Types, Services, StartState, Earlier, Skip, Goto, StopsNext
  <2>3. ASSUME NEW m \in Launchers PROVE StopState(m)'
    BY <1>8
       DEF Types, Services, Running, StartState, StopState, Earlier, Skip, Goto, StopsNext
  <2>4. ASSUME NEW m \in Launchers PROVE PortState(m)'
    BY <1>8, LauncherAssumption
       DEF Types, Services, StartState, PortState, Earlier, Skip, Goto, StopsNext
  <2> QED BY <2>1, <2>2, <2>3, <2>4
<1>9. ASSUME NEW l \in Launchers, Terminate(l) PROVE LauncherInv'
  <2>1. Types'
    BY <1>9 DEF Types, Labels, Services, Terminate, Goto
  <2>2. ASSUME NEW m \in Launchers PROVE StartState(m)'
    BY <1>9 DEF Types, Services, StartState, Earlier, Terminate, Goto
  <2>3. ASSUME NEW m \in Launchers PROVE StopState(m)'
    BY <1>9 DEF Types, Services, Running, StartState, StopState, Earlier, Terminate, Goto
  <2>4. ASSUME NEW m \in Launchers PROVE PortState(m)'
    BY <1>9, LauncherAssumption
       DEF Types, Services, StartState, PortState, Earlier, Terminate, Goto
  <2> QED BY <2>1, <2>2, <2>3, <2>4
<1>10. ASSUME NEW l \in Launchers, Reap(l) PROVE LauncherInv'
  <2>1. Types'
    <3>1. at[l] \in Services /\ "dead" \in States
      BY <1>10 DEF Types, States
    <3>2. [proc EXCEPT ![l][at[l]] = "dead"] \in [Launchers -> [Services -> States]]
      BY <3>1, ProcUpdate
    <3> QED BY <1>10, <3>2 DEF Types, Labels, Services, Reap, Goto, StopsNext, Kill
  <2>2. ASSUME NEW m \in Launchers PROVE StartState(m)'
    BY <1>10 DEF Types, Services, StartState, Earlier, Reap, Goto, StopsNext, Kill
  <2>3. ASSUME NEW m \in Launchers PROVE StopState(m)'
    BY <1>10
       DEF Types, Services, Running, StartState, StopState, Earlier, Reap, Goto, StopsNext, Kill
  <2>4. ASSUME NEW m \in Launchers PROVE PortState(m)'
    BY <1>10, LauncherAssumption
       DEF Types, Services, StartState, PortState, Earlier, Reap, Goto, StopsNext, Kill
  <2> QED BY <2>1, <2>2, <2>3, <2>4
<1>11. ASSUME NEW l \in Launchers, Interrupt(l) PROVE LauncherInv'
  <2>1. Types'
    BY <1>11 DEF Types, Labels, Services, Interrupt, Goto, Leave, Lapse, Unassigned
  <2>2. ASSUME NEW m \in Launchers PROVE StartState(m)'
    BY <1>11
       DEF Types, Services, StartState, Earlier,
           Interrupt, Goto, Leave, Lapse, Unassigned
  <2>3. ASSUME NEW m \in Launchers PROVE StopState(m)'
    BY <1>11
       DEF Types, Services, Running, StartState, StopState, Earlier,
           Interrupt, Goto, Leave, Lapse, Unassigned
  <2>4. ASSUME NEW m \in Launchers PROVE PortState(m)'
    BY <1>11, LauncherAssumption
       DEF Types, Services, StartState, PortState, Earlier,
           Interrupt, Goto, Leave, Lapse, Unassigned
  <2> QED BY <2>1, <2>2, <2>3, <2>4
<1>12. ASSUME NEW l \in Launchers, InterruptAgain(l) PROVE LauncherInv'
  <2>1. Types'
    BY <1>12 DEF Types, Labels, Services, InterruptAgain, Goto, Lapse
  <2>2. ASSUME NEW m \in Launchers PROVE StartState(m)'
    BY <1>12 DEF Types, Services, StartState, Earlier, InterruptAgain, Goto, Lapse
  <2>3. ASSUME NEW m \in Launchers PROVE StopState(m)'
    BY <1>12
       DEF Types, Services, Running, StartState, StopState, Earlier, InterruptAgain, Goto, Lapse
  <2>4. ASSUME NEW m \in Launchers PROVE PortState(m)'
    BY <1>12, LauncherAssumption
       DEF Types, Services, StartState, PortState, Earlier, InterruptAgain, Goto, Lapse
  <2> QED BY <2>1, <2>2, <2>3, <2>4
<1>13. ASSUME NEW l \in Launchers, Terminated(l) PROVE LauncherInv'
  <2>1. Types'
    BY <1>13 DEF Types, Labels, Services, Terminated, Goto, Lapse
  <2>2. ASSUME NEW m \in Launchers PROVE StartState(m)'
    BY <1>13 DEF Types, Services, StartState, Earlier, Terminated, Goto, Lapse
  <2>3. ASSUME NEW m \in Launchers PROVE StopState(m)'
    BY <1>13
       DEF Types, Services, Running, StartState, StopState, Earlier, Terminated, Goto, Lapse
  <2>4. ASSUME NEW m \in Launchers PROVE PortState(m)'
    BY <1>13, LauncherAssumption
       DEF Types, Services, StartState, PortState, Earlier, Terminated, Goto, Lapse
  <2> QED BY <2>1, <2>2, <2>3, <2>4
<1>14. ASSUME NEW l \in Launchers, NEW v \in Services, Bind(l, v) PROVE LauncherInv'
  <2>1. Types'
    <3>1. \A s \in {"serving", "dead"} :
             [proc EXCEPT ![l][v] = s] \in [Launchers -> [Services -> States]]
      BY ProcUpdate DEF States, Running
    <3>2. proc' \in [Launchers -> [Services -> States]]
      BY <1>14, <3>1 DEF Bind
    <3>3. port' \in [Services -> Launchers \cup {Other, None}]
      BY <1>14 DEF Types, Bind
    <3>4. raced' \in [Launchers -> SUBSET Services]
      BY <1>14 DEF Types, Bind, Overtaken
    <3> QED BY <1>14, <3>2, <3>3, <3>4 DEF Types, Bind
  <2>2. ASSUME NEW m \in Launchers PROVE StartState(m)'
    <3>1. \A w \in Services : proc'[m][w] = "none" <=> proc[m][w] = "none"
      BY <1>14 DEF Types, Bind
    <3>2. at[m] \in Services /\ known[m] \subseteq Services
      BY DEF Types
    <3> QED BY <1>14, <3>1, <3>2 DEF StartState, Earlier, Bind
  <2>3. ASSUME NEW m \in Launchers PROVE StopState(m)'
    BY <1>14 DEF Types, Services, Running, StartState, StopState, Earlier, Bind, Overtaken
  <2>4. ASSUME NEW m \in Launchers PROVE PortState(m)'
    BY <1>14, LauncherAssumption
       DEF Types, Services, Running, StartState, PortState, Earlier, Bind, Overtaken
  <2> QED BY <2>1, <2>2, <2>3, <2>4
<1>15. ASSUME NEW l \in Launchers, NEW v \in Services, Die(l, v) PROVE LauncherInv'
  <2>1. Types'
    <3>1. [proc EXCEPT ![l][v] = "dead"] \in [Launchers -> [Services -> States]]
      BY ProcUpdate DEF States
    <3> QED BY <1>15, <3>1 DEF Types, Die, Kill
  <2>2. ASSUME NEW m \in Launchers PROVE StartState(m)'
    BY <1>15 DEF Types, Services, Running, StartState, Earlier, Die, Kill
  <2>3. ASSUME NEW m \in Launchers PROVE StopState(m)'
    BY <1>15 DEF Types, Services, Running, StartState, StopState, Earlier, Die, Kill
  <2>4. ASSUME NEW m \in Launchers PROVE PortState(m)'
    BY <1>15, LauncherAssumption
       DEF Types, Services, Running, StartState, PortState, Earlier, Die, Kill
  <2> QED BY <2>1, <2>2, <2>3, <2>4
<1>16. ASSUME NEW v \in Services, Foreign(v) PROVE LauncherInv'
  <2>1. Types'
    BY <1>16 DEF Types, Services, Foreign, Overtaken
  <2>2. ASSUME NEW m \in Launchers PROVE StartState(m)'
    BY <1>16 DEF StartState, Foreign
  <2>3. ASSUME NEW m \in Launchers PROVE StopState(m)'
    BY <1>16 DEF StopState, Foreign
  <2>4. ASSUME NEW m \in Launchers PROVE PortState(m)'
    BY <1>16, LauncherAssumption DEF Types, Services, PortState, Foreign, Overtaken
  <2> QED BY <2>1, <2>2, <2>3, <2>4
<1> QED
  BY <1>1, <1>2, <1>3, <1>4, <1>5, <1>6, <1>7, <1>8, <1>9,
     <1>10, <1>11, <1>12, <1>13, <1>14, <1>15, <1>16
     DEF Next, Step

THEOREM LauncherInvariant == Spec => []LauncherInv
<1>1. LauncherInv /\ UNCHANGED vars => LauncherInv'
  BY DEF vars, LauncherInv, Types, StartState, StopState, PortState
<1> QED BY InitState, StepKeepsInv, <1>1, PTL DEF Spec

-----------------------------------------------------------------------------
(* The properties.                                                         *)

\* Types, and that main knows what it spawned and watches both services.
THEOREM TypeCorrect == Spec => []TypeOK
<1>1. LauncherInv => TypeOK
  BY DEF LauncherInv, Types, States, StartState, TypeOK
<1> QED BY <1>1, LauncherInvariant, PTL

\* A launcher that is gone, for none of the three named reasons, has left no
\* process running, wherever it was and whatever the services did meanwhile.
THEOREM NothingIsLeft == Spec => []NoOrphan
<1>1. LauncherInv => NoOrphan
  BY DEF LauncherInv, StopState, NoOrphan
<1> QED BY <1>1, LauncherInvariant, PTL

\* A service main has taken for ready is its own unless it was overtaken.
THEOREM ReadinessIsOwn == Spec => []ReadyIsOwn
<1>1. LauncherInv => ReadyIsOwn
  BY DEF LauncherInv, PortState, ReadyIsOwn
<1> QED BY <1>1, LauncherInvariant, PTL
=============================================================================
