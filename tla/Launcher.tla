------------------------------ MODULE Launcher ------------------------------
(***************************************************************************)
(* scripts/start_all.py, possibly run in several terminals: it prepares   *)
(* the database, starts the API and then the UI, watches both, and stops  *)
(* what it started.  The services run in sessions of their own, so a      *)
(* Ctrl+C reaches the launcher only.                                      *)
(*                                                                        *)
(* A service is one process: the worker of uvicorn --reload is not told   *)
(* from the process that watches it.  It has one port, whether asked as   *)
(* 127.0.0.1 (is it taken?) or as localhost (is it ready?).               *)
(***************************************************************************)
EXTENDS FiniteSets

CONSTANTS
    Launchers,  \* runs of `make start`
    Other,      \* the owner of a port that no launcher's process holds
    None        \* no owner

ASSUME LauncherAssumption == Other \notin Launchers /\ None \notin Launchers \cup {Other}

VARIABLES
    pc,      \* where main is
    at,      \* the service it starts or stops
    proc,    \* the process it spawned for a service
    known,   \* the services whose process it has in a variable (api_process, ui_process)
    port,    \* who listens on a service's port
    raced,   \* history: ports another process took after this launcher looked
    lapse    \* history: what first kept this launcher from cleaning up, or "none"

vars == <<pc, at, proc, known, port, raced, lapse>>

Services == {"api", "ui"}
Running  == {"starting", "serving"}
Labels   == {"idle", "prepare", "check", "spawn", "wait", "watch", "stop", "reap", "exit"}

Init ==
    /\ pc = [l \in Launchers |-> "idle"]
    /\ at = [l \in Launchers |-> "api"]
    /\ proc = [l \in Launchers |-> [v \in Services |-> "none"]]
    /\ known = [l \in Launchers |-> {}]
    /\ port \in [Services -> {None, Other}]
    /\ raced = [l \in Launchers |-> {}]
    /\ lapse = [l \in Launchers |-> "none"]

Goto(l, label, v) == pc' = [pc EXCEPT ![l] = label] /\ at' = [at EXCEPT ![l] = v]

\* main leaves its try block: the finally stops the UI, then the API.
Leave(l) == Goto(l, "stop", "ui")

Lapse(l, name, happened) ==
    lapse' = [lapse EXCEPT ![l] = IF happened /\ @ = "none" THEN name ELSE @]

\* start_or_reuse has a process that main does not know of yet.
Unassigned(l) == pc[l] = "wait" /\ proc[l][at[l]] \in Running

Start(l) ==
    /\ pc[l] = "idle"
    /\ Goto(l, "prepare", "api")
    /\ UNCHANGED <<proc, known, port, raced, lapse>>

\* The four preparation steps; each may fail or be waited for for ever.
Prepare(l) ==
    /\ pc[l] = "prepare"
    /\ Goto(l, "check", "api") \/ Leave(l)
    /\ UNCHANGED <<proc, known, port, raced, lapse>>

CheckReuses(l) ==                                                      \* mutant
    /\ pc[l] = "check"
    /\ Goto(l, "spawn", at[l])
    /\ UNCHANGED <<proc, known, port, raced, lapse>>

\* A port in use is an error, whoever uses it.
Check(l) ==
    /\ pc[l] = "check"
    /\ IF port[at[l]] = None THEN Goto(l, "spawn", at[l]) ELSE Leave(l)
    /\ UNCHANGED <<proc, known, port, raced, lapse>>

\* Popen, or the command is missing.
Spawn(l) ==
    /\ pc[l] = "spawn"
    /\ \/ /\ proc' = [proc EXCEPT ![l][at[l]] = "starting"]
          /\ Goto(l, "wait", at[l])
       \/ /\ Leave(l)
          /\ UNCHANGED proc
    /\ UNCHANGED <<known, port, raced, lapse>>

\* The health URL answers - whoever answers it - and the process is returned.
ReadyForgetsUI(l) ==                                                   \* mutant
    /\ pc[l] = "wait"
    /\ port[at[l]] # None
    /\ known' = [known EXCEPT ![l] = @ \cup {"api"}]
    /\ IF at[l] = "api" THEN Goto(l, "check", "ui") ELSE Goto(l, "watch", "ui")
    /\ UNCHANGED <<proc, port, raced, lapse>>

Ready(l) ==
    /\ pc[l] = "wait"
    /\ port[at[l]] # None
    /\ known' = [known EXCEPT ![l] = @ \cup {at[l]}]
    /\ IF at[l] = "api" THEN Goto(l, "check", "ui") ELSE Goto(l, "watch", "ui")
    /\ UNCHANGED <<proc, port, raced, lapse>>

\* The process died, or the 30 seconds are over: wait_for raises, and main
\* never receives the process.
GiveUp(l) ==
    /\ pc[l] = "wait"
    /\ Leave(l)
    /\ Lapse(l, "unassigned", Unassigned(l))
    /\ UNCHANGED <<proc, known, port, raced>>

WatchAPIOnly(l) ==                                                     \* mutant
    /\ pc[l] = "watch"
    /\ proc[l]["api"] = "dead"
    /\ Leave(l)
    /\ UNCHANGED <<proc, known, port, raced, lapse>>

Watch(l) ==
    /\ pc[l] = "watch"
    /\ \E v \in known[l] : proc[l][v] = "dead"
    /\ Leave(l)
    /\ UNCHANGED <<proc, known, port, raced, lapse>>

-----------------------------------------------------------------------------
(* The finally block: stop_process for the UI, then for the API.           *)

Kill(l, v) ==
    /\ proc' = [proc EXCEPT ![l][v] = "dead"]
    /\ port' = [port EXCEPT ![v] = IF @ = l THEN None ELSE @]

StopsUIOnly(l) == Goto(l, "exit", "api")                               \* mutant

StopsNext(l) == IF at[l] = "ui" THEN Goto(l, "stop", "api") ELSE Goto(l, "exit", "api")

Skip(l) ==
    /\ pc[l] = "stop"
    /\ at[l] \in known[l] => proc[l][at[l]] = "dead"
    /\ StopsNext(l)
    /\ UNCHANGED <<proc, known, port, raced, lapse>>

\* SIGTERM; the process may obey at any time, as it may die at any time.
Terminate(l) ==
    /\ pc[l] = "stop"
    /\ at[l] \in known[l]
    /\ proc[l][at[l]] \in Running
    /\ Goto(l, "reap", at[l])
    /\ UNCHANGED <<proc, known, port, raced, lapse>>

\* It is gone, or it is killed after eight seconds.
Reap(l) ==
    /\ pc[l] = "reap"
    /\ Kill(l, at[l])
    /\ StopsNext(l)
    /\ UNCHANGED <<known, raced, lapse>>

-----------------------------------------------------------------------------
(* What happens to a launcher and to the processes.                        *)

\* Ctrl+C in the try block: main returns 0 through the finally block.
Interrupt(l) ==
    /\ pc[l] \in {"prepare", "check", "spawn", "wait", "watch"}
    /\ Leave(l)
    /\ Lapse(l, "unassigned", Unassigned(l))
    /\ UNCHANGED <<proc, known, port, raced>>

\* A second Ctrl+C ends the finally block, a SIGTERM anything.
InterruptAgain(l) ==
    /\ pc[l] \in {"stop", "reap"}
    /\ Goto(l, "exit", "api")
    /\ Lapse(l, "twice", TRUE)
    /\ UNCHANGED <<proc, known, port, raced>>

Terminated(l) ==
    /\ pc[l] \notin {"idle", "exit"}
    /\ Goto(l, "exit", "api")
    /\ Lapse(l, "killed", TRUE)
    /\ UNCHANGED <<proc, known, port, raced>>

\* Who has looked at the port and not bound it yet is raced by who binds it.
Overtaken(v, owner) ==
    raced' = [m \in Launchers |->
                IF m # owner /\ at[m] = v /\ pc[m] \in {"spawn", "wait"} /\ port[v] # m
                THEN raced[m] \cup {v} ELSE raced[m]]

\* A process binds its port and serves, or finds it taken and exits.
Bind(l, v) ==
    /\ proc[l][v] = "starting"
    /\ IF port[v] = None
       THEN /\ proc' = [proc EXCEPT ![l][v] = "serving"]
            /\ port' = [port EXCEPT ![v] = l]
            /\ Overtaken(v, l)
       ELSE /\ proc' = [proc EXCEPT ![l][v] = "dead"]
            /\ UNCHANGED <<port, raced>>
    /\ UNCHANGED <<pc, at, known, lapse>>

Die(l, v) ==
    /\ proc[l][v] \in Running
    /\ Kill(l, v)
    /\ UNCHANGED <<pc, at, known, raced, lapse>>

\* A process started by other means takes or leaves a port.
Foreign(v) ==
    /\ \/ port[v] = None /\ port' = [port EXCEPT ![v] = Other] /\ Overtaken(v, Other)
       \/ port[v] = Other /\ port' = [port EXCEPT ![v] = None] /\ UNCHANGED raced
    /\ UNCHANGED <<pc, at, proc, known, lapse>>

Step(l) == \/ Check(l) \/ Spawn(l) \/ Ready(l) \/ GiveUp(l) \/ Watch(l)
           \/ Skip(l) \/ Terminate(l) \/ Reap(l)

Next ==
    \/ \E l \in Launchers :
           \/ Start(l) \/ Prepare(l) \/ Step(l)
           \/ Interrupt(l) \/ InterruptAgain(l) \/ Terminated(l)
           \/ \E v \in Services : Bind(l, v) \/ Die(l, v)
    \/ \E v \in Services : Foreign(v)

Spec == Init /\ [][Next]_vars

\* The launcher's own code runs: its waits have a limit, the database
\* preparation excepted (the readiness loop has none).
FairSpec == Spec /\ \A l \in Launchers : WF_vars(Step(l))

-----------------------------------------------------------------------------
\* Types; main knows what it spawned, and watches both.
TypeOK ==
    /\ pc \in [Launchers -> Labels]
    /\ at \in [Launchers -> Services]
    /\ proc \in [Launchers -> [Services -> {"none", "dead"} \cup Running]]
    /\ known \in [Launchers -> SUBSET Services]
    /\ port \in [Services -> Launchers \cup {Other, None}]
    /\ raced \in [Launchers -> SUBSET Services]
    /\ lapse \in [Launchers -> {"none", "unassigned", "twice", "killed"}]
    /\ \A l \in Launchers : /\ \A v \in known[l] : proc[l][v] # "none"
                            /\ pc[l] = "watch" => known[l] = Services

\* A launcher that is gone leaves no process behind, however its start went:
\* a service that did not come up takes the one before it down.  The
\* exceptions are the three ways the code has: the wait for readiness ended
\* before main got the process (time out or Ctrl+C), a second Ctrl+C cut the
\* cleanup short, or a signal other than SIGINT ended the launcher.
NoOrphan ==
    \A l \in Launchers :
        pc[l] = "exit" /\ lapse[l] = "none" => \A v \in Services : proc[l][v] \notin Running

\* A launcher that reports readiness serves itself, or its process is dead
\* and the next poll finds out - unless someone took the port after the
\* launcher had found it free: the health check does not ask who answers.
ReadyIsOwn ==
    \A l \in Launchers : \A v \in known[l] \ raced[l] :
        port[v] = l \/ proc[l][v] = "dead"

\* The launcher is starting a service, or one that it watches has died.
Unsettled(l) ==
    \/ pc[l] \in {"check", "spawn", "wait"}
    \/ pc[l] = "watch" /\ \E v \in Services : proc[l][v] = "dead"

\* Startup comes to a decision, and a launcher one of whose services has died
\* ends, also if another launcher's service answers in its place.
LauncherDecides ==
    \A l \in Launchers :
        Unsettled(l) ~> pc[l] = "exit" \/ (pc[l] = "watch" /\ ~Unsettled(l))
=============================================================================
