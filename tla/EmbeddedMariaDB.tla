---------------------------- MODULE EmbeddedMariaDB ----------------------------
(***************************************************************************)
(* server/embedded-mariadb.js: the MariaDB server that runs as a child       *)
(* process, started before the database is connected, started again when it    *)
(* ends with an error, and stopped at the shutdown.                            *)
(*                                                                           *)
(* Three parties: the class, whose fields are below; the child processes,      *)
(* which print, exit and close in their own time; and the promise of start(),  *)
(* which asks once a second whether the server has started.                    *)
(***************************************************************************)
EXTENDS Naturals

CONSTANTS
  Procs,      \* bound: child processes, 1, 2, ...
  Missing,    \* TRUE: the program may be missing (ENOENT)
  MaxFailures \* bound: processes that end by themselves or are not found

\* What an instance has to satisfy.
MariaAssumption == Procs \subseteq Nat \ {0} /\ Missing \in BOOLEAN /\ MaxFailures \in Nat

VARIABLES
  process,   \* of a child: "none", "starting", "ready", "ended" (the close event is due), "closed"
  failed,    \* of a child: it ended with a code other than 0
  child,     \* this.childProcess: 0 or a process
  running, started,
  creating,  \* connections whose CREATE DATABASE has not been answered: the processes they are to
  kuma,      \* the database exists
  waiter,    \* the promise of start(): "none", "pending" or "resolved"
  shutdown,  \* stop() was called
  failures

mariaVars == <<process, failed, child, running, started, creating, kuma, waiter, shutdown, failures>>

TypeOK ==
  /\ process \in [Procs -> {"none", "starting", "ready", "ended", "closed"}]
  /\ failed \in [Procs -> BOOLEAN]
  /\ child \in Procs \cup {0}
  /\ {running, started, kuma, shutdown} \subseteq BOOLEAN
  /\ creating \subseteq Procs
  /\ waiter \in {"none", "pending", "resolved"}
  /\ failures \in 0..MaxFailures
  /\ child # 0 => running

Init ==
  /\ process = [p \in Procs |-> "none"] /\ failed = [p \in Procs |-> FALSE]
  /\ child = 0 /\ running = FALSE /\ started = FALSE
  /\ creating = {} /\ kuma = FALSE
  /\ waiter = "none" /\ shutdown = FALSE /\ failures = 0

Alive == {p \in Procs : process[p] \in {"starting", "ready"}}
Next1 == CHOOSE p \in Procs : process[p] = "none"

\* startChildProcess() once there is none.  A program that is missing is reported by an error
\* event and a close event with a negative code.
Spawn(before) ==
  /\ \E p \in Procs : process[p] = "none"
  /\ LET p == Next1
     IN /\ child' = p /\ running' = TRUE
        /\ \/ process' = [before EXCEPT ![p] = "starting"] /\ UNCHANGED <<failed, failures>>
           \/ /\ Missing /\ failures < MaxFailures /\ failures' = failures + 1
              /\ process' = [before EXCEPT ![p] = "ended"]
              /\ failed' = [failed EXCEPT ![p] = TRUE]

\* start(), called once, by Database.connect().
Start ==
  /\ waiter = "none" /\ ~shutdown
  /\ waiter' = "pending"
  /\ Spawn(process)
  /\ UNCHANGED <<started, creating, kuma, shutdown>>

\* The interval of one second.
Poll ==
  /\ waiter = "pending" /\ started
  /\ waiter' = "resolved"
  /\ UNCHANGED <<process, failed, child, running, started, creating, kuma, shutdown, failures>>

\* "ready for connections": initDBAfterStarted() connects and asks for the database.  It uses
\* mysql2 without promises, so the await does not wait for the answer.
Ready(p) ==
  /\ process[p] = "starting"
  /\ process' = [process EXCEPT ![p] = "ready"]
  /\ creating' = creating \cup {p}
  /\ started' = TRUE
  /\ UNCHANGED <<failed, child, running, kuma, waiter, shutdown, failures>>

\* The answer to CREATE DATABASE IF NOT EXISTS, if the process lives to give it.
Created(p) ==
  /\ p \in creating
  /\ creating' = creating \ {p}
  /\ kuma' = (kuma \/ process[p] = "ready")
  /\ UNCHANGED <<process, failed, child, running, started, waiter, shutdown, failures>>

\* mutant: the next one is started at once, and again by the close event
Fail_StartsNext(p) ==
  /\ p \in Alive
  /\ \E q \in Procs :
       /\ process[q] = "none"
       /\ process' = [process EXCEPT ![p] = "ended", ![q] = "starting"] /\ child' = q
  /\ failed' = [failed EXCEPT ![p] = TRUE]
  /\ UNCHANGED <<running, started, creating, kuma, waiter, shutdown, failures>>

\* The process ends by itself.
Fail(p) ==
  /\ p \in Alive /\ failures < MaxFailures
  /\ failures' = failures + 1
  /\ process' = [process EXCEPT ![p] = "ended"] /\ failed' = [failed EXCEPT ![p] = TRUE]
  /\ UNCHANGED <<child, running, started, creating, kuma, waiter, shutdown>>

\* It obeys the signal; what code it gives is its own affair.
Obey(p) ==
  /\ p \in Alive /\ shutdown /\ child # p
  /\ process' = [process EXCEPT ![p] = "ended"]
  /\ \E c \in BOOLEAN : failed' = [failed EXCEPT ![p] = c]
  /\ UNCHANGED <<child, running, started, creating, kuma, waiter, shutdown, failures>>

\* mutant: the fields are left as they are before the new start
Closed_Keeps == UNCHANGED started

\* What the close event leaves of `started`.
Closed == started' = FALSE

\* mutant: a process that ended is started again only if it had been ready
Restarts_AfterReady(p) == failed[p] /\ started

\* "Try to restart Embedded MariaDB as it is not stopped by user".
Restarts(p) == failed[p]

\* The close event.
Close(p) ==
  LET before == [process EXCEPT ![p] = "closed"]
  IN /\ process[p] = "ended"
     /\ Closed
     /\ IF Restarts(p) THEN Spawn(before)
        ELSE process' = before /\ child' = 0 /\ running' = FALSE /\ UNCHANGED <<failed, failures>>
     /\ UNCHANGED <<creating, kuma, waiter, shutdown>>

\* stop(): SIGINT, and the process is no longer ours.
Stop ==
  /\ child # 0 /\ ~shutdown
  /\ shutdown' = TRUE
  /\ child' = 0
  /\ UNCHANGED <<process, failed, running, started, creating, kuma, waiter, failures>>

Next ==
  \/ Start \/ Poll \/ Stop
  \/ \E p \in Procs : Ready(p) \/ Created(p) \/ Fail(p) \/ Obey(p) \/ Close(p)

\* Processes come up, obey and are noticed; the interval runs; answers come.
Fairness ==
  /\ WF_mariaVars(Poll)
  /\ \A p \in Procs : WF_mariaVars(Ready(p)) /\ WF_mariaVars(Close(p)) /\ WF_mariaVars(Obey(p))

Spec == Init /\ [][Next]_mariaVars /\ Fairness

-----------------------------------------------------------------------------
(* Properties *)

\* Never do two server processes run on the same data directory, whatever ends when.
OneServer == \A p, q \in Alive : p = q

\* `started` is never believed of a server that is not there: the one that printed it is ready, or
\* its close event is on the way.
StartedIsThere == started => \E p \in Procs : process[p] \in {"ready", "ended"}

\* start() resolves, through every failure of the process, unless the server is stopped.
StartResolves == waiter = "pending" ~> (waiter = "resolved" \/ shutdown)

\* What stop() is for: after it, no server remains.
StopIsFinal == shutdown ~> Alive = {}
===============================================================================
