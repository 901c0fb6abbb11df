-------------------------------- MODULE Daemon --------------------------------
(***************************************************************************)
(* RuntimeDaemon.serve (bootstrap/daemon.py), the component processes it    *)
(* spawns (bootstrap/process.py) and the role lock every worker holds       *)
(* while it serves (bootstrap/worker_process_lock.py).                     *)
(*                                                                         *)
(* Daemons may be started one after another or at the same time on one     *)
(* data directory; a daemon may be killed, which leaves its components     *)
(* behind; any system call that can fail may fail.  A worker's service is  *)
(* its reconciliation followed by its cycles.                              *)
(***************************************************************************)
EXTENDS Naturals, Sequences, Absent

CONSTANTS
    Daemons,     \* the daemons that are started
    Components,  \* the components in the order in which they are spawned, "api" first
    MaxFaults    \* bound: spawns and kills that fail, daemons that are killed

ASSUME DaemonAssumption ==
    /\ Components \in Seq(STRING) \ {<<>>} /\ Components[1] = "api" /\ MaxFaults \in Nat
    /\ None \notin Daemons \X Nat

VARIABLES
    daemon,  \* serve: where it is, the next component, what it is about to return
    child,   \* the component processes of every daemon
    locks,   \* role -> the process that holds its lock, a daemon's component
    faults   \* faults so far

dvars == <<daemon, child, locks, faults>>

Index == 1 .. Len(Components)
Roles == {Components[i] : i \in Index} \ {"api"}
Running(d, i) == child[d][i] \in {"starting", "reconciling", "serving"}

DaemonInit ==
    /\ daemon = [d \in Daemons |-> [pc |-> "off", next |-> 1, stop |-> FALSE,
                                    stale |-> {}, result |-> None]]
    /\ child = [d \in Daemons |-> [i \in Index |-> "none"]]
    /\ locks = [r \in Roles |-> None]
    /\ faults = 0

Fault == faults < MaxFaults /\ faults' = faults + 1
NoFault == UNCHANGED faults

(* A process that ends gives back its lock. *)
ReleasedBy(d, i) == [r \in Roles |-> IF locks[r] = <<d, i>> THEN None ELSE locks[r]]

----------------------------------------------------------------------------
(* A component process: _serve_* *)

(* Seeded fault: the worker reconciles before it has the lock. *)
BootUnlocked(d, i) ==
    /\ child[d][i] = "starting"
    /\ child' = [child EXCEPT ![d][i] = "reconciling"]
    /\ UNCHANGED <<daemon, locks, faults>>

(* worker_process_lock: with the lock taken the worker reconciles, else it ends. *)
Boot(d, i) ==
    /\ child[d][i] = "starting"
    /\ IF Components[i] = "api"
       THEN /\ child' = [child EXCEPT ![d][i] = "serving"]
            /\ UNCHANGED locks
       ELSE IF locks[Components[i]] = None
            THEN /\ child' = [child EXCEPT ![d][i] = "reconciling"]
                 /\ locks' = [locks EXCEPT ![Components[i]] = <<d, i>>]
            ELSE /\ child' = [child EXCEPT ![d][i] = "gone"]
                 /\ UNCHANGED locks
    /\ UNCHANGED <<daemon, faults>>

Reconciled(d, i) ==
    /\ child[d][i] = "reconciling"
    /\ child' = [child EXCEPT ![d][i] = "serving"]
    /\ UNCHANGED <<daemon, locks, faults>>

(* The process ends: by itself, by a crash, or because it was told to. *)
ChildEnds(d, i) ==
    /\ Running(d, i)
    /\ child' = [child EXCEPT ![d][i] = "gone"]
    /\ locks' = ReleasedBy(d, i)
    /\ UNCHANGED <<daemon, faults>>

----------------------------------------------------------------------------
(* RuntimeDaemon.serve *)

StartDaemon(d) ==
    /\ daemon[d].pc = "off"
    /\ daemon' = [daemon EXCEPT ![d].pc = "spawning"]
    /\ UNCHANGED <<child, locks, faults>>

(* Seeded fault: a failed start raises before the components are stopped. *)
SpawnFailsAtOnce(d) ==
    /\ daemon[d].pc = "spawning"
    /\ LET i == daemon[d].next
       IN  \/ /\ child' = [child EXCEPT ![d][i] = "starting"]
              /\ daemon' = [daemon EXCEPT ![d].next = i + 1,
                                          ![d].pc = IF i = Len(Components) THEN "watching" ELSE @]
              /\ NoFault
           \/ /\ Fault
              /\ daemon' = [daemon EXCEPT ![d].pc = "ended", ![d].result = "startup-failed"]
              /\ UNCHANGED child
    /\ UNCHANGED locks

(* _spawn, of one component after another; a stop request is seen when all are started. *)
Spawn(d) ==
    /\ daemon[d].pc = "spawning"
    /\ LET i == daemon[d].next
       IN  \/ /\ child' = [child EXCEPT ![d][i] = "starting"]
              /\ daemon' = [daemon EXCEPT ![d].next = i + 1,
                                          ![d].pc = IF i = Len(Components) THEN "watching" ELSE @]
              /\ NoFault
           \/ /\ Fault
              /\ daemon' = [daemon EXCEPT ![d].pc = "stopping", ![d].result = "startup-failed"]
              /\ UNCHANGED child
    /\ UNCHANGED locks

(* SIGINT or SIGTERM: request_stop. *)
RequestStop(d) ==
    /\ daemon[d].pc \in {"spawning", "watching"}
    /\ ~daemon[d].stop
    /\ daemon' = [daemon EXCEPT ![d].stop = TRUE]
    /\ UNCHANGED <<child, locks, faults>>

(* Seeded fault: only the first component is polled. *)
WatchFirst(d) ==
    /\ daemon[d].pc = "watching"
    /\ \/ /\ daemon[d].stop
          /\ daemon' = [daemon EXCEPT ![d].pc = "stopping", ![d].result = "stopped"]
       \/ /\ ~daemon[d].stop
          /\ ~Running(d, 1)
          /\ daemon' = [daemon EXCEPT ![d].pc = "stopping", ![d].result = "component-exit"]
    /\ UNCHANGED <<child, locks, faults>>

(* The loop of serve: stop when asked to, or when any component has ended. *)
Watch(d) ==
    /\ daemon[d].pc = "watching"
    /\ \/ /\ daemon[d].stop
          /\ daemon' = [daemon EXCEPT ![d].pc = "stopping", ![d].result = "stopped"]
       \/ /\ ~daemon[d].stop
          /\ \E i \in Index : ~Running(d, i)
          /\ daemon' = [daemon EXCEPT ![d].pc = "stopping", ![d].result = "component-exit"]
    /\ UNCHANGED <<child, locks, faults>>

(* _stop_children: SIGTERM for all that run; an error is suppressed.  A component may end
   at any time, so that the signal changes nothing of what may happen next. *)
TerminateChildren(d) ==
    /\ daemon[d].pc = "stopping"
    /\ daemon' = [daemon EXCEPT ![d].pc = "waiting", ![d].stale = {}, ![d].next = 1]
    /\ UNCHANGED <<child, locks, faults>>

(* One child after another is waited for until the common deadline. *)
WaitChild(d) ==
    /\ daemon[d].pc = "waiting"
    /\ LET i == daemon[d].next
           stale == IF Running(d, i) THEN daemon[d].stale \cup {i} ELSE daemon[d].stale
       IN  daemon' = [daemon EXCEPT ![d].stale = stale, ![d].next = i + 1,
                                    ![d].pc = IF i = Len(Components) THEN "killing" ELSE @]
    /\ UNCHANGED <<child, locks, faults>>

(* A stale child is killed and waited for; a failure leaves it and the ones behind it. *)
KillStale(d) ==
    /\ daemon[d].pc = "killing"
    /\ IF daemon[d].stale = {}
       THEN /\ daemon' = [daemon EXCEPT ![d].pc = "ended"]
            /\ UNCHANGED <<child, locks, faults>>
       ELSE LET i == CHOOSE j \in daemon[d].stale : \A k \in daemon[d].stale : j <= k
            IN  \/ /\ child' = [child EXCEPT ![d][i] = "gone"]
                   /\ locks' = ReleasedBy(d, i)
                   /\ daemon' = [daemon EXCEPT ![d].stale = @ \ {i}]
                   /\ NoFault
                \/ /\ Fault
                   /\ daemon' = [daemon EXCEPT ![d].pc = "ended", ![d].result = "cleanup-failed"]
                   /\ UNCHANGED <<child, locks>>

(* SIGKILL of the daemon itself. *)
DaemonKilled(d) ==
    /\ daemon[d].pc \notin {"off", "ended"}
    /\ Fault
    /\ daemon' = [daemon EXCEPT ![d].pc = "ended", ![d].result = "killed"]
    /\ UNCHANGED <<child, locks>>

DaemonStep(d) ==
    \/ Spawn(d) \/ Watch(d) \/ TerminateChildren(d) \/ WaitChild(d) \/ KillStale(d)

DaemonNext ==
    \/ \E d \in Daemons :
         StartDaemon(d) \/ RequestStop(d) \/ DaemonStep(d) \/ DaemonKilled(d)
    \/ \E d \in Daemons, i \in Index : Boot(d, i) \/ Reconciled(d, i) \/ ChildEnds(d, i)

(* A running process takes its steps. *)
DaemonFairness ==
    /\ \A d \in Daemons : WF_dvars(DaemonStep(d))
    /\ \A d \in Daemons, i \in Index : WF_dvars(Boot(d, i))

DaemonSpec == DaemonInit /\ [][DaemonNext]_dvars /\ DaemonFairness

----------------------------------------------------------------------------
(* Properties *)

(* A worker reconciles, which invalidates the leases its predecessor left, only when no
   other worker of its role is at work, even if a killed daemon left that one behind; and
   a daemon that returned has no component running, unless it said so or was killed. *)
OneWorkerPerRole ==
    /\ \A d, e \in Daemons, i \in Index :
         /\ Components[i] # "api"
         /\ child[d][i] = "reconciling"
         /\ child[e][i] \in {"reconciling", "serving"}
         => d = e
    /\ \A d \in Daemons :
         daemon[d].pc = "ended" /\ daemon[d].result \notin {"cleanup-failed", "killed"} =>
            \A i \in Index : ~Running(d, i)

(* A daemon that is asked to stop or loses a component ends, whatever fails; so does one
   whose worker finds its role taken. *)
DaemonEnds ==
    \A d \in Daemons :
        (daemon[d].pc # "off" /\ (daemon[d].stop \/ \E i \in Index : child[d][i] = "gone"))
            ~> daemon[d].pc = "ended"
=============================================================================
