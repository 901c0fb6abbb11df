---------------------------- MODULE BoundedProcess ----------------------------
(***************************************************************************)
(* BoundedProcessRunner.run (adapters/bounded_process.py): one command in a *)
(* session of its own, two threads that drain its pipes, a deadline, a     *)
(* cancellation callback, and the termination of the process group.        *)
(*                                                                         *)
(* The command is a leader that may fork one child; either may write, close *)
(* a pipe, exit, or ignore SIGTERM, and the child may leave the session    *)
(* with the pipes still open.  A process that was sent a deadly signal     *)
(* does nothing more but may take its time to go.                          *)
(***************************************************************************)
EXTENDS Naturals, Absent

CONSTANTS
    StreamLimit,  \* stdout_limit_bytes, stderr_limit_bytes
    MaxWritten    \* bound: what is written to a pipe

ASSUME BoundedAssumption ==
    StreamLimit \in Nat /\ MaxWritten \in Nat

VARIABLES
    member,  \* leader and child: status, the pipes held, whether SIGTERM is ignored
    drains,  \* _DrainCollector of each pipe: total, captured and state of its thread
    call     \* run: where it is, why it ends the command, what it returned

bpvars == <<member, drains, call>>

Members == {"leader", "child"}
Pipes == {"stdout", "stderr"}

(* A zombie still is a member of its group. *)
InGroup == {m \in Members : member[m].status \in {"running", "dying", "zombie"}}
Alive == {m \in Members : member[m].status \in {"running", "dying", "escaped"}}
Held(p) == \E m \in Alive : p \in member[m].holds

ProcessInit ==
    /\ member = [m \in Members |-> [status |-> "unborn", holds |-> {}, stubborn |-> FALSE]]
    /\ drains = [p \in Pipes |-> [written |-> 0, total |-> 0, captured |-> 0, state |-> "none"]]
    /\ call = [pc |-> "off", cause |-> None, outcome |-> None]

----------------------------------------------------------------------------
(* The command *)

CanAct(m) == member[m].status \in {"running", "escaped"}

Write(m, p) ==
    /\ CanAct(m) /\ p \in member[m].holds
    /\ drains[p].written < MaxWritten
    /\ drains' = [drains EXCEPT ![p].written = @ + 1]
    /\ UNCHANGED <<member, call>>

CloseEnd(m, p) ==
    /\ CanAct(m) /\ p \in member[m].holds
    /\ member' = [member EXCEPT ![m].holds = @ \ {p}]
    /\ UNCHANGED <<drains, call>>

Fork ==
    /\ member["leader"].status = "running"
    /\ member["child"].status = "unborn"
    /\ \E stubborn \in BOOLEAN :
         member' = [member EXCEPT !["child"] = [status |-> "running", stubborn |-> stubborn,
                                                holds |-> member["leader"].holds]]
    /\ UNCHANGED <<drains, call>>

Escape ==
    /\ member["child"].status = "running"
    /\ member' = [member EXCEPT !["child"].status = "escaped"]
    /\ UNCHANGED <<drains, call>>

(* The leader waits as a zombie for its parent, the runner; an orphan is reaped at once. *)
Exit(m) ==
    /\ member[m].status \in {"running", "dying", "escaped"}
    /\ member' = [member EXCEPT
                    ![m].status = IF m = "leader" THEN "zombie" ELSE "gone",
                    ![m].holds = {}]
    /\ UNCHANGED <<drains, call>>

----------------------------------------------------------------------------
(* _DrainCollector.drain *)

Drain(p) ==
    /\ drains[p].state = "alive"
    /\ drains[p].total < drains[p].written
    /\ drains' = [drains EXCEPT ![p].total = @ + 1,
                                ![p].captured = IF @ < StreamLimit THEN @ + 1 ELSE @]
    /\ UNCHANGED <<member, call>>

DrainEnds(p) ==
    /\ drains[p].state = "alive"
    /\ drains[p].total = drains[p].written
    /\ ~Held(p)
    /\ drains' = [drains EXCEPT ![p].state = "complete"]
    /\ UNCHANGED <<member, call>>

----------------------------------------------------------------------------
(* run *)

(* killpg: SIGTERM is deadly for a process that does not ignore it, SIGKILL for all. *)
Signalled(force) ==
    [m \in Members |->
        IF member[m].status = "running" /\ (force \/ ~member[m].stubborn)
        THEN [member[m] EXCEPT !.status = "dying"] ELSE member[m]]

(* process.poll() and _reap_process_leader *)
Reaped(members) ==
    IF members["leader"].status = "zombie"
    THEN [members EXCEPT !["leader"].status = "gone"] ELSE members

(* Seeded fault: the leader stands for its group. *)
GroupGoneWithLeader == "leader" \notin InGroup \/ member["leader"].status = "zombie"

(* _process_group_exists, after a poll: nothing but a zombie leader is left. *)
GroupGone == \A m \in InGroup : member[m].status = "zombie"

(* Popen in a session of its own, or its failure, and the two threads. *)
Start ==
    /\ call.pc = "off"
    /\ \/ /\ call' = [call EXCEPT !.pc = "ended", !.outcome = "spawn-failed"]
          /\ UNCHANGED <<member, drains>>
       \/ /\ call' = [call EXCEPT !.pc = "poll"]
          /\ \E stubborn \in BOOLEAN :
               member' = [member EXCEPT !["leader"] = [status |-> "running", holds |-> Pipes,
                                                       stubborn |-> stubborn]]
          /\ drains' = [p \in Pipes |-> [drains[p] EXCEPT !.state = "alive"]]

(* The poll loop: the leader has exited, or the callback asks for cancellation or fails,
   or the deadline has passed. *)
Poll ==
    /\ call.pc = "poll"
    /\ \/ /\ member["leader"].status = "zombie"
          /\ member' = Reaped(member)
          /\ call' = [call EXCEPT !.pc = "join"]
       \/ /\ member["leader"].status # "zombie"
          /\ \E cause \in {"canceled", "timed-out", "callback-failed"} :
               call' = [call EXCEPT !.pc = "terminate", !.cause = cause]
          /\ UNCHANGED member
    /\ UNCHANGED drains

(* _terminate_process_group, first with SIGTERM: then the group is waited for. *)
Terminate ==
    /\ call.pc = "terminate"
    /\ member' = Signalled(FALSE)
    /\ call' = [call EXCEPT !.pc = "waiting"]
    /\ UNCHANGED drains

ForceKill ==
    /\ call.pc \in {"force", "force-drained"}
    /\ member' = Signalled(TRUE)
    /\ call' = [call EXCEPT !.pc = IF @ = "force" THEN "waiting-forced" ELSE "waiting-drained"]
    /\ UNCHANGED drains

(* The group is gone and its leader reaped. *)
GroupLeft ==
    /\ call.pc \in {"waiting", "waiting-forced", "waiting-drained"}
    /\ GroupGone
    /\ member' = Reaped(member)
    /\ call' = [call EXCEPT !.pc = IF @ = "waiting-drained" THEN "close" ELSE "join"]
    /\ UNCHANGED drains

(* The grace passes: SIGKILL, or the end of all means. *)
GraceOver ==
    /\ call.pc \in {"waiting", "waiting-forced", "waiting-drained"}
    /\ ~GroupGone
    /\ call' = IF call.pc = "waiting" THEN [call EXCEPT !.pc = "force"]
               ELSE [call EXCEPT !.pc = "ended", !.outcome = "output-incomplete"]
    /\ UNCHANGED <<member, drains>>

DrainsComplete == \A p \in Pipes : drains[p].state = "complete"

FailureOf(cause) ==
    CASE cause \in {"canceled", "timed-out"} -> cause
      [] cause = "callback-failed" -> "output-incomplete"

(* The threads have ended: the result, unless the command was ended for a cause. *)
Joined ==
    /\ call.pc = "join"
    /\ DrainsComplete
    /\ call' = [call EXCEPT !.pc = "ended",
                    !.outcome = CASE call.cause # None -> FailureOf(call.cause)
                                  [] call.cause = None /\ \E p \in Pipes :
                                        drains[p].total > StreamLimit -> "output-too-large"
                                  [] OTHER -> "result"]
    /\ UNCHANGED <<member, drains>>

(* Seeded fault: the threads are joined without a timeout. *)
JoinsForever == FALSE /\ UNCHANGED bpvars

(* A thread still reads when the drain grace is over. *)
JoinGraceOver ==
    /\ call.pc = "join"
    /\ ~DrainsComplete
    /\ call' = [call EXCEPT !.pc = "force-drained"]
    /\ UNCHANGED <<member, drains>>

(* close() of a pipe waits for the read of its thread to return. *)
ClosePipes ==
    /\ call.pc = "close"
    /\ \A p \in Pipes : ~Held(p)
    /\ call' = [call EXCEPT !.pc = "ended",
                    !.outcome = IF call.cause \in {"canceled", "timed-out"} THEN call.cause
                                ELSE "output-incomplete"]
    /\ UNCHANGED <<member, drains>>

Command ==
    \/ \E m \in Members, p \in Pipes : Write(m, p) \/ CloseEnd(m, p)
    \/ Fork \/ Escape \/ \E m \in Members : Exit(m)

Drains == \E p \in Pipes : Drain(p) \/ DrainEnds(p)

Runner ==
    \/ Poll \/ Terminate \/ ForceKill \/ GroupLeft \/ GraceOver \/ Joined \/ JoinGraceOver
    \/ ClosePipes

ProcessNext == Start \/ (call.pc # "ended" /\ (Command \/ Drains \/ Runner))

(* The runner's waits all have a timeout; the kernel removes what was killed, and a
   thread reads what is there. *)
ProcessFairness ==
    /\ WF_bpvars(call.pc # "ended" /\ Runner)
    /\ WF_bpvars(call.pc # "ended" /\ Drains)
    /\ \A m \in Members : WF_bpvars(call.pc # "ended" /\ member[m].status = "dying" /\ Exit(m))

ProcessSpec == ProcessInit /\ [][ProcessNext]_bpvars /\ ProcessFairness

----------------------------------------------------------------------------
(* Properties *)

(* Whatever the command does when run gives up on it, nothing of it survives: a timeout
   or a cancellation leaves an empty process group and a reaped leader, an incomplete
   output at most processes that were sent SIGKILL, and a result means that both pipes
   were read to the end and hold no more than their limit. *)
NothingLeftRunning ==
    call.pc = "ended" =>
        /\ call.outcome \in {"canceled", "timed-out"} => InGroup = {}
        /\ call.outcome = "output-incomplete" =>
              \A m \in InGroup : member[m].status \in {"dying", "zombie"}
        /\ call.outcome = "result" =>
              /\ "leader" \notin InGroup
              /\ \A p \in Pipes : /\ ~Held(p)
                                  /\ drains[p].captured = drains[p].written

(* A call of run returns, however the command behaves: it may ignore SIGTERM, fork and
   exit, or keep a pipe open.  The exception is a descendant that left the session with a
   pipe open: it outlives the group, and close() waits for it without a timeout. *)
ProcessReturns ==
    (call.pc # "off") ~> (call.pc = "ended" \/ member["child"].status = "escaped")
=============================================================================
