-------------------------- MODULE ExecutionJournal --------------------------
(***************************************************************************)
(* ExecutionRunProjection (orchestration/execution_runtime.py): what a     *)
(* run's stream says about the execution of its generated plan.  Per event *)
(* type one predicate says when apply accepts the event and one operator   *)
(* what it folds to.                                                       *)
(*                                                                         *)
(* A plan is named by its revision, a workspace by <<revision, task,       *)
(* attempt>> and a commit by the set of workspaces whose changes it holds; *)
(* the goal's base commit is the empty set.  The four amounts of a budget  *)
(* are treated alike and are one number here.  Digests and payload shapes  *)
(* bind an event to what the coordinator just read and are left out.       *)
(***************************************************************************)
EXTENDS Integers, Absent

CONSTANTS
    MaxAttempts,    \* max_attempts of the goal and of every task, at most 3
    SameErrorLimit  \* same_error_limit of the goal

ASSUME AttemptAssumption == MaxAttempts \in 1 .. 3 /\ SameErrorLimit \in Nat \ {0}

RunOutcomes ==
    {"succeeded", "replan-required", "blocked", "canceled", "escalated", "terminal-failure"}
FinalStatuses == RunOutcomes \ {"replan-required"}

NoRun ==
    [status |-> "none", revision |-> 0, draft |-> FALSE, tasks |-> <<>>, used |-> 0,
     complete |-> TRUE, retained |-> {}]

NewTask(spec) ==
    [deps |-> spec.deps, writer |-> spec.writer, status |-> "pending", attempts |-> 0,
     error |-> None, same |-> 0, progress |-> None, active |-> None, head |-> None,
     policy |-> None, reason |-> FALSE]

Workspace(k, t, attempt) == <<k.revision, t, attempt>>

(* Seeded fault: usage that was not reported leaves the sum complete. *)
DebitForgets(k, usage) == [k EXCEPT !.used = @ + (IF usage = None THEN 0 ELSE usage)]

(* Usage that the provider did not report counts nothing and makes the sum
   incomplete. *)
Debit(k, usage) ==
    [k EXCEPT !.used = @ + (IF usage = None THEN 0 ELSE usage),
              !.complete = @ /\ usage # None]

ReplaceTask(k, t, task) == [k EXCEPT !.tasks[t] = task]

Started(k) == k.status # "none"
Open(k) == Started(k) /\ k.status \notin FinalStatuses

----------------------------------------------------------------------------
(* Planning *)

GoalAccepted(k) == ~Started(k)
Goal(k) == [k EXCEPT !.status = "admitted"]

ReplanAccepted(k) == Open(k) /\ k.status = "replan-required" /\ ~k.draft
Replan(k) == [k EXCEPT !.status = "replanning"]

DraftAccepted(k) == Open(k) /\ k.status \in {"admitted", "replanning"} /\ ~k.draft
Draft(k, usage) == [Debit(k, usage) EXCEPT !.draft = TRUE]

(* The plan's revision follows the one it supersedes, and its draft is the one
   received. *)
PlanAccepted(k) ==
    /\ Open(k)
    /\ \/ k.revision = 0 /\ k.status = "admitted"
       \/ k.revision > 0 /\ k.status = "replanning"
    /\ k.draft
Plan(k, specs) ==
    [k EXCEPT !.revision = @ + 1, !.status = "running", !.draft = FALSE,
              !.tasks = [t \in DOMAIN specs |-> NewTask(specs[t])]]

----------------------------------------------------------------------------
(* Tasks *)

ReadyAccepted(k, t, attempt) ==
    /\ Open(k)
    /\ k.status = "running"
    /\ k.tasks[t].status \in {"pending", "repairable"}
    /\ attempt = k.tasks[t].attempts + 1
    /\ attempt <= MaxAttempts
    /\ k.tasks[t].policy = None
    /\ \A s \in k.tasks[t].deps : k.tasks[s].status = "succeeded"
Ready(k, t) == [k EXCEPT !.tasks[t].status = "ready"]

PolicyAccepted(k, t, attempt) ==
    /\ Open(k)
    /\ k.tasks[t].status = "ready"
    /\ attempt = k.tasks[t].attempts + 1
    /\ k.tasks[t].policy = None
Policy(k, t, allowed) == [k EXCEPT !.tasks[t].policy = [allowed |-> allowed]]

(* Seeded fault: the head of one dependency stands for all. *)
FirstHead(k, t) ==
    IF k.tasks[t].deps = {} THEN {}
    ELSE k.tasks[CHOOSE s \in k.tasks[t].deps : \A u \in k.tasks[t].deps : s <= u].head

(* _expected_base_commit: None where it raises. *)
ExpectedBase(k, t) ==
    LET heads == {k.tasks[s].head : s \in k.tasks[t].deps}
    IN  IF heads = {} THEN {}
        ELSE IF \E h \in heads : h # None /\ heads = {h}
             THEN CHOOSE h \in heads : TRUE
             ELSE None

StartAccepted(k, t, attempt, base) ==
    /\ Open(k)
    /\ k.tasks[t].status = "ready"
    /\ attempt = k.tasks[t].attempts + 1
    /\ base = ExpectedBase(k, t)
    /\ k.tasks[t].policy = [allowed |-> TRUE]
Start(k, t, attempt) ==
    ReplaceTask(k, t, [k.tasks[t] EXCEPT
        !.status = "running", !.attempts = attempt, !.active = Workspace(k, t, attempt),
        !.policy = None])

BlockAccepted(k, t) ==
    /\ Open(k)
    /\ k.tasks[t].status = "ready"
    /\ k.tasks[t].policy = [allowed |-> FALSE]
Block(k, t) ==
    ReplaceTask(k, t, [k.tasks[t] EXCEPT !.status = "blocked", !.reason = TRUE, !.policy = None])

VerifyingAccepted(k, t, attempt) ==
    /\ Open(k)
    /\ k.tasks[t].status = "running"
    /\ attempt = k.tasks[t].attempts
    /\ k.tasks[t].active = Workspace(k, t, attempt)
Verifying(k, t) == [k EXCEPT !.tasks[t].status = "verifying"]

(* AttemptEvidence is [clean, passed, class, error, progress, head, usage]; error is
   error_signature. *)
Passed(e) == e.clean /\ e.passed

SameErrors(task, e) ==
    IF e.error = None THEN 0 ELSE IF e.error = task.error THEN task.same + 1 ELSE 1

NewEvidence(task, e) == task.progress = None \/ e.progress # task.progress

(* ExecutionPolicyKernel.route *)
RouteOf(task, e) ==
    IF ~e.clean
    THEN "blocked"
    ELSE IF e.passed
    THEN "succeeded"
    ELSE IF e.class \in {"missing-dependency", "invalid-assumption"}
    THEN "replan-required"
    ELSE IF SameErrors(task, e) >= SameErrorLimit /\ ~NewEvidence(task, e)
    THEN "escalated"
    ELSE IF task.attempts >= MaxAttempts
    THEN "escalated"
    ELSE IF e.class \in {"transient", "logic-bug", "contract-mismatch"}
    THEN "repairable"
    ELSE IF e.class = "policy"
    THEN "blocked"
    ELSE "terminal-failure"

VerifiedAccepted(k, t, attempt, route, e) ==
    /\ Open(k)
    /\ k.tasks[t].status = "verifying"
    /\ attempt = k.tasks[t].attempts
    /\ k.tasks[t].active = Workspace(k, t, attempt)
    /\ (route = "succeeded") = Passed(e)
    /\ (route = "succeeded") = (e.class = None)
Verified(k, t, route, e) ==
    LET task == k.tasks[t]
        kept == IF route = "succeeded" THEN {} ELSE {task.active}
    IN  Debit(
            [ReplaceTask(k, t, [task EXCEPT
                 !.status = route, !.error = e.error, !.same = SameErrors(task, e),
                 !.active = None, !.progress = e.progress, !.head = e.head])
             EXCEPT !.retained = @ \cup kept],
            e.usage)

----------------------------------------------------------------------------
(* The end *)

AllSucceeded(k) ==
    DOMAIN k.tasks # {} /\ \A t \in DOMAIN k.tasks : k.tasks[t].status = "succeeded"

TerminatedAccepted(k, status) ==
    /\ Open(k)
    /\ status \in RunOutcomes
    /\ status = "succeeded" => AllSucceeded(k)
Terminated(k, status) == [k EXCEPT !.status = status]

(* run.cancel-requested and run.canceled, which come from the public run: apply
   raises when the execution has another final status, and that leaves a stream
   nobody can fold. *)
CancelAccepted(k) == k.status \in FinalStatuses => k.status = "canceled"
Canceled(k) ==
    IF ~Started(k) THEN k
    ELSE [k EXCEPT
            !.status = "canceled",
            !.tasks = [t \in DOMAIN k.tasks |->
                IF k.tasks[t].status = "succeeded" THEN k.tasks[t]
                ELSE [k.tasks[t] EXCEPT !.status = "canceled", !.active = None, !.policy = None]]]
=============================================================================
