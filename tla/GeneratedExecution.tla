------------------------- MODULE GeneratedExecution -------------------------
(***************************************************************************)
(* A run whose plan is generated: ExecutionCoordinator over its journal    *)
(* (orchestration/execution_runtime.py), the attempts of                   *)
(* ProductionAttemptExecutor and the start-or-resume logic of              *)
(* ProductionExecution (bootstrap/execution_plan.py), driven by the        *)
(* execution worker process (bootstrap/execution_process.py), while a      *)
(* client may cancel the public run.                                       *)
(*                                                                         *)
(* worker_process_lock admits one worker process, so the journal has one   *)
(* writer besides the canceling client, and an append (read, fold, compare *)
(* and store) is one step.  The process ends at a crash, and also when an  *)
(* append is refused or planning fails: nothing in serve catches that.     *)
(* Recovery is what process() does when the run is met again.              *)
(***************************************************************************)
EXTENDS PlanCompiler, ExecutionJournal

CONSTANTS
    Drafts,       \* what the planning provider may answer
    Budget,       \* the budget of the run
    Usage,        \* what one provider call may use
    Reports,      \* whether a provider reports its usage: {TRUE}, {FALSE} or both
    Decisions,    \* what the policy kernel may decide: {TRUE} or BOOLEAN
    Failures,     \* the failure classes of an attempt that may occur
    Progress,     \* the progress digests of an attempt
    MaxCrashes    \* bound: the crashes explored

ASSUME BudgetAssumption == Budget \in Nat \ {0} /\ Usage \subseteq Nat /\ MaxCrashes \in Nat
ASSUME ChoiceAssumption ==
    Reports \subseteq BOOLEAN /\ Decisions \subseteq BOOLEAN /\ None \notin Progress

VARIABLES
    k,         \* the folded execution state of the run
    keys,      \* the idempotency keys of the journal
    canceled,  \* whether the public run is canceled
    co,        \* the worker process: what it does next and its locals
    trees,     \* the checkouts and branches in the repository, by worktree spec
    called,    \* provider calls: <<what for, how many times>> (history)
    spent,     \* what the calls really used (history)
    crashes    \* crashes so far

vars == <<k, keys, canceled, co, trees, called, spent, crashes>>

MaxRevision == 2  \* process() replans once

NoEvidence == [clean |-> TRUE, passed |-> FALSE, class |-> None, error |-> None,
               progress |-> None, head |-> None, usage |-> None]

Idle == [pc |-> "idle", task |-> 0, draft |-> <<>>, usage |-> None, evidence |-> NoEvidence,
         end |-> "none", reason |-> "none"]
Down == [Idle EXCEPT !.pc = "down"]

At(pc) == [co EXCEPT !.pc = pc]
EndAs(status, reason) == [co EXCEPT !.pc = "end", !.end = status, !.reason = reason]

Init ==
    /\ k = NoRun
    /\ keys = {}
    /\ canceled = FALSE
    /\ co = Idle
    /\ trees = <<>>
    /\ called = {}
    /\ spent = 0
    /\ crashes = 0

----------------------------------------------------------------------------
(* Budgets *)

UsageIncomplete == ~k.complete
Remaining == IF k.used >= Budget THEN 0 ELSE Budget - k.used
BudgetExhausted == Remaining = 0

(* _remaining_state_budget: usage that is not known leaves nothing. *)
ReplanBudget == IF UsageIncomplete THEN 0 ELSE Remaining
Overdrawn(s) == s.used > Budget

(* EventBackedExecutionRunJournal.append: a known key is answered with the event
   stored before, and an event the fold does not accept raises. *)
Record(key, accepted, folded, next) ==
    /\ k' = IF key \notin keys /\ accepted THEN folded ELSE k
    /\ keys' = IF key \notin keys /\ accepted THEN keys \cup {key} ELSE keys
    /\ co' = IF key \in keys \/ accepted THEN next ELSE Down
    /\ UNCHANGED <<canceled, trees, called, spent, crashes>>

Go(next) == co' = next /\ UNCHANGED <<k, keys, canceled, trees, called, spent, crashes>>

Call(id, amount) ==
    /\ called' = called \cup {<<id, 1 + Cardinality({c \in called : c[1] = id})>>}
    /\ spent' = spent + amount

----------------------------------------------------------------------------
(* process(): start or resume *)

(* next_generated_run *)
Candidate == ~canceled /\ k.status \notin FinalStatuses

(* reconcile_incomplete_planning, exhaust_replan_budget, exhaust_provider_budget *)
ReconcilePlanning == EndAs("escalated", "ambiguous-planning-dispatch")
ExhaustReplanBudget == EndAs("escalated", "replan-budget-exhausted")
ExhaustProviderBudget == EndAs("escalated", "cumulative-budget-exhausted")

(* Seeded fault: a planning that was interrupted is done again. *)
BeginPlansAgain ==
    /\ co.pc = "idle"
    /\ Candidate
    /\ Go(IF ~Started(k)
          THEN At("fence")
          ELSE IF k.status = "replanning" \/ k.revision = 0
          THEN At("plan")
          ELSE IF k.status = "replan-required" /\ k.revision >= MaxRevision
          THEN ExhaustReplanBudget
          ELSE IF k.status = "replan-required"
          THEN At("fence")
          ELSE At("execute"))

Begin ==
    /\ co.pc = "idle"
    /\ Candidate
    /\ Go(IF ~Started(k)
          THEN At("fence")
          ELSE IF k.status = "replanning" \/ k.revision = 0
          THEN ReconcilePlanning
          ELSE IF k.status = "replan-required" /\ k.revision >= MaxRevision
          THEN ExhaustReplanBudget
          ELSE IF k.status = "replan-required" /\ ReplanBudget = 0
          THEN ExhaustProviderBudget
          ELSE IF k.status = "replan-required"
          THEN At("fence")
          ELSE At("execute"))

(* compile_and_admit: the durable fence before the provider is called.  A public
   run with a second public event cannot be started. *)
Fence ==
    /\ co.pc = "fence"
    /\ IF ~Started(k)
       THEN Record(<<"goal", k.revision>>, GoalAccepted(k) /\ ~canceled, Goal(k), At("plan"))
       ELSE Record(<<"replan", k.revision>>, ReplanAccepted(k), Replan(k), At("plan"))

(* The draft is compiled before it is recorded: a failed call and a draft that
   does not compile end the process. *)
CallPlanner ==
    /\ co.pc = "plan"
    /\ \E draft \in Drafts, amount \in Usage, reported \in Reports, answered \in BOOLEAN :
         /\ Call(<<"plan", k.revision + 1>>, amount)
         /\ co' = IF answered /\ Compiles(draft)
                  THEN [co EXCEPT !.pc = "draft", !.draft = draft,
                                  !.usage = IF reported THEN amount ELSE None]
                  ELSE Down
    /\ UNCHANGED <<k, keys, canceled, trees, crashes>>

ReceiveDraft ==
    /\ co.pc = "draft"
    /\ Record(<<"draft", k.revision>>, DraftAccepted(k), Draft(k, co.usage), At("admit"))

AdmitPlan ==
    /\ co.pc = "admit"
    /\ Record(<<"plan", k.revision + 1>>, PlanAccepted(k), Plan(k, TasksOf(co.draft)),
              [Idle EXCEPT !.pc = "execute"])

----------------------------------------------------------------------------
(* execute() *)

(* Seeded fault: an attempt that was interrupted is not looked for. *)
ResumeTrusting ==
    /\ co.pc = "execute"
    /\ Go(IF k.status \in RunOutcomes THEN Idle ELSE At("task"))

(* What an interruption may have left: a blocked task, an active attempt. *)
Resume ==
    /\ co.pc = "execute"
    /\ Go(IF k.status \in RunOutcomes
          THEN Idle
          ELSE IF \E t \in DOMAIN k.tasks : k.tasks[t].status = "blocked"
          THEN IF \A t \in DOMAIN k.tasks : k.tasks[t].status = "blocked" => k.tasks[t].reason
               THEN EndAs("blocked", "intent-scope-violation")
               ELSE Down
          ELSE IF \E t \in DOMAIN k.tasks : k.tasks[t].active # None
          THEN EndAs("escalated", "ambiguous-active-attempt")
          ELSE At("task"))

(* The first task of the topological order that has not succeeded. *)
Unsucceeded == {t \in DOMAIN k.tasks : k.tasks[t].status # "succeeded"}
NextTask == CHOOSE t \in Unsucceeded : \A s \in Unsucceeded : s = t \/ Precedes(k.tasks, t, s)

SelectTask ==
    /\ co.pc = "task"
    /\ Go(IF Unsucceeded = {} THEN EndAs("succeeded", "verification-passed")
          ELSE IF k.tasks[NextTask].deps \cap Unsucceeded # {}
          THEN EndAs("blocked", "dependency-not-satisfied")
          ELSE [At("ready") EXCEPT !.task = NextTask])

Task == k.tasks[co.task]
Attempt == Task.attempts + 1

MakeReady ==
    /\ co.pc = "ready"
    /\ IF Task.status \in {"pending", "repairable"}
       THEN Record(<<"ready", k.revision, co.task, Attempt>>,
                   ReadyAccepted(k, co.task, Attempt), Ready(k, co.task), At("policy"))
       ELSE Go(At("policy"))

(* _pending_policy_decision: the decision that an earlier process recorded for this
   attempt and did not act upon. *)
PendingDecision == Task.policy

AfterPolicy(allowed) == At(IF allowed THEN "start" ELSE "block")

RecordPolicy(allowed) ==
    Record(<<"policy", k.revision, co.task, Attempt, allowed>>,
           PolicyAccepted(k, co.task, Attempt), Policy(k, co.task, allowed),
           AfterPolicy(allowed))

(* A decision that is already recorded is not taken again. *)
Authorize ==
    /\ co.pc = "policy"
    /\ IF ExpectedBase(k, co.task) = None
       THEN Go(EndAs("replan-required", "base-commit-ambiguous"))
       ELSE IF Task.writer /\ (UsageIncomplete \/ BudgetExhausted)
       THEN Go(EndAs("escalated", "cumulative-budget-exhausted"))
       ELSE IF PendingDecision # None
       THEN Go(AfterPolicy(PendingDecision.allowed))
       ELSE \E allowed \in Decisions : RecordPolicy(allowed)

BlockTask ==
    /\ co.pc = "block"
    /\ Record(<<"blocked", k.revision, co.task>>, BlockAccepted(k, co.task), Block(k, co.task),
              EndAs("blocked", "intent-scope-violation"))

StartAttempt ==
    /\ co.pc = "start"
    /\ Record(<<"started", k.revision, co.task, Attempt>>,
              StartAccepted(k, co.task, Attempt, ExpectedBase(k, co.task)),
              Start(k, co.task, Attempt), At("open"))

----------------------------------------------------------------------------
(* ProductionAttemptExecutor.execute *)

Base == ExpectedBase(k, co.task)

(* The worktree spec names path and branch of the checkout; the plan is no part
   of it. *)
TreeSpec == <<co.task, Task.attempts, Base, Task.writer>>
Tree == trees[TreeSpec]

WithTree(tree) ==
    trees' = [s \in DOMAIN trees \cup {TreeSpec} |-> IF s = TreeSpec THEN tree ELSE trees[s]]

(* _finish: the outcome, the evidence and the attempt are stored, and the evidence
   goes to the coordinator.  Its error is the failure's summary; its progress is the
   digest of what was stored. *)
Finish(clean, passed, class, head, usage) ==
    \E p \in Progress :
        co' = [co EXCEPT !.pc = "verify",
                         !.evidence = [clean |-> clean, passed |-> passed, class |-> class,
                                       error |-> class, progress |-> p, head |-> head,
                                       usage |-> usage]]

Fail(class, usage, clean, head) == Finish(clean, FALSE, class, head, usage)

(* _classify_failure of an error of the provider or the gateway *)
CallFailures == Failures \cap {"contract-mismatch", "policy"}

(* create reopens a checkout or branch that exists, whoever left it. *)
OpenCheckout ==
    /\ co.pc = "open"
    /\ ~canceled /\ ~Overdrawn(k)
    /\ WithTree(IF TreeSpec \in DOMAIN trees THEN Tree ELSE [head |-> Base, clean |-> TRUE])
    /\ co' = At(IF Task.writer THEN "propose" ELSE "check")
    /\ UNCHANGED <<k, keys, canceled, called, spent, crashes>>

(* An error outside of the evidence: the authority is gone, the run is canceled
   before a checkout exists, the artifact store or the checkout fails. *)
AttemptRaises ==
    /\ co.pc \in {"open", "propose", "apply", "check"}
    /\ Go(IF k.status = "canceled" THEN Idle ELSE EndAs("escalated", "executor-error"))

(* Evidence is collected from a fresh checkout only, and before the call. *)
CallProvider ==
    /\ co.pc = "propose"
    /\ IF canceled \/ UsageIncomplete \/ BudgetExhausted
       THEN Fail("policy", 0, Tree.clean, Tree.head) /\ UNCHANGED <<called, spent>>
       ELSE IF ~Tree.clean \/ Tree.head # Base
       THEN Fail("invalid-assumption", 0, Tree.clean, Tree.head) /\ UNCHANGED <<called, spent>>
       ELSE \E amount \in Usage, reported \in Reports :
              /\ Call(Task.active, amount)
              /\ \/ co' = [At("apply") EXCEPT !.usage = IF reported THEN amount ELSE None]
                 \/ \E class \in CallFailures : Fail(class, None, TRUE, Base)
    /\ UNCHANGED <<k, keys, canceled, trees, crashes>>

(* The answer is checked, applied and committed; what cannot be rolled back
   leaves the checkout dirty. *)
ApplyChange ==
    /\ co.pc = "apply"
    /\ IF canceled
       THEN Fail("policy", None, TRUE, Base) /\ UNCHANGED trees
       ELSE IF co.usage # None /\ co.usage > Remaining
       THEN Fail("policy", co.usage, TRUE, Base) /\ UNCHANGED trees
       ELSE \/ /\ WithTree([head |-> Base \cup {Task.active}, clean |-> TRUE])
               /\ co' = At("check")
            \/ \E clean \in BOOLEAN :
                  /\ "contract-mismatch" \in Failures
                  /\ WithTree([head |-> Base, clean |-> clean])
                  /\ Fail("contract-mismatch", co.usage, clean, Base)
    /\ UNCHANGED <<k, keys, canceled, called, spent, crashes>>

(* The checks run in the sandbox and may leave files behind. *)
RunChecks ==
    /\ co.pc = "check"
    /\ LET usage == IF Task.writer THEN co.usage ELSE 0
       IN  IF canceled
           THEN Fail("policy", usage, Tree.clean, Tree.head) /\ UNCHANGED trees
           ELSE \/ /\ Tree.clean
                   /\ Finish(TRUE, TRUE, None, Tree.head, usage)
                   /\ UNCHANGED trees
                \/ \E class \in Failures \ {"contract-mismatch"} :
                     Fail(class, usage, Tree.clean, Tree.head) /\ UNCHANGED trees
                \/ /\ "policy" \in Failures
                   /\ WithTree([Tree EXCEPT !.clean = FALSE])
                   /\ Fail("policy", usage, FALSE, Tree.head)
    /\ UNCHANGED <<k, keys, canceled, called, spent, crashes>>

----------------------------------------------------------------------------
(* The verdict *)

Verify ==
    /\ co.pc = "verify"
    /\ IF k.status = "canceled" THEN Go(Idle)
       ELSE Record(<<"verifying", k.revision, co.task, Task.attempts>>,
                   VerifyingAccepted(k, co.task, Task.attempts), Verifying(k, co.task),
                   At("route"))

Route ==
    /\ co.pc = "route"
    /\ LET route == RouteOf(Task, co.evidence)
           after == Verified(k, co.task, route, co.evidence)
       IN  Record(<<"verified", k.revision, co.task, Task.attempts>>,
                  VerifiedAccepted(k, co.task, Task.attempts, route, co.evidence), after,
                  IF route \in {"succeeded", "repairable"} /\ Overdrawn(after)
                  THEN EndAs("escalated", "cumulative-budget-exhausted")
                  ELSE IF route = "succeeded"
                  THEN [Idle EXCEPT !.pc = "task"]
                  ELSE IF route = "repairable"
                  THEN [Idle EXCEPT !.pc = "ready", !.task = co.task]
                  ELSE EndAs(route, route))

Terminate ==
    /\ co.pc = "end"
    /\ Record(<<"terminated", k.revision, co.end, co.reason>>, TerminatedAccepted(k, co.end),
              Terminated(k, co.end), Idle)

----------------------------------------------------------------------------
(* The client and the process *)

(* Seeded fault: an execution that ended without an answer counts as running. *)
EffectiveStatusLoose ==
    CASE k.status = "none" -> "queued"
      [] k.status = "succeeded" -> "succeeded"
      [] k.status = "canceled" -> "canceled"
      [] k.status = "terminal-failure" -> "failed"
      [] OTHER -> "running"

(* _effective_run_status *)
EffectiveStatus ==
    CASE k.status = "none" -> "queued"
      [] k.status \in {"admitted", "running", "replanning"} -> "running"
      [] k.status = "succeeded" -> "succeeded"
      [] k.status = "canceled" -> "canceled"
      [] k.status = "terminal-failure" -> "failed"
      [] OTHER -> "reconciliation-required"

CancelRun ==
    /\ ~canceled
    /\ EffectiveStatus \in {"queued", "running"}
    /\ canceled' = TRUE
    /\ k' = IF CancelAccepted(k) THEN Canceled(k) ELSE [k EXCEPT !.status = "unreadable"]
    /\ UNCHANGED <<keys, co, trees, called, spent, crashes>>

Crash ==
    /\ co.pc # "down"
    /\ crashes < MaxCrashes
    /\ co' = Down
    /\ crashes' = crashes + 1
    /\ UNCHANGED <<k, keys, canceled, trees, called, spent>>

Restart == co.pc = "down" /\ Go(Idle)

----------------------------------------------------------------------------
Work ==
    \/ Begin \/ Fence \/ CallPlanner \/ ReceiveDraft \/ AdmitPlan
    \/ Resume \/ SelectTask \/ MakeReady \/ Authorize \/ BlockTask \/ StartAttempt
    \/ OpenCheckout \/ CallProvider \/ ApplyChange \/ RunChecks \/ AttemptRaises
    \/ Verify \/ Route \/ Terminate

Next == Work \/ CancelRun \/ Crash \/ Restart

Spec == Init /\ [][Next]_vars

FairSpec == Spec /\ WF_vars(Work) /\ WF_vars(Restart)

----------------------------------------------------------------------------
(* Properties *)

(* Whatever crashes, cancellations and replans happen, the planning provider is
   called once per plan revision and the change provider once per attempt of a
   task: process() and execute() never repeat a call they may have made. *)
CalledOnce == \A c \in called : c[2] = 1

(* No provider is called once the calls made so far, those that were never
   recorded and those of unknown usage included, have used up the budget. *)
WithinBudget == [][called' # called => spent < Budget]_vars

(* A run that succeeded ends on one commit that holds the last attempt of every
   writer of its plan, and nothing else: no writer's work is lost on a side
   branch and none of an earlier revision comes along. *)
NoWorkLost ==
    k.status = "succeeded" =>
        \E t \in DOMAIN k.tasks :
            k.tasks[t].head =
                {<<k.revision, w, k.tasks[w].attempts>> : w \in {u \in DOMAIN k.tasks : k.tasks[u].writer}}

(* An execution that is over stays as it is, and the public run's cancellation
   never makes the stream unreadable for the fold. *)
ExecutionFinal == [][k.status \in FinalStatuses => k' = k]_k

(* An attempt was decided, but the process ended before the run was: *)
Stranded ==
    /\ k.status = "running"
    /\ \E t \in DOMAIN k.tasks :
          k.tasks[t].status \in {"escalated", "replan-required", "terminal-failure", "blocked"}

(* Every generated run is decided or canceled, however often the process ends,
   unless it is stranded between the verdict on an attempt and the end of the run. *)
GeneratedRunsEnd == <>[](canceled \/ k.status \in FinalStatuses \/ Stranded)

(* process() "Start or safely resume one public generated-plan run": the run is
   decided or canceled in the end. *)
SafelyResumed == <>(canceled \/ k.status \in FinalStatuses)
=============================================================================
