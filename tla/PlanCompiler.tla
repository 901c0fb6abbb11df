---------------------------- MODULE PlanCompiler ----------------------------
(***************************************************************************)
(* compile_plan (orchestration/execution_plan.py): from the draft of a     *)
(* planning provider to a plan, or a PlanContractError.  A draft is the    *)
(* sequence of its raw tasks; the fields of a task that no rule relates to *)
(* another (objective, argv, digests) are left out.                        *)
(***************************************************************************)
EXTENDS Naturals, Sequences, FiniteSets

CONSTANTS
    GoalPaths,   \* allowed_paths of the goal
    GoalChecks,  \* verification_checks of the goal
    MaxTasks     \* _MAX_TASKS

ASSUME GoalAssumption == GoalChecks # {} /\ MaxTasks \in Nat \ {0}

(* Task ids are numbers: the code orders them. *)
RawTask == [id : Nat, deps : SUBSET Nat, paths : SUBSET GoalPaths, checks : SUBSET GoalChecks]

Ids(draft) == {draft[i].id : i \in DOMAIN draft}

(* _compile_task and TaskSpec: a task stays within the goal's paths and checks. *)
CompilesTask(raw) ==
    /\ raw.paths \subseteq GoalPaths
    /\ raw.checks # {}
    /\ raw.checks \subseteq GoalChecks
    /\ raw.id \notin raw.deps

CoversChecks(draft) == UNION {draft[i].checks : i \in DOMAIN draft} = GoalChecks

(* Plan: a task per id. *)
WellFormed(draft) ==
    /\ Len(draft) \in 1 .. MaxTasks
    /\ \A i, j \in DOMAIN draft : draft[i].id = draft[j].id => i = j
    /\ \A i \in DOMAIN draft : draft[i].deps \subseteq Ids(draft)

TasksOf(draft) ==
    [t \in Ids(draft) |->
        LET raw == draft[CHOOSE i \in DOMAIN draft : draft[i].id = t]
        IN  [deps |-> raw.deps, writer |-> raw.paths # {}]]

(* The rounds of _topological_order: what is resolved after n of them. *)
Resolved(tasks) ==
    LET round[n \in 0 .. Cardinality(DOMAIN tasks)] ==
            IF n = 0 THEN {} ELSE {t \in DOMAIN tasks : tasks[t].deps \subseteq round[n - 1]}
    IN  round

Acyclic(tasks) == Resolved(tasks)[Cardinality(DOMAIN tasks)] = DOMAIN tasks

Round(tasks, t) ==
    CHOOSE n \in 1 .. Cardinality(DOMAIN tasks) :
        t \in Resolved(tasks)[n] /\ t \notin Resolved(tasks)[n - 1]

(* Rounds one after the other, each sorted by id. *)
Precedes(tasks, s, t) ==
    LET m == Round(tasks, s)
        n == Round(tasks, t)
    IN  m < n \/ (m = n /\ s < t)

TopologicalOrder(tasks) ==
    [i \in 1 .. Cardinality(DOMAIN tasks) |->
        CHOOSE t \in DOMAIN tasks :
            Cardinality({s \in DOMAIN tasks : Precedes(tasks, s, t)}) = i - 1]

(* ancestors, filled in along the order. *)
Ancestors(tasks) ==
    LET order == TopologicalOrder(tasks)
        upTo[n \in 0 .. Len(order)] ==
            IF n = 0
            THEN [t \in DOMAIN tasks |-> {}]
            ELSE LET t == order[n]
                 IN  [upTo[n - 1] EXCEPT
                         ![t] = tasks[t].deps \cup UNION {upTo[n - 1][s] : s \in tasks[t].deps}]
    IN  upTo[Len(order)]

(* Seeded fault: a writer follows the writer before it only if it names it. *)
WritersAdjacent(tasks) ==
    LET writers == SelectSeq(TopologicalOrder(tasks), LAMBDA t : tasks[t].writer)
    IN  \A i \in 2 .. Len(writers) : writers[i - 1] \in tasks[writers[i]].deps

(* _validate_writer_order: each writer of the order descends from the writer
   before it. *)
WritersOrdered(tasks) ==
    LET order == TopologicalOrder(tasks)
        writers == SelectSeq(order, LAMBDA t : tasks[t].writer)
    IN  \A i \in 2 .. Len(writers) : writers[i - 1] \in Ancestors(tasks)[writers[i]]

Compiles(draft) ==
    /\ WellFormed(draft)
    /\ \A i \in DOMAIN draft : CompilesTask(draft[i])
    /\ CoversChecks(draft)
    /\ Acyclic(TasksOf(draft))
    /\ WritersOrdered(TasksOf(draft))

----------------------------------------------------------------------------
(* Reference: t needs s when s is in every set of tasks that holds t's
   dependencies and those of its members. *)
Needs(tasks, t, s) ==
    \A S \in SUBSET DOMAIN tasks :
        (tasks[t].deps \subseteq S /\ \A u \in S : tasks[u].deps \subseteq S) => s \in S

(* compile_plan refuses a graph of tasks as cyclic exactly when some task needs
   itself, and orders the others so that a task comes after all it needs. *)
OrderSound(draft) ==
    WellFormed(draft) =>
        LET tasks == TasksOf(draft)
            order == TopologicalOrder(tasks)
        IN  /\ Acyclic(tasks) <=> \A t \in DOMAIN tasks : ~Needs(tasks, t, t)
            /\ Acyclic(tasks) =>
                  /\ \A t \in DOMAIN tasks : \E i \in DOMAIN order : order[i] = t
                  /\ \A i, j \in DOMAIN order :
                        Needs(tasks, order[i], order[j]) => j < i

(* A plan whose writers are compared pairwise in that order has no two writers
   of which neither needs the other, and no plan of the kind is refused. *)
WritersSound(draft) ==
    WellFormed(draft) /\ Acyclic(TasksOf(draft)) =>
        LET tasks == TasksOf(draft)
            writers == {t \in DOMAIN tasks : tasks[t].writer}
        IN  WritersOrdered(tasks) <=>
                \A s, t \in writers : s = t \/ Needs(tasks, s, t) \/ Needs(tasks, t, s)
=============================================================================
