---------------------------- MODULE TextChanges ----------------------------
(***************************************************************************)
(* TextChangeExecutor (adapters/execution/text_changes.py) applies an      *)
(* admitted change proposal to the files of a checkout, one file effect at *)
(* a time, and takes the effects back when one fails;                      *)
(* GitWorktreeLifecycle.commit_changes (adapters/execution/worktree.py)    *)
(* commits the result.  Any file operation may raise before it has its     *)
(* effect or after it (the fsync of the directory follows the rename), may *)
(* leave its temporary file behind, and may be the last one the process    *)
(* makes.                                                                  *)
(***************************************************************************)
EXTENDS Naturals, Sequences, FiniteSets, Absent

CONSTANTS
    TextPaths,  \* the paths of the checkout the proposal may name, as numbers from 1:
                \* it is sorted
    Texts,      \* file contents
    Modes,      \* permission bits Git does not track
    NewMode,    \* 0o644, the mode of a created file
    PathLimit   \* max_changed_paths of the worktree spec

File == [data : Texts, mode : Modes]

ASSUME TextAssumption ==
    /\ TextPaths \subseteq Nat \ {0} /\ NewMode \in Modes /\ PathLimit \in Nat
    /\ None \notin Texts /\ None \notin File

VARIABLES
    files,     \* the regular files of the checkout
    head,      \* what its HEAD commit holds: contents only
    litter,    \* whether a temporary file was left behind
    executor   \* the executor: its next step, the planned effects, the result

Files == [TextPaths -> File \cup {None}]

TextOf(fs) == [p \in TextPaths |-> IF fs[p] = None THEN None ELSE fs[p].data]

(* FileChange: expected is the content expected_digest stands for. *)
FileChanges(p) ==
    {[path |-> p, operation |-> "create", expected |-> None, content |-> c] : c \in Texts}
    \cup {[path |-> p, operation |-> "replace", expected |-> q[1], content |-> q[2]] :
            q \in {q \in Texts \X Texts : q[1] # q[2]}}
    \cup {[path |-> p, operation |-> "delete", expected |-> e, content |-> None] : e \in Texts}

(* ChangeProposal: some operations, at most one per path, sorted by path. *)
Proposals ==
    {s \in UNION {[1 .. k -> UNION {FileChanges(p) : p \in TextPaths}]
                  : k \in 1 .. Cardinality(TextPaths)} :
        \A i, j \in DOMAIN s : i < j => s[i].path < s[j].path}

NoExecutor ==
    [pc |-> "idle", plan |-> <<>>, next |-> 1, start |-> [p \in {} |-> None],
     base |-> [p \in {} |-> None], result |-> "none"]

TextInit ==
    /\ files \in Files
    /\ head = TextOf(files)
    /\ litter = FALSE
    /\ executor = [NoExecutor EXCEPT !.start = files, !.base = head]

----------------------------------------------------------------------------
(* inspect: what Git reports changed since a commit, a temporary file as an
   untracked path (0).  Permission bits other than the executable one do not show. *)
ChangedSince(commit) ==
    {p \in TextPaths : TextOf(files)[p] # commit[p]} \cup (IF litter THEN {0} ELSE {})

Fresh == ChangedSince(executor.base) = {} /\ head = executor.base

PlanPaths == {executor.plan[i].path : i \in DOMAIN executor.plan}

(* _preflight for one operation: it may name a path that does not exist for create,
   and only the expected content for the others. *)
Applicable(change) ==
    IF change.operation = "create"
    THEN files[change.path] = None
    ELSE files[change.path] # None /\ files[change.path].data = change.expected

End(result) == [executor EXCEPT !.pc = "done", !.result = result]

(* execute up to the first effect: the checkout must be clean and at its base, and
   every operation applicable. *)
Preflight ==
    /\ executor.pc = "idle"
    /\ \E proposal \in Proposals :
         executor' =
            IF /\ Fresh
               /\ Len(proposal) <= PathLimit
               /\ \A i \in DOMAIN proposal : Applicable(proposal[i])
            THEN [executor EXCEPT !.pc = "apply", !.next = 1,
                    !.plan = [i \in DOMAIN proposal |->
                        [proposal[i] EXCEPT !.expected = files[proposal[i].path]]]]
            ELSE [End("refused") EXCEPT !.plan = proposal]
    /\ UNCHANGED <<files, head, litter>>

----------------------------------------------------------------------------
(* AtomicTextFileEffects: a call sets the path to a file or removes it.  It returns
   (ok), raises and has had its effect, or raises and has had none; link, for
   create, refuses a path that exists. *)
Effect(path, file, linking, onOk, onError) ==
    \E outcome \in {"ok", "late", "early"}, left \in BOOLEAN :
        /\ linking /\ files[path] # None => outcome = "early"
        /\ file = None => ~left
        /\ files' = IF outcome = "early" THEN files ELSE [files EXCEPT ![path] = file]
        /\ litter' = (litter \/ left)
        /\ executor' = IF outcome = "ok" THEN onOk ELSE onError
        /\ UNCHANGED head

Operation == executor.plan[executor.next]

(* The failing operation is among those taken back. *)
ToRollback(result) == [executor EXCEPT !.pc = "rollback", !.result = result]

(* What an operation leaves: a replaced file keeps its mode. *)
After(change) ==
    CASE change.operation = "create" -> [data |-> change.content, mode |-> NewMode]
      [] change.operation = "replace" ->
            [data |-> change.content, mode |-> change.expected.mode]
      [] change.operation = "delete" -> None

Apply ==
    /\ executor.pc = "apply"
    /\ executor.next <= Len(executor.plan)
    /\ Effect(Operation.path, After(Operation), Operation.operation = "create",
              [executor EXCEPT !.next = @ + 1], ToRollback("rolled-back"))

(* After the last effect Git must report exactly the planned paths. *)
InspectEffects ==
    /\ executor.pc = "apply"
    /\ executor.next > Len(executor.plan)
    /\ \E readable \in BOOLEAN :
         executor' =
            IF readable /\ ChangedSince(executor.base) = PlanPaths /\ ChangedSince(head) = PlanPaths
            THEN End("applied")
            ELSE [ToRollback("mismatch") EXCEPT !.next = Len(executor.plan)]
    /\ UNCHANGED <<files, head, litter>>

(* Seeded fault: content comes back, permission bits do not. *)
BeforeWithNewMode(change) ==
    IF change.operation = "create" THEN None
    ELSE [data |-> change.expected.data, mode |-> NewMode]

(* What _rollback restores. *)
Before(change) == IF change.operation = "create" THEN None ELSE change.expected

(* Backwards from the last operation begun.  A created file that is not there needs
   nothing; a deleted one is linked again.  An error leaves the rest as it is. *)
Rollback ==
    /\ executor.pc = "rollback"
    /\ executor.next >= 1
    /\ LET back == [executor EXCEPT !.next = @ - 1]
       IN  IF Operation.operation = "create" /\ files[Operation.path] = None
           THEN executor' = back /\ UNCHANGED <<files, head, litter>>
           ELSE Effect(Operation.path, Before(Operation), files[Operation.path] = None,
                       back, End("uncertain"))

(* Only an inspection equal to the one before the effects makes the rollback certain. *)
InspectRollback ==
    /\ executor.pc = "rollback"
    /\ executor.next = 0
    /\ \E readable \in BOOLEAN :
         executor' = IF readable /\ Fresh THEN End(executor.result) ELSE End("uncertain")
    /\ UNCHANGED <<files, head, litter>>

(* commit_changes: the effects of the result are staged and committed. *)
CommitEffects ==
    /\ executor.pc = "done"
    /\ executor.result = "applied"
    /\ ChangedSince(head) = PlanPaths
    /\ \/ head' = TextOf(files) /\ executor' = End("committed")
       \/ executor' = End("commit-failed") /\ UNCHANGED head
    /\ UNCHANGED <<files, litter>>

(* The process ends; another one meets the checkout with another proposal. *)
Interrupt ==
    /\ executor.pc \in {"apply", "rollback"}
    /\ executor' = [End("uncertain") EXCEPT !.plan = <<>>, !.next = 1]
    /\ UNCHANGED <<files, head, litter>>

ExecuteAgain ==
    /\ executor.pc = "done"
    /\ executor.result \in {"uncertain", "committed", "commit-failed", "rolled-back"}
    /\ executor' = [executor EXCEPT !.pc = "idle", !.start = files]
    /\ UNCHANGED <<files, head, litter>>

TextNext ==
    \/ Preflight \/ Apply \/ InspectEffects \/ Rollback \/ InspectRollback
    \/ CommitEffects \/ Interrupt \/ ExecuteAgain

TextSpec == TextInit /\ [][TextNext]_<<files, head, litter, executor>>

----------------------------------------------------------------------------
(* Properties *)

(* Whatever file operation fails, and however: a proposal reported applied is on disk
   as a whole, with the permission bits of the replaced files and nothing beside it;
   one reported refused, mismatched or rolled back has left every file, its
   permission bits and the directory as they were. *)
ChangesAtomic ==
    executor.pc = "done" =>
        /\ executor.result \in {"applied", "committed"} =>
              /\ ~litter
              /\ \A p \in TextPaths :
                    files[p] =
                        IF p \in PlanPaths
                        THEN After(executor.plan[CHOOSE i \in DOMAIN executor.plan :
                                                    executor.plan[i].path = p])
                        ELSE executor.start[p]
        /\ executor.result \in {"rolled-back", "mismatch"} => files = executor.start /\ ~litter
        /\ executor.result = "refused" => files = executor.start
=============================================================================
