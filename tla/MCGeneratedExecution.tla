------------------------ MODULE MCGeneratedExecution ------------------------
(* GeneratedExecution with four drafts of which three compile. *)
EXTENDS GeneratedExecution

CONSTANTS p, c

T(id, deps, writer) ==
    [id |-> id, deps |-> deps, paths |-> IF writer THEN {p} ELSE {}, checks |-> {c}]

Chain == <<T(1, {}, TRUE), T(2, {1}, FALSE), T(3, {1, 2}, TRUE)>>
Fork == <<T(2, {}, TRUE), T(1, {}, FALSE), T(3, {1, 2}, TRUE)>>
Parallel == <<T(1, {}, TRUE), T(2, {}, TRUE)>>
Single == <<T(1, {}, TRUE)>>

MCDrafts == {Chain, Fork, Parallel, Single}
OneDraft == {Single}
=============================================================================
