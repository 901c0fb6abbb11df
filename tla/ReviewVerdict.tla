---------------------------- MODULE ReviewVerdict ----------------------------
(***************************************************************************)
(* From the evidence of a succeeded run to its verdict:                    *)
(* build_review_context_from_artifacts (orchestration/replay.py) lays out  *)
(* the evidence, admit_review (review.py) admits a reviewer's proposal,    *)
(* verify_review (verification.py) turns both into a matrix and a verdict, *)
(* and replay_verification (verification_replay.py) later judges the       *)
(* stored report.                                                          *)
(*                                                                         *)
(* Besides the context that is built, the contexts with one item less, one *)
(* item more or a failed check are verified too: ReviewContext accepts     *)
(* them and verify_review has rows for them.  Excerpts, lines and claims   *)
(* are left out; a citation out of range is one of an item that is not     *)
(* there.                                                                  *)
(***************************************************************************)
EXTENDS Naturals, FiniteSets, Absent

CONSTANTS
    VerdictNodes,  \* the nodes of the plan; every node has the one check "check"
    WriterNode,    \* the node that changes files, the one path "path"
    FindingIds,    \* what a reviewer may call a finding
    Dimensions     \* the epistemic dimensions of the review contract

ASSUME VerdictAssumption == WriterNode \in VerdictNodes /\ None \notin FindingIds

VARIABLE docket  \* a review on its way to a verdict

Operations == {"create", "replace", "delete"}
CheckKinds == {"command", "result", "stdout", "stderr"}
ChangeKinds == {"before", "after", "effect"}

(* ReviewEvidence: other is an item about another artifact or another part of it. *)
Item(kind, n, operation, other) ==
    [kind |-> kind, node |-> n, operation |-> operation, other |-> other]

(* The change evidence an operation calls for. *)
Required(operation) ==
    CASE operation = "create" -> {"after", "effect"}
      [] operation = "replace" -> ChangeKinds
      [] operation = "delete" -> {"before", "effect"}

(* _review_evidence_for_node *)
EvidenceForNode(n, operation) ==
    {Item(kind, n, None, FALSE) : kind \in {"outcome"} \cup CheckKinds}
    \cup IF n = WriterNode
         THEN {Item(kind, n, operation, FALSE) : kind \in Required(operation)}
         ELSE {}

BuiltEvidence(operation) == UNION {EvidenceForNode(n, operation) : n \in VerdictNodes}

(* What ReviewEvidence allows beside it. *)
OtherItems ==
    {Item(kind, n, None, TRUE) : kind \in {"outcome"} \cup CheckKinds, n \in VerdictNodes}
    \cup {Item(kind, WriterNode, operation, TRUE) :
            <<kind, operation>> \in
                {q \in ChangeKinds \X Operations : q[1] \in Required(q[2])}}

(* A failed check, or one item less and one more. *)
Contexts ==
    LET context(operation, passed, less, more) ==
            [operation |-> operation, passed |-> passed,
             evidence |-> (BuiltEvidence(operation) \ less) \cup more]
        atMostOne(S) == {{}} \cup {{x} : x \in S}
    IN  {context(operation, VerdictNodes \ {n}, {}, {}) :
            operation \in Operations, n \in VerdictNodes}
        \cup UNION {{context(operation, VerdictNodes, less, more) :
                        less \in atMostOne(BuiltEvidence(operation)),
                        more \in atMostOne(OtherItems)} : operation \in Operations}

(* ProposedReviewFinding, with one citation. *)
Findings == [category : {"correctness", "scope-drift"},
             cites : BuiltEvidence("replace") \cup OtherItems]

(* EpistemicAssessment: a concern, and only a concern, links findings. *)
Assessments ==
    {a \in [disposition : {"supported", "concern", "unknown", "not-applicable"},
            findings : SUBSET FindingIds] :
        a.disposition = "concern" <=> a.findings # {}}

(* ReviewProposal: every dimension is assessed, every finding is linked by one. *)
ReviewProposals ==
    {[findings |-> f, assessments |-> a] :
        <<f, a>> \in {q \in (UNION {[S -> Findings] : S \in SUBSET FindingIds})
                            \X [Dimensions -> Assessments] :
                        DOMAIN q[1] = UNION {q[2][d].findings : d \in Dimensions}}}

(* Nothing is under way. *)
NoReview ==
    [pc |-> "build", context |-> None, proposal |-> None, matrix |-> {},
     status |-> None, replay |-> None]

VerdictInit == docket = NoReview

BuildContext ==
    /\ docket.pc = "build"
    /\ \E context \in Contexts :
         docket' = [docket EXCEPT !.pc = "review", !.context = context]

----------------------------------------------------------------------------
(* admit_review: every citation is of an item of the context. *)
Admissible(context, proposal) ==
    \A f \in DOMAIN proposal.findings : proposal.findings[f].cites \in context.evidence

AdmitReview ==
    /\ docket.pc = "review"
    /\ \E proposal \in ReviewProposals :
         docket' = IF Admissible(docket.context, proposal)
                   THEN [docket EXCEPT !.pc = "verify", !.proposal = proposal]
                   ELSE [docket EXCEPT !.pc = "rejected"]

----------------------------------------------------------------------------
(* verify_review *)

Evidence == docket.context.evidence
Finding(f) == docket.proposal.findings[f]
FindingsMade == DOMAIN docket.proposal.findings

(* _EvidenceIndex.select *)
Select(kind, n) == {e \in Evidence : e.kind = kind /\ e.node = n}

(* _FindingIndex *)
ForNode(n) == {f \in FindingsMade : Finding(f).cites.node = n}
ForCheck(n) == {f \in ForNode(n) : Finding(f).cites.kind \in CheckKinds}
ScopeForNode(n) == {f \in ForNode(n) : Finding(f).category = "scope-drift"}

When(condition, reason) == IF condition THEN {reason} ELSE {}

Complete(reasons) == IF reasons = {} THEN {"evidence-complete"} ELSE reasons

Row(kind, n, reasons, findings) ==
    [kind |-> kind, node |-> n, reasons |-> reasons, findings |-> findings]

Unresolved(findings) == When(findings # {}, "unresolved-review-finding")

CheckRow(n) ==
    Row("check", n,
        Complete(
            When(\E kind \in CheckKinds : Select(kind, n) = {}, "check-evidence-missing")
            \cup When(\E kind \in CheckKinds : Cardinality(Select(kind, n)) > 1,
                      "evidence-ambiguous")
            \cup When(\E kind \in {"command", "result"} :
                        Cardinality(Select(kind, n)) = 1 /\ \E e \in Select(kind, n) : e.other,
                      "evidence-identity-mismatch")
            \cup When(n \notin docket.context.passed, "check-failed")
            \cup Unresolved(ForCheck(n))),
        ForCheck(n))

(* Seeded fault: any evidence about the path is complete. *)
ScopeReasonsLoose(n) ==
    LET selected == {e \in Evidence : e.node = n /\ e.kind \in ChangeKinds}
        operations == {e.operation : e \in selected}
    IN  When(selected = {}, "change-evidence-missing")
        \cup When(Cardinality(operations) > 1, "evidence-ambiguous")

(* The evidence about the path names one operation and has one item of every kind
   that the operation calls for. *)
ScopeReasons(n) ==
    LET selected == {e \in Evidence : e.node = n /\ e.kind \in ChangeKinds}
        operations == {e.operation : e \in selected}
        of(kind) == {e \in selected : e.kind = kind}
    IN  CASE selected = {} -> {"change-evidence-missing"}
          [] Cardinality(operations) > 1 -> {"evidence-ambiguous"}
          [] OTHER ->
               LET kinds == Required(CHOOSE o \in operations : TRUE)
               IN  When(\E kind \in kinds : of(kind) = {}, "change-evidence-missing")
                   \cup When(\E kind \in kinds : Cardinality(of(kind)) > 1,
                             "evidence-ambiguous")

ScopeRow(n) ==
    Row("write-scope", n, Complete(ScopeReasons(n) \cup Unresolved(ScopeForNode(n))),
        ScopeForNode(n))

ChildRows(n) == {CheckRow(n)} \cup IF n = WriterNode THEN {ScopeRow(n)} ELSE {}

Inherited(rows) == UNION {row.reasons : row \in rows} \ {"evidence-complete"}

NodeRow(n) ==
    Row("node", n,
        Complete(
            When(Select("outcome", n) = {}, "node-outcome-missing")
            \cup When(Cardinality(Select("outcome", n)) > 1, "evidence-ambiguous")
            \cup Inherited(ChildRows(n))
            \cup Unresolved(ForNode(n))),
        ForNode(n))

NodeRows == {NodeRow(n) : n \in VerdictNodes}

(* The objective and the constraints. *)
IntentRow(kind) ==
    Row(kind, None, Complete(Inherited(NodeRows) \cup Unresolved(FindingsMade)), FindingsMade)

EpistemicReason(disposition) ==
    CASE disposition = "supported" -> "epistemic-coverage-complete"
      [] disposition = "not-applicable" -> "epistemic-not-applicable"
      [] disposition = "concern" -> "epistemic-concern"
      [] disposition = "unknown" -> "epistemic-unknown"

EpistemicRow(d) ==
    LET assessment == docket.proposal.assessments[d]
    IN  Row("epistemic-policy", d, {EpistemicReason(assessment.disposition)},
            assessment.findings)

ReviewRow ==
    Row("review-policy", None,
        IF FindingsMade # {} THEN {"unresolved-review-finding"} ELSE {"review-clear"},
        FindingsMade)

Matrix ==
    {IntentRow("objective"), IntentRow("constraint"), ReviewRow} \cup NodeRows
    \cup UNION {ChildRows(n) : n \in VerdictNodes}
    \cup {EpistemicRow(d) : d \in Dimensions}

FailReasons ==
    {"unresolved-review-finding", "evidence-identity-mismatch", "check-failed",
     "epistemic-concern"}

InconclusiveReasons ==
    {"node-outcome-missing", "evidence-ambiguous", "check-evidence-missing",
     "change-evidence-missing", "epistemic-unknown"}

StatusForReasons(reasons) ==
    CASE reasons \cap FailReasons # {} -> "fail"
      [] reasons \cap FailReasons = {} /\ reasons \cap InconclusiveReasons # {} ->
            "inconclusive"
      [] OTHER -> "pass"

AggregateStatus(matrix) == StatusForReasons(UNION {row.reasons : row \in matrix})

EpistemicReasons == {EpistemicReason(x) : x \in {"supported", "not-applicable", "concern", "unknown"}}

(* VerificationMatrixRow.__post_init__: what makes a row raise. *)
RowValid(row) ==
    /\ row.reasons \cap {"unresolved-review-finding", "epistemic-concern"} # {}
          <=> row.findings # {}
    /\ "evidence-complete" \in row.reasons => row.reasons = {"evidence-complete"}
    /\ "review-clear" \in row.reasons =>
          row.reasons = {"review-clear"} /\ row.kind = "review-policy" /\ row.findings = {}
    /\ row.kind = "review-policy" =>
          row.reasons \cap {"unresolved-review-finding", "review-clear"} # {}
    /\ IF row.kind = "epistemic-policy"
       THEN Cardinality(row.reasons) = 1 /\ row.reasons \subseteq EpistemicReasons
       ELSE row.reasons \cap EpistemicReasons = {}

VerifyReview ==
    /\ docket.pc = "verify"
    /\ LET matrix == Matrix
       IN  docket' = IF \A row \in matrix : RowValid(row)
                     THEN [docket EXCEPT !.pc = "verified", !.matrix = matrix,
                                         !.status = AggregateStatus(matrix)]
                     ELSE [docket EXCEPT !.pc = "error"]

----------------------------------------------------------------------------
(* What may have happened to the ledger and to the stored report since. *)
EventHarms == {"events-unavailable", "events-invalid", "sources-changed"}
Harms == EventHarms \cup {"none", "no-store", "missing", "corrupt", "unreadable"}

(* _replay_report_artifact: the report must be there, unharmed, valid, and carry the
   verdict on record; a verification that failed after its report was stored has no
   verdict. *)
ReportIntegrity(harm, completed) ==
    CASE harm = "unreadable" -> "inconclusive"
      [] harm \in {"missing", "corrupt"} -> "failed"
      [] OTHER -> IF /\ \A row \in docket.matrix : RowValid(row)
                     /\ completed => AggregateStatus(docket.matrix) = docket.status
                  THEN "verified" ELSE "failed"

(* replay_verification: the events are read and folded, their sources compared, and the
   report is replayed if there is one. *)
Integrity(harm, reported, completed) ==
    CASE harm = "events-unavailable" -> "inconclusive"
      [] harm \in {"events-invalid", "sources-changed"} -> "failed"
      [] harm \notin EventHarms /\ ~reported -> "not-applicable"
      [] harm = "no-store" /\ reported -> "inconclusive"
      [] OTHER -> ReportIntegrity(harm, completed)

(* Before the verifier is done there is no report, and its verification may have failed
   without one.  The docket keeps the answer alone. *)
ReplayVerification ==
    /\ docket.pc \in {"verify", "verified"}
    /\ LET reported == docket.pc = "verified"
       IN  \E completed \in BOOLEAN, harm \in Harms :
             /\ completed => reported
             /\ docket' = [NoReview EXCEPT !.pc = "replayed", !.replay =
                  [harm |-> harm, reported |-> reported,
                   verdict |-> IF completed THEN docket.status ELSE None,
                   integrity |-> Integrity(harm, reported, completed)]]

VerdictNext == BuildContext \/ AdmitReview \/ VerifyReview \/ ReplayVerification

----------------------------------------------------------------------------
(* Properties *)

(* The evidence of a node is what was built for it, item by item. *)
Whole(n) ==
    LET about == {e \in Evidence : e.node = n}
        built == EvidenceForNode(n, docket.context.operation)
    IN  /\ Cardinality(about) = Cardinality(built)
        /\ {<<e.kind, e.operation>> : e \in about} = {<<e.kind, e.operation>> : e \in built}
        /\ \A e \in about : e.kind \in {"command", "result"} => ~e.other

(* verify_review decides every admitted review without raising.  It passes a run only
   when every node's evidence is whole, every check passed, nothing was found and no
   dimension is unknown; it fails one only for a finding, a failed check or evidence
   of another check; and a finding counts against the nodes it cites, never against
   another node.  A replay calls exactly an unharmed report verified, and never holds
   the lack of a report against a run. *)
VerdictSound ==
    /\ docket.pc # "error"
    /\ docket.pc = "verified" =>
         LET whole == \A n \in VerdictNodes : Whole(n)
             passed == docket.context.passed = VerdictNodes
             known == \A d \in Dimensions :
                         docket.proposal.assessments[d].disposition # "unknown"
         IN  /\ docket.status = "pass" <=> whole /\ passed /\ FindingsMade = {} /\ known
             /\ docket.status = "fail" =>
                   \/ FindingsMade # {} \/ ~passed
                   \/ \E e \in Evidence : e.kind \in {"command", "result"} /\ e.other
             /\ FindingsMade # {} \/ ~passed => docket.status = "fail"
             /\ \A n \in VerdictNodes :
                   StatusForReasons(NodeRow(n).reasons) = "pass" <=>
                       Whole(n) /\ n \in docket.context.passed /\ ForNode(n) = {}
    /\ docket.pc = "replayed" =>
         LET replay == docket.replay
         IN  /\ replay.integrity = "verified" <=> replay.reported /\ replay.harm = "none"
             /\ replay.harm = "none" => replay.integrity # "failed"
=============================================================================
