--------------------------- MODULE EvidenceReplay ---------------------------
(***************************************************************************)
(* The evidence of a node and its replay.  ExecutionWorker._execute        *)
(* (bootstrap/execution_worker.py) stores an artifact after every stage    *)
(* and, however it ends, an outcome manifest that links them; the run's    *)
(* ledger keeps the digest of the manifest.  verify_run_artifacts          *)
(* (orchestration/replay.py) later follows the links and compares what it  *)
(* finds with what the ledger expects.                                     *)
(*                                                                         *)
(* Artifacts are named by what they hold, so a digest is the content.  One *)
(* node and one attempt; objective, constraints, paths and budgets come    *)
(* from the same plan on both sides and are left out, as are sizes: plan   *)
(* admission keeps a run below the replay budgets.                         *)
(***************************************************************************)
EXTENDS Naturals, FiniteSets, Sequences, SequencesExt, Functions, Absent

CONSTANTS
    NumChecks,   \* the checks of the node
    MaxHarm      \* bound: artifacts damaged before the replay

ASSUME EvidenceAssumption == NumChecks \in Nat \ {0} /\ MaxHarm \in Nat

VARIABLES
    attempt,   \* the worker: its next stage, the links and the commit it knows of
    stored,    \* the artifact store: the media type of every digest
    entry,     \* what the run's events say of the node
    harm,      \* what has happened to artifacts since
    replayed   \* artifact_integrity of the replay

evars == <<attempt, stored, entry, harm, replayed>>

(* A digest: the role of the artifact or, for what a check prints, its text. *)
Digest(role) == <<role, 0>>
Command(i) == <<"command", i>>
Result(i) == <<"result", i>>

(* What a check may print: nothing, some text, or the JSON text of its own command. *)
Outputs(i) == {Digest("empty"), Digest("text"), Command(i)}

(* ExecutionArtifactLink *)
Link(digest, media) == [digest |-> digest, media |-> media]

EvidenceInit ==
    /\ attempt \in
         {[pc |-> IF w THEN "collect" ELSE "commit", write |-> w, context |-> None,
           proposal |-> None, provider |-> None, effect |-> None, checks |-> <<>>,
           head |-> None, checkout |-> 0, status |-> None, failure |-> None,
           manifest |-> None] : w \in BOOLEAN}
    /\ stored = <<>>
    /\ entry = [status |-> "running", failure |-> None, head |-> None, result |-> None,
                context |-> None]
    /\ harm = {}
    /\ replayed = None

----------------------------------------------------------------------------
(* Storing *)

(* put_bytes for a sequence of artifacts: a digest keeps its first media type. *)
With(puts) ==
    FoldLeft(LAMBDA rows, put : [d \in DOMAIN rows \cup {put.digest} |->
                 IF d \in DOMAIN rows THEN rows[d] ELSE put.media], stored, puts)

(* What put_bytes answers: the row of the digest. *)
Reference(rows, digest) == Link(digest, rows[digest])

Stage(next) ==
    attempt' = next /\ UNCHANGED <<entry, harm, replayed>>

(* A stage raises: the worker turns to the outcome. *)
Raise(code) ==
    /\ Stage([attempt EXCEPT !.pc = "outcome", !.status = "failed", !.failure = code])
    /\ UNCHANGED stored

(* should_cancel_node answers yes at _require_active, also between the outcome of a
   success and its record, or after an error. *)
Canceled ==
    /\ attempt.pc # "over"
    /\ attempt.pc = "record" => attempt.status = "succeeded"
    /\ attempt.status # "canceled"
    /\ Stage([attempt EXCEPT !.pc = "outcome", !.status = "canceled", !.failure = None,
                             !.manifest = None])
    /\ UNCHANGED stored

Collect ==
    /\ attempt.pc = "collect"
    /\ \/ /\ stored' = With(<<Link(Digest("context"), "context")>>)
          /\ Stage([attempt EXCEPT !.pc = "dispatch",
                                   !.context = Reference(stored', Digest("context"))])
       \/ Raise("evidence")

(* record_provider_dispatch names the context in the ledger. *)
Dispatch ==
    /\ attempt.pc = "dispatch"
    /\ entry' = [entry EXCEPT !.context = attempt.context.digest]
    /\ attempt' = [attempt EXCEPT !.pc = "propose"]
    /\ UNCHANGED <<stored, harm, replayed>>

(* The provider's answer is stored as two artifacts; the second may fail. *)
Propose ==
    /\ attempt.pc = "propose"
    /\ \/ /\ stored' = With(<<Link(Digest("proposal"), "proposal"),
                            Link(Digest("provider"), "provider")>>)
          /\ Stage([attempt EXCEPT !.pc = "change",
                                   !.proposal = Reference(stored', Digest("proposal")),
                                   !.provider = Reference(stored', Digest("provider"))])
       \/ /\ stored' = With(<<Link(Digest("proposal"), "proposal")>>)
          /\ Stage([attempt EXCEPT !.pc = "outcome", !.status = "failed",
                                   !.failure = "artifact",
                                   !.proposal = Reference(stored', Digest("proposal"))])
       \/ Raise("provider")

Change ==
    /\ attempt.pc = "change"
    /\ \/ /\ stored' = With(<<Link(Digest("effect"), "effect")>>)
          /\ Stage([attempt EXCEPT !.pc = "commit",
                                   !.effect = Reference(stored', Digest("effect"))])
       \/ Raise("change")

(* commit_changes may raise before or after the commit is made. *)
Commit ==
    /\ attempt.pc = "commit"
    /\ UNCHANGED stored
    /\ \/ Stage([attempt EXCEPT !.pc = "check", !.checkout = 1, !.head = 1])
       \/ \E done \in {0, 1} :
            Stage([attempt EXCEPT !.pc = "outcome", !.status = "failed",
                                  !.failure = "commit", !.checkout = done])

----------------------------------------------------------------------------
(* _store_check: the streams first, then the command and the result. *)
StoreCheck(i, out, err) ==
    With(<<Link(out, "bytes"), Link(err, "bytes"),
           Link(Command(i), "command"), Link(Result(i), "result")>>)

(* CheckArtifacts *)
CheckRecord(i, out, err, passed) ==
    [id |-> i, passed |-> passed,
     command |-> Reference(stored', Command(i)), result |-> Reference(stored', Result(i)),
     stdout |-> Reference(stored', out), stderr |-> Reference(stored', err)]

(* The check is not run, or its artifacts are not stored. *)
CheckRaises ==
    /\ attempt.pc = "check"
    /\ Len(attempt.checks) < NumChecks
    /\ Raise("check")

RunCheck ==
    /\ attempt.pc = "check"
    /\ Len(attempt.checks) < NumChecks
    /\ LET i == Len(attempt.checks) + 1
       IN  \E out, err \in Outputs(i), passed \in BOOLEAN :
             /\ stored' = StoreCheck(i, out, err)
             /\ Stage([attempt EXCEPT
                        !.checks = Append(@, CheckRecord(i, out, err, passed)),
                        !.pc = IF passed THEN "check" ELSE "outcome",
                        !.status = IF passed THEN None ELSE "failed",
                        !.failure = IF passed THEN None ELSE "check-failed"])

ChecksPassed ==
    /\ attempt.pc = "check"
    /\ Len(attempt.checks) = NumChecks
    /\ Stage([attempt EXCEPT !.pc = "outcome", !.status = "succeeded"])
    /\ UNCHANGED stored

----------------------------------------------------------------------------
(* The outcome *)

StageLinks(m) == <<m.context, m.proposal, m.provider, m.effect>>

(* NodeOutcomeManifest.__post_init__ and the tests of _store_outcome before it. *)
ValidManifest(m) ==
    /\ m.proposal # None => m.context # None
    /\ m.provider # None => m.context # None /\ m.proposal # None
    /\ m.effect # None => None \notin {m.context, m.proposal, m.provider}
    /\ m.status = "succeeded" =>
         /\ m.failure = None /\ m.head # None
         /\ Len(m.checks) = NumChecks
         /\ \A i \in DOMAIN m.checks : m.checks[i].passed
         /\ m.write <=> None \notin Range(StageLinks(m))
    /\ m.status = "failed" => m.failure # None
    /\ m.status = "canceled" => m.failure = None
    /\ ~m.write => Range(StageLinks(m)) = {None}

Manifest ==
    [status |-> attempt.status, failure |-> attempt.failure, head |-> attempt.head,
     write |-> attempt.write, context |-> attempt.context, proposal |-> attempt.proposal,
     provider |-> attempt.provider, effect |-> attempt.effect, checks |-> attempt.checks]

(* _store_outcome.  When it fails, a success becomes a failure whose own outcome is
   stored next, a failure is recorded as artifact-failed without one, a cancellation
   without one. *)
StoreOutcome ==
    /\ attempt.pc = "outcome"
    /\ \/ /\ ValidManifest(Manifest)
          /\ Stage([attempt EXCEPT !.pc = "record", !.manifest = Manifest])
          /\ stored' = With(<<Link(Digest("outcome"), "outcome")>>)
       \/ /\ attempt.status = "succeeded"
          /\ Raise("artifact")
       \/ /\ attempt.status # "succeeded"
          /\ Stage([attempt EXCEPT !.pc = "record",
                        !.failure = IF attempt.status = "failed" THEN "artifact" ELSE None])
          /\ UNCHANGED stored

(* The event of the outcome: the retained checkout is inspected for its head. *)
Recorded(failure) ==
    /\ entry' = [entry EXCEPT !.status = attempt.status, !.failure = failure,
                              !.head = attempt.checkout,
                              !.result = IF attempt.manifest = None THEN None
                                         ELSE Digest("outcome")]
    /\ attempt' = [attempt EXCEPT !.pc = "over"]
    /\ UNCHANGED <<stored, harm, replayed>>

(* record_node_success has no failure, acknowledge_cancellation neither. *)
RecordNodeSuccess == attempt.pc = "record" /\ attempt.status = "succeeded" /\ Recorded(None)

RecordNodeFailure ==
    attempt.pc = "record" /\ attempt.status = "failed" /\ Recorded(attempt.failure)

AcknowledgeCancellation ==
    attempt.pc = "record" /\ attempt.status = "canceled" /\ Recorded(None)

(* The inspection fails, or the worker is lost: reconciliation. *)
Reconcile ==
    /\ attempt.pc # "over"
    /\ entry' = [entry EXCEPT !.status = "reconciliation-required"]
    /\ attempt' = [attempt EXCEPT !.pc = "over"]
    /\ UNCHANGED <<stored, harm, replayed>>

(* Later an artifact loses its row, or its bytes change, or it cannot be read, or there
   is no artifact store. *)
Damage ==
    /\ attempt.pc = "over"
    /\ replayed = None
    /\ Cardinality(harm) < MaxHarm
    /\ \E d \in DOMAIN stored \cup {Digest("store")},
          kind \in {"missing", "corrupt", "unreadable"} :
         /\ d = Digest("store") => kind = "unreadable"
         /\ harm' = harm \cup {[digest |-> d, kind |-> kind]}
    /\ UNCHANGED <<attempt, stored, entry, replayed>>

----------------------------------------------------------------------------
(* verify_run_artifacts *)

Harmed(digest, kind) == [digest |-> digest, kind |-> kind] \in harm

Streams == {"stdout", "stderr"}

Read(role, link) == [role |-> role, link |-> link]

ReadIf(role, link) == IF link = None THEN <<>> ELSE <<Read(role, link)>>

(* What each verification reads, if the manifest links it. *)
VerifyContext(m) == ReadIf("context", m.context)
VerifyProposal(m) == ReadIf("proposal", m.proposal)
VerifyProvider(m) == ReadIf("provider", m.provider)
VerifyEffect(m) == ReadIf("effect", m.effect)

VerifyCheck(check) ==
    <<Read("command", check.command), Read("result", check.result),
      Read("stdout", check.stdout), Read("stderr", check.stderr)>>

(* read_digest of the outcome, whose link is the row itself. *)
ReadOutcome == Read("outcome", Reference(stored, Digest("outcome")))

(* The order of _verify_node: the outcome, then what it links. *)
ReadsOf(m) ==
    <<ReadOutcome>> \o VerifyContext(m) \o VerifyProposal(m) \o VerifyProvider(m)
    \o VerifyEffect(m) \o FlattenSeq([i \in DOMAIN m.checks |-> VerifyCheck(m.checks[i])])

(* _stat: the row of the digest. *)
StatStatus(digest) == IF Harmed(digest, "missing") THEN "failed" ELSE "verified"

(* _read: how one read ends. *)
ReadStatus(r) ==
    IF StatStatus(r.link.digest) # "verified" THEN StatStatus(r.link.digest)
    ELSE IF \/ stored[r.link.digest] # r.link.media
            \/ r.role \notin Streams /\ r.link.media # r.role
         THEN "failed"
    ELSE IF Harmed(r.link.digest, "unreadable") THEN "inconclusive"
    ELSE IF Harmed(r.link.digest, "corrupt") THEN "failed"
    ELSE "verified"

(* Seeded fault: every outcome must name the head that was inspected. *)
ManifestMatchesHead(m) ==
    /\ m.status = entry.status
    /\ m.failure = entry.failure
    /\ m.head = entry.head
    /\ [i \in DOMAIN m.checks |-> m.checks[i].id] = [i \in 1 .. Len(m.checks) |-> i]
    /\ m.status = "succeeded" => Len(m.checks) = NumChecks

(* _manifest_matches *)
ManifestMatches(m) ==
    /\ entry.status \in {"succeeded", "failed", "canceled"}
    /\ m.status = entry.status
    /\ m.failure = entry.failure
    /\ m.head # entry.head => entry.status # "succeeded" /\ m.head = None
    /\ [i \in DOMAIN m.checks |-> m.checks[i].id] = [i \in 1 .. Len(m.checks) |-> i]
    /\ m.status = "succeeded" => Len(m.checks) = NumChecks
    /\ m.write /\ m.status = "succeeded" => entry.context # None /\ m.context # None
    /\ entry.context # None /\ m.context # None => m.context.digest = entry.context

(* The first read that does not end well decides. *)
Verify(m) ==
    LET issues == SelectSeq([i \in DOMAIN ReadsOf(m) |-> ReadStatus(ReadsOf(m)[i])],
                            LAMBDA s : s # "verified")
    IN  IF ReadStatus(ReadOutcome) # "verified" THEN ReadStatus(ReadOutcome)
        ELSE IF ~ManifestMatches(m) THEN "failed"
        ELSE IF issues # <<>> THEN issues[1]
        ELSE "verified"

Replay ==
    /\ attempt.pc = "over"
    /\ replayed = None
    /\ replayed' =
         IF entry.result = None /\ entry.status = "reconciliation-required"
         THEN "not-applicable"
         ELSE IF Harmed(Digest("store"), "unreadable") \/ entry.result = None
         THEN "inconclusive"
         ELSE Verify(attempt.manifest)
    /\ UNCHANGED <<attempt, stored, entry, harm>>

EvidenceNext ==
    \/ Canceled \/ Collect \/ Dispatch \/ Propose \/ Change \/ Commit
    \/ CheckRaises \/ RunCheck \/ ChecksPassed \/ StoreOutcome
    \/ RecordNodeSuccess \/ RecordNodeFailure \/ AcknowledgeCancellation \/ Reconcile
    \/ Damage \/ Replay

----------------------------------------------------------------------------
(* Properties *)

Linked == {r.link.digest : r \in Range(ReadsOf(attempt.manifest))}

(* A command printed, byte for byte, by the check that it starts: the stream is stored
   first and the command keeps the stream's media type. *)
Collides ==
    \E i \in DOMAIN attempt.checks : attempt.checks[i].command.media # "command"

(* However the node ended and wherever the stages stopped, an outcome on record
   replays as verified exactly while everything it links is intact, it replays as
   failed only for artifacts that are gone or changed, and as inconclusive only for
   what cannot be read.  The one outcome that fails unharmed is that of a check that
   prints its own command. *)
ReplayFaithful ==
    replayed # None /\ entry.result # None =>
        LET harmed(kinds) == \E d \in Linked, kind \in kinds : Harmed(d, kind)
        IN  /\ replayed = "verified" =>
                 ~harmed({"missing", "corrupt", "unreadable"}) /\ ~Collides
            /\ replayed = "failed" => harmed({"missing", "corrupt"}) \/ Collides
            /\ replayed = "inconclusive" =>
                 harmed({"unreadable"}) \/ Harmed(Digest("store"), "unreadable")
            /\ replayed # "not-applicable"
=============================================================================
