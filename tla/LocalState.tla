---------------------------- MODULE LocalState ----------------------------
(***************************************************************************)
(* What a runtime keeps on one host: the artifact store                    *)
(* (kernel/artifacts.py), whose bytes are files and whose metadata are     *)
(* rows of the kernel database, and LocalRecoveryService                   *)
(* (adapters/recovery/local.py), which copies both into bundles while the  *)
(* runtime goes on, prunes old bundles and restores one into a new root.   *)
(*                                                                         *)
(* Every process may end at any step and leaves its files behind.          *)
(***************************************************************************)
EXTENDS Integers, Sequences, FiniteSets, Absent

CONSTANTS
    Blobs,      \* artifacts, by digest
    Size,       \* Size[b]: the bytes of artifact b
    Quota,      \* max_total_bytes
    Backups,    \* processes that run "recovery backup"
    Restores,   \* processes that run "recovery restore", all for one target
    Retention,  \* retention_count
    MaxBackups, \* bound: bundles ever begun
    Clock       \* the readings of the wall clock

ASSUME QuotaAssumption == Size \in [Blobs -> Nat \ {0}] /\ Quota \in Nat
ASSUME RetentionAssumption == Retention \in Nat \ {0} /\ MaxBackups \in Nat /\ Clock \subseteq Int

(* A bundle: created_at, the artifact rows and the events of its database, and the files
   it holds.  The database and the manifest are files too. *)
Bundle ==
    [created : Int, rows : SUBSET Blobs, refs : SUBSET Blobs,
     files : SUBSET (Blobs \cup {"database", "manifest"})]
ASSUME BundleAssumption == None \notin Bundle

VARIABLES
    rows,      \* kernel_artifacts: the artifacts with committed metadata
    blobs,     \* the artifacts whose file is in place
    refs,      \* the artifacts that events of the ledger name
    putter,    \* the put_bytes in progress: "begin immediate" admits one
    bundles,   \* backup_root by bundle number: backup-<id>
    latest,    \* the bundle published last (history)
    backup,    \* each backup process
    restorer,  \* each restore process
    lock,      \* whether the lock file of the restore target exists
    target     \* the restored root

livars == <<rows, blobs, refs, putter>>
recovery == <<bundles, latest, backup, restorer, lock, target>>

NoPut == [pc |-> "idle", blob |-> None]
NoBundle == [created |-> 0, rows |-> {}, refs |-> {}, files |-> {}]
NoBackup == [pc |-> "idle", id |-> 0, bundle |-> NoBundle, victims |-> {}]
NoRestore == [pc |-> "idle", id |-> 0, bundle |-> NoBundle]

LocalInit ==
    /\ rows = {} /\ blobs = {} /\ refs = {} /\ putter = NoPut
    /\ bundles = <<>> /\ latest = 0
    /\ backup = [p \in Backups |-> NoBackup]
    /\ restorer = [p \in Restores |-> NoRestore]
    /\ lock = FALSE /\ target = None

(* sum(size_bytes): the bytes of the artifacts in S, each by its artifact and its offset. *)
Used(S) == Cardinality(UNION {{b} \X (1 .. Size[b]) : b \in S})

----------------------------------------------------------------------------
(* ArtifactStore.put_bytes *)

(* Seeded fault: the row is committed before the file is in place. *)
BeginPutRowFirst(b) ==
    /\ putter = NoPut
    /\ b \notin rows
    /\ Used(rows) + Size[b] <= Quota
    /\ putter' = [pc |-> "write", blob |-> b]
    /\ rows' = rows \cup {b}
    /\ UNCHANGED <<blobs, refs, recovery>>

(* Artifacts that have a row are answered from it; the quota counts rows. *)
BeginPut(b) ==
    /\ putter = NoPut
    /\ b \notin rows
    /\ Used(rows) + Size[b] <= Quota
    /\ putter' = [pc |-> "write", blob |-> b]
    /\ UNCHANGED <<rows, blobs, refs, recovery>>

(* _write_once: a file left by an interrupted put is accepted. *)
WriteBlob ==
    /\ putter.pc = "write"
    /\ blobs' = blobs \cup {putter.blob}
    /\ putter' = [putter EXCEPT !.pc = "commit"]
    /\ UNCHANGED <<rows, refs, recovery>>

CommitRow ==
    /\ putter.pc = "commit"
    /\ rows' = rows \cup {putter.blob}
    /\ putter' = NoPut
    /\ UNCHANGED <<blobs, refs, recovery>>

AbandonPut == putter # NoPut /\ putter' = NoPut /\ UNCHANGED <<rows, blobs, refs, recovery>>

(* Whoever stored an artifact appends an event that names it. *)
ReferTo(b) ==
    /\ b \in rows \ refs
    /\ refs' = refs \cup {b}
    /\ UNCHANGED <<rows, blobs, putter, recovery>>

----------------------------------------------------------------------------
(* Bundles *)

Expected(bundle) == bundle.rows \cup {"database", "manifest"}

(* _verify: the files are those of the manifest and of the database, no more, no less. *)
Complete(bundle) == bundle.files = Expected(bundle)

VerifiedBundles == {id \in DOMAIN bundles : bundles[id] # None /\ Complete(bundles[id])}

Older(i, j) ==
    \/ bundles[i].created < bundles[j].created
    \/ bundles[i].created = bundles[j].created /\ i < j

(* create_backup: a staging directory, then the snapshot of the database. *)
StartBackup(p) ==
    /\ backup[p].pc = "idle"
    /\ Len(bundles) < MaxBackups
    /\ bundles' = Append(bundles, None)
    /\ \E now \in Clock :
         backup' = [backup EXCEPT ![p] =
             [pc |-> "copy", id |-> Len(bundles) + 1, victims |-> {},
              bundle |-> [created |-> now, rows |-> rows, refs |-> refs,
                          files |-> {"database"}]]]
    /\ UNCHANGED <<livars, latest, restorer, lock, target>>

(* _copy_verified_file for each row of the snapshot; a missing file fails the backup
   and its staging directory is removed. *)
CopyArtifact(p) ==
    /\ backup[p].pc = "copy"
    /\ LET left == backup[p].bundle.rows \ backup[p].bundle.files
       IN  IF left = {}
           THEN backup' = [backup EXCEPT ![p].pc = "publish", ![p].bundle.files = @ \cup {"manifest"}]
           ELSE \E b \in left :
                  backup' = IF b \in blobs THEN [backup EXCEPT ![p].bundle.files = @ \cup {b}]
                            ELSE [backup EXCEPT ![p] = NoBackup]
    /\ UNCHANGED <<livars, bundles, latest, restorer, lock, target>>

(* The staged bundle is verified and renamed. *)
PublishBundle(p) ==
    /\ backup[p].pc = "publish"
    /\ IF Complete(backup[p].bundle)
       THEN /\ bundles' = [bundles EXCEPT ![backup[p].id] = backup[p].bundle]
            /\ latest' = backup[p].id
            /\ backup' = [backup EXCEPT ![p].pc = "list"]
       ELSE backup' = [backup EXCEPT ![p] = NoBackup] /\ UNCHANGED <<bundles, latest>>
    /\ UNCHANGED <<livars, restorer, lock, target>>

(* Seeded fault: the new bundle is a candidate like the others. *)
VictimsOfAll(own) ==
    LET surplus == Cardinality(VerifiedBundles) - Retention
    IN  {id \in VerifiedBundles :
            Cardinality({other \in VerifiedBundles : Older(other, id)}) < surplus}

(* _prune_verified: the oldest verified bundles but one's own, as many as there are
   too many. *)
Victims(own) ==
    LET surplus == Cardinality(VerifiedBundles) - Retention
        candidates == VerifiedBundles \ {own}
    IN  {id \in candidates :
            Cardinality({other \in candidates : Older(other, id)}) < surplus}

ListBundles(p) ==
    /\ backup[p].pc = "list"
    /\ backup' = [backup EXCEPT ![p].pc = "prune", ![p].victims = Victims(backup[p].id)]
    /\ UNCHANGED <<livars, bundles, latest, restorer, lock, target>>

(* shutil.rmtree: file by file; a directory that is gone raises and ends the backup. *)
PruneFile(p) ==
    /\ backup[p].pc = "prune"
    /\ \E id \in backup[p].victims :
         IF bundles[id] = None
         THEN backup' = [backup EXCEPT ![p] = NoBackup] /\ UNCHANGED bundles
         ELSE IF bundles[id].files = {}
         THEN /\ bundles' = [bundles EXCEPT ![id] = None]
              /\ backup' = [backup EXCEPT ![p].victims = @ \ {id}]
         ELSE /\ \E f \in bundles[id].files : bundles' = [bundles EXCEPT ![id].files = @ \ {f}]
              /\ UNCHANGED backup
    /\ UNCHANGED <<livars, latest, restorer, lock, target>>

(* The backup returns, or its process ends: what is published stays, and the rest of
   the staging directory is not looked at again. *)
EndBackup(p) ==
    /\ backup[p].pc # "idle"
    /\ backup' = [backup EXCEPT ![p] = NoBackup]
    /\ UNCHANGED <<livars, bundles, latest, restorer, lock, target>>

----------------------------------------------------------------------------
(* restore_bundle *)

VerifyBundle(p) ==
    /\ restorer[p].pc = "idle"
    /\ target = None
    /\ \E id \in VerifiedBundles :
         restorer' = [restorer EXCEPT ![p] =
             [pc |-> "lock", id |-> id, bundle |-> [bundles[id] EXCEPT !.files = {}]]]
    /\ UNCHANGED <<livars, bundles, latest, backup, lock, target>>

(* O_EXCL on the lock file of the target, and the target is looked at again. *)
LockTarget(p) ==
    /\ restorer[p].pc = "lock"
    /\ IF lock \/ target # None
       THEN restorer' = [restorer EXCEPT ![p] = NoRestore] /\ UNCHANGED lock
       ELSE restorer' = [restorer EXCEPT ![p].pc = "copy"] /\ lock' = TRUE
    /\ UNCHANGED <<livars, bundles, latest, backup, target>>

(* Seeded fault: a file that is gone by now is passed over. *)
RestoreWhatIsThere(p) ==
    /\ restorer[p].pc = "copy"
    /\ LET r == restorer[p]
           there == IF bundles[r.id] = None THEN {} ELSE bundles[r.id].files
       IN  restorer' = [restorer EXCEPT ![p] =
               [r EXCEPT !.pc = "rename", !.bundle.files = there \cap (r.bundle.rows \cup {"database"})]]
    /\ UNCHANGED <<livars, bundles, latest, backup, lock, target>>

(* Database and artifacts are copied from the bundle, which may be pruned meanwhile:
   then the restore fails, and lock and staging directory are removed. *)
RestoreFile(p) ==
    /\ restorer[p].pc = "copy"
    /\ LET r == restorer[p]
           left == (r.bundle.rows \cup {"database"}) \ r.bundle.files
           there == IF bundles[r.id] = None THEN {} ELSE bundles[r.id].files
       IN  IF left = {}
           THEN restorer' = [restorer EXCEPT ![p].pc = "rename"] /\ UNCHANGED lock
           ELSE \E f \in left :
                  IF f \in there
                  THEN restorer' = [restorer EXCEPT ![p].bundle.files = @ \cup {f}] /\ UNCHANGED lock
                  ELSE restorer' = [restorer EXCEPT ![p] = NoRestore] /\ lock' = FALSE
    /\ UNCHANGED <<livars, bundles, latest, backup, target>>

(* The staging directory becomes the target, and the lock file is removed. *)
RenameTarget(p) ==
    /\ restorer[p].pc = "rename"
    /\ target' = IF target = None THEN restorer[p].bundle ELSE target
    /\ lock' = FALSE
    /\ restorer' = [restorer EXCEPT ![p] = NoRestore]
    /\ UNCHANGED <<livars, bundles, latest, backup>>

(* A process that ends keeps its lock file for good. *)
AbandonRestore(p) ==
    /\ restorer[p].pc # "idle"
    /\ restorer' = [restorer EXCEPT ![p] = NoRestore]
    /\ UNCHANGED <<livars, bundles, latest, backup, lock, target>>

----------------------------------------------------------------------------
LocalNext ==
    \/ \E b \in Blobs : BeginPut(b) \/ ReferTo(b)
    \/ WriteBlob \/ CommitRow \/ AbandonPut
    \/ \E p \in Backups :
          \/ StartBackup(p) \/ CopyArtifact(p) \/ PublishBundle(p)
          \/ ListBundles(p) \/ PruneFile(p) \/ EndBackup(p)
    \/ \E p \in Restores :
          \/ VerifyBundle(p) \/ LockTarget(p) \/ RestoreFile(p) \/ RenameTarget(p)
          \/ AbandonRestore(p)

LocalSpec == LocalInit /\ [][LocalNext]_<<livars, recovery>>

----------------------------------------------------------------------------
(* Properties *)

(* Whenever a writer is interrupted: every artifact an event names has its row, every
   row has its file, and the rows stay within the quota. *)
ArtifactsDurable == refs \subseteq rows /\ rows \subseteq blobs /\ Used(rows) <= Quota

(* A bundle that verifies, and a restored root, hold the database of one moment with
   every artifact that its events name, although artifacts were stored while the
   bundle was copied and bundles pruned while one was restored. *)
CopiesWhole ==
    /\ \A id \in VerifiedBundles : bundles[id].refs \subseteq bundles[id].files
    /\ target # None =>
          /\ target.files = target.rows \cup {"database"}
          /\ target.refs \subseteq target.rows

(* "Retention deletes only the oldest verified bundle directories after a new bundle
   verifies": the bundle published last is there and verifies, and so there is always one
   to go back to. *)
RecoveryComplete == CopiesWhole /\ (latest # 0 => latest \in VerifiedBundles)
=============================================================================
