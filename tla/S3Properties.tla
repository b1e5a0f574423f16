---------------------------- MODULE S3Properties ----------------------------
(***************************************************************************)
(* What is claimed of the reconcile loop with the S3 driver.               *)
(***************************************************************************)
EXTENDS S3Driver, FiniteSets

\* Buckets that have every setting, or that somebody else has changed.
Ready == {b \in Buckets : buckets[b].config = Settings \/ b \in disturbed}

\* What a copy of the status says of its bucket is so.
Vouched(copy) ==
    copy # Absent /\ copy.lastSync = "recent" => copy.provisioned /\ copy.name \in Ready

(***************************************************************************)
(* README, step 4: the settings "are ensured".  Whenever Reconcile goes on *)
(* to provisionVelero, and whenever any copy of the status says that the   *)
(* bucket was synced within the period, the bucket has been given every    *)
(* setting, whatever calls failed and however old the copy read from the   *)
(* cache was, unless somebody else has changed the bucket.                 *)
(***************************************************************************)
GateHardened ==
    /\ Vouched(cr)
    /\ Vouched(cache)
    /\ \A i \in DOMAIN watch : Vouched(watch[i])
    /\ pc = "provision" => inst.name \in Ready

(***************************************************************************)
(* The search by tags exists so that a cluster does not come to have two   *)
(* buckets to choose from: at most one bucket in the region carries the    *)
(* cluster's tags, even when the VeleroInstall is deleted and created      *)
(* again under a running Reconcile, apart from buckets that S3 did not     *)
(* show to a search because they had only just been created.               *)
(***************************************************************************)
OneBucketPerCluster == Cardinality(Tagged \ missed) <= 1

(***************************************************************************)
(* setInstanceBucketName: "Use an existing bucket, if it exists."  A new   *)
(* name is proposed only when no bucket of the operator's making, with     *)
(* which nobody else has interfered, is left in the region.  It may be     *)
(* left untagged by a pass that was cut short, or S3 may not show it yet.  *)
(***************************************************************************)
ExistingBucketUsed ==
    pc = "propose" => \A b \in Buckets \ (TheirBuckets \cup disturbed) : ~Accessible(b)

\* Nothing is queued, running or under way to the informer.
Quiet == pc = "idle" /\ ~queued /\ watch = <<>> /\ cr # Absent

(***************************************************************************)
(* Reconcile: "Always return from this, as we will either be updating the  *)
(* status *or* there will be an error", so that there is always an event   *)
(* or a retry to go on with.  Where the operator comes to rest, the bucket *)
(* is provisioned and was synced.                                          *)
(***************************************************************************)
NothingStranded == Quiet => cr.provisioned /\ cr.lastSync # "unset"

(***************************************************************************)
(* What holds of that: where the operator rests it has chosen a name, and  *)
(* a bucket it calls provisioned was synced; no recovered bucket is left   *)
(* unenforced, and only a named, unprovisioned bucket is left to wait.     *)
(***************************************************************************)
RestsOnlyWhenMissing ==
    Quiet => /\ cr.name # NoName
             /\ cr.provisioned => cr.lastSync # "unset"

(***************************************************************************)
(* FindMatchingTags determines "if any of the buckets are tagged for       *)
(* velero updates for the cluster": the bucket of another cluster of the   *)
(* account is never adopted, retagged or handed to Velero.                 *)
(***************************************************************************)
TheirsUntouched ==
    \A b \in TheirBuckets \ disturbed :
        /\ buckets[b].tags = VeleroTags(OtherInfra)
        /\ cr # Absent => cr.name # b

Contract == INSTANCE StorageContract WITH status <- cr, ready <- Ready

(***************************************************************************)
(* However Reconciles are interleaved with failures and other writers, the *)
(* stored status changes as StorageContract says: a name is chosen only    *)
(* where there is none, given up only before the bucket was provisioned,   *)
(* and a sync recorded only for the bucket that was enforced, which        *)
(* CreateStorage owes to StatusUpdate failing on a stale instance.         *)
(***************************************************************************)
ImplementsContract == Contract!ContractSpec

\* Another account took the name of the provisioned bucket.
Blocked == cr.name # NoName /\ cr.provisioned /\ buckets[cr.name].owner = "foreign"

(***************************************************************************)
(* A VeleroInstall whose bucket needs work gets a synced status, unless it *)
(* goes away or another account took the name of its deleted bucket.  A    *)
(* name that was taken before the bucket was created is no excuse.         *)
(***************************************************************************)
Converges ==
    (cr # Absent /\ StorageBucketReconcileRequired(cr))
        ~> (cr = Absent \/ ~StorageBucketReconcileRequired(cr) \/ Blocked)

\* The bucket in use lacks a setting.
Drifted ==
    /\ cr # Absent
    /\ cr.name # NoName
    /\ Accessible(cr.name)
    /\ buckets[cr.name].config # Settings

(***************************************************************************)
(* README: the operator will "periodically run the Reconcile loop to       *)
(* change the settings back to what it expects".  A setting somebody took  *)
(* from the bucket in use is given back to it, as long as the bucket is in *)
(* use, although no event tells of the change.                             *)
(***************************************************************************)
DriftRepaired == Drifted ~> ~Drifted
=============================================================================
