--------------------------- MODULE GCSProperties ---------------------------
(***************************************************************************)
(* What is claimed of the reconcile loop with the GCS driver.              *)
(***************************************************************************)
EXTENDS GCSDriver, FiniteSets

\* Buckets of the cluster, by their labels.
Labelled == {b \in Buckets : buildLabelMap(InfraName) \subseteq buckets[b].labels}

Contract == INSTANCE StorageContract WITH status <- cr, ready <- Labelled \cup disturbed

(***************************************************************************)
(* The stored status changes as StorageContract says, with the labels as   *)
(* the only setting this driver enforces: a name is chosen only where      *)
(* there is none, and a sync recorded only for the bucket it was made of.  *)
(***************************************************************************)
ImplementsContract == Contract!ContractSpec

(***************************************************************************)
(* The search by labels exists so that a cluster never gets a second       *)
(* bucket (gcs.go, "Use an existing bucket, if it exists").  A bucket      *)
(* carries its labels from its creation, so even a Reconcile that is cut   *)
(* short, or works on a VeleroInstall that is gone, leaves no second one:  *)
(* neither labelled for the cluster, nor of the operator's making and left *)
(* alone since.                                                            *)
(***************************************************************************)
OneBucketPerCluster ==
    Cardinality({b \in Buckets \ TheirBuckets :
                    buckets[b].owner = "us" /\ (b \in Labelled \/ b \notin disturbed)}) <= 1

(***************************************************************************)
(* findVeleroBucket returns a bucket that is tagged "for the cluster": the *)
(* bucket of another cluster in the project is never adopted, relabelled   *)
(* or handed to Velero.                                                    *)
(***************************************************************************)
TheirsUntouched ==
    \A b \in TheirBuckets \ disturbed :
        /\ buckets[b] = NewBucket(OtherInfra)
        /\ cr # Absent => cr.name # b

\* Another project holds the name of the bucket, whether it took it before the bucket
\* was created or after it was deleted: CreateStorage never gives a name up.
Blocked == cr.name # NoName /\ buckets[cr.name].owner = "foreign"

(***************************************************************************)
(* A VeleroInstall whose bucket needs work gets a synced status, unless it *)
(* goes away or another project holds the name of its bucket.  The bucket  *)
(* may be missing, or exist already.                                       *)
(***************************************************************************)
Converges ==
    (cr # Absent /\ StorageBucketReconcileRequired(cr))
        ~> (cr = Absent \/ ~StorageBucketReconcileRequired(cr) \/ Blocked)

\* The bucket exists, and the status says that it is still to be created.
Unrecorded == cr # Absent /\ cr.name # NoName /\ ~cr.provisioned /\ buckets[cr.name].owner = "us"

(***************************************************************************)
(* The same, but for the one way it can fail with the name its own: a      *)
(* bucket that was created but whose creation could not be recorded, and   *)
(* then for ever.                                                          *)
(***************************************************************************)
ConvergesUnlessUnrecorded ==
    (cr # Absent /\ StorageBucketReconcileRequired(cr))
        ~> (cr = Absent \/ ~StorageBucketReconcileRequired(cr) \/ Blocked \/ []Unrecorded)
=============================================================================
