----------------------------- MODULE GCSDriver -----------------------------
(***************************************************************************)
(* The GCS storage driver: CreateStorage, call by call, in the reconcile   *)
(* loop of Reconciler.  Unlike the S3 driver it returns after a name is    *)
(* chosen, labels a bucket as it is created, and enforces only the labels. *)
(***************************************************************************)
EXTENDS Reconciler, TagSearch

CONSTANTS
    TheirBuckets    \* buckets of another cluster in the same project

ASSUME TheirBucketsAssumption == TheirBuckets \subseteq Buckets

VARIABLES
    buckets,    \* every bucket name's state in GCS
    disturbed   \* buckets changed by others than the operator (history)

gcsVars == <<buckets, disturbed>>
vars == <<cr, watch, cache, queued, driver, pc, inst, fresh, faults, buckets, disturbed>>

-----------------------------------------------------------------------------
Labels == buildLabelMap(InfraName) \cup buildLabelMap(OtherInfra)

\* uniform: uniform bucket-level access, which createBucket asks for.
Bucket == [owner : {"none", "us", "foreign"}, labels : SUBSET Labels, uniform : BOOLEAN]

NoBucket == [owner |-> "none", labels |-> {}, uniform |-> FALSE]
ForeignBucket == [NoBucket EXCEPT !.owner = "foreign"]
NewBucket(infra) == [owner |-> "us", labels |-> buildLabelMap(infra), uniform |-> TRUE]

GcsPCs == LoopPCs \cup
    {"list", "propose", "saveName", "create", "head", "missing", "labels", "sync"}

\* Every variable of the loop and of the driver has its type; the worker is at a
\* call that CreateStorage makes, and its instance is a VeleroInstall that was read.
TypeOK ==
    /\ LoopTypeOK(GcsPCs)
    /\ buckets \in [Buckets -> Bucket]
    /\ disturbed \in SUBSET Buckets

Init ==
    /\ LoopInit
    /\ buckets = [b \in Buckets |-> IF b \in TheirBuckets THEN NewBucket(OtherInfra) ELSE NoBucket]
    /\ disturbed = {}

-----------------------------------------------------------------------------
\* What a step of CreateStorage that does not write the status leaves alone.
Rest == <<cr, watch, cache, driver, faults, disturbed>>

\* A client is made from the credentials secret, and the switch is taken.
NewGcsClient ==
    /\ pc = "storage"
    /\ CASE inst.name = NoName -> Goto("list")
         [] inst.name # NoName /\ ~inst.provisioned -> Goto("create")
         [] OTHER -> Goto("head")
    /\ UNCHANGED <<Rest, buckets>>

\* The project's buckets are listed with their labels, and the cluster's own is
\* adopted as it is; the next Reconcile verifies it.
ListBuckets ==
    /\ pc = "list"
    /\ LET ours == [b \in {n \in Buckets : buckets[n].owner = "us"} |-> buckets[b].labels]
       IN  \E existing \in findVeleroBucket(ours, InfraName, NoName) :
              \/ /\ existing # NoName
                 /\ StatusUpdate([inst EXCEPT !.name = existing, !.provisioned = TRUE], "idle")
              \/ /\ existing = NoName
                 /\ Goto("propose")
                 /\ UNCHANGED apiVars
    /\ UNCHANGED <<cache, driver, faults, gcsVars>>

\* A new name is generated and must not be that of an existing bucket.
ProposeName(n) ==
    /\ pc = "propose"
    /\ \/ /\ buckets[n].owner = "none"
          /\ pc' = "saveName"
          /\ inst' = [inst EXCEPT !.name = n, !.provisioned = FALSE]
          /\ UNCHANGED <<fresh, queued, faults>>
       \/ /\ buckets[n].owner # "none"
          /\ Fault
          /\ Return(TRUE)
    /\ UNCHANGED <<cr, watch, cache, driver, gcsVars>>

SaveName ==
    /\ pc = "saveName"
    /\ StatusUpdate(inst, "idle")
    /\ UNCHANGED <<cache, driver, faults, gcsVars>>

\* The bucket is created with its labels; any bucket of that name is an error,
\* the operator's own included.
CreateBucket ==
    /\ pc = "create"
    /\ \/ /\ buckets[inst.name].owner = "none"
          /\ buckets' = [buckets EXCEPT ![inst.name] = NewBucket(InfraName)]
          /\ Goto("head")
       \/ /\ buckets[inst.name].owner # "none"
          /\ Return(TRUE)
          /\ UNCHANGED buckets
    /\ UNCHANGED Rest

\* The bucket is there, is not, or may not be looked at.
StorageExists ==
    /\ pc = "head"
    /\ CASE buckets[inst.name].owner = "us" -> Goto("labels")
         [] buckets[inst.name].owner = "none" -> Goto("missing")
         [] OTHER -> Return(TRUE)
    /\ UNCHANGED <<Rest, buckets>>

\* Mutant: a missing bucket stays provisioned in the status.
Mutant_MarkMissingKeeps ==
    /\ pc = "missing"
    /\ StatusUpdate(inst, "idle")
    /\ UNCHANGED <<cache, driver, faults, gcsVars>>

MarkMissing ==
    /\ pc = "missing"
    /\ StatusUpdate([inst EXCEPT !.provisioned = FALSE], "idle")
    /\ UNCHANGED <<cache, driver, faults, gcsVars>>

\* The labels are set by key; other labels stay.
enforceBucketLabels ==
    /\ pc = "labels"
    /\ IF buckets[inst.name].owner = "us"
       THEN /\ buckets' = [buckets EXCEPT ![inst.name].labels = buildLabelMap(InfraName)]
            /\ Goto("sync")
       ELSE Return(TRUE) /\ UNCHANGED buckets
    /\ UNCHANGED Rest

\* The end of a pass.
RecordSync ==
    /\ pc = "sync"
    /\ StatusUpdate([inst EXCEPT !.provisioned = TRUE, !.lastSync = "recent"], "idle")
    /\ UNCHANGED <<cache, driver, faults, gcsVars>>

-----------------------------------------------------------------------------
\* Somebody with access to the project, or another project, interferes with b.
Disturb(b, bucket) ==
    /\ Fault
    /\ buckets' = [buckets EXCEPT ![b] = bucket]
    /\ disturbed' = disturbed \cup {b}
    /\ UNCHANGED <<cr, watch, cache, queued, driver, pc, inst, fresh>>

DeleteBucket(b) == buckets[b].owner = "us" /\ Disturb(b, NoBucket)

\* Another project creates b; there is always another UUID left to propose.
ForeignCreate(b) ==
    /\ buckets[b].owner = "none"
    /\ \E n \in Buckets \ {b} : buckets[n].owner = "none"
    /\ Disturb(b, ForeignBucket)

OpenAccess(b) ==
    /\ buckets[b].owner = "us"
    /\ buckets[b].uniform
    /\ Disturb(b, [buckets[b] EXCEPT !.uniform = FALSE])

RemoveLabels(b) ==
    /\ buckets[b].owner = "us"
    /\ buckets[b].labels # {}
    /\ Disturb(b, [buckets[b] EXCEPT !.labels = {}])

-----------------------------------------------------------------------------
\* What the operator's one worker does.
Worker ==
    \/ LoopStep /\ UNCHANGED gcsVars
    \/ NewGcsClient \/ ListBuckets \/ SaveName \/ CreateBucket \/ StorageExists
    \/ MarkMissing \/ enforceBucketLabels \/ RecordSync
    \/ \E n \in Buckets : ProposeName(n)

Interference ==
    \E b \in Buckets : DeleteBucket(b) \/ ForeignCreate(b) \/ OpenAccess(b) \/ RemoveLabels(b)

Next ==
    \/ Worker
    \/ (LoopFailure \/ LoopEnvironment) /\ UNCHANGED gcsVars
    \/ Interference

Spec == Init /\ [][Next]_vars

\* As for the S3 driver: the worker, the informer, the pod and the clock go on.
Fairness ==
    /\ WF_vars(Worker)
    /\ WF_vars(Deliver /\ UNCHANGED gcsVars)
    /\ WF_vars(Resync /\ UNCHANGED gcsVars)
    /\ WF_vars(Restart /\ UNCHANGED gcsVars)
    /\ WF_vars(PeriodEnds /\ UNCHANGED gcsVars)

FairSpec == Spec /\ Fairness
=============================================================================
