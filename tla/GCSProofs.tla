----------------------------- MODULE GCSProofs -----------------------------
(***************************************************************************)
(* Proofs about the reconcile loop with the GCS driver.                    *)
(***************************************************************************)
EXTENDS GCSProperties, ReconcilerProofs

\* The labels of a cluster, as they are once sanitized.
LEMMA LabelMap ==
  \A infra \in {InfraName, OtherInfra} :
    buildLabelMap(infra) =
      {[key |-> "velero-io-backup-location", value |-> "default"],
       [key |-> "velero-io-infrastructurename", value |-> infra]}
  <1> SUFFICES ASSUME NEW infra \in {InfraName, OtherInfra}
               PROVE  buildLabelMap(infra) =
                        {[key |-> "velero-io-backup-location", value |-> "default"],
                         [key |-> "velero-io-infrastructurename", value |-> infra]}
    OBVIOUS
  <1>1. /\ sanitizeBucketLabel(bucketTagBackupLocation) = "velero-io-backup-location"
        /\ sanitizeBucketLabel(bucketTagInfraName) = "velero-io-infrastructurename"
        /\ sanitizeBucketLabel(DefaultVeleroBackupStorageLocation) = "default"
    BY DEF sanitizeBucketLabel, bucketTagBackupLocation, bucketTagInfraName,
       DefaultVeleroBackupStorageLocation
  <1>2. sanitizeBucketLabel(infra) = infra
    BY InfraSanitizedAssumption
  <1> QED
    BY <1>1, <1>2 DEF buildLabelMap, VeleroTags

\* The labels of the one cluster are not those of the other.
LEMMA LabelsDiffer ==
  /\ buildLabelMap(InfraName) # {}
  /\ ~(buildLabelMap(InfraName) \subseteq buildLabelMap(OtherInfra))
  <1> DEFINE location == [key |-> "velero-io-backup-location", value |-> "default"]
             mine == [key |-> "velero-io-infrastructurename", value |-> InfraName]
             theirs == [key |-> "velero-io-infrastructurename", value |-> OtherInfra]
  <1>1. buildLabelMap(InfraName) = {location, mine} /\ buildLabelMap(OtherInfra) = {location, theirs}
    BY LabelMap
  <1>2. mine # location
    <2>1. mine.key # location.key
      OBVIOUS
    <2> QED
      BY <2>1
  <1>3. mine # theirs
    <2>1. mine.value # theirs.value
      BY InfraAssumption
    <2> QED
      BY <2>1
  <1> HIDE DEF location, mine, theirs
  <1> QED
    BY <1>1, <1>2, <1>3

\* The buckets the model makes are buckets.
LEMMA BucketTypes ==
  /\ NoBucket \in Bucket
  /\ ForeignBucket \in Bucket
  /\ NewBucket(InfraName) \in Bucket
  /\ NewBucket(OtherInfra) \in Bucket
  BY DEF NoBucket, ForeignBucket, NewBucket, Bucket, Labels

\* findVeleroBucket returns a bucket with the cluster's labels, or none if there is none.
LEMMA FindVeleroBucket ==
  ASSUME NEW labels, NEW existing \in findVeleroBucket(labels, InfraName, NoName)
  PROVE  \/ existing \in DOMAIN labels /\ buildLabelMap(InfraName) \subseteq labels[existing]
         \/ /\ existing = NoName
            /\ \A b \in DOMAIN labels : ~(buildLabelMap(InfraName) \subseteq labels[b])
  BY DEF findVeleroBucket

\* What ListBuckets does, in these terms.
LEMMA ListBucketsChoice ==
  ASSUME ListBuckets, buckets \in [Buckets -> Bucket]
  PROVE  \/ \E existing \in Labelled :
               /\ buckets[existing].owner = "us"
               /\ StatusUpdate([inst EXCEPT !.name = existing, !.provisioned = TRUE], "idle")
         \/ /\ Goto("propose")
            /\ UNCHANGED apiVars
            /\ \A b \in Labelled : buckets[b].owner # "us"
  <1> DEFINE ours == [b \in {n \in Buckets : buckets[n].owner = "us"} |-> buckets[b].labels]
  <1>1. PICK existing \in findVeleroBucket(ours, InfraName, NoName) :
          \/ /\ existing # NoName
             /\ StatusUpdate([inst EXCEPT !.name = existing, !.provisioned = TRUE], "idle")
          \/ /\ existing = NoName
             /\ Goto("propose")
             /\ UNCHANGED apiVars
    BY DEF ListBuckets
  <1>2. \/ existing \in DOMAIN ours /\ buildLabelMap(InfraName) \subseteq ours[existing]
        \/ /\ existing = NoName
           /\ \A b \in DOMAIN ours : ~(buildLabelMap(InfraName) \subseteq ours[b])
    BY FindVeleroBucket
  <1>3. CASE existing = NoName
    <2>1. existing \notin DOMAIN ours
      BY <1>3, NoNameAssumption
    <2> QED
      BY <1>1, <1>2, <1>3, <2>1 DEF Labelled
  <1>4. CASE existing # NoName
    <2>1. existing \in Labelled /\ buckets[existing].owner = "us"
      BY <1>2, <1>4 DEF Labelled
    <2> QED
      BY <1>1, <1>4, <2>1
  <1> QED
    BY <1>3, <1>4

-----------------------------------------------------------------------------
\* The types hold to begin with.
LEMMA InitType == Init => TypeOK
  <1> SUFFICES ASSUME Init PROVE TypeOK
    OBVIOUS
  <1>1. LoopTypeOK(GcsPCs)
    <2>1. faults \in 0..MaxFaults
      BY MaxFaultsAssumption DEF Init, LoopInit
    <2>2. watch \in Seq(Status \cup {Absent})
      BY EmptySeq DEF Init, LoopInit
    <2> QED
      BY <2>1, <2>2, EmptyStatusType DEF Init, LoopInit, LoopTypeOK, GcsPCs, LoopPCs
  <1>2. buckets \in [Buckets -> Bucket]
    BY BucketTypes DEF Init
  <1> QED
    BY <1>1, <1>2 DEF Init, TypeOK

\* The calls of CreateStorage keep the types.
LEMMA DriverType ==
  ASSUME TypeOK,
         \/ NewGcsClient \/ ListBuckets \/ SaveName \/ CreateBucket \/ StorageExists
         \/ MarkMissing \/ enforceBucketLabels \/ RecordSync
         \/ \E n \in Buckets : ProposeName(n)
  PROVE  TypeOK'
  <1>0. /\ inst \in Status /\ LoopTypeOK(GcsPCs) /\ LoopPCs \subseteq GcsPCs /\ "idle" \in GcsPCs
        /\ inst.name \in Buckets => buckets[inst.name] \in Bucket
        /\ [inst EXCEPT !.provisioned = FALSE] \in Status
        /\ [inst EXCEPT !.provisioned = TRUE, !.lastSync = "recent"] \in Status
        /\ \A n \in Buckets, made \in BOOLEAN : [inst EXCEPT !.name = n, !.provisioned = made] \in Status
    BY DEF TypeOK, LoopTypeOK, Status, SyncAges, GcsPCs, LoopPCs
  <1>1. CASE NewGcsClient
    BY <1>1 DEF NewGcsClient, Goto, Rest, TypeOK, LoopTypeOK, GcsPCs, LoopPCs
  <1>2. CASE ListBuckets
    <2>1. UNCHANGED <<cache, driver, faults, buckets, disturbed>>
      BY <1>2 DEF ListBuckets, gcsVars
    <2>2. ASSUME NEW existing \in Labelled,
                 StatusUpdate([inst EXCEPT !.name = existing, !.provisioned = TRUE], "idle")
          PROVE  TypeOK'
      <3>1. PICK status \in Status : status = [inst EXCEPT !.name = existing, !.provisioned = TRUE]
        BY <1>0 DEF Labelled
      <3> QED
        BY <1>0, <2>1, <2>2, <3>1, StatusUpdateType DEF TypeOK
    <2>3. CASE Goto("propose") /\ UNCHANGED apiVars
      BY <2>1, <2>3 DEF Goto, apiVars, TypeOK, LoopTypeOK, GcsPCs
    <2> QED
      BY <1>2, <2>2, <2>3, ListBucketsChoice DEF TypeOK
  <1>3. CASE SaveName
    BY <1>0, <1>3, StatusUpdateType DEF SaveName, TypeOK, gcsVars
  <1>4. CASE CreateBucket
    BY <1>4, BucketTypes, EmptyStatusType
    DEF CreateBucket, Goto, Return, Rest, TypeOK, LoopTypeOK, GcsPCs, LoopPCs
  <1>5. CASE StorageExists
    BY <1>5, EmptyStatusType DEF StorageExists, Goto, Return, Rest, TypeOK, LoopTypeOK, GcsPCs, LoopPCs
  <1>6. CASE MarkMissing
    BY <1>0, <1>6, StatusUpdateType DEF MarkMissing, TypeOK, gcsVars
  <1>7. CASE enforceBucketLabels
    <2>1. inst.name \in Buckets =>
            [buckets[inst.name] EXCEPT !.labels = buildLabelMap(InfraName)] \in Bucket
      BY <1>0 DEF Bucket, Labels
    <2>2. buckets' \in [Buckets -> Bucket]
      BY <1>7, <2>1 DEF enforceBucketLabels, TypeOK
    <2> QED
      BY <1>7, <2>2, EmptyStatusType
      DEF enforceBucketLabels, Goto, Return, Rest, TypeOK, LoopTypeOK, GcsPCs, LoopPCs
  <1>8. CASE RecordSync
    BY <1>0, <1>8, StatusUpdateType DEF RecordSync, TypeOK, gcsVars
  <1>9. ASSUME NEW n \in Buckets, ProposeName(n) PROVE TypeOK'
    <2>1. inst' \in Status /\ pc' \in GcsPCs /\ fresh' \in BOOLEAN /\ queued' \in BOOLEAN
      BY <1>0, <1>9, EmptyStatusType DEF ProposeName, Return, LoopTypeOK, GcsPCs, LoopPCs
    <2>2. faults' \in 0..MaxFaults
      BY <1>0, <1>9, FaultType DEF ProposeName, LoopTypeOK
    <2>3. UNCHANGED <<cr, watch, cache, driver, buckets, disturbed>>
      BY <1>9 DEF ProposeName, gcsVars
    <2> QED
      BY <2>1, <2>2, <2>3 DEF TypeOK, LoopTypeOK
  <1> QED
    BY <1>1, <1>2, <1>3, <1>4, <1>5, <1>6, <1>7, <1>8, <1>9

\* Every step keeps the types.
LEMMA NextType == TypeOK /\ [Next]_vars => TypeOK'
  <1> SUFFICES ASSUME TypeOK, [Next]_vars PROVE TypeOK'
    OBVIOUS
  <1>0. LoopPCs \subseteq GcsPCs
    BY DEF GcsPCs
  <1>1. CASE (LoopStep \/ LoopFailure \/ LoopEnvironment) /\ UNCHANGED gcsVars
    BY <1>0, <1>1, LoopStepType, LoopFailureType, LoopEnvironmentType DEF TypeOK, gcsVars
  <1>2. ASSUME NEW b \in Buckets, NEW bucket \in Bucket, Disturb(b, bucket) PROVE TypeOK'
    BY <1>2, FaultType DEF Disturb, TypeOK, LoopTypeOK
  <1>3. ASSUME NEW b \in Buckets, DeleteBucket(b) \/ ForeignCreate(b) PROVE TypeOK'
    BY <1>2, <1>3, BucketTypes DEF DeleteBucket, ForeignCreate
  <1>4. ASSUME NEW b \in Buckets, OpenAccess(b) \/ RemoveLabels(b) PROVE TypeOK'
    <2>1. /\ [buckets[b] EXCEPT !.uniform = FALSE] \in Bucket
          /\ [buckets[b] EXCEPT !.labels = {}] \in Bucket
      BY DEF TypeOK, Bucket
    <2> QED
      BY <1>2, <1>4, <2>1 DEF OpenAccess, RemoveLabels
  <1>5. CASE UNCHANGED vars
    BY <1>5 DEF vars, TypeOK, LoopTypeOK
  <1> QED
    BY <1>1, <1>3, <1>4, <1>5, DriverType DEF Next, Worker, Interference

(***************************************************************************)
(* The loop and the driver keep the types of their state.                  *)
(***************************************************************************)
THEOREM TypeCorrect == Spec => []TypeOK
  BY InitType, NextType, PTL DEF Spec
-----------------------------------------------------------------------------
\* Buckets a recorded sync may name.
Ready == Labelled \cup disturbed

\* What a copy of the status says of its bucket is so.
Vouched(copy) ==
    copy # Absent /\ copy.lastSync = "recent" => copy.provisioned /\ copy.name \in Ready

\* The places of CreateStorage before a name is chosen, and after.
SearchPCs == {"list", "propose"}
NamedPCs == {"saveName", "create", "head", "missing", "labels", "sync"}

\* What the worker may rely on at each place of CreateStorage.
PlaceOK ==
    /\ pc \in SearchPCs => inst.name = NoName
    /\ pc \in NamedPCs => inst.name \in Buckets
    /\ pc \in SearchPCs \cup NamedPCs \cup {"storage"} => inst.lastSync # "recent"
    /\ pc \in {"sync", "provision"} => inst.name \in Ready

(***************************************************************************)
(* The inductive invariant: as for the S3 driver, what a status says of    *)
(* its bucket must be so of every copy of it, the one in hand included.    *)
(***************************************************************************)
IInv ==
    /\ TypeOK
    /\ Following
    /\ PlaceOK
    /\ \A copy \in Copies : Vouched(copy)

(***************************************************************************)
(* What a step can do to the buckets: nothing; or CreateStorage gives the  *)
(* instance's bucket the cluster's labels; or somebody else changes one,   *)
(* which is then disturbed, and adds no labels.                            *)
(***************************************************************************)
Relabels ==
    /\ pc \in {"create", "labels"}
    /\ inst.name \in Buckets
    /\ buckets[inst.name].owner # "foreign"
    /\ buckets'[inst.name].owner = "us"
    /\ buckets'[inst.name].labels = buildLabelMap(InfraName)
    /\ \A b \in Buckets \ {inst.name} : buckets'[b] = buckets[b]
    /\ UNCHANGED <<cr, watch, cache, inst, fresh, disturbed>>
    /\ pc' \in {"head", "sync"}

Disturbs(d) ==
    /\ \A b \in Buckets \ {d} : buckets'[b] = buckets[b]
    /\ disturbed' = disturbed \cup {d}
    /\ \/ buckets'[d].labels = {}
       \/ buckets'[d].labels = buckets[d].labels /\ buckets'[d].owner = buckets[d].owner
    /\ UNCHANGED <<cr, watch, cache, pc, inst, fresh>>

\* These are all the ways in which a step touches the buckets.
LEMMA BucketStep ==
  ASSUME TypeOK, PlaceOK, [Next]_vars
  PROVE  UNCHANGED <<buckets, disturbed>> \/ Relabels \/ \E d \in Buckets : Disturbs(d)
  <1>0. \A b \in Buckets : buckets[b] \in Bucket
    BY DEF TypeOK
  <1>1. CASE CreateBucket
    <2>1. inst.name \in Buckets
      BY <1>1 DEF CreateBucket, PlaceOK, NamedPCs
    <2>2. CASE buckets[inst.name].owner = "none"
      <3>1. /\ buckets' = [buckets EXCEPT ![inst.name] = NewBucket(InfraName)]
            /\ pc = "create" /\ Goto("head") /\ UNCHANGED Rest
        BY <1>1, <2>2 DEF CreateBucket
      <3>2. NewBucket(InfraName).owner = "us" /\ NewBucket(InfraName).labels = buildLabelMap(InfraName)
        BY DEF NewBucket
      <3> QED
        BY <2>1, <2>2, <3>1, <3>2 DEF Relabels, Goto, Rest, TypeOK
    <2>3. CASE buckets[inst.name].owner # "none"
      BY <1>1, <2>3 DEF CreateBucket, Rest
    <2> QED
      BY <2>2, <2>3
  <1>2. CASE enforceBucketLabels
    <2>1. inst.name \in Buckets
      BY <1>2 DEF enforceBucketLabels, PlaceOK, NamedPCs
    <2>2. CASE buckets[inst.name].owner = "us"
      <3>1. /\ buckets' = [buckets EXCEPT ![inst.name].labels = buildLabelMap(InfraName)]
            /\ pc = "labels" /\ Goto("sync") /\ UNCHANGED Rest
        BY <1>2, <2>2 DEF enforceBucketLabels
      <3> QED
        BY <1>0, <2>1, <2>2, <3>1 DEF Relabels, Goto, Rest, TypeOK, Bucket
    <2>3. CASE buckets[inst.name].owner # "us"
      BY <1>2, <2>3 DEF enforceBucketLabels, Rest
    <2> QED
      BY <2>2, <2>3
  <1>3. ASSUME NEW d \in Buckets, NEW bucket, Disturb(d, bucket),
               \/ bucket.labels = {}
               \/ bucket.labels = buckets[d].labels /\ bucket.owner = buckets[d].owner
        PROVE  Disturbs(d)
    BY <1>3 DEF Disturb, Disturbs, TypeOK
  <1>4. ASSUME NEW d \in Buckets, DeleteBucket(d) \/ ForeignCreate(d) PROVE Disturbs(d)
    <2>1. NoBucket.labels = {} /\ ForeignBucket.labels = {}
      BY DEF NoBucket, ForeignBucket
    <2> QED
      BY <1>3, <1>4, <2>1 DEF DeleteBucket, ForeignCreate
  <1>5. ASSUME NEW d \in Buckets, OpenAccess(d) PROVE Disturbs(d)
    <2>1. PICK bucket : bucket = [buckets[d] EXCEPT !.uniform = FALSE]
      OBVIOUS
    <2>2. bucket.labels = buckets[d].labels /\ bucket.owner = buckets[d].owner
      BY <1>0, <2>1 DEF Bucket
    <2> QED
      BY <1>3, <1>5, <2>1, <2>2 DEF OpenAccess
  <1>6. ASSUME NEW d \in Buckets, RemoveLabels(d) PROVE Disturbs(d)
    <2>1. PICK bucket : bucket = [buckets[d] EXCEPT !.labels = {}]
      OBVIOUS
    <2>2. bucket.labels = {}
      BY <1>0, <2>1 DEF Bucket
    <2> QED
      BY <1>3, <1>6, <2>1, <2>2 DEF RemoveLabels
  <1>7. CASE \/ (LoopStep \/ LoopFailure \/ LoopEnvironment) /\ UNCHANGED gcsVars
             \/ NewGcsClient \/ ListBuckets \/ SaveName \/ StorageExists \/ MarkMissing \/ RecordSync
             \/ \E n \in Buckets : ProposeName(n)
             \/ UNCHANGED vars
    BY <1>7 DEF NewGcsClient, ListBuckets, SaveName, StorageExists, MarkMissing, RecordSync,
         ProposeName, gcsVars, vars, Rest
  <1> QED
    BY <1>1, <1>2, <1>4, <1>5, <1>6, <1>7 DEF Next, Worker, Interference

\* A bucket that is ready goes on to be.
LEMMA ReadyGrows ==
  ASSUME TypeOK, PlaceOK, [Next]_vars
  PROVE  Ready \subseteq Ready' /\ Ready' \in SUBSET Buckets
  <1>1. Ready \subseteq Ready'
    <2>1. CASE UNCHANGED <<buckets, disturbed>>
      BY <2>1 DEF Ready, Labelled
    <2>2. CASE Relabels
      BY <2>2 DEF Relabels, Ready, Labelled
    <2>3. ASSUME NEW d \in Buckets, Disturbs(d) PROVE Ready \subseteq Ready'
      BY <2>3 DEF Disturbs, Ready, Labelled
    <2> QED
      BY <2>1, <2>2, <2>3, BucketStep
  <1> QED
    BY <1>1, NextType DEF Ready, Labelled, TypeOK

-----------------------------------------------------------------------------
\* The part of the inductive invariant that concerns the worker and the copies.
WorkInv == Following /\ PlaceOK /\ \A copy \in Copies : Vouched(copy)

\* What vouches for itself: no resource, an empty status, a sync that is not recent.
LEMMA VouchedFree ==
  /\ Vouched(Absent)' /\ Vouched(EmptyStatus)'
  /\ \A s : s.lastSync # "recent" => Vouched(s)'
  BY DEF Vouched, EmptyStatus

\* A step that makes no copies but such keeps every copy vouched for.
LEMMA CopiesVouched ==
  ASSUME IInv, [Next]_vars, NEW status, Vouched(status)',
         Copies' \subseteq Copies \cup {status, EmptyStatus, Absent}
  PROVE  \A copy \in Copies' : Vouched(copy)'
  <1>1. \A copy \in {status, EmptyStatus, Absent} : Vouched(copy)'
    BY VouchedFree
  <1>2. Ready \subseteq Ready' /\ \A copy \in Copies : Vouched(copy)
    BY ReadyGrows DEF IInv
  <1> QED
    BY <1>1, <1>2 DEF Vouched

\* A call of CreateStorage that writes no status.
LEMMA CallInv ==
  ASSUME IInv, [Next]_vars, pc \notin {"idle", "down", "saveName"}, UNCHANGED <<cr, watch, cache>>,
         NEW next, next \notin {"idle", "down", "saveName"},
         Goto(next) \/ \E requeue \in BOOLEAN : Return(requeue)
  PROVE  Following' /\ \A copy \in Copies' : Vouched(copy)'
  <1>1. Following' /\ Copies' \subseteq Copies \cup {EmptyStatus}
    BY CallFollows DEF IInv
  <1> QED
    BY <1>1, CopiesVouched, VouchedFree

\* A status update of CreateStorage, after which it returns.
LEMMA UpdateInv ==
  ASSUME IInv, [Next]_vars, NEW status \in Status,
         pc \notin {"idle", "down"}, StatusUpdate(status, "idle"), UNCHANGED cache,
         Vouched(status)'
  PROVE  WorkInv'
  <1>1. Following' /\ Copies' \subseteq Copies \cup {status, EmptyStatus}
    BY StatusUpdateFollows DEF IInv, TypeOK
  <1>2. \A copy \in Copies' : Vouched(copy)'
    BY <1>1, CopiesVouched
  <1>3. pc' = "idle"
    BY DEF StatusUpdate, Return
  <1> QED
    BY <1>1, <1>2, <1>3 DEF WorkInv, PlaceOK, SearchPCs, NamedPCs

\* The calls of CreateStorage keep the worker's part of the invariant.
LEMMA DriverInv ==
  ASSUME IInv,
         \/ NewGcsClient \/ ListBuckets \/ SaveName \/ CreateBucket \/ StorageExists
         \/ MarkMissing \/ enforceBucketLabels \/ RecordSync
         \/ \E n \in Buckets : ProposeName(n)
  PROVE  WorkInv'
  <1>0. [Next]_vars /\ inst \in Status /\ PlaceOK /\ TypeOK /\ buckets \in [Buckets -> Bucket]
    BY DEF Next, Worker, IInv, TypeOK, LoopTypeOK
  <1>u. Ready \subseteq Ready'
    BY <1>0, ReadyGrows
  <1> USE DEF SearchPCs, NamedPCs
  <1>1. CASE NewGcsClient
    <2>1. PICK next \in {"list", "create", "head"} :
            /\ Goto(next)
            /\ next = "list" <=> inst.name = NoName
      BY <1>1 DEF NewGcsClient
    <2>2. PlaceOK'
      BY <1>0, <1>1, <2>1 DEF NewGcsClient, Goto, PlaceOK, Status
    <2> QED
      BY <1>0, <1>1, <2>1, <2>2, CallInv DEF NewGcsClient, Rest, WorkInv
  <1>2. CASE ListBuckets
    <2>1. ASSUME NEW existing \in Labelled,
                 StatusUpdate([inst EXCEPT !.name = existing, !.provisioned = TRUE], "idle")
          PROVE  WorkInv'
      <3>1. PICK status \in Status : status = [inst EXCEPT !.name = existing, !.provisioned = TRUE]
        BY <1>0 DEF Labelled, Status
      <3>2. status.lastSync # "recent"
        BY <1>0, <1>2, <3>1 DEF ListBuckets, PlaceOK, Status
      <3> QED
        BY <1>0, <1>2, <2>1, <3>1, <3>2, UpdateInv, VouchedFree DEF ListBuckets
    <2>2. CASE Goto("propose") /\ UNCHANGED apiVars
      <3>1. pc = "list" /\ UNCHANGED <<cr, watch, cache>>
        BY <1>2, <2>2 DEF ListBuckets, apiVars
      <3>2. Following' /\ \A copy \in Copies' : Vouched(copy)'
        BY <1>0, <2>2, <3>1, "propose" \notin {"idle", "down", "saveName"}, CallInv
      <3> QED
        BY <1>0, <2>2, <3>1, <3>2 DEF Goto, WorkInv, PlaceOK
    <2> QED
      BY <1>0, <1>2, <2>1, <2>2, ListBucketsChoice
  <1>3. CASE SaveName
    <2>1. inst.lastSync # "recent"
      BY <1>0, <1>3 DEF SaveName, PlaceOK
    <2> QED
      BY <1>0, <1>3, <2>1, UpdateInv, VouchedFree DEF SaveName
  <1>4. CASE CreateBucket
    <2>1. PICK next \in {"head"} : Goto(next) \/ Return(TRUE)
      BY <1>4 DEF CreateBucket
    <2>2. PlaceOK'
      BY <1>0, <1>4, <2>1 DEF CreateBucket, Goto, Return, PlaceOK
    <2>3. Following' /\ \A copy \in Copies' : Vouched(copy)'
      BY <1>0, <1>4, <2>1, CallInv DEF CreateBucket, Rest
    <2> QED
      BY <2>2, <2>3 DEF WorkInv
  <1>5. CASE StorageExists
    <2>1. PICK next \in {"labels", "missing"} : Goto(next) \/ Return(TRUE)
      BY <1>5 DEF StorageExists
    <2>2. PlaceOK'
      BY <1>0, <1>5, <2>1 DEF StorageExists, Goto, Return, PlaceOK
    <2>3. Following' /\ \A copy \in Copies' : Vouched(copy)'
      BY <1>0, <1>5, <2>1, CallInv DEF StorageExists, Rest
    <2> QED
      BY <2>2, <2>3 DEF WorkInv
  <1>6. CASE MarkMissing
    <2>1. PICK status \in Status : status = [inst EXCEPT !.provisioned = FALSE]
      BY <1>0 DEF Status
    <2>2. status.lastSync # "recent"
      BY <1>0, <1>6, <2>1 DEF MarkMissing, PlaceOK, Status
    <2> QED
      BY <1>0, <1>6, <2>1, <2>2, UpdateInv, VouchedFree DEF MarkMissing
  <1>7. CASE enforceBucketLabels
    <2>1. /\ pc = "labels" /\ UNCHANGED <<cr, watch, cache>>
          /\ Goto("sync") \/ Return(TRUE)
      BY <1>7 DEF enforceBucketLabels, Rest
    <2>2. pc' = "sync" => inst'.name \in Ready'
      <3> SUFFICES ASSUME pc' = "sync" PROVE inst'.name \in Ready'
        OBVIOUS
      <3>1. /\ inst' = inst /\ inst.name \in Buckets
            /\ buckets' = [buckets EXCEPT ![inst.name].labels = buildLabelMap(InfraName)]
        BY <1>0, <1>7 DEF enforceBucketLabels, Goto, Return, PlaceOK
      <3> QED
        BY <1>0, <3>1 DEF Ready, Labelled, Bucket
    <2>3. PlaceOK'
      BY <1>0, <2>1, <2>2 DEF Goto, Return, PlaceOK
    <2>4. Following' /\ \A copy \in Copies' : Vouched(copy)'
      <3>1. PICK next \in {"sync"} : Goto(next) \/ Return(TRUE)
        BY <2>1
      <3> QED
        BY <1>0, <2>1, <3>1, CallInv
    <2> QED
      BY <2>3, <2>4 DEF WorkInv
  <1>8. CASE RecordSync
    <2>1. PICK status \in Status : status = [inst EXCEPT !.provisioned = TRUE, !.lastSync = "recent"]
      BY <1>0 DEF Status, SyncAges
    <2>2. Vouched(status)'
      BY <1>0, <1>8, <1>u, <2>1 DEF Vouched, RecordSync, PlaceOK, Status
    <2> QED
      BY <1>0, <1>8, <2>1, <2>2, UpdateInv DEF RecordSync
  <1>9. ASSUME NEW n \in Buckets, ProposeName(n) PROVE WorkInv'
    <2>1. CASE buckets[n].owner = "none"
      <3>1. PICK status \in Status : status = [inst EXCEPT !.name = n, !.provisioned = FALSE]
        BY <1>0 DEF Status
      <3>2. /\ status.name = n /\ status.lastSync # "recent"
            /\ pc' = "saveName" /\ inst' = status /\ UNCHANGED <<cr, watch, cache, fresh>>
            /\ pc = "propose"
        BY <1>0, <1>9, <2>1, <3>1 DEF Status, ProposeName, PlaceOK
      <3>3. fresh => cr.name = NoName /\ status = [cr EXCEPT !.name = status.name, !.provisioned = FALSE]
        BY <1>0, <3>1, <3>2 DEF IInv, Following, PlaceOK, Status
      <3>4. Following'
        BY <3>2, <3>3 DEF IInv, Following
      <3>5. PlaceOK'
        BY <3>2 DEF PlaceOK
      <3>6. \A copy \in Copies' : Vouched(copy)'
        <4>1. Copies' \subseteq Copies \cup {status, EmptyStatus, Absent}
          BY <3>2 DEF Copies
        <4> QED
          BY <1>0, <3>2, <4>1, CopiesVouched, VouchedFree
      <3> QED
        BY <3>4, <3>5, <3>6 DEF WorkInv
    <2>2. CASE buckets[n].owner # "none"
      <3>1. Return(TRUE) /\ pc = "propose" /\ UNCHANGED <<cr, watch, cache>>
        BY <1>9, <2>2 DEF ProposeName
      <3>2. Following' /\ \A copy \in Copies' : Vouched(copy)'
        BY <1>0, <3>1, "head" \notin {"idle", "down", "saveName"}, CallInv
      <3> QED
        BY <3>1, <3>2 DEF Return, WorkInv, PlaceOK
    <2> QED
      BY <2>1, <2>2
  <1> QED
    BY <1>1, <1>2, <1>3, <1>4, <1>5, <1>6, <1>7, <1>8, <1>9

\* So do the reconcile loop, its failures and its surroundings.
LEMMA LoopInv ==
  ASSUME IInv, LoopStep \/ LoopFailure \/ LoopEnvironment, UNCHANGED gcsVars
  PROVE  WorkInv'
  <1>0. /\ [Next]_vars /\ inst \in Status /\ PlaceOK /\ Following /\ LoopTypeOK(GcsPCs)
        /\ \A copy \in Copies : Vouched(copy)
    BY DEF Next, Worker, IInv, TypeOK, LoopTypeOK
  <1>1. Ready' = Ready
    BY DEF Ready, Labelled, gcsVars
  <1>2. Copies' \subseteq Copies \cup {EmptyStatus, Absent} => \A copy \in Copies' : Vouched(copy)'
    BY <1>0, CopiesVouched, VouchedFree
  <1> USE DEF SearchPCs, NamedPCs
  <1>3. CASE LoopStep
    <2>1. Following' /\ Copies' \subseteq Copies \cup {EmptyStatus, Absent}
      BY <1>0, <1>3, LoopStepFollows
    <2>2. PlaceOK'
      <3>1. CASE Fetch
        BY <1>0, <3>1 DEF Fetch, PlaceOK
      <3>2. CASE ChooseWork
        <4>1. Vouched(inst) /\ inst # Absent
          BY <1>0, AbsentAssumption DEF Copies
        <4>2. inst.lastSync = "recent" => inst.provisioned /\ inst.name \in Ready /\ inst.name # NoName
          BY <4>1, NoNameAssumption DEF Vouched, Ready, Labelled, IInv, TypeOK
        <4>3. StorageBucketReconcileRequired(inst) => inst.lastSync # "recent"
          BY <4>2 DEF StorageBucketReconcileRequired
        <4>4. ~StorageBucketReconcileRequired(inst) => inst.name \in Ready
          BY <1>0, <4>2 DEF StorageBucketReconcileRequired, Status, SyncAges, IInv
        <4>5. (pc' = "storage" /\ StorageBucketReconcileRequired(inst))
                \/ (pc' = "provision" /\ ~StorageBucketReconcileRequired(inst))
          BY <3>2 DEF ChooseWork, Goto
        <4>6. inst' = inst
          BY <3>2 DEF ChooseWork, Goto
        <4> QED
          BY <1>1, <4>3, <4>4, <4>5, <4>6 DEF PlaceOK
      <3>3. CASE ProvisionVelero
        BY <3>3 DEF ProvisionVelero, Return, PlaceOK
      <3> QED
        BY <1>3, <3>1, <3>2, <3>3 DEF LoopStep
    <2> QED
      BY <1>2, <2>1, <2>2 DEF WorkInv
  <1>4. CASE LoopFailure
    <2>1. Following' /\ Copies' \subseteq Copies \cup {EmptyStatus, Absent}
      BY <1>0, <1>4, LoopFailureFollows
    <2>2. pc' \in {"idle", "down"}
      BY <1>4 DEF LoopFailure, CallFails, Crash, Return
    <2> QED
      BY <1>2, <2>1, <2>2 DEF WorkInv, PlaceOK
  <1>5. CASE PeriodEnds
    <2>1. Following' /\ \A copy \in Copies' : \E old \in Copies : copy = Aged(old)
      BY <1>0, <1>5, PeriodEndsFollows
    <2>2. \A copy \in Copies' : Vouched(copy)'
      <3>1. \A copy : Aged(copy) # Absent /\ Aged(copy).lastSync = "recent" => FALSE
        BY DEF Aged
      <3> QED
        BY <2>1, <3>1 DEF Vouched
    <2>3. inst'.name = inst.name /\ inst'.lastSync # "recent" /\ pc' = pc
      BY <1>0, <1>5, AbsentAssumption DEF PeriodEnds, Aged, Status
    <2>4. PlaceOK'
      BY <1>0, <1>1, <2>3 DEF PlaceOK
    <2> QED
      BY <2>1, <2>2, <2>4 DEF WorkInv
  <1>6. CASE LoopEnvironment /\ ~PeriodEnds
    <2>1. Following' /\ Copies' \subseteq Copies \cup {EmptyStatus, Absent}
      BY <1>0, <1>6, LoopEnvironmentFollows
    <2>2. inst' = inst /\ (pc' = pc \/ pc' = "idle")
      BY <1>6 DEF LoopEnvironment, Restart, Deliver, Resync, CreateCR, DeleteCR, TouchCR
    <2>3. PlaceOK'
      BY <1>0, <1>1, <2>2 DEF PlaceOK
    <2> QED
      BY <1>2, <2>1, <2>3 DEF WorkInv
  <1> QED
    BY <1>3, <1>4, <1>5, <1>6

\* Interference changes no copy and no place.
LEMMA OutsideInv ==
  ASSUME IInv, UNCHANGED <<cr, watch, cache, pc, inst, fresh>>, [Next]_vars
  PROVE  WorkInv'
  <1>1. Ready \subseteq Ready'
    BY ReadyGrows DEF IInv
  <1>2. Following' /\ Copies' = Copies
    BY DEF IInv, Following, Copies
  <1>3. \A copy \in Copies' : Vouched(copy)'
    BY <1>1, <1>2 DEF IInv, Vouched
  <1>4. PlaceOK'
    BY <1>1 DEF IInv, PlaceOK
  <1> QED
    BY <1>2, <1>3, <1>4 DEF WorkInv

\* The inductive invariant holds to begin with.
LEMMA InitInv == Init => IInv
  <1> SUFFICES ASSUME Init PROVE IInv
    OBVIOUS
  <1>1. Following /\ PlaceOK
    BY DEF Init, LoopInit, Following, PlaceOK, SearchPCs, NamedPCs
  <1>2. Copies \subseteq {Absent, EmptyStatus}
    <2>1. {watch[i] : i \in DOMAIN watch} = {}
      BY DEF Init, LoopInit
    <2> QED
      BY <2>1 DEF Init, LoopInit, Copies
  <1>3. \A copy \in Copies : Vouched(copy)
    BY <1>2 DEF Vouched, EmptyStatus
  <1> QED
    BY <1>1, <1>3, InitType DEF IInv

\* Every step keeps the inductive invariant.
LEMMA NextInv == IInv /\ [Next]_vars => IInv'
  <1> SUFFICES ASSUME IInv, [Next]_vars PROVE IInv'
    OBVIOUS
  <1>1. TypeOK'
    BY NextType DEF IInv
  <1>2. WorkInv'
    <2>1. CASE Interference \/ UNCHANGED vars
      BY <2>1, OutsideInv DEF Interference, DeleteBucket, ForeignCreate, OpenAccess, RemoveLabels,
           Disturb, vars
    <2> QED
      BY <2>1, DriverInv, LoopInv DEF Next, Worker
  <1> QED
    BY <1>1, <1>2 DEF IInv, WorkInv

(***************************************************************************)
(* The inductive invariant holds.                                          *)
(***************************************************************************)
THEOREM Invariance == Spec => []IInv
  BY InitInv, NextInv, PTL DEF Spec

(***************************************************************************)
(* Reconcile goes on to provisionVelero only with a bucket that was given  *)
(* the cluster's labels, whatever calls failed and whenever the operator   *)
(* died, unless somebody else has changed it.                              *)
(***************************************************************************)
THEOREM GateTheorem == Spec => [](pc = "provision" => inst.name \in Labelled \cup disturbed)
  <1>1. IInv => (pc = "provision" => inst.name \in Labelled \cup disturbed)
    BY DEF IInv, PlaceOK, Ready
  <1> QED
    BY <1>1, Invariance, PTL

-----------------------------------------------------------------------------
\* A status update by a Reconcile that works on what is stored, or none.
LEMMA ContractUpdate ==
  ASSUME IInv, NEW status \in Status, pc \notin {"idle", "down"},
         StatusUpdate(status, "idle"), UNCHANGED <<cache, buckets, disturbed>>
  PROVE  /\ Ready' = Ready
         /\ cr' = cr \/ (fresh /\ cr \in Status /\ cr # Absent /\ cr' = status)
  <1>1. Ready' = Ready
    BY DEF Ready, Labelled
  <1>2. cr' = cr \/ (fresh /\ cr' = status)
    BY StatusUpdateFollows DEF IInv, TypeOK
  <1> QED
    BY <1>1, <1>2 DEF IInv, Following, TypeOK, LoopTypeOK

\* Each status update of CreateStorage is one the contract allows, or none.
LEMMA ContractDriver ==
  ASSUME IInv, ListBuckets \/ SaveName \/ MarkMissing \/ RecordSync
  PROVE  [Contract!ContractNext]_<<cr, Ready>>
  <1>0. /\ inst \in Status /\ PlaceOK /\ Following /\ buckets \in [Buckets -> Bucket]
        /\ pc \in SearchPCs \cup NamedPCs => inst.lastSync # "recent"
    BY DEF IInv, TypeOK, LoopTypeOK, PlaceOK
  <1>1. \A s \in Status : s.lastSync # "recent" => Contract!StorageBucketReconcileRequired(s)
    BY DEF Status, SyncAges, Contract!StorageBucketReconcileRequired
  <1> USE DEF SearchPCs, NamedPCs
  <1>2. CASE ListBuckets
    <2>1. ASSUME NEW existing \in Labelled,
                 StatusUpdate([inst EXCEPT !.name = existing, !.provisioned = TRUE], "idle")
          PROVE  [Contract!ContractNext]_<<cr, Ready>>
      <3>1. existing \in Buckets
        BY DEF Labelled
      <3>2. PICK status \in Status : status = [inst EXCEPT !.name = existing, !.provisioned = TRUE]
        BY <1>0, <3>1 DEF Status
      <3>3. /\ Ready' = Ready
            /\ cr' = cr \/ (fresh /\ cr \in Status /\ cr # Absent /\ cr' = status)
        BY <1>2, <2>1, <3>2, ContractUpdate DEF ListBuckets, gcsVars
      <3>4. fresh => inst = cr /\ cr.name = NoName /\ inst.lastSync # "recent"
        BY <1>0, <1>2 DEF ListBuckets, Following, PlaceOK
      <3>5. cr' # cr => Contract!Choose(existing)
        BY <1>1, <3>2, <3>3, <3>4 DEF Contract!Choose, Contract!Update, Ready
      <3> QED
        BY <3>1, <3>3, <3>5 DEF Contract!ContractNext
    <2>2. CASE UNCHANGED apiVars
      BY <1>2, <2>2 DEF ListBuckets, apiVars, gcsVars, Ready, Labelled
    <2> QED
      BY <1>0, <1>2, <2>1, <2>2, ListBucketsChoice
  <1>3. CASE SaveName
    <2>1. PICK status \in Status : status = inst
      BY <1>0
    <2>2. /\ Ready' = Ready
          /\ cr' = cr \/ (fresh /\ cr \in Status /\ cr # Absent /\ cr' = status)
      BY <1>3, <2>1, ContractUpdate DEF SaveName, gcsVars
    <2>3. fresh => /\ cr.name = NoName /\ inst.name \in Buckets
                   /\ inst = [cr EXCEPT !.name = inst.name, !.provisioned = FALSE]
      BY <1>0, <1>3 DEF SaveName, Following, PlaceOK
    <2>4. cr' # cr => Contract!Choose(inst.name)
      <3> SUFFICES ASSUME cr' # cr PROVE Contract!Choose(inst.name)
        OBVIOUS
      <3>1. Contract!StorageBucketReconcileRequired(cr)
        BY <2>2, <2>3 DEF Contract!StorageBucketReconcileRequired
      <3> QED
        BY <2>1, <2>2, <2>3, <3>1 DEF Contract!Choose, Contract!Update, Ready
    <2> QED
      BY <2>2, <2>3, <2>4 DEF Contract!ContractNext
  <1>4. CASE MarkMissing
    <2>1. PICK status \in Status : status = [inst EXCEPT !.provisioned = FALSE]
      BY <1>0 DEF Status
    <2>2. /\ Ready' = Ready
          /\ cr' = cr \/ (fresh /\ cr \in Status /\ cr # Absent /\ cr' = status)
      BY <1>4, <2>1, ContractUpdate DEF MarkMissing, gcsVars
    <2>3. fresh => /\ inst = cr /\ cr.name # NoName /\ inst.lastSync # "recent"
      BY <1>0, <1>4, NoNameAssumption DEF MarkMissing, Following, PlaceOK
    <2>4. cr' # cr => Contract!Lose
      BY <1>1, <2>1, <2>2, <2>3 DEF Contract!Lose, Contract!Update, Ready
    <2> QED
      BY <2>2, <2>4 DEF Contract!ContractNext
  <1>5. CASE RecordSync
    <2>1. PICK status \in Status : status = [inst EXCEPT !.provisioned = TRUE, !.lastSync = "recent"]
      BY <1>0 DEF Status, SyncAges
    <2>2. /\ Ready' = Ready
          /\ cr' = cr \/ (fresh /\ cr \in Status /\ cr # Absent /\ cr' = status)
      BY <1>5, <2>1, ContractUpdate DEF RecordSync, gcsVars
    <2>3. fresh => /\ inst = cr /\ cr.name \in Ready /\ inst.lastSync # "recent"
      BY <1>0, <1>5 DEF RecordSync, Following, PlaceOK
    <2>4. cr' # cr => Contract!Sync
      BY <1>1, <2>1, <2>2, <2>3 DEF Contract!Sync, Contract!Update, Ready
    <2> QED
      BY <2>2, <2>4 DEF Contract!ContractNext
  <1> QED
    BY <1>2, <1>3, <1>4, <1>5

\* A step that does not write the status prepares the bucket, if anything.
LEMMA ContractQuiet ==
  ASSUME IInv, [Next]_vars, cr' = cr
  PROVE  [Contract!ContractNext]_<<cr, Ready>>
  <1>1. Ready \subseteq Ready' /\ Ready' \in SUBSET Buckets
    BY ReadyGrows DEF IInv
  <1>2. Contract!Prepare
    BY <1>1 DEF Contract!Prepare, Ready
  <1> QED
    BY <1>2 DEF Contract!ContractNext

\* Every step maps to a step of the contract or to none.
LEMMA ContractStep ==
  ASSUME IInv, [Next]_vars
  PROVE  [Contract!ContractNext]_<<cr, Ready>>
  <1>0. LoopTypeOK(GcsPCs) /\ Following
    BY DEF IInv, TypeOK
  <1>1. CASE ListBuckets \/ SaveName \/ MarkMissing \/ RecordSync
    BY <1>1, ContractDriver
  <1>2. CASE LoopStep \/ LoopFailure
    BY <1>0, <1>2, LoopStepFollows, LoopFailureFollows, ContractQuiet
  <1>3. CASE PeriodEnds /\ UNCHANGED gcsVars
    <2>1. cr' = Aged(cr) /\ Ready' = Ready
      BY <1>3 DEF PeriodEnds, gcsVars, Ready, Labelled
    <2>2. cr' # cr => Contract!Expire
      BY <2>1 DEF Aged, Contract!Aged, Contract!Expire, Ready
    <2> QED
      BY <2>1, <2>2 DEF Contract!ContractNext
  <1>4. CASE LoopEnvironment /\ ~PeriodEnds /\ UNCHANGED gcsVars
    <2>1. cr' = cr \/ cr' = Absent \/ (cr = Absent /\ cr' = EmptyStatus)
      BY <1>0, <1>4, LoopEnvironmentFollows
    <2>2. Ready' = Ready
      BY <1>4 DEF gcsVars, Ready, Labelled
    <2>3. cr' # cr => Contract!Create \/ Contract!Delete
      BY <2>1, <2>2 DEF Contract!Create, Contract!Delete, EmptyStatus, Contract!EmptyStatus, Ready
    <2> QED
      BY <2>2, <2>3 DEF Contract!ContractNext
  <1>5. CASE \/ NewGcsClient \/ CreateBucket \/ StorageExists \/ enforceBucketLabels
             \/ \E n \in Buckets : ProposeName(n)
    BY <1>5, ContractQuiet DEF Rest, NewGcsClient, CreateBucket, StorageExists, enforceBucketLabels,
         ProposeName
  <1>6. CASE Interference \/ UNCHANGED vars
    BY <1>6, ContractQuiet DEF Interference, DeleteBucket, ForeignCreate, OpenAccess, RemoveLabels,
         Disturb, vars
  <1> QED
    BY <1>1, <1>2, <1>3, <1>4, <1>5, <1>6 DEF Next, Worker

(***************************************************************************)
(* The reconcile loop with the GCS driver implements the storage contract, *)
(* the same one that the S3 driver implements, with the labels as the      *)
(* setting that is enforced.                                               *)
(***************************************************************************)
THEOREM ContractTheorem == Spec => ImplementsContract
  <1>1. Init => Contract!ContractInit
    BY LabelsDiffer DEF Init, LoopInit, Contract!ContractInit, Labelled
  <1>2. IInv /\ [Next]_vars => [Contract!ContractNext]_(Contract!contractVars)
    BY ContractStep DEF Contract!contractVars, Ready
  <1> QED
    BY <1>1, <1>2, Invariance, PTL DEF Spec, ImplementsContract, Contract!ContractSpec
-----------------------------------------------------------------------------
(***************************************************************************)
(* TheirsUntouched alone is not inductive: no copy of the resource, and    *)
(* not the instance in hand, may name the other cluster's bucket either.   *)
(***************************************************************************)
Named(b) == \E copy \in Copies : copy # Absent /\ copy.name = b

TheirsInv ==
    \A b \in TheirBuckets \ disturbed : buckets[b] = NewBucket(OtherInfra) /\ ~Named(b)

\* A bucket of the other cluster that nobody has touched is the project's, and is
\* not labelled for this cluster.
LEMMA TheirsApart ==
  ASSUME TheirsInv, NEW b \in TheirBuckets \ disturbed
  PROVE  buckets[b].owner = "us" /\ b \notin Labelled
  <1>1. /\ buckets[b] = NewBucket(OtherInfra)
        /\ NewBucket(OtherInfra).owner = "us"
        /\ NewBucket(OtherInfra).labels = buildLabelMap(OtherInfra)
    BY DEF TheirsInv, NewBucket
  <1> QED
    BY <1>1, LabelsDiffer DEF Labelled

\* A step that makes no copy with another name than those there are, but for one
\* that is not of theirs, keeps it.
LEMMA TheirsStep ==
  ASSUME IInv, TheirsInv, [Next]_vars,
         \A copy \in Copies' : \/ copy = Absent
                               \/ copy.name = NoName
                               \/ Named(copy.name)
                               \/ copy.name \notin TheirBuckets \ disturbed
  PROVE  TheirsInv'
  <1>1. \A b \in Buckets : b \notin disturbed' => b \notin disturbed
    BY BucketStep DEF IInv, Relabels, Disturbs
  <1>2. ASSUME NEW b \in TheirBuckets \ disturbed' PROVE buckets'[b] = buckets[b]
    <2>1. b \in Buckets /\ b \notin disturbed
      BY <1>1, TheirBucketsAssumption
    <2>2. CASE Relabels
      <3>1. inst \in Copies /\ inst # Absent
        BY AbsentAssumption DEF Copies, IInv, TypeOK, LoopTypeOK
      <3>2. b # inst.name
        BY <2>1, <3>1 DEF TheirsInv, Named
      <3> QED
        BY <2>1, <2>2, <3>2 DEF Relabels
    <2>3. ASSUME NEW d \in Buckets, Disturbs(d) PROVE buckets'[b] = buckets[b]
      BY <2>1, <2>3 DEF Disturbs
    <2> QED
      BY <2>2, <2>3, BucketStep DEF IInv
  <1>3. ASSUME NEW b \in TheirBuckets \ disturbed' PROVE ~Named(b)'
    <2>1. b # NoName /\ b \in TheirBuckets \ disturbed /\ ~Named(b)
      BY <1>1, TheirBucketsAssumption, NoNameAssumption DEF TheirsInv
    <2>2. \A copy \in Copies' : copy # Absent => copy.name # b
      BY <2>1
    <2> QED
      BY <2>2 DEF Named
  <1> QED
    BY <1>1, <1>2, <1>3, TheirBucketsAssumption DEF TheirsInv

\* Every step keeps it.
LEMMA NextTheirs == IInv /\ TheirsInv /\ [Next]_vars => TheirsInv'
  <1> SUFFICES ASSUME IInv, TheirsInv, [Next]_vars PROVE TheirsInv'
    OBVIOUS
  <1> DEFINE Fits(copy) == \/ copy = Absent
                           \/ copy.name = NoName
                           \/ Named(copy.name)
                           \/ copy.name \notin TheirBuckets \ disturbed
  <1>0. /\ inst \in Status /\ inst \in Copies /\ PlaceOK /\ Following /\ LoopTypeOK(GcsPCs)
        /\ buckets \in [Buckets -> Bucket]
    BY DEF IInv, TypeOK, LoopTypeOK, Copies
  <1>1. Fits(EmptyStatus) /\ Fits(Absent) /\ \A copy \in Copies : Fits(copy)
    BY DEF EmptyStatus, Named
  <1>2. ASSUME NEW status, Fits(status), Copies' \subseteq Copies \cup {status, EmptyStatus, Absent}
        PROVE  TheirsInv'
    <2>1. \A copy \in Copies' : Fits(copy)
      BY <1>1, <1>2
    <2> QED
      BY <2>1, TheirsStep
  <1>3. ASSUME NEW status \in Status, Fits(status), pc \notin {"idle", "down"},
               StatusUpdate(status, "idle"), UNCHANGED cache
        PROVE  TheirsInv'
    <2>1. Copies' \subseteq Copies \cup {status, EmptyStatus}
      BY <1>0, <1>3, StatusUpdateFollows
    <2> QED
      BY <1>2, <1>3, <2>1
  <1>4. ASSUME NEW status \in Status, status.name = inst.name PROVE Fits(status)
    BY <1>0, <1>4, AbsentAssumption DEF Named
  <1> HIDE DEF Fits
  <1>5. CASE ListBuckets
    <2>1. ASSUME NEW existing \in Labelled,
                 StatusUpdate([inst EXCEPT !.name = existing, !.provisioned = TRUE], "idle")
          PROVE  TheirsInv'
      <3>1. PICK status \in Status : status = [inst EXCEPT !.name = existing, !.provisioned = TRUE]
        BY <1>0 DEF Labelled, Status
      <3>2. Fits(status)
        BY <1>0, <3>1, TheirsApart DEF Status, Fits
      <3> QED
        BY <1>3, <1>5, <2>1, <3>1, <3>2 DEF ListBuckets
    <2>2. CASE Goto("propose") /\ UNCHANGED apiVars
      <3>1. Copies' \subseteq Copies
        BY <1>5, <2>2 DEF ListBuckets, Goto, apiVars, Copies
      <3> QED
        BY <1>1, <1>2, <3>1
    <2> QED
      BY <1>0, <1>5, <2>1, <2>2, ListBucketsChoice
  <1>6. CASE SaveName
    BY <1>0, <1>3, <1>4, <1>6 DEF SaveName
  <1>7. CASE MarkMissing
    <2>1. PICK status \in Status : status = [inst EXCEPT !.provisioned = FALSE]
      BY <1>0 DEF Status
    <2>2. status.name = inst.name
      BY <1>0, <2>1 DEF Status
    <2> QED
      BY <1>3, <1>4, <1>7, <2>1, <2>2 DEF MarkMissing
  <1>8. CASE RecordSync
    <2>1. PICK status \in Status : status = [inst EXCEPT !.provisioned = TRUE, !.lastSync = "recent"]
      BY <1>0 DEF Status, SyncAges
    <2>2. status.name = inst.name
      BY <1>0, <2>1 DEF Status
    <2> QED
      BY <1>3, <1>4, <1>8, <2>1, <2>2 DEF RecordSync
  <1>9. ASSUME NEW n \in Buckets, ProposeName(n) PROVE TheirsInv'
    <2>1. CASE buckets[n].owner = "none"
      <3>1. PICK status \in Status : status = [inst EXCEPT !.name = n, !.provisioned = FALSE]
        BY <1>0 DEF Status
      <3>2. n \notin TheirBuckets \ disturbed
        BY <2>1, TheirsApart
      <3>3. Fits(status)
        BY <1>0, <3>1, <3>2 DEF Status, Fits
      <3>4. Copies' \subseteq Copies \cup {status}
        BY <1>9, <2>1, <3>1 DEF ProposeName, Copies
      <3> QED
        BY <1>2, <3>3, <3>4
    <2>2. CASE buckets[n].owner # "none"
      <3>1. Copies' \subseteq Copies \cup {EmptyStatus}
        BY <1>9, <2>2 DEF ProposeName, Return, Copies
      <3> QED
        BY <1>1, <1>2, <3>1
    <2> QED
      BY <2>1, <2>2
  <1>10. CASE NewGcsClient \/ CreateBucket \/ StorageExists \/ enforceBucketLabels
    <2>1. Copies' \subseteq Copies \cup {EmptyStatus}
      BY <1>10 DEF NewGcsClient, CreateBucket, StorageExists, enforceBucketLabels, Goto, Return, Rest, Copies
    <2> QED
      BY <1>1, <1>2, <2>1
  <1>11. CASE LoopStep \/ LoopFailure \/ (LoopEnvironment /\ ~PeriodEnds)
    BY <1>0, <1>1, <1>2, <1>11, LoopStepFollows, LoopFailureFollows, LoopEnvironmentFollows
  <1>12. CASE PeriodEnds
    <2>1. \A copy \in Copies' : \E old \in Copies : copy = Aged(old)
      BY <1>0, <1>12, PeriodEndsFollows
    <2>2. Copies \subseteq Versions
      <3>1. watch \in Seq(Versions)
        BY <1>0 DEF LoopTypeOK, Versions
      <3> QED
        BY <1>0, <3>1, ElementOfSeq, LenProperties DEF Copies, LoopTypeOK, Versions
    <2>3. \A s \in Versions : Aged(s) # Absent => s # Absent /\ Aged(s).name = s.name
      BY AbsentAssumption DEF Versions, Aged, Status
    <2>4. \A copy \in Copies' : copy = Absent \/ Named(copy.name)
      BY <2>1, <2>2, <2>3 DEF Named
    <2> QED
      BY <2>4, TheirsStep
  <1>13. CASE Interference \/ UNCHANGED vars
    <2>1. Copies' \subseteq Copies
      BY <1>13 DEF Interference, DeleteBucket, ForeignCreate, OpenAccess, RemoveLabels, Disturb, vars, Copies
    <2> QED
      BY <1>1, <1>2, <2>1
  <1> QED
    BY <1>5, <1>6, <1>7, <1>8, <1>9, <1>10, <1>11, <1>12, <1>13 DEF Next, Worker

(***************************************************************************)
(* The bucket of another cluster in the project is never adopted,          *)
(* relabelled or handed to Velero, for any number of buckets, of failures  *)
(* and of changes to the VeleroInstall.                                    *)
(***************************************************************************)
THEOREM TheirsTheorem == Spec => []TheirsUntouched
  <1>1. Init => TheirsInv
    <2> SUFFICES ASSUME Init PROVE TheirsInv
      OBVIOUS
    <2>1. Copies \subseteq {Absent, EmptyStatus}
      <3>1. {watch[i] : i \in DOMAIN watch} = {}
        BY DEF Init, LoopInit
      <3> QED
        BY <3>1 DEF Init, LoopInit, Copies
    <2>2. \A b \in Buckets : ~Named(b)
      BY <2>1, NoNameAssumption DEF Named, EmptyStatus
    <2> QED
      BY <2>2, TheirBucketsAssumption DEF Init, TheirsInv
  <1>2. TheirsInv => TheirsUntouched
    BY DEF TheirsInv, TheirsUntouched, Named, Copies
  <1> QED
    BY <1>1, <1>2, NextTheirs, Invariance, PTL DEF Spec
-----------------------------------------------------------------------------
(***************************************************************************)
(* That there is one bucket per cluster rests on the names in circulation: *)
(* all of them, and all labelled buckets, are one and the same, and a name *)
(* is chosen only where there is neither.                                  *)
(***************************************************************************)
BucketsOK ==
    \A b \in Buckets :
        /\ buckets[b].labels # {} => buckets[b].owner = "us"
        /\ buckets[b].owner = "us" /\ b \notin disturbed \cup TheirBuckets => b \in Labelled

NameInv ==
    /\ BucketsOK
    /\ Alone
    /\ Single(Given \cup Labelled)
    /\ pc \in {"propose", "saveName"} => Labelled = {}

\* A labelled bucket is one of the operator's project.
LEMMA LabelledOwned ==
  ASSUME BucketsOK, NEW b \in Labelled
  PROVE  b \in Buckets /\ buckets[b].owner = "us"
  BY LabelsDiffer DEF BucketsOK, Labelled

\* The buckets are as they should be after any step.
LEMMA NextBuckets ==
  ASSUME IInv, BucketsOK, [Next]_vars
  PROVE  /\ BucketsOK'
         /\ Labelled' \subseteq Labelled \/ (Relabels /\ Labelled' \subseteq Labelled \cup {inst.name})
  <1>1. CASE UNCHANGED <<buckets, disturbed>>
    BY <1>1 DEF BucketsOK, Labelled
  <1>2. CASE Relabels
    BY <1>2 DEF Relabels, BucketsOK, Labelled
  <1>3. ASSUME NEW d \in Buckets, Disturbs(d)
        PROVE  BucketsOK' /\ Labelled' \subseteq Labelled
    <2>1. Labelled' \subseteq Labelled
      BY <1>3, LabelsDiffer DEF Disturbs, Labelled
    <2>2. BucketsOK'
      BY <1>3 DEF Disturbs, BucketsOK, Labelled
    <2> QED
      BY <2>1, <2>2
  <1> QED
    BY <1>1, <1>2, <1>3, BucketStep DEF IInv

\* The instance's name is in circulation, once it is more than proposed.
LEMMA InstGiven ==
  ASSUME IInv, pc \in NamedPCs \ {"saveName"}
  PROVE  inst.name \in Given
  BY AbsentAssumption, NoNameAssumption
  DEF IInv, TypeOK, LoopTypeOK, PlaceOK, Given, Held, NamesOf

\* What the worker keeps if it neither puts a name into circulation nor chooses one.
LEMMA NamesKept ==
  ASSUME IInv, NameInv, [Next]_vars, Alone', Given' \subseteq Given,
         pc' \in {"propose", "saveName"} => Labelled = {} /\ ~Relabels
  PROVE  NameInv'
  <1>1. BucketsOK' /\ (Labelled' \subseteq Labelled \/ (Relabels /\ Labelled' \subseteq Labelled \cup {inst.name}))
    BY NextBuckets DEF NameInv
  <1>2. Relabels => inst.name \in Given
    BY InstGiven DEF Relabels, NamedPCs
  <1>3. Single(Given \cup Labelled)'
    BY <1>1, <1>2 DEF NameInv, Single
  <1>4. pc' \in {"propose", "saveName"} => Labelled' = {}
    BY <1>1
  <1> QED
    BY <1>1, <1>3, <1>4 DEF NameInv

\* A status update keeps it that writes the name in hand, or a name that is the first.
LEMMA NamesUpdated ==
  ASSUME IInv, NameInv, [Next]_vars, NEW status \in Status, pc \notin {"idle", "down"},
         StatusUpdate(status, "idle"), UNCHANGED <<cache, buckets>>,
         \/ status.name \in Given
         \/ fresh => Given = {} /\ Labelled \subseteq {status.name}
  PROVE  NameInv'
  <1>1. Alone' /\ Given' \subseteq Given \cup (IF fresh THEN {status.name} \ {NoName} ELSE {})
    <2>1. "idle" \notin ChoosingPCs
      BY DEF ChoosingPCs
    <2> QED
      BY <2>1, StatusUpdateGives DEF IInv, NameInv, TypeOK
  <1>2. BucketsOK' /\ Labelled' = Labelled
    BY NextBuckets DEF NameInv, Labelled
  <1>3. Single(Given \cup Labelled)'
    BY <1>1, <1>2 DEF NameInv, Single
  <1>4. pc' = "idle"
    BY DEF StatusUpdate, Return
  <1> QED
    BY <1>1, <1>2, <1>3, <1>4 DEF NameInv

\* Every step keeps it.
LEMMA NextNames == IInv /\ NameInv /\ [Next]_vars => NameInv'
  <1> SUFFICES ASSUME IInv, NameInv, [Next]_vars PROVE NameInv'
    OBVIOUS
  <1>0. /\ inst \in Status /\ PlaceOK /\ Following /\ LoopTypeOK(GcsPCs) /\ Alone /\ BucketsOK
        /\ buckets \in [Buckets -> Bucket]
    BY DEF IInv, TypeOK, LoopTypeOK, NameInv
  <1>1. fresh /\ pc \in {"list", "saveName"} => Given = {}
    <2>1. fresh /\ pc \in {"list", "saveName"} => cr.name = NoName /\ pc \in ChoosingPCs
      BY <1>0 DEF Following, PlaceOK, SearchPCs, ChoosingPCs
    <2> QED
      BY <1>0, <2>1, ChoiceIsFirst
  <1>2. CASE ListBuckets
    <2>1. ASSUME NEW existing \in Labelled,
                 StatusUpdate([inst EXCEPT !.name = existing, !.provisioned = TRUE], "idle")
          PROVE  NameInv'
      <3>1. PICK status \in Status : status = [inst EXCEPT !.name = existing, !.provisioned = TRUE]
        BY <1>0 DEF Labelled, Status
      <3>2. status.name = existing
        BY <1>0, <3>1 DEF Status
      <3>3. Labelled \subseteq {existing}
        BY DEF NameInv, Single
      <3> QED
        BY <1>1, <1>2, <2>1, <3>1, <3>2, <3>3, NamesUpdated DEF ListBuckets, gcsVars
    <2>2. CASE Goto("propose") /\ UNCHANGED apiVars /\ \A b \in Labelled : buckets[b].owner # "us"
      <3>1. Labelled = {}
        BY <1>0, <2>2, LabelledOwned
      <3>2. Alone' /\ Given' \subseteq Given
        <4>1. pc = "list" /\ UNCHANGED <<cr, watch, cache>>
          BY <1>2, <2>2 DEF ListBuckets, apiVars
        <4> QED
          BY <1>0, <2>2, <4>1, CallGives DEF ChoosingPCs
      <3>3. ~Relabels
        BY <1>2 DEF ListBuckets, Relabels
      <3> QED
        BY <3>1, <3>2, <3>3, NamesKept
    <2> QED
      BY <1>0, <1>2, <2>1, <2>2, ListBucketsChoice
  <1>3. CASE SaveName
    <2>1. Labelled = {} /\ pc = "saveName"
      BY <1>3 DEF SaveName, NameInv
    <2> QED
      BY <1>0, <1>1, <1>3, <2>1, NamesUpdated DEF SaveName, gcsVars
  <1>4. CASE MarkMissing
    <2>1. PICK status \in Status : status = [inst EXCEPT !.provisioned = FALSE]
      BY <1>0 DEF Status
    <2>2. status.name \in Given
      BY <1>0, <1>4, <2>1, InstGiven DEF Status, MarkMissing, NamedPCs
    <2> QED
      BY <1>4, <2>1, <2>2, NamesUpdated DEF MarkMissing, gcsVars
  <1>5. CASE RecordSync
    <2>1. PICK status \in Status : status = [inst EXCEPT !.provisioned = TRUE, !.lastSync = "recent"]
      BY <1>0 DEF Status, SyncAges
    <2>2. status.name \in Given
      BY <1>0, <1>5, <2>1, InstGiven DEF Status, RecordSync, NamedPCs
    <2> QED
      BY <1>5, <2>1, <2>2, NamesUpdated DEF RecordSync, gcsVars
  <1>6. ASSUME NEW n \in Buckets, ProposeName(n) PROVE NameInv'
    <2>1. Held' \subseteq Held \cup {EmptyStatus, Absent}
      BY <1>6 DEF ProposeName, Return, Held
    <2>2. Alone'
      BY <1>0, <1>6 DEF ProposeName, Return, Alone, ChoosingPCs
    <2>3. Labelled = {} /\ ~Relabels
      BY <1>6 DEF ProposeName, NameInv, Relabels
    <2> QED
      BY <2>1, <2>2, <2>3, GivenShrinks, NamesKept
  <1>7. CASE NewGcsClient \/ CreateBucket \/ StorageExists \/ enforceBucketLabels
    <2>1. /\ UNCHANGED <<cr, watch, cache>>
          /\ pc \in {"storage", "create", "head", "labels"}
      BY <1>7 DEF NewGcsClient, CreateBucket, StorageExists, enforceBucketLabels, Rest
    <2>2. PICK next \in {"list", "create", "head", "labels", "missing", "sync"} :
            /\ Goto(next) \/ Return(TRUE)
            /\ next = "list" => pc = "storage"
      BY <1>7 DEF NewGcsClient, CreateBucket, StorageExists, enforceBucketLabels
    <2>3. Alone' /\ Given' \subseteq Given
      BY <1>0, <2>1, <2>2, CallGives DEF ChoosingPCs
    <2>4. pc' \notin {"propose", "saveName"}
      BY <2>2 DEF Goto, Return
    <2> QED
      BY <2>3, <2>4, NamesKept
  <1>8. CASE (LoopStep \/ LoopFailure \/ LoopEnvironment) /\ UNCHANGED gcsVars
    <2>1. Alone' /\ Given' \subseteq Given
      BY <1>0, <1>8, LoopStepGives, LoopFailureGives, LoopEnvironmentGives
    <2>2. pc' \in {"propose", "saveName"} => pc' = pc
      <3>1. CASE LoopStep
        BY <3>1 DEF LoopStep, Fetch, ChooseWork, ProvisionVelero, Goto, Return
      <3>2. CASE LoopFailure
        BY <3>2 DEF LoopFailure, CallFails, Crash, Return
      <3>3. CASE LoopEnvironment
        BY <3>3 DEF LoopEnvironment, Restart, Deliver, Resync, CreateCR, DeleteCR, TouchCR, PeriodEnds
      <3> QED
        BY <1>8, <3>1, <3>2, <3>3
    <2>3. pc' = pc => ~Relabels
      BY DEF Relabels
    <2> QED
      BY <2>1, <2>2, <2>3, NamesKept DEF NameInv
  <1>9. CASE Interference \/ UNCHANGED vars
    <2>1. UNCHANGED <<cr, watch, cache, pc, inst, fresh>>
      BY <1>9 DEF Interference, DeleteBucket, ForeignCreate, OpenAccess, RemoveLabels, Disturb, vars
    <2>2. Alone' /\ Given' = Given
      BY <1>0, <2>1 DEF Alone, Given, Held, NamesOf
    <2>3. ~Relabels
      BY <2>1 DEF Relabels
    <2> QED
      BY <2>1, <2>2, <2>3, NamesKept DEF NameInv
  <1> QED
    BY <1>2, <1>3, <1>4, <1>5, <1>6, <1>7, <1>8, <1>9 DEF Next, Worker

(***************************************************************************)
(* A cluster never gets a second bucket, labelled for it or of the         *)
(* operator's making and left alone since, whatever Reconcile is cut short *)
(* or works on a VeleroInstall that is gone, for any number of buckets,    *)
(* other clusters' buckets and disturbances.                               *)
(***************************************************************************)
THEOREM OneBucketTheorem == Spec => []OneBucketPerCluster
  <1>1. Init => NameInv
    <2> SUFFICES ASSUME Init PROVE NameInv
      OBVIOUS
    <2>1. \A b \in Buckets : b \notin Labelled
      BY LabelsDiffer DEF Init, Labelled, NewBucket, NoBucket
    <2>2. Given = {}
      <3>1. {watch[i] : i \in DOMAIN watch} = {}
        BY DEF Init, LoopInit
      <3> QED
        BY <3>1 DEF Init, LoopInit, Given, Held, NamesOf, EmptyStatus
    <2>3. BucketsOK
      BY DEF Init, BucketsOK, NewBucket, NoBucket
    <2>4. Labelled = {}
      BY <2>1 DEF Labelled
    <2> QED
      BY <2>2, <2>3, <2>4 DEF NameInv, Single, Alone, Init, LoopInit
  <1>2. NameInv => OneBucketPerCluster
    <2> SUFFICES ASSUME NameInv PROVE OneBucketPerCluster
      OBVIOUS
    <2> DEFINE ours == {b \in Buckets \ TheirBuckets :
                          buckets[b].owner = "us" /\ (b \in Labelled \/ b \notin disturbed)}
    <2>1. ours \subseteq Labelled
      BY DEF NameInv, BucketsOK
    <2>2. Single(ours)
      BY <2>1 DEF NameInv, Single
    <2> QED
      BY <2>2, SingleCardinality DEF OneBucketPerCluster
  <1> QED
    BY <1>1, <1>2, NextNames, Invariance, PTL DEF Spec
=============================================================================
