------------------------------ MODULE S3Proofs ------------------------------
(***************************************************************************)
(* Proofs about the reconcile loop with the S3 driver.                     *)
(***************************************************************************)
EXTENDS S3Properties, ReconcilerProofs

Scans == [todo : SUBSET Buckets, kept : SUBSET Buckets, tags : [Buckets -> SUBSET Tags]]

\* A search that has not begun has the type of a search.
LEMMA NoScanType == NoScan \in Scans
  BY DEF NoScan, Scans

\* The tags TagBucket writes are tags, whichever cluster writes them.
LEMMA VeleroTagsType == VeleroTags(InfraName) \in SUBSET Tags /\ VeleroTags(OtherInfra) \in SUBSET Tags
  BY DEF VeleroTags, Tags, bucketTagBackupLocation, bucketTagInfraName, DefaultVeleroBackupStorageLocation

\* The buckets the model makes are buckets.
LEMMA BucketTypes ==
  /\ NoBucket \in Bucket
  /\ ForeignBucket \in Bucket
  /\ \A seen \in BOOLEAN : NewBucket(seen) \in Bucket
  /\ \A here \in BOOLEAN, tags \in SUBSET Tags : OldBucket(here, tags) \in Bucket
  BY DEF NoBucket, ForeignBucket, NewBucket, OldBucket, Bucket, Settings

\* FindMatchingTags returns the name of a bucket or none.
LEMMA FindMatchingTagsType ==
  ASSUME NEW tags \in [Buckets -> SUBSET Tags]
  PROVE  FindMatchingTags(tags, InfraName, NoName) \subseteq Buckets \cup {NoName}
  BY DEF FindMatchingTags

-----------------------------------------------------------------------------
\* The types hold to begin with.
LEMMA InitType == Init => TypeOK
  <1> SUFFICES ASSUME Init PROVE TypeOK
    OBVIOUS
  <1>1. LoopTypeOK(S3PCs)
    <2>1. faults \in 0..MaxFaults
      BY MaxFaultsAssumption DEF Init, LoopInit
    <2>2. watch \in Seq(Status \cup {Absent})
      BY EmptySeq DEF Init, LoopInit
    <2> QED
      BY <2>1, <2>2, EmptyStatusType DEF Init, LoopInit, LoopTypeOK, S3PCs, LoopPCs
  <1>2. buckets \in [Buckets -> Bucket]
    BY BucketTypes, VeleroTagsType DEF Init
  <1> QED
    BY <1>1, <1>2, NoScanType DEF Init, TypeOK, Scans

\* A write to the bucket of the instance leaves the types.
LEMMA WriteType ==
  ASSUME TypeOK, NEW bucket, inst.name \in Buckets => bucket \in Bucket, NEW next \in S3PCs,
         Write(bucket, next)
  PROVE  TypeOK'
  <1>0. UNCHANGED <<Rest, scan, missed>>
    BY DEF Write
  <1>1. CASE buckets' = [buckets EXCEPT ![inst.name] = bucket] /\ Goto(next)
    <2>1. buckets' \in [Buckets -> Bucket]
      BY <1>1 DEF TypeOK
    <2> QED
      BY <1>0, <1>1, <2>1 DEF TypeOK, LoopTypeOK, Rest, Goto
  <1>2. CASE Return(TRUE) /\ UNCHANGED buckets
    BY <1>0, <1>2, EmptyStatusType DEF TypeOK, LoopTypeOK, Rest, Return, S3PCs, LoopPCs
  <1> QED
    BY <1>1, <1>2 DEF Write

\* What a search has missed are buckets.
LEMMA SkipType ==
  ASSUME TypeOK, NEW b \in Buckets, Skip(b) \/ Denied(b)
  PROVE  TypeOK'
  <1>1. CASE Skip(b)
    <2>1. scan \in Scans /\ scan' = [scan EXCEPT !.todo = scan.todo \ {b}]
      BY <1>1 DEF Skip, TypeOK, Scans
    <2>2. scan' \in Scans
      BY <2>1 DEF Scans
    <2>3. missed' \in SUBSET Buckets
      BY <1>1 DEF Skip, TypeOK
    <2> QED
      BY <1>1, <2>2, <2>3 DEF Skip, Goto, Rest, TypeOK, LoopTypeOK, Scans
  <1>2. CASE Denied(b)
    BY <1>2, NoScanType, EmptyStatusType
    DEF Denied, Return, Rest, TypeOK, LoopTypeOK, Scans, S3PCs, LoopPCs
  <1> QED
    BY <1>1, <1>2

\* The calls of setInstanceBucketName keep the types.
LEMMA SearchType == TypeOK /\ Search => TypeOK'
  <1> SUFFICES ASSUME TypeOK, Search PROVE TypeOK'
    OBVIOUS
  <1> USE DEF TypeOK, S3PCs, LoopPCs
  <1>1. CASE ListBuckets
    <2>1. PICK omitted \in SUBSET Unseen :
            /\ scan' = [NoScan EXCEPT !.todo = {b \in Buckets : buckets[b].owner = "us"} \ omitted]
            /\ missed' = missed \cup (omitted \cap Tagged)
      BY <1>1 DEF ListBuckets
    <2>2. scan' \in Scans
      BY <2>1, NoScanType DEF Scans
    <2>3. missed' \in SUBSET Buckets
      BY <2>1 DEF Tagged
    <2> QED
      BY <1>1, <2>2, <2>3 DEF ListBuckets, Goto, Rest, LoopTypeOK, Scans
  <1>2. CASE ListBucketTags
    BY <1>2 DEF ListBucketTags, Goto, Rest, LoopTypeOK
  <1>3. CASE FindBucket
    <2>1. PICK existing \in FindMatchingTags(scan.tags, InfraName, NoName) :
            \/ /\ existing # NoName
               /\ StatusUpdate([inst EXCEPT !.name = existing, !.provisioned = TRUE], "head")
            \/ /\ existing = NoName
               /\ Goto("propose")
               /\ UNCHANGED apiVars
      BY <1>3 DEF FindBucket
    <2>2. existing \in Buckets \cup {NoName}
      BY FindMatchingTagsType
    <2>3. [inst EXCEPT !.name = existing, !.provisioned = TRUE] \in Status
      BY <2>2 DEF LoopTypeOK, Status
    <2>4. LoopTypeOK(S3PCs)'
      <3>1. CASE StatusUpdate([inst EXCEPT !.name = existing, !.provisioned = TRUE], "head")
        BY <1>3, <2>3, <3>1, StatusUpdateType DEF FindBucket
      <3>2. CASE Goto("propose") /\ UNCHANGED apiVars
        BY <1>3, <3>2 DEF FindBucket, Goto, apiVars, LoopTypeOK
      <3> QED
        BY <2>1, <3>1, <3>2
    <2> QED
      BY <1>3, <2>4, NoScanType DEF FindBucket, Scans
  <1>4. CASE SaveName
    <2>1. LoopTypeOK(S3PCs)'
      BY <1>4, StatusUpdateType DEF SaveName, LoopTypeOK
    <2> QED
      BY <1>4, <2>1 DEF SaveName, s3Vars
  <1>5. ASSUME NEW b \in Buckets, GetBucketLocation(b) PROVE TypeOK'
    <2>1. CASE Skip(b) \/ Denied(b)
      BY <2>1, SkipType
    <2>2. CASE ~(Skip(b) \/ Denied(b))
      <3> DEFINE kept == IF buckets[b].here THEN scan.kept \cup {b} ELSE scan.kept
      <3>1. scan \in Scans /\ kept \in SUBSET Buckets
        BY DEF Scans
      <3>2. scan' = [scan EXCEPT !.todo = scan.todo \ {b}, !.kept = kept]
        BY <1>5, <2>2 DEF GetBucketLocation
      <3>3. scan' \in Scans
        BY <3>1, <3>2 DEF Scans
      <3> QED
        BY <1>5, <2>2, <3>3 DEF GetBucketLocation, Goto, Rest, LoopTypeOK, Scans
    <2> QED
      BY <2>1, <2>2
  <1>6. ASSUME NEW b \in Buckets, GetBucketTagging(b) PROVE TypeOK'
    <2>1. CASE Skip(b) \/ Denied(b)
      BY <2>1, SkipType
    <2>2. CASE ~(Skip(b) \/ Denied(b))
      <3> DEFINE tags == [scan.tags EXCEPT ![b] = buckets[b].tags]
      <3>1. scan \in Scans /\ tags \in [Buckets -> SUBSET Tags]
        BY DEF Scans, Bucket
      <3>2. scan' = [scan EXCEPT !.todo = scan.todo \ {b}, !.tags = tags]
        BY <1>6, <2>2 DEF GetBucketTagging
      <3> HIDE DEF tags
      <3>3. scan' \in Scans
        BY <3>1, <3>2 DEF Scans
      <3> QED
        BY <1>6, <2>2, <3>3 DEF GetBucketTagging, Goto, Rest, LoopTypeOK, Scans
    <2> QED
      BY <2>1, <2>2
  <1>7. ASSUME NEW b \in Buckets, ProposeName(b) PROVE TypeOK'
    <2>1. faults' \in 0..MaxFaults
      BY <1>7, FaultType DEF ProposeName, LoopTypeOK
    <2>2. inst' \in Status /\ pc' \in S3PCs /\ queued' \in BOOLEAN /\ fresh' \in BOOLEAN
      BY <1>7, EmptyStatusType DEF ProposeName, Return, LoopTypeOK, Status
    <2> QED
      BY <1>7, <2>1, <2>2 DEF ProposeName, LoopTypeOK, s3Vars
  <1> QED
    BY <1>1, <1>2, <1>3, <1>4, <1>5, <1>6, <1>7 DEF Search

\* The other calls of CreateStorage keep the types.
LEMMA EnforceType == TypeOK /\ Enforce => TypeOK'
  <1> SUFFICES ASSUME TypeOK, Enforce PROVE TypeOK'
    OBVIOUS
  <1>0. /\ inst \in Status
        /\ inst.name \in Buckets => buckets[inst.name] \in Bucket
        /\ [inst EXCEPT !.name = NoName] \in Status
        /\ [inst EXCEPT !.provisioned = FALSE] \in Status
        /\ [inst EXCEPT !.provisioned = TRUE, !.lastSync = "recent"] \in Status
    BY DEF TypeOK, LoopTypeOK, Status, SyncAges
  <1>1. CASE NewS3Client
    BY <1>1 DEF NewS3Client, Goto, Rest, TypeOK, LoopTypeOK, S3PCs, LoopPCs
  <1>2. CASE CreateBucket
    BY <1>2, BucketTypes DEF CreateBucket, Goto, Rest, TypeOK, LoopTypeOK, S3PCs, LoopPCs
  <1>3. CASE AbandonName
    BY <1>0, <1>3, StatusUpdateType DEF AbandonName, TypeOK, s3Vars, S3PCs, LoopPCs
  <1>4. CASE ClearBucketTags
    BY <1>0, <1>4, WriteType DEF ClearBucketTags, Bucket, S3PCs
  <1>5. CASE TagBucket
    BY <1>0, <1>5, WriteType, VeleroTagsType DEF TagBucket, Bucket, S3PCs
  <1>6. CASE StorageExists
    BY <1>6, EmptyStatusType DEF StorageExists, Goto, Return, Rest, TypeOK, LoopTypeOK, S3PCs, LoopPCs
  <1>7. CASE MarkMissing
    BY <1>0, <1>7, StatusUpdateType DEF MarkMissing, TypeOK, s3Vars, S3PCs, LoopPCs
  <1>8. CASE EncryptBucket
    BY <1>0, <1>8, WriteType DEF EncryptBucket, Bucket, Settings, S3PCs
  <1>9. CASE BlockBucketPublicAccess
    BY <1>0, <1>9, WriteType DEF BlockBucketPublicAccess, Bucket, Settings, S3PCs
  <1>10. CASE SetBucketLifecycle
    BY <1>0, <1>10, WriteType DEF SetBucketLifecycle, Bucket, Settings, S3PCs
  <1>11. CASE RecordSync
    BY <1>0, <1>11, StatusUpdateType DEF RecordSync, TypeOK, s3Vars, S3PCs, LoopPCs
  <1> QED
    BY <1>1, <1>2, <1>3, <1>4, <1>5, <1>6, <1>7, <1>8, <1>9, <1>10, <1>11 DEF Enforce

\* Interference that leaves a bucket a bucket keeps the types.
LEMMA DisturbType ==
  ASSUME TypeOK, NEW b \in Buckets, NEW bucket \in Bucket, Disturb(b, bucket)
  PROVE  TypeOK'
  BY FaultType DEF Disturb, TypeOK, LoopTypeOK

\* Every step keeps the types.
LEMMA NextType == TypeOK /\ [Next]_vars => TypeOK'
  <1> SUFFICES ASSUME TypeOK, [Next]_vars PROVE TypeOK'
    OBVIOUS
  <1>0. LoopPCs \subseteq S3PCs
    BY DEF S3PCs
  <1>1. CASE LoopStep /\ UNCHANGED s3Vars
    BY <1>0, <1>1, LoopStepType DEF TypeOK, s3Vars
  <1>2. CASE Search
    BY <1>2, SearchType
  <1>3. CASE Enforce
    BY <1>3, EnforceType
  <1>4. CASE Failure
    BY <1>0, <1>4, LoopFailureType, NoScanType DEF Failure, TypeOK, Scans
  <1>5. CASE LoopEnvironment /\ UNCHANGED s3Vars
    BY <1>0, <1>5, LoopEnvironmentType DEF TypeOK, s3Vars
  <1>6. ASSUME NEW b \in Buckets, Settle(b) PROVE TypeOK'
    BY <1>6 DEF Settle, loopVars, TypeOK, LoopTypeOK, Bucket
  <1>7. ASSUME NEW b \in Buckets, DeleteBucket(b) \/ ForeignCreate(b) PROVE TypeOK'
    BY <1>7, BucketTypes, DisturbType DEF DeleteBucket, ForeignCreate
  <1>8. ASSUME NEW b \in Buckets, ChangeConfig(b) PROVE TypeOK'
    BY <1>8, DisturbType DEF ChangeConfig, TypeOK, Bucket
  <1>9. ASSUME NEW b \in Buckets, RemoveTags(b) PROVE TypeOK'
    BY <1>9, DisturbType DEF RemoveTags, TypeOK, Bucket
  <1>10. CASE UNCHANGED vars
    BY <1>10 DEF vars, TypeOK, LoopTypeOK
  <1> QED
    BY <1>1, <1>2, <1>3, <1>4, <1>5, <1>6, <1>7, <1>8, <1>9, <1>10
    DEF Next, Worker, Interference

(***************************************************************************)
(* The loop and the driver keep the types of their state.                  *)
(***************************************************************************)
THEOREM TypeCorrect == Spec => []TypeOK
  BY InitType, NextType, PTL DEF Spec

-----------------------------------------------------------------------------
\* The places of CreateStorage before a name is chosen, and after.
SearchPCs == {"list", "locate", "tags", "propose"}
NamedPCs == {"saveName", "create", "abandon", "clearNewTags", "putNewTags", "head", "missing",
             "encrypt", "block", "lifecycle", "clearTags", "putTags", "sync"}

\* Settings the operator has given to b, unless somebody else has changed it.
Has(b, settings) == b \in disturbed \/ settings \subseteq buckets[b].config

\* What the worker may rely on at each place of CreateStorage.
PlaceOK ==
    /\ pc \in SearchPCs => inst.name = NoName
    /\ pc \in NamedPCs => inst.name \in Buckets
    /\ pc \in SearchPCs \cup NamedPCs \cup {"storage"} => inst.lastSync # "recent"
    /\ pc \in {"create", "abandon"} => ~inst.provisioned
    /\ pc = "block" => Has(inst.name, {"encryption"})
    /\ pc = "lifecycle" => Has(inst.name, {"encryption", "publicAccessBlock"})
    /\ pc \in {"clearTags", "putTags", "sync", "provision"} => inst.name \in Ready

\* A bucket that is not the operator's has none of its settings.
Unowned == \A b \in Buckets : buckets[b].owner # "us" => buckets[b].config = {}

(***************************************************************************)
(* The inductive invariant.  GateHardened alone is not inductive: it takes *)
(* that the same holds of the instance in hand, that each call of a pass   *)
(* finds the settings of the calls before it, and that no pass is made     *)
(* with a status that is recent.                                           *)
(***************************************************************************)
IInv ==
    /\ TypeOK
    /\ Unowned
    /\ Following
    /\ PlaceOK
    /\ \A copy \in Copies : Vouched(copy)

-----------------------------------------------------------------------------
(***************************************************************************)
(* No step takes a setting from a bucket without its being counted among   *)
(* the disturbed ones.                                                     *)
(***************************************************************************)
Kept(b) == b \in disturbed' \/ buckets[b].config \subseteq buckets'[b].config

\* A write of CreateStorage takes no setting from the bucket.
LEMMA WriteKeeps ==
  ASSUME TypeOK, Unowned, NEW bucket, NEW next, Write(bucket, next),
         Accessible(inst.name) /\ inst.name \in Buckets =>
            /\ bucket.owner = "us"
            /\ buckets[inst.name].config \subseteq bucket.config
  PROVE  Unowned' /\ \A b \in Buckets : Kept(b)
  <1>1. CASE Accessible(inst.name) /\ buckets' = [buckets EXCEPT ![inst.name] = bucket]
    BY <1>1 DEF TypeOK, Unowned, Kept
  <1>2. CASE UNCHANGED buckets
    BY <1>2 DEF Unowned, Kept
  <1> QED
    BY <1>1, <1>2 DEF Write

\* Interference may take settings, from a bucket that is then disturbed.
LEMMA DisturbKeeps ==
  ASSUME TypeOK, Unowned, NEW d \in Buckets, NEW bucket, Disturb(d, bucket),
         bucket.owner # "us" => bucket.config = {}
  PROVE  Unowned' /\ \A b \in Buckets : Kept(b)
  BY DEF TypeOK, Unowned, Kept, Disturb

\* No step takes a setting from a bucket that is not disturbed.
LEMMA StepKeeps ==
  ASSUME TypeOK, Unowned, [Next]_vars
  PROVE  Unowned' /\ \A b \in Buckets : Kept(b)
  <1>1. CASE UNCHANGED buckets
    BY <1>1 DEF Unowned, Kept
  <1>2. CASE CreateBucket
    <2>1. ASSUME NEW seen \in BOOLEAN, buckets[inst.name].owner = "none",
                 buckets' = [buckets EXCEPT ![inst.name] = NewBucket(seen)]
          PROVE  Unowned' /\ \A b \in Buckets : Kept(b)
      <3>1. NewBucket(seen).owner = "us"
        BY DEF NewBucket, NoBucket
      <3> QED
        BY <2>1, <3>1 DEF TypeOK, Unowned, Kept
    <2> QED
      BY <1>1, <1>2, <2>1 DEF CreateBucket
  <1>3. inst.name \in Buckets => buckets[inst.name] \in Bucket
    BY DEF TypeOK
  <1>4. CASE ClearBucketTags
    BY <1>3, <1>4, WriteKeeps DEF ClearBucketTags, Accessible, Bucket
  <1>5. CASE TagBucket
    BY <1>3, <1>5, WriteKeeps DEF TagBucket, Accessible, Bucket
  <1>6. CASE EncryptBucket
    BY <1>3, <1>6, WriteKeeps DEF EncryptBucket, Accessible, Bucket
  <1>7. CASE BlockBucketPublicAccess
    BY <1>3, <1>7, WriteKeeps DEF BlockBucketPublicAccess, Accessible, Bucket
  <1>8. CASE SetBucketLifecycle
    BY <1>3, <1>8, WriteKeeps DEF SetBucketLifecycle, Accessible, Bucket
  <1>9. ASSUME NEW b \in Buckets, Settle(b) PROVE Unowned' /\ \A d \in Buckets : Kept(d)
    BY <1>9 DEF Settle, TypeOK, Bucket, Unowned, Kept
  <1>10. ASSUME NEW b \in Buckets, DeleteBucket(b) \/ ForeignCreate(b)
         PROVE  Unowned' /\ \A d \in Buckets : Kept(d)
    <2>1. NoBucket.config = {} /\ ForeignBucket.config = {}
      BY DEF NoBucket, ForeignBucket
    <2> QED
      BY <1>10, <2>1, DisturbKeeps DEF DeleteBucket, ForeignCreate
  <1>11. ASSUME NEW b \in Buckets, ChangeConfig(b) PROVE Unowned' /\ \A d \in Buckets : Kept(d)
    <2>1. PICK setting \in buckets[b].config :
            Disturb(b, [buckets[b] EXCEPT !.config = @ \ {setting}])
      BY <1>11 DEF ChangeConfig
    <2>2. [buckets[b] EXCEPT !.config = @ \ {setting}].owner = "us"
      BY <1>11 DEF ChangeConfig, TypeOK, Bucket
    <2> QED
      BY <2>1, <2>2, DisturbKeeps
  <1>12. ASSUME NEW b \in Buckets, RemoveTags(b) PROVE Unowned' /\ \A d \in Buckets : Kept(d)
    <2>1. [buckets[b] EXCEPT !.tags = {}].owner = "us"
      BY <1>12 DEF RemoveTags, TypeOK, Bucket
    <2> QED
      BY <1>12, <2>1, DisturbKeeps DEF RemoveTags
  <1>13. CASE Search
    BY <1>1, <1>13 DEF Search, ListBuckets, ListBucketTags, FindBucket, SaveName, GetBucketLocation,
         GetBucketTagging, Skip, Denied, ProposeName, s3Vars
  <1>14. CASE NewS3Client \/ AbandonName \/ StorageExists \/ MarkMissing \/ RecordSync
    BY <1>1, <1>14 DEF NewS3Client, AbandonName, StorageExists, MarkMissing, RecordSync, s3Vars
  <1>15. CASE Failure \/ (LoopStep /\ UNCHANGED s3Vars) \/ (LoopEnvironment /\ UNCHANGED s3Vars)
    BY <1>1, <1>15 DEF Failure, s3Vars
  <1>16. CASE UNCHANGED vars
    BY <1>1, <1>16 DEF vars
  <1> QED
    BY <1>2, <1>4, <1>5, <1>6, <1>7, <1>8, <1>9, <1>10, <1>11, <1>12, <1>13, <1>14, <1>15, <1>16
    DEF Next, Worker, Enforce, Interference

\* A bucket that was disturbed remains so.
LEMMA DisturbedGrows ==
  ASSUME [Next]_vars
  PROVE  disturbed \subseteq disturbed'
  BY DEF Next, Worker, LoopStep, Search, Enforce, Failure, Interference, vars, s3Vars, Rest,
     ListBuckets, ListBucketTags, FindBucket, SaveName, GetBucketLocation, GetBucketTagging,
     Skip, Denied, ProposeName, NewS3Client, CreateBucket, AbandonName, ClearBucketTags, TagBucket, Write,
     StorageExists, MarkMissing, EncryptBucket, BlockBucketPublicAccess, SetBucketLifecycle,
     RecordSync, Settle, DeleteBucket, ForeignCreate, ChangeConfig, RemoveTags, Disturb

\* A bucket that is ready, or has some settings, goes on to, by these two facts.
LEMMA ReadyGrows ==
  ASSUME TypeOK, Unowned, [Next]_vars
  PROVE  /\ Ready \subseteq Ready'
         /\ \A b \in Buckets, settings \in SUBSET Settings : Has(b, settings) => Has(b, settings)'
  <1>1. disturbed \subseteq disturbed' /\ \A b \in Buckets : Kept(b)
    BY StepKeeps, DisturbedGrows
  <1>2. \A b \in Buckets : buckets'[b].config \subseteq Settings
    BY NextType DEF TypeOK, Bucket
  <1> QED
    BY <1>1, <1>2 DEF Ready, Has, Kept

-----------------------------------------------------------------------------
\* The part of the inductive invariant that concerns the worker and the copies.
WorkInv == Following /\ PlaceOK /\ \A copy \in Copies : Vouched(copy)

\* What vouches for itself: no resource, an empty status, a sync that is not recent.
LEMMA VouchedFree ==
  /\ Vouched(Absent)' /\ Vouched(EmptyStatus)'
  /\ \A s : s.lastSync # "recent" => Vouched(s)'
  BY DEF Vouched, EmptyStatus

\* A call of CreateStorage that writes no status.
LEMMA CallInv ==
  ASSUME IInv, [Next]_vars, pc \notin {"idle", "down", "saveName"}, UNCHANGED <<cr, watch, cache>>,
         NEW next, next \notin {"idle", "down", "saveName"},
         Goto(next) \/ \E requeue \in BOOLEAN : Return(requeue)
  PROVE  Following' /\ \A copy \in Copies' : Vouched(copy)'
  <1>1. Following' /\ Copies' \subseteq Copies \cup {EmptyStatus}
    BY CallFollows DEF IInv
  <1>2. \A copy \in {EmptyStatus} : Vouched(copy)'
    BY VouchedFree
  <1>3. Ready \subseteq Ready' /\ \A copy \in Copies : Vouched(copy)
    BY ReadyGrows DEF IInv
  <1> QED
    BY <1>1, <1>2, <1>3 DEF Vouched

\* A status update of CreateStorage.
LEMMA UpdateInv ==
  ASSUME IInv, [Next]_vars, NEW status \in Status, NEW next, next \notin {"down", "saveName"},
         pc \notin {"idle", "down"}, StatusUpdate(status, next), UNCHANGED cache,
         Vouched(status)'
  PROVE  Following' /\ \A copy \in Copies' : Vouched(copy)'
  <1>1. Following' /\ Copies' \subseteq Copies \cup {status, EmptyStatus}
    BY StatusUpdateFollows DEF IInv, TypeOK
  <1>2. \A copy \in {status, EmptyStatus} : Vouched(copy)'
    BY VouchedFree
  <1>3. Ready \subseteq Ready' /\ \A copy \in Copies : Vouched(copy)
    BY ReadyGrows DEF IInv
  <1> QED
    BY <1>1, <1>2, <1>3 DEF Vouched

\* The calls of setInstanceBucketName keep the worker's part of the invariant.
LEMMA SearchInv == IInv /\ Search => WorkInv'
  <1> SUFFICES ASSUME IInv, Search PROVE WorkInv'
    OBVIOUS
  <1>0. [Next]_vars /\ inst \in Status /\ PlaceOK
    BY DEF Next, Worker, IInv, TypeOK, LoopTypeOK
  <1> USE DEF SearchPCs, NamedPCs
  <1>1. CASE ListBuckets
    BY <1>0, <1>1, CallInv DEF ListBuckets, Rest, Goto, WorkInv, PlaceOK
  <1>2. CASE ListBucketTags
    BY <1>0, <1>2, CallInv DEF ListBucketTags, Rest, Goto, WorkInv, PlaceOK
  <1>3. CASE FindBucket
    <2>1. PICK existing \in FindMatchingTags(scan.tags, InfraName, NoName) :
            \/ /\ existing # NoName
               /\ StatusUpdate([inst EXCEPT !.name = existing, !.provisioned = TRUE], "head")
            \/ /\ existing = NoName
               /\ Goto("propose")
               /\ UNCHANGED apiVars
      BY <1>3 DEF FindBucket
    <2>2. existing \in Buckets \cup {NoName}
      BY FindMatchingTagsType DEF IInv, TypeOK
    <2>3. CASE existing = NoName
      BY <1>0, <1>3, <2>1, <2>3, CallInv DEF FindBucket, Goto, apiVars, WorkInv, PlaceOK
    <2>4. CASE existing # NoName
      <3> DEFINE status == [inst EXCEPT !.name = existing, !.provisioned = TRUE]
      <3>1. /\ status \in Status /\ status.name \in Buckets /\ status.lastSync # "recent"
            /\ StatusUpdate(status, "head")
        BY <1>0, <1>3, <2>1, <2>2, <2>4 DEF Status, FindBucket, PlaceOK
      <3>2. (pc' = "head" /\ inst' = status) \/ pc' = "idle"
        BY <3>1 DEF StatusUpdate, Return
      <3> HIDE DEF status
      <3>3. PlaceOK'
        BY <3>1, <3>2 DEF PlaceOK
      <3> QED
        BY <1>0, <1>3, <3>1, <3>3, UpdateInv, VouchedFree DEF FindBucket, WorkInv
    <2> QED
      BY <2>3, <2>4
  <1>4. CASE SaveName
    <2>0. PICK status \in Status : status = inst
      BY <1>0
    <2>1. Vouched(status)' /\ StatusUpdate(status, "head")
      BY <1>0, <1>4, <2>0, VouchedFree DEF SaveName, PlaceOK
    <2>2. (pc' = "head" /\ inst' = inst) \/ pc' = "idle"
      BY <1>4 DEF SaveName, StatusUpdate, Return
    <2>3. PlaceOK'
      BY <1>0, <1>4, <2>2 DEF PlaceOK, SaveName
    <2> QED
      BY <1>0, <1>4, <2>1, <2>3, UpdateInv DEF SaveName, WorkInv
  <1>5. ASSUME NEW b \in Buckets, GetBucketLocation(b) PROVE WorkInv'
    BY <1>0, <1>5, CallInv DEF GetBucketLocation, Skip, Denied, Rest, Goto, Return, WorkInv, PlaceOK
  <1>6. ASSUME NEW b \in Buckets, GetBucketTagging(b) PROVE WorkInv'
    BY <1>0, <1>6, CallInv DEF GetBucketTagging, Skip, Denied, Rest, Goto, Return, WorkInv, PlaceOK
  <1>7. ASSUME NEW b \in Buckets, ProposeName(b) PROVE WorkInv'
    <2>1. CASE pc' = "saveName"
      <3> DEFINE status == [inst EXCEPT !.name = b, !.provisioned = FALSE]
      <3>1. /\ status \in Status /\ status.name = b /\ status.lastSync # "recent"
            /\ pc' = "saveName" /\ inst' = status /\ UNCHANGED <<cr, watch, cache, fresh>>
            /\ pc = "propose"
        BY <1>0, <1>7, <2>1 DEF Status, ProposeName, PlaceOK, Return
      <3>2. fresh => cr.name = NoName /\ status = [cr EXCEPT !.name = status.name, !.provisioned = FALSE]
        BY <1>0, <3>1 DEF IInv, Following, PlaceOK, Status
      <3> HIDE DEF status
      <3>3. Following'
        BY <3>1, <3>2 DEF IInv, Following
      <3>4. PlaceOK'
        BY <3>1 DEF PlaceOK
      <3>5. PICK new \in Status : new = status
        BY <3>1
      <3>6. Copies' \subseteq Copies \cup {new}
        BY <3>1, <3>5 DEF Copies
      <3>7. \A copy \in {new} : Vouched(copy)'
        BY <3>1, <3>5, VouchedFree
      <3>8. Ready \subseteq Ready' /\ \A copy \in Copies : Vouched(copy)
        BY <1>0, ReadyGrows DEF IInv
      <3>9. \A copy \in Copies' : Vouched(copy)'
        BY <3>6, <3>7, <3>8 DEF Vouched
      <3> QED
        BY <3>3, <3>4, <3>9 DEF WorkInv
    <2>2. CASE pc' # "saveName"
      <3>1. Return(TRUE) /\ pc = "propose" /\ UNCHANGED <<cr, watch, cache>>
        BY <1>7, <2>2 DEF ProposeName
      <3>2. \E requeue \in BOOLEAN : Return(requeue)
        BY <3>1
      <3>3. Following' /\ \A copy \in Copies' : Vouched(copy)'
        BY <1>0, <3>1, <3>2, "head" \notin {"idle", "down", "saveName"}, CallInv
      <3> QED
        BY <3>1, <3>3 DEF Return, WorkInv, PlaceOK
    <2> QED
      BY <2>1, <2>2
  <1> QED
    BY <1>1, <1>2, <1>3, <1>4, <1>5, <1>6, <1>7 DEF Search

-----------------------------------------------------------------------------
\* A write to the bucket of the instance: the next place may rely on what it left.
LEMMA WriteInv ==
  ASSUME IInv, [Next]_vars, pc \in NamedPCs \ {"saveName"}, NEW bucket, NEW next,
         next \in NamedPCs \ {"saveName", "create", "abandon"},
         Write(bucket, next),
         pc' = next => /\ next = "block" => Has(inst.name, {"encryption"})'
                       /\ next = "lifecycle" => Has(inst.name, {"encryption", "publicAccessBlock"})'
                       /\ next \in {"clearTags", "putTags", "sync"} => inst'.name \in Ready'
  PROVE  WorkInv'
  <1>1. UNCHANGED <<cr, watch, cache>> /\ (Goto(next) \/ Return(TRUE))
    BY DEF Write, Rest
  <1>2. Following' /\ \A copy \in Copies' : Vouched(copy)'
    BY <1>1, CallInv DEF NamedPCs
  <1>3. PlaceOK'
    <2>1. CASE Return(TRUE)
      BY <2>1 DEF Return, PlaceOK, SearchPCs, NamedPCs
    <2>2. CASE Goto(next)
      BY <2>2 DEF Goto, PlaceOK, IInv, SearchPCs, NamedPCs
    <2> QED
      BY <1>1, <2>1, <2>2
  <1> QED
    BY <1>2, <1>3 DEF WorkInv

\* So do the other calls of CreateStorage: each finds what the one before it left.
LEMMA EnforceInv == IInv /\ Enforce => WorkInv'
  <1> SUFFICES ASSUME IInv, Enforce PROVE WorkInv'
    OBVIOUS
  <1>0. /\ [Next]_vars /\ inst \in Status /\ PlaceOK
        /\ inst.name \in Buckets => buckets[inst.name] \in Bucket
    BY DEF Next, Worker, IInv, TypeOK, LoopTypeOK
  <1> USE DEF SearchPCs, NamedPCs
  <1>1. CASE NewS3Client
    <2>1. PICK next \in {"list", "create", "head"} :
            /\ Goto(next)
            /\ next = "list" <=> inst.name = NoName
            /\ next = "create" => ~inst.provisioned
      BY <1>1 DEF NewS3Client
    <2>2. PlaceOK'
      BY <1>0, <1>1, <2>1 DEF NewS3Client, Goto, PlaceOK, Status
    <2> QED
      BY <1>0, <1>1, <2>1, <2>2, CallInv DEF NewS3Client, Rest, WorkInv
  <1>2. CASE CreateBucket
    <2>1. PICK next \in {"clearNewTags", "abandon"} : Goto(next)
      BY <1>2 DEF CreateBucket
    <2>2. PlaceOK'
      BY <1>0, <1>2, <2>1 DEF CreateBucket, Goto, PlaceOK
    <2> QED
      BY <1>0, <1>2, <2>1, <2>2, CallInv DEF CreateBucket, Rest, WorkInv
  <1>3. CASE AbandonName
    <2>1. PICK status \in Status : status = [inst EXCEPT !.name = NoName]
      BY <1>0 DEF Status
    <2>2. status.lastSync # "recent" /\ StatusUpdate(status, "idle")
      BY <1>0, <1>3, <2>1 DEF AbandonName, PlaceOK, Status
    <2>3. pc' = "idle"
      BY <2>2 DEF StatusUpdate, Return
    <2> QED
      BY <1>0, <1>3, <2>2, <2>3, UpdateInv, VouchedFree DEF AbandonName, WorkInv, PlaceOK
  <1>4. CASE ClearBucketTags
    <2>1. pc = "clearTags" => inst.name \in Ready'
      BY <1>0, ReadyGrows DEF PlaceOK, IInv
    <2>2. \A next \in {"putNewTags", "putTags"} : \A bucket :
            Write(bucket, next) => (pc' = next /\ inst' = inst) \/ pc' = "idle"
      BY DEF Write, Goto, Return
    <2> QED
      BY <1>0, <1>4, <2>1, <2>2, WriteInv DEF ClearBucketTags
  <1>5. CASE TagBucket
    <2>1. pc = "putTags" => inst.name \in Ready'
      BY <1>0, ReadyGrows DEF PlaceOK, IInv
    <2>2. \A next \in {"head", "sync"} : \A bucket :
            Write(bucket, next) => (pc' = next /\ inst' = inst) \/ pc' = "idle"
      BY DEF Write, Goto, Return
    <2> QED
      BY <1>0, <1>5, <2>1, <2>2, WriteInv DEF TagBucket
  <1>6. CASE StorageExists
    <2>1. /\ UNCHANGED <<cr, watch, cache>> /\ pc = "head"
          /\ Goto("encrypt") \/ Goto("missing") \/ Return(TRUE)
      BY <1>6 DEF StorageExists, Rest
    <2>2. PlaceOK'
      BY <1>0, <2>1 DEF Goto, Return, PlaceOK
    <2>3. PICK next \in {"encrypt", "missing"} : Goto(next) \/ Return(TRUE)
      BY <2>1
    <2>4. Following' /\ \A copy \in Copies' : Vouched(copy)'
      BY <1>0, <2>1, <2>3, CallInv
    <2> QED
      BY <2>2, <2>4 DEF WorkInv
  <1>7. CASE MarkMissing
    <2>1. PICK status \in Status : status = [inst EXCEPT !.provisioned = FALSE]
      BY <1>0 DEF Status
    <2>2. status.lastSync # "recent" /\ StatusUpdate(status, "idle")
      BY <1>0, <1>7, <2>1 DEF MarkMissing, PlaceOK, Status
    <2>3. pc' = "idle"
      BY <2>2 DEF StatusUpdate, Return
    <2> QED
      BY <1>0, <1>7, <2>2, <2>3, UpdateInv, VouchedFree DEF MarkMissing, WorkInv, PlaceOK
  <1>8. CASE EncryptBucket
    <2> DEFINE bucket == [buckets[inst.name] EXCEPT !.config = @ \cup {"encryption"}]
    <2>1. Write(bucket, "block") /\ pc = "encrypt" /\ inst.name \in Buckets
      BY <1>0, <1>8 DEF EncryptBucket, PlaceOK
    <2>2. pc' = "block" => Has(inst.name, {"encryption"})'
      BY <1>0, <2>1 DEF Write, Goto, Return, Has, Bucket, IInv, TypeOK
    <2> QED
      BY <1>0, <2>1, <2>2, WriteInv
  <1>9. CASE BlockBucketPublicAccess
    <2> DEFINE bucket == [buckets[inst.name] EXCEPT !.config = @ \cup {"publicAccessBlock"}]
    <2>1. Write(bucket, "lifecycle") /\ pc = "block" /\ inst.name \in Buckets
      BY <1>0, <1>9 DEF BlockBucketPublicAccess, PlaceOK
    <2>2. pc' = "lifecycle" => Has(inst.name, {"encryption", "publicAccessBlock"})'
      BY <1>0, <2>1 DEF Write, Goto, Return, Rest, Has, Bucket, IInv, TypeOK, PlaceOK
    <2> QED
      BY <1>0, <2>1, <2>2, WriteInv
  <1>10. CASE SetBucketLifecycle
    <2> DEFINE bucket == [buckets[inst.name] EXCEPT !.config = @ \cup {"lifecycle"}]
    <2>1. Write(bucket, "clearTags") /\ pc = "lifecycle" /\ inst.name \in Buckets
      BY <1>0, <1>10 DEF SetBucketLifecycle, PlaceOK
    <2>2. pc' = "clearTags" => inst'.name \in Ready'
      BY <1>0, <2>1 DEF Write, Goto, Return, Rest, Has, Ready, Settings, Bucket, IInv, TypeOK, PlaceOK
    <2> QED
      BY <1>0, <2>1, <2>2, WriteInv
  <1>11. CASE RecordSync
    <2>1. PICK status \in Status : status = [inst EXCEPT !.provisioned = TRUE, !.lastSync = "recent"]
      BY <1>0 DEF Status, SyncAges
    <2>2. StatusUpdate(status, "idle") /\ status.provisioned /\ status.name = inst.name
      BY <1>0, <1>11, <2>1 DEF RecordSync, Status
    <2>3. Vouched(status)'
      BY <1>0, <1>11, <2>2, ReadyGrows DEF Vouched, RecordSync, PlaceOK, IInv
    <2>4. pc' = "idle"
      BY <2>2 DEF StatusUpdate, Return
    <2> QED
      BY <1>0, <1>11, <2>2, <2>3, <2>4, UpdateInv DEF RecordSync, WorkInv, PlaceOK
  <1> QED
    BY <1>1, <1>2, <1>3, <1>4, <1>5, <1>6, <1>7, <1>8, <1>9, <1>10, <1>11 DEF Enforce

-----------------------------------------------------------------------------
\* So do the reconcile loop, its failures and its surroundings.
LEMMA LoopInv ==
  ASSUME IInv, \/ LoopStep /\ UNCHANGED s3Vars
               \/ Failure
               \/ LoopEnvironment /\ UNCHANGED s3Vars
  PROVE  WorkInv'
  <1>0. /\ [Next]_vars /\ inst \in Status /\ PlaceOK /\ Following /\ LoopTypeOK(S3PCs)
        /\ \A copy \in Copies : Vouched(copy)
    BY DEF Next, Worker, IInv, TypeOK, LoopTypeOK
  <1>1. Ready \subseteq Ready'
    BY <1>0, ReadyGrows DEF IInv
  <1>2. Copies' \subseteq Copies \cup {EmptyStatus, Absent} => \A copy \in Copies' : Vouched(copy)'
    <2>1. \A copy \in {EmptyStatus, Absent} : Vouched(copy)'
      BY VouchedFree
    <2> QED
      BY <1>0, <1>1, <2>1 DEF Vouched
  <1> USE DEF SearchPCs, NamedPCs
  <1>3. CASE LoopStep /\ UNCHANGED s3Vars
    <2>1. Following' /\ Copies' \subseteq Copies \cup {EmptyStatus, Absent}
      BY <1>0, <1>3, LoopStepFollows
    <2>2. PlaceOK'
      <3>1. CASE Fetch
        BY <1>0, <3>1 DEF Fetch, PlaceOK
      <3>2. CASE ChooseWork
        <4>1. Vouched(inst) /\ inst # Absent
          BY <1>0, AbsentAssumption DEF Copies
        <4>2. inst.lastSync = "recent" => inst.provisioned /\ inst.name \in Ready /\ inst.name # NoName
          BY <4>1, NoNameAssumption DEF Vouched, Ready
        <4>3. StorageBucketReconcileRequired(inst) => inst.lastSync # "recent"
          BY <4>2 DEF StorageBucketReconcileRequired
        <4>4. ~StorageBucketReconcileRequired(inst) => inst.name \in Ready
          BY <1>0, <4>2 DEF StorageBucketReconcileRequired, Status, SyncAges
        <4>5. (pc' = "storage" /\ StorageBucketReconcileRequired(inst))
                \/ (pc' = "provision" /\ ~StorageBucketReconcileRequired(inst))
          BY <3>2 DEF ChooseWork, Goto
        <4>6. inst' = inst
          BY <3>2 DEF ChooseWork, Goto
        <4> QED
          BY <1>1, <4>3, <4>4, <4>5, <4>6 DEF PlaceOK
      <3>3. CASE ProvisionVelero
        BY <3>3 DEF ProvisionVelero, Return, PlaceOK
      <3> QED
        BY <1>3, <3>1, <3>2, <3>3 DEF LoopStep
    <2> QED
      BY <1>2, <2>1, <2>2 DEF WorkInv
  <1>4. CASE Failure
    <2>1. Following' /\ Copies' \subseteq Copies \cup {EmptyStatus, Absent}
      BY <1>0, <1>4, LoopFailureFollows DEF Failure
    <2>2. pc' \in {"idle", "down"}
      BY <1>4 DEF Failure, LoopFailure, CallFails, Crash, Return
    <2> QED
      BY <1>2, <2>1, <2>2 DEF WorkInv, PlaceOK
  <1>5. CASE PeriodEnds /\ UNCHANGED s3Vars
    <2>1. Following' /\ \A copy \in Copies' : \E old \in Copies : copy = Aged(old)
      BY <1>0, <1>5, PeriodEndsFollows
    <2>2. \A copy \in Copies' : Vouched(copy)'
      <3>1. \A copy : Aged(copy) # Absent /\ Aged(copy).lastSync = "recent" => FALSE
        BY DEF Aged
      <3> QED
        BY <2>1, <3>1 DEF Vouched
    <2>3. Ready' = Ready /\ \A b, settings : Has(b, settings)' = Has(b, settings)
      BY <1>5 DEF s3Vars, Ready, Has
    <2>4. inst'.name = inst.name /\ inst'.provisioned = inst.provisioned /\ inst'.lastSync # "recent"
      BY <1>0, <1>5, AbsentAssumption DEF PeriodEnds, Aged, Status
    <2>5. PlaceOK'
      BY <1>0, <1>5, <2>3, <2>4 DEF PeriodEnds, PlaceOK, Has, s3Vars
    <2> QED
      BY <2>1, <2>2, <2>5 DEF WorkInv
  <1>6. CASE LoopEnvironment /\ ~PeriodEnds /\ UNCHANGED s3Vars
    <2>1. Following' /\ Copies' \subseteq Copies \cup {EmptyStatus, Absent}
      BY <1>0, <1>6, LoopEnvironmentFollows
    <2>2. inst' = inst /\ (pc' = pc \/ pc' = "idle")
      BY <1>6 DEF LoopEnvironment, Restart, Deliver, Resync, CreateCR, DeleteCR, TouchCR
    <2>3. PlaceOK'
      BY <1>0, <1>6, <2>2 DEF PlaceOK, Ready, Has, s3Vars
    <2> QED
      BY <1>2, <2>1, <2>3 DEF WorkInv
  <1> QED
    BY <1>3, <1>4, <1>5, <1>6

\* The surroundings of S3 change no copy and no place; settings only grow.
LEMMA OutsideInv ==
  ASSUME IInv, UNCHANGED <<cr, watch, cache, queued, driver, pc, inst, fresh>>, [Next]_vars
  PROVE  WorkInv'
  <1>1. /\ Ready \subseteq Ready'
        /\ \A b \in Buckets, settings \in SUBSET Settings : Has(b, settings) => Has(b, settings)'
    BY ReadyGrows DEF IInv
  <1>2. Following' /\ Copies' = Copies
    BY DEF IInv, Following, Copies
  <1>3. \A copy \in Copies' : Vouched(copy)'
    BY <1>1, <1>2 DEF IInv, Vouched
  <1>4. pc = "block" => Has(inst.name, {"encryption"})'
    BY <1>1 DEF IInv, PlaceOK, NamedPCs, Settings
  <1>5. pc = "lifecycle" => Has(inst.name, {"encryption", "publicAccessBlock"})'
    BY <1>1 DEF IInv, PlaceOK, NamedPCs, Settings
  <1>6. PlaceOK'
    BY <1>1, <1>4, <1>5 DEF IInv, PlaceOK
  <1> QED
    BY <1>2, <1>3, <1>6 DEF WorkInv

\* The inductive invariant holds to begin with.
LEMMA InitInv == Init => IInv
  <1> SUFFICES ASSUME Init PROVE IInv
    OBVIOUS
  <1>1. Unowned
    BY DEF Init, Unowned, NoBucket, OldBucket
  <1>2. Following /\ PlaceOK
    BY DEF Init, LoopInit, Following, PlaceOK, SearchPCs, NamedPCs
  <1>3. Copies \subseteq {Absent, EmptyStatus}
    <2>1. {watch[i] : i \in DOMAIN watch} = {}
      BY DEF Init, LoopInit
    <2> QED
      BY <2>1 DEF Init, LoopInit, Copies
  <1>4. \A copy \in Copies : Vouched(copy)
    BY <1>3 DEF Vouched, EmptyStatus
  <1> QED
    BY <1>1, <1>2, <1>4, InitType DEF IInv

\* Every step keeps the inductive invariant.
LEMMA NextInv == IInv /\ [Next]_vars => IInv'
  <1> SUFFICES ASSUME IInv, [Next]_vars PROVE IInv'
    OBVIOUS
  <1>1. TypeOK' /\ Unowned'
    BY NextType, StepKeeps DEF IInv
  <1>2. WorkInv'
    <2>1. CASE Search \/ Enforce
      BY <2>1, SearchInv, EnforceInv
    <2>2. CASE \/ LoopStep /\ UNCHANGED s3Vars
               \/ Failure
               \/ LoopEnvironment /\ UNCHANGED s3Vars
      BY <2>2, LoopInv
    <2>3. CASE (\E b \in Buckets : Settle(b)) \/ Interference \/ UNCHANGED vars
      BY <2>3, OutsideInv DEF Settle, Interference, DeleteBucket, ForeignCreate, ChangeConfig,
           RemoveTags, Disturb, loopVars, vars
    <2> QED
      BY <2>1, <2>2, <2>3 DEF Next, Worker
  <1> QED
    BY <1>1, <1>2 DEF IInv, WorkInv

(***************************************************************************)
(* The inductive invariant holds.                                          *)
(***************************************************************************)
THEOREM Invariance == Spec => []IInv
  BY InitInv, NextInv, PTL DEF Spec

(***************************************************************************)
(* Whatever calls fail and whenever the operator dies, Reconcile goes on   *)
(* to provisionVelero only with a bucket that was given every setting, and *)
(* no copy of the status says so of another (README, step 4), for any      *)
(* number of buckets and disturbances.                                     *)
(***************************************************************************)
THEOREM GateTheorem == Spec => []GateHardened
  <1>1. IInv => GateHardened
    BY DEF IInv, GateHardened, Copies, PlaceOK
  <1> QED
    BY <1>1, Invariance, PTL

-----------------------------------------------------------------------------
\* Nothing but an update of the status by a Reconcile that works on what is stored
\* takes the contract's steps of the driver.
LEMMA ContractUpdate ==
  ASSUME IInv, NEW status \in Status, NEW next, next \notin {"down", "saveName"},
         pc \notin {"idle", "down"}, StatusUpdate(status, next), UNCHANGED <<cache, buckets, disturbed>>
  PROVE  /\ Ready' = Ready
         /\ cr' = cr \/ (fresh /\ cr \in Status /\ cr # Absent /\ cr' = status)
  <1>1. Ready' = Ready
    BY DEF Ready
  <1>2. cr' = cr \/ (fresh /\ cr' = status)
    BY StatusUpdateFollows DEF IInv, TypeOK
  <1> QED
    BY <1>1, <1>2 DEF IInv, Following, TypeOK, LoopTypeOK

\* Each status update of CreateStorage is one the contract allows, or none.
LEMMA ContractDriver ==
  ASSUME IInv, FindBucket \/ SaveName \/ AbandonName \/ MarkMissing \/ RecordSync
  PROVE  [Contract!ContractNext]_<<cr, Ready>>
  <1>0. inst \in Status /\ PlaceOK /\ Following /\ (pc \in SearchPCs \cup NamedPCs => inst.lastSync # "recent")
    BY DEF IInv, TypeOK, LoopTypeOK, PlaceOK
  <1>1. \A s \in Status : s.lastSync # "recent" => Contract!StorageBucketReconcileRequired(s)
    BY DEF Status, SyncAges, Contract!StorageBucketReconcileRequired
  <1> USE DEF SearchPCs, NamedPCs
  <1>2. CASE FindBucket
    <2>1. PICK existing \in FindMatchingTags(scan.tags, InfraName, NoName) :
            \/ /\ existing # NoName
               /\ StatusUpdate([inst EXCEPT !.name = existing, !.provisioned = TRUE], "head")
            \/ /\ existing = NoName
               /\ Goto("propose")
               /\ UNCHANGED apiVars
      BY <1>2 DEF FindBucket
    <2>2. CASE existing = NoName
      BY <1>2, <2>1, <2>2 DEF FindBucket, apiVars, Ready
    <2>3. CASE existing # NoName
      <3>1. existing \in Buckets
        BY <2>3, FindMatchingTagsType DEF IInv, TypeOK
      <3>2. PICK status \in Status : status = [inst EXCEPT !.name = existing, !.provisioned = TRUE]
        BY <1>0, <3>1 DEF Status
      <3>3. /\ Ready' = Ready
            /\ cr' = cr \/ (fresh /\ cr \in Status /\ cr # Absent /\ cr' = status)
        BY <1>2, <2>1, <2>3, <3>2, ContractUpdate DEF FindBucket
      <3>4. fresh => inst = cr /\ cr.name = NoName /\ inst.lastSync # "recent"
        BY <1>0, <1>2 DEF FindBucket, Following, PlaceOK
      <3>5. cr' # cr => Contract!Choose(existing)
        BY <1>1, <3>2, <3>3, <3>4 DEF Contract!Choose, Contract!Update
      <3> QED
        BY <3>1, <3>3, <3>5 DEF Contract!ContractNext
    <2> QED
      BY <2>2, <2>3
  <1>3. CASE SaveName
    <2>1. PICK status \in Status : status = inst
      BY <1>0
    <2>2. /\ Ready' = Ready
          /\ cr' = cr \/ (fresh /\ cr \in Status /\ cr # Absent /\ cr' = status)
      BY <1>3, <2>1, ContractUpdate DEF SaveName, s3Vars
    <2>3. fresh => /\ cr.name = NoName /\ inst.name \in Buckets
                   /\ inst = [cr EXCEPT !.name = inst.name, !.provisioned = FALSE]
      BY <1>0, <1>3 DEF SaveName, Following, PlaceOK
    <2>4. cr' # cr => Contract!Choose(inst.name)
      <3> SUFFICES ASSUME cr' # cr PROVE Contract!Choose(inst.name)
        OBVIOUS
      <3>1. Contract!StorageBucketReconcileRequired(cr)
        BY <2>2, <2>3 DEF Contract!StorageBucketReconcileRequired
      <3> QED
        BY <2>1, <2>2, <2>3, <3>1 DEF Contract!Choose, Contract!Update
    <2> QED
      BY <2>2, <2>3, <2>4 DEF Contract!ContractNext
  <1>4. CASE AbandonName
    <2>1. PICK status \in Status : status = [inst EXCEPT !.name = NoName]
      BY <1>0 DEF Status
    <2>2. /\ Ready' = Ready
          /\ cr' = cr \/ (fresh /\ cr \in Status /\ cr # Absent /\ cr' = status)
      BY <1>4, <2>1, ContractUpdate DEF AbandonName, s3Vars
    <2>3. fresh => /\ inst = cr /\ cr.name # NoName /\ ~cr.provisioned /\ inst.lastSync # "recent"
      BY <1>0, <1>4, NoNameAssumption DEF AbandonName, Following, PlaceOK
    <2>4. cr' # cr => Contract!GiveUp
      BY <1>1, <2>1, <2>2, <2>3 DEF Contract!GiveUp, Contract!Update
    <2> QED
      BY <2>2, <2>4 DEF Contract!ContractNext
  <1>5. CASE MarkMissing
    <2>1. PICK status \in Status : status = [inst EXCEPT !.provisioned = FALSE]
      BY <1>0 DEF Status
    <2>2. /\ Ready' = Ready
          /\ cr' = cr \/ (fresh /\ cr \in Status /\ cr # Absent /\ cr' = status)
      BY <1>5, <2>1, ContractUpdate DEF MarkMissing, s3Vars
    <2>3. fresh => /\ inst = cr /\ cr.name # NoName /\ inst.lastSync # "recent"
      BY <1>0, <1>5, NoNameAssumption DEF MarkMissing, Following, PlaceOK
    <2>4. cr' # cr => Contract!Lose
      BY <1>1, <2>1, <2>2, <2>3 DEF Contract!Lose, Contract!Update
    <2> QED
      BY <2>2, <2>4 DEF Contract!ContractNext
  <1>6. CASE RecordSync
    <2>1. PICK status \in Status : status = [inst EXCEPT !.provisioned = TRUE, !.lastSync = "recent"]
      BY <1>0 DEF Status, SyncAges
    <2>2. /\ Ready' = Ready
          /\ cr' = cr \/ (fresh /\ cr \in Status /\ cr # Absent /\ cr' = status)
      BY <1>6, <2>1, ContractUpdate DEF RecordSync, s3Vars
    <2>3. fresh => /\ inst = cr /\ cr.name \in Ready /\ inst.lastSync # "recent"
      BY <1>0, <1>6 DEF RecordSync, Following, PlaceOK
    <2>4. cr' # cr => Contract!Sync
      BY <1>1, <2>1, <2>2, <2>3 DEF Contract!Sync, Contract!Update
    <2> QED
      BY <2>2, <2>4 DEF Contract!ContractNext
  <1> QED
    BY <1>2, <1>3, <1>4, <1>5, <1>6

\* A step that does not write the status prepares the bucket, if anything.
LEMMA ContractQuiet ==
  ASSUME IInv, [Next]_vars, cr' = cr
  PROVE  [Contract!ContractNext]_<<cr, Ready>>
  <1>1. Ready \subseteq Ready' /\ Ready' \in SUBSET Buckets
    BY ReadyGrows DEF IInv, Ready
  <1>2. Contract!Prepare
    BY <1>1 DEF Contract!Prepare
  <1> QED
    BY <1>2 DEF Contract!ContractNext

\* Every step maps to a step of the contract or to none.
LEMMA ContractStep ==
  ASSUME IInv, [Next]_vars
  PROVE  [Contract!ContractNext]_<<cr, Ready>>
  <1>0. LoopTypeOK(S3PCs) /\ Following
    BY DEF IInv, TypeOK
  <1>1. CASE FindBucket \/ SaveName \/ AbandonName \/ MarkMissing \/ RecordSync
    BY <1>1, ContractDriver
  <1>2. CASE LoopStep \/ Failure
    BY <1>0, <1>2, LoopStepFollows, LoopFailureFollows, ContractQuiet DEF Failure
  <1>3. CASE PeriodEnds /\ UNCHANGED s3Vars
    <2>1. cr' = Aged(cr) /\ Ready' = Ready
      BY <1>3 DEF PeriodEnds, s3Vars, Ready
    <2>2. cr' # cr => Contract!Expire
      BY <2>1 DEF Aged, Contract!Aged, Contract!Expire
    <2> QED
      BY <2>1, <2>2 DEF Contract!ContractNext
  <1>4. CASE LoopEnvironment /\ ~PeriodEnds /\ UNCHANGED s3Vars
    <2>1. cr' = cr \/ cr' = Absent \/ (cr = Absent /\ cr' = EmptyStatus)
      BY <1>0, <1>4, LoopEnvironmentFollows
    <2>2. Ready' = Ready
      BY <1>4 DEF s3Vars, Ready
    <2>3. cr' # cr => Contract!Create \/ Contract!Delete
      BY <2>1, <2>2 DEF Contract!Create, Contract!Delete, EmptyStatus, Contract!EmptyStatus
    <2> QED
      BY <2>2, <2>3 DEF Contract!ContractNext
  <1>5. CASE \/ ListBuckets \/ ListBucketTags \/ NewS3Client \/ CreateBucket \/ ClearBucketTags
             \/ TagBucket \/ StorageExists \/ EncryptBucket \/ BlockBucketPublicAccess
             \/ SetBucketLifecycle
             \/ \E b \in Buckets : GetBucketLocation(b) \/ GetBucketTagging(b) \/ ProposeName(b)
    BY <1>5, ContractQuiet DEF Rest, Write, ListBuckets, ListBucketTags, NewS3Client, CreateBucket,
         ClearBucketTags, TagBucket, StorageExists, EncryptBucket, BlockBucketPublicAccess,
         SetBucketLifecycle, GetBucketLocation, GetBucketTagging, Skip, Denied, ProposeName
  <1>6. CASE (\E b \in Buckets : Settle(b)) \/ Interference \/ UNCHANGED vars
    BY <1>6, ContractQuiet DEF Settle, Interference, DeleteBucket, ForeignCreate, ChangeConfig,
         RemoveTags, Disturb, loopVars, vars
  <1> QED
    BY <1>1, <1>2, <1>3, <1>4, <1>5, <1>6 DEF Next, Worker, Search, Enforce

(***************************************************************************)
(* The reconcile loop with the S3 driver implements the storage contract:  *)
(* every change of the stored status is one the contract allows, however   *)
(* stale the copy was from which Reconcile set out.                        *)
(***************************************************************************)
THEOREM ContractTheorem == Spec => ImplementsContract
  <1>1. Init => Contract!ContractInit
    BY DEF Init, LoopInit, Contract!ContractInit, Ready
  <1>2. IInv /\ [Next]_vars => [Contract!ContractNext]_(Contract!contractVars)
    BY ContractStep DEF Contract!contractVars
  <1> QED
    BY <1>1, <1>2, Invariance, PTL DEF Spec, ImplementsContract, Contract!ContractSpec
=============================================================================
