--------------------------- MODULE S3SearchProofs ---------------------------
(***************************************************************************)
(* Proofs about the S3 driver's search for a bucket, on the invariant of   *)
(* S3Proofs: where the operator comes to rest, and how many buckets carry  *)
(* the cluster's tags.                                                     *)
(***************************************************************************)
EXTENDS S3Proofs

(***************************************************************************)
(* RestsOnlyWhenMissing is not inductive.  It takes that a Reconcile with  *)
(* nothing behind it, in the queue or on the way to the informer, works on *)
(* what is stored: what it leaves is then what it has just written or      *)
(* found.                                                                  *)
(***************************************************************************)
RestsInv ==
    /\ pc \notin {"idle", "down"} /\ ~queued /\ watch = <<>> /\ cr # Absent => fresh
    /\ pc = "provision" => inst.lastSync # "unset"
    /\ RestsOnlyWhenMissing

\* A Reconcile that goes on, or asks to run again, comes to no rest.
LEMMA CallRests ==
  ASSUME RestsInv, pc \notin {"idle", "down"}, UNCHANGED <<cr, watch>>,
         NEW next, next \notin {"idle", "down", "provision"}, Goto(next) \/ Return(TRUE)
  PROVE  RestsInv'
  BY DEF RestsInv, RestsOnlyWhenMissing, Quiet, Goto, Return

\* An update of the status leaves an event, or a retry, or what was there before.
LEMMA UpdateRests ==
  ASSUME IInv, RestsInv, NEW status \in Status, NEW next, next \notin {"down", "provision"},
         pc \notin {"idle", "down"}, StatusUpdate(status, next),
         fresh /\ status = cr /\ next = "idle" => cr.name # NoName /\ ~cr.provisioned
  PROVE  RestsInv'
  <1>0. watch \in Seq(Versions) /\ status \in Versions
    BY DEF IInv, TypeOK, LoopTypeOK, Versions
  <1>1. CASE fresh /\ status = cr
    BY <1>1 DEF StatusUpdate, Return, apiVars, RestsInv, RestsOnlyWhenMissing, Quiet
  <1>2. CASE fresh /\ status # cr
    <2>1. watch' # <<>> /\ pc' # "provision"
      BY <1>0, <1>2, AppendLast DEF StatusUpdate, Publish, Return
    <2> QED
      BY <2>1 DEF RestsInv, RestsOnlyWhenMissing, Quiet
  <1>3. CASE ~fresh
    BY <1>3 DEF StatusUpdate, Return, RestsInv, RestsOnlyWhenMissing, Quiet
  <1> QED
    BY <1>1, <1>2, <1>3

\* The calls of CreateStorage.
LEMMA DriverRests == IInv /\ RestsInv /\ (Search \/ Enforce) => RestsInv'
  <1> SUFFICES ASSUME IInv, RestsInv, Search \/ Enforce PROVE RestsInv'
    OBVIOUS
  <1>0. inst \in Status /\ PlaceOK /\ Following /\ TypeOK
    BY DEF IInv, TypeOK, LoopTypeOK
  <1> USE DEF SearchPCs, NamedPCs
  <1>1. CASE ListBuckets \/ ListBucketTags \/ \E b \in Buckets : GetBucketLocation(b) \/ GetBucketTagging(b)
    <2>1. PICK next \in {"locate", "tags"} : Goto(next) \/ Return(TRUE)
      BY <1>1 DEF ListBuckets, ListBucketTags, GetBucketLocation, GetBucketTagging, Skip, Denied
    <2>2. UNCHANGED <<cr, watch>> /\ pc \in {"list", "locate", "tags"}
      BY <1>1 DEF ListBuckets, ListBucketTags, GetBucketLocation, GetBucketTagging, Skip, Denied, Rest
    <2> QED
      BY <2>1, <2>2, CallRests
  <1>2. CASE FindBucket
    <2>1. PICK existing \in FindMatchingTags(scan.tags, InfraName, NoName) :
            \/ /\ existing # NoName
               /\ StatusUpdate([inst EXCEPT !.name = existing, !.provisioned = TRUE], "head")
            \/ /\ existing = NoName
               /\ Goto("propose")
               /\ UNCHANGED apiVars
      BY <1>2 DEF FindBucket
    <2>2. CASE existing = NoName
      <3>1. PICK next \in {"propose"} : Goto(next)
        BY <2>1, <2>2
      <3> QED
        BY <1>2, <2>1, <2>2, <3>1, CallRests DEF FindBucket, apiVars
    <2>3. CASE existing # NoName
      <3>1. PICK status \in Status : status = [inst EXCEPT !.name = existing, !.provisioned = TRUE]
        BY <1>0, FindMatchingTagsType DEF TypeOK, Status
      <3>2. PICK next \in {"head"} : StatusUpdate(status, next)
        BY <2>1, <2>3, <3>1
      <3> QED
        BY <1>2, <3>2, UpdateRests DEF FindBucket
    <2> QED
      BY <2>2, <2>3
  <1>3. CASE SaveName
    <2>1. PICK next \in {"head"} : StatusUpdate(inst, next)
      BY <1>3 DEF SaveName
    <2> QED
      BY <1>0, <1>3, <2>1, UpdateRests DEF SaveName
  <1>4. ASSUME NEW n \in Buckets, ProposeName(n) PROVE RestsInv'
    <2>1. CASE pc' = "saveName"
      BY <1>4, <2>1 DEF ProposeName, Return, RestsInv, RestsOnlyWhenMissing, Quiet
    <2>2. CASE pc' # "saveName"
      <3>1. Return(TRUE)
        BY <1>4, <2>2 DEF ProposeName
      <3> QED
        BY <3>1 DEF Return, RestsInv, RestsOnlyWhenMissing, Quiet
    <2> QED
      BY <2>1, <2>2
  <1>5. CASE NewS3Client \/ CreateBucket \/ StorageExists
    <2>1. PICK next \in {"list", "create", "head", "clearNewTags", "abandon", "encrypt", "missing"} :
            Goto(next) \/ Return(TRUE)
      BY <1>5 DEF NewS3Client, CreateBucket, StorageExists
    <2>2. UNCHANGED <<cr, watch>> /\ pc \in {"storage", "create", "head"}
      BY <1>5 DEF NewS3Client, CreateBucket, StorageExists, Rest
    <2> QED
      BY <2>1, <2>2, CallRests
  <1>6. CASE \/ ClearBucketTags \/ TagBucket \/ EncryptBucket \/ BlockBucketPublicAccess
             \/ SetBucketLifecycle
    <2>1. PICK next \in {"putNewTags", "putTags", "head", "sync", "block", "lifecycle", "clearTags"} :
            Goto(next) \/ Return(TRUE)
      BY <1>6 DEF ClearBucketTags, TagBucket, EncryptBucket, BlockBucketPublicAccess,
           SetBucketLifecycle, Write
    <2>2. UNCHANGED <<cr, watch>> /\ pc \notin {"idle", "down"}
      BY <1>6 DEF ClearBucketTags, TagBucket, EncryptBucket, BlockBucketPublicAccess,
           SetBucketLifecycle, Write, Rest
    <2> QED
      BY <2>1, <2>2, CallRests
  <1>7. CASE AbandonName
    <2>1. PICK status \in Status : status = [inst EXCEPT !.name = NoName]
      BY <1>0 DEF Status
    <2>2. fresh => status # cr
      BY <1>0, <1>7, <2>1, NoNameAssumption DEF AbandonName, Following, PlaceOK, Status
    <2> QED
      BY <1>7, <2>1, <2>2, UpdateRests DEF AbandonName
  <1>8. CASE MarkMissing
    <2>1. PICK status \in Status : status = [inst EXCEPT !.provisioned = FALSE]
      BY <1>0 DEF Status
    <2>2. ~status.provisioned /\ status.name # NoName
      BY <1>0, <1>8, <2>1, NoNameAssumption DEF MarkMissing, PlaceOK, Status
    <2> QED
      BY <1>8, <2>1, <2>2, UpdateRests DEF MarkMissing
  <1>9. CASE RecordSync
    <2>1. PICK status \in Status : status = [inst EXCEPT !.provisioned = TRUE, !.lastSync = "recent"]
      BY <1>0 DEF Status, SyncAges
    <2>2. fresh => status # cr
      BY <1>0, <1>9, <2>1 DEF RecordSync, Following, PlaceOK, Status
    <2> QED
      BY <1>9, <2>1, <2>2, UpdateRests DEF RecordSync
  <1> QED
    BY <1>1, <1>2, <1>3, <1>4, <1>5, <1>6, <1>7, <1>8, <1>9 DEF Search, Enforce

\* The reconcile loop, its failures and its surroundings.
LEMMA LoopRests ==
  ASSUME IInv, RestsInv, LoopStep \/ LoopFailure \/ LoopEnvironment
  PROVE  RestsInv'
  <1>0. /\ inst \in Status /\ PlaceOK /\ Following /\ LoopTypeOK(S3PCs) /\ watch \in Seq(Versions)
        /\ cr \in Versions /\ EmptyStatus \in Versions /\ Absent \in Versions
    BY EmptyStatusType DEF IInv, TypeOK, LoopTypeOK, Versions
  <1> USE DEF RestsInv, RestsOnlyWhenMissing, Quiet
  <1>1. CASE Fetch
    <2>1. CASE cache = Absent
      BY <1>0, <1>1, <2>1 DEF Fetch, Following
    <2>2. CASE cache # Absent
      BY <1>1, <2>2, Zenon DEF Fetch
    <2> QED
      BY <2>1, <2>2
  <1>2. CASE ChooseWork
    <2>1. pc' = "provision" => ~StorageBucketReconcileRequired(inst)
      BY <1>2 DEF ChooseWork, Goto
    <2> QED
      BY <1>2, <2>1 DEF ChooseWork, Goto, StorageBucketReconcileRequired
  <1>3. CASE ProvisionVelero
    <2>1. fresh => cr = inst
      BY <1>0, <1>3 DEF ProvisionVelero, Following
    <2>2. inst.name # NoName /\ inst.lastSync # "unset"
      BY <1>0, <1>3, NoNameAssumption DEF ProvisionVelero, PlaceOK, Ready, RestsInv
    <2> QED
      BY <1>3, <2>1, <2>2 DEF ProvisionVelero, Return
  <1>4. CASE CallFails \/ Crash
    BY <1>4 DEF CallFails, Crash, Return
  <1>5. CASE Restart \/ Deliver \/ Resync
    BY <1>5 DEF Restart, Deliver, Resync
  <1>6. CASE CreateCR \/ DeleteCR \/ TouchCR
    <2>1. PICK version \in Versions : Publish(version)
      BY <1>0, <1>6 DEF CreateCR, DeleteCR, TouchCR
    <2>2. pc' = pc /\ inst' = inst
      BY <1>6 DEF CreateCR, DeleteCR, TouchCR
    <2>3. pc # "down" => watch' # <<>>
      BY <1>0, <2>1, AppendLast DEF Publish
    <2> QED
      BY <2>2, <2>3
  <1>7. CASE PeriodEnds
    <2>1. watch' = <<>> => watch = <<>>
      BY <1>0, <1>7, AgedWatch, EmptySeq, LenProperties DEF PeriodEnds
    <2>2. cr # Absent => cr \in Status
      BY <1>0 DEF Versions
    <2>3. \A s \in Status : /\ Aged(s).name = s.name /\ Aged(s).provisioned = s.provisioned
                            /\ Aged(s).lastSync = "unset" => s.lastSync = "unset"
      BY AbsentAssumption DEF Aged, Status
    <2>4. cr' # Absent => cr # Absent
      BY <1>7 DEF PeriodEnds, Aged
    <2>5. UNCHANGED <<pc, queued, fresh>> /\ cr' = Aged(cr) /\ inst' = Aged(inst)
      BY <1>7 DEF PeriodEnds
    <2> QED
      BY <1>0, <2>1, <2>2, <2>3, <2>4, <2>5
  <1> QED
    BY <1>1, <1>2, <1>3, <1>4, <1>5, <1>6, <1>7 DEF LoopStep, LoopFailure, LoopEnvironment

(***************************************************************************)
(* Reconcile: "Always return from this, as we will either be updating the  *)
(* status *or* there will be an error".  With nothing queued, running or   *)
(* on the way to the informer, a bucket has been chosen, and it is synced  *)
(* unless it was found missing, whatever calls failed and for any number   *)
(* of crashes, deletions and changes by others.                            *)
(***************************************************************************)
THEOREM RestTheorem == Spec => []RestsOnlyWhenMissing
  <1>1. Init => RestsInv
    BY DEF Init, LoopInit, RestsInv, RestsOnlyWhenMissing, Quiet
  <1>2. IInv /\ RestsInv /\ [Next]_vars => RestsInv'
    <2> SUFFICES ASSUME IInv, RestsInv, [Next]_vars PROVE RestsInv'
      OBVIOUS
    <2>1. CASE (\E b \in Buckets : Settle(b)) \/ Interference \/ UNCHANGED vars
      <3>1. UNCHANGED <<cr, watch, queued, pc, inst, fresh>>
        BY <2>1 DEF Settle, Interference, DeleteBucket, ForeignCreate, ChangeConfig, RemoveTags,
             Disturb, loopVars, vars
      <3> QED
        BY <3>1 DEF RestsInv, RestsOnlyWhenMissing, Quiet
    <2> QED
      BY <2>1, DriverRests, LoopRests DEF Next, Worker, Failure
  <1>3. RestsInv => RestsOnlyWhenMissing
    BY DEF RestsInv
  <1> QED
    BY <1>1, <1>2, <1>3, Invariance, PTL DEF Spec
-----------------------------------------------------------------------------
\* Where no other cluster shares the account, tags are this cluster's or none.
TagsOK ==
    \A b \in Buckets :
        /\ buckets[b].tags \in {{}, VeleroTags(InfraName)}
        /\ buckets[b].tags # {} => buckets[b].owner = "us"

\* Buckets whose tags the search has read.
Read == {b \in Buckets : scan.tags[b] # {}}

\* The search, however long it takes, loses no tagged bucket but those it misses, and
\* finds no second one.
ScanInv ==
    /\ \A b \in Buckets : scan.tags[b] \in {{}, VeleroTags(InfraName)}
    /\ pc \in {"locate", "tags"} => \A b \in scan.kept : buckets[b].here \/ buckets[b].tags = {}
    /\ pc = "locate" => Tagged \ missed \subseteq scan.todo \cup scan.kept /\ Read = {}
    /\ pc = "tags" => /\ scan.todo \subseteq scan.kept
                      /\ Tagged \ missed \subseteq scan.todo \cup Read
                      /\ Single((Tagged \cup Read) \ missed)

(***************************************************************************)
(* The inductive invariant of OneBucketPerCluster: apart from the buckets  *)
(* that a search has missed, all names in circulation and all tagged       *)
(* buckets are one and the same, and a name is chosen only where there is  *)
(* neither.                                                                *)
(***************************************************************************)
NameInv ==
    /\ TagsOK
    /\ ScanInv
    /\ Alone
    /\ Single((Given \cup Tagged) \ missed)
    /\ pc \in {"propose", "saveName"} => Tagged \subseteq missed

\* The cluster's tags are not none.
LEMMA SomeTags == VeleroTags(InfraName) # {}
  BY DEF VeleroTags

\* What FindMatchingTags makes of such tags: a bucket that has them, or none has.
LEMMA FindTagged ==
  ASSUME NEW tags \in [Buckets -> {{}, VeleroTags(InfraName)}],
         NEW existing \in FindMatchingTags(tags, InfraName, NoName)
  PROVE  \/ existing \in Buckets /\ tags[existing] # {}
         \/ existing = NoName /\ \A b \in Buckets : tags[b] = {}
  <1> DEFINE clusterHits == {b \in Buckets : \E tag \in tags[b] : MatchesCluster(tag, InfraName)}
             veleroHits == {b \in Buckets : \E tag \in tags[b] : MatchesVelero(tag)}
  <1>1. existing \in IF clusterHits # {} /\ veleroHits # {} THEN clusterHits \cup veleroHits ELSE {NoName}
    BY DEF FindMatchingTags
  <1>2. \A b \in Buckets : tags[b] # {} => b \in clusterHits /\ b \in veleroHits
    <2>1. /\ \E tag \in VeleroTags(InfraName) : MatchesCluster(tag, InfraName)
          /\ \E tag \in VeleroTags(InfraName) : MatchesVelero(tag)
      BY DEF VeleroTags, MatchesCluster, MatchesVelero
    <2> QED
      BY <2>1
  <1>3. \A b \in clusterHits \cup veleroHits : b \in Buckets /\ tags[b] # {}
    OBVIOUS
  <1> HIDE DEF clusterHits, veleroHits
  <1> QED
    BY <1>1, <1>2, <1>3

(***************************************************************************)
(* What a step can do to the tags: nothing; or one bucket loses them; or   *)
(* CreateStorage tags the bucket of its instance.                          *)
(***************************************************************************)
Alike(b) ==
    /\ buckets'[b].tags = buckets[b].tags
    /\ buckets'[b].here = buckets[b].here
    /\ buckets'[b].owner = buckets[b].owner

Wipes(d) == buckets'[d].tags = {} /\ \A b \in Buckets \ {d} : Alike(b)

Puts ==
    /\ pc \in {"putNewTags", "putTags"}
    /\ pc' \in {"head", "sync"}
    /\ inst.name \in Buckets
    /\ buckets'[inst.name].tags = VeleroTags(InfraName)
    /\ buckets'[inst.name].owner = "us"
    /\ \A b \in Buckets \ {inst.name} : Alike(b)

TagStep == (\A b \in Buckets : Alike(b)) \/ (\E d \in Buckets : Wipes(d)) \/ Puts

\* A write of CreateStorage that concerns the settings leaves the tags.
LEMMA ConfigStep ==
  ASSUME buckets \in [Buckets -> Bucket], inst.name \in Buckets, NEW setting, NEW next,
         Write([buckets[inst.name] EXCEPT !.config = @ \cup {setting}], next)
  PROVE  \A b \in Buckets : Alike(b)
  <1>1. CASE buckets' = [buckets EXCEPT ![inst.name] = [buckets[inst.name] EXCEPT !.config = @ \cup {setting}]]
    <2>1. buckets[inst.name] \in Bucket
      OBVIOUS
    <2> QED
      BY <1>1, <2>1 DEF Alike, Bucket
  <1>2. CASE UNCHANGED buckets
    BY <1>2 DEF Alike
  <1> QED
    BY <1>1, <1>2 DEF Write

\* These are all the ways in which a step touches the tags.
LEMMA NextTags == IInv /\ [Next]_vars => TagStep
  <1> SUFFICES ASSUME IInv, [Next]_vars PROVE TagStep
    OBVIOUS
  <1>0. /\ buckets \in [Buckets -> Bucket] /\ PlaceOK
        /\ pc \in NamedPCs => inst.name \in Buckets /\ buckets[inst.name] \in Bucket
    BY DEF IInv, TypeOK, PlaceOK
  <1>1. CASE UNCHANGED buckets
    BY <1>1 DEF TagStep, Alike
  <1> USE DEF NamedPCs
  <1>2. CASE CreateBucket
    <2>1. ASSUME NEW seen \in BOOLEAN, buckets' = [buckets EXCEPT ![inst.name] = NewBucket(seen)]
          PROVE  Wipes(inst.name)
      <3>1. NewBucket(seen).tags = {} /\ inst.name \in Buckets
        BY <1>0, <1>2 DEF NewBucket, NoBucket, CreateBucket
      <3> QED
        BY <1>0, <2>1, <3>1 DEF Wipes, Alike
    <2> QED
      BY <1>0, <1>1, <1>2, <2>1 DEF CreateBucket, TagStep
  <1>3. CASE ClearBucketTags
    <2>1. CASE ~UNCHANGED buckets
      <3>1. buckets' = [buckets EXCEPT ![inst.name] = [buckets[inst.name] EXCEPT !.tags = {}]]
        BY <1>3, <2>1 DEF ClearBucketTags, Write
      <3>2. inst.name \in Buckets /\ buckets[inst.name] \in Bucket
        BY <1>0, <1>3 DEF ClearBucketTags
      <3> QED
        BY <1>0, <3>1, <3>2 DEF TagStep, Wipes, Alike, Bucket
    <2> QED
      BY <1>1, <2>1
  <1>4. CASE TagBucket
    <2>1. CASE ~UNCHANGED buckets
      <3>1. /\ buckets' = [buckets EXCEPT ![inst.name] =
                             [buckets[inst.name] EXCEPT !.tags = VeleroTags(InfraName)]]
            /\ pc \in {"putNewTags", "putTags"} /\ pc' \in {"head", "sync"} /\ Accessible(inst.name)
        BY <1>4, <2>1 DEF TagBucket, Write, Goto
      <3>2. inst.name \in Buckets /\ buckets[inst.name] \in Bucket
        BY <1>0, <1>4 DEF TagBucket
      <3> QED
        BY <1>0, <3>1, <3>2 DEF TagStep, Puts, Alike, Bucket, Accessible
    <2> QED
      BY <1>1, <2>1
  <1>5. CASE EncryptBucket
    BY <1>0, <1>5, ConfigStep DEF EncryptBucket, TagStep
  <1>6. CASE BlockBucketPublicAccess
    BY <1>0, <1>6, ConfigStep DEF BlockBucketPublicAccess, TagStep
  <1>7. CASE SetBucketLifecycle
    BY <1>0, <1>7, ConfigStep DEF SetBucketLifecycle, TagStep
  <1>8. ASSUME NEW b \in Buckets, Settle(b) PROVE TagStep
    BY <1>0, <1>8 DEF Settle, TagStep, Alike, Bucket
  <1>9. ASSUME NEW d \in Buckets, DeleteBucket(d) \/ ForeignCreate(d) PROVE TagStep
    <2>1. NoBucket.tags = {} /\ ForeignBucket.tags = {}
      BY DEF NoBucket, ForeignBucket
    <2> QED
      BY <1>0, <1>9, <2>1 DEF DeleteBucket, ForeignCreate, Disturb, TagStep, Wipes, Alike
  <1>10. ASSUME NEW d \in Buckets, ChangeConfig(d) PROVE TagStep
    BY <1>0, <1>10 DEF ChangeConfig, Disturb, TagStep, Alike, Bucket
  <1>11. ASSUME NEW d \in Buckets, RemoveTags(d) PROVE TagStep
    <2>1. buckets' = [buckets EXCEPT ![d] = [buckets[d] EXCEPT !.tags = {}]] /\ buckets[d] \in Bucket
      BY <1>0, <1>11 DEF RemoveTags, Disturb
    <2> QED
      BY <1>0, <2>1 DEF TagStep, Wipes, Alike, Bucket
  <1>12. CASE Search
    BY <1>1, <1>12 DEF Search, ListBuckets, ListBucketTags, FindBucket, SaveName, GetBucketLocation,
         GetBucketTagging, Skip, Denied, ProposeName, s3Vars
  <1>13. CASE \/ NewS3Client \/ AbandonName \/ StorageExists \/ MarkMissing \/ RecordSync
              \/ Failure \/ (LoopStep /\ UNCHANGED s3Vars) \/ (LoopEnvironment /\ UNCHANGED s3Vars)
              \/ UNCHANGED vars
    BY <1>1, <1>13 DEF NewS3Client, AbandonName, StorageExists, MarkMissing, RecordSync, Failure,
         s3Vars, vars
  <1> QED
    BY <1>2, <1>3, <1>4, <1>5, <1>6, <1>7, <1>8, <1>9, <1>10, <1>11, <1>12, <1>13
    DEF Next, Worker, Enforce, Interference

\* So the tags stay as they should be, and only CreateStorage tags a bucket.
LEMMA TaggedStep ==
  ASSUME TagsOK, TagStep
  PROVE  /\ TagsOK'
         /\ Tagged' \subseteq Tagged \/ (Puts /\ Tagged' \subseteq Tagged \cup {inst.name})
  <1>1. CASE \A b \in Buckets : Alike(b)
    BY <1>1 DEF Alike, TagsOK, Tagged
  <1>2. ASSUME NEW d \in Buckets, Wipes(d) PROVE TagsOK' /\ Tagged' \subseteq Tagged
    BY <1>2, SomeTags DEF Wipes, Alike, TagsOK, Tagged
  <1>3. CASE Puts
    BY <1>3 DEF Puts, Alike, TagsOK, Tagged
  <1> QED
    BY <1>1, <1>2, <1>3 DEF TagStep

\* What a search has missed is not forgotten.
LEMMA MissedGrows ==
  ASSUME [Next]_vars
  PROVE  missed \subseteq missed'
  <1>1. CASE Search
    BY <1>1 DEF Search, ListBuckets, ListBucketTags, FindBucket, SaveName, GetBucketLocation,
         GetBucketTagging, Skip, Denied, ProposeName, s3Vars
  <1>2. CASE Enforce
    BY <1>2 DEF Enforce, NewS3Client, CreateBucket, AbandonName, ClearBucketTags, TagBucket, Write,
         StorageExists, MarkMissing, EncryptBucket, BlockBucketPublicAccess, SetBucketLifecycle,
         RecordSync, s3Vars
  <1>3. CASE ~Search /\ ~Enforce
    BY <1>3 DEF Next, Worker, Failure, Settle, Interference, DeleteBucket, ForeignCreate,
         ChangeConfig, RemoveTags, Disturb, s3Vars, vars
  <1> QED
    BY <1>1, <1>2, <1>3

\* A step that is not one of the search's leaves what it has found out.
LEMMA ScanKept ==
  ASSUME IInv, NameInv, TagStep, missed \subseteq missed', scan' = scan \/ scan' = NoScan,
         pc' \in {"locate", "tags"} => pc' = pc /\ scan' = scan
  PROVE  ScanInv'
  <1>1. \A b \in Buckets : scan'.tags[b] \in {{}, VeleroTags(InfraName)}
    BY DEF NameInv, ScanInv, NoScan
  <1>2. CASE pc' \in {"locate", "tags"}
    <2>1. ~Puts
      BY <1>2 DEF Puts
    <2>2. Tagged' \subseteq Tagged /\ scan' = scan /\ Read' = Read
      BY <1>2, <2>1, TaggedStep DEF NameInv, Read
    <2>3. \A b \in Buckets : buckets[b].here \/ buckets[b].tags = {}
                               => buckets'[b].here \/ buckets'[b].tags = {}
      BY <2>1 DEF TagStep, Wipes, Alike
    <2>4. Single((Tagged \cup Read) \ missed) => Single((Tagged \cup Read) \ missed)'
      BY <2>2 DEF Single
    <2>5. scan.kept \subseteq Buckets
      BY DEF IInv, TypeOK
    <2> QED
      BY <1>1, <1>2, <2>2, <2>3, <2>4, <2>5 DEF NameInv, ScanInv
  <1>3. CASE pc' \notin {"locate", "tags"}
    BY <1>1, <1>3 DEF ScanInv
  <1> QED
    BY <1>2, <1>3

\* The instance's name is in circulation, once it is more than proposed.
LEMMA InstGiven ==
  ASSUME IInv, pc \in NamedPCs \ {"saveName"}
  PROVE  inst.name \in Given
  BY AbsentAssumption, NoNameAssumption
  DEF IInv, TypeOK, LoopTypeOK, PlaceOK, Given, Held, NamesOf

\* A step that neither puts a name into circulation nor chooses one.
LEMMA NamesKept ==
  ASSUME IInv, NameInv, [Next]_vars, ScanInv', Alone', Given' \subseteq Given,
         pc' \in {"propose", "saveName"} => Tagged \subseteq missed
  PROVE  NameInv'
  <1>1. TagsOK' /\ (Tagged' \subseteq Tagged \/ (Puts /\ Tagged' \subseteq Tagged \cup {inst.name}))
    BY NextTags, TaggedStep DEF NameInv
  <1>2. /\ Puts => inst.name \in Given /\ pc' \notin {"propose", "saveName"}
        /\ missed \subseteq missed'
    BY InstGiven, MissedGrows DEF Puts, NamedPCs
  <1>3. Single((Given \cup Tagged) \ missed)'
    BY <1>1, <1>2 DEF NameInv, Single
  <1>4. pc' \in {"propose", "saveName"} => Tagged' \subseteq missed'
    BY <1>1, <1>2
  <1> QED
    BY <1>1, <1>3, <1>4 DEF NameInv

\* An update of the status with the name in hand, or with one that is the first.
LEMMA NamesUpdated ==
  ASSUME IInv, NameInv, [Next]_vars, NEW status \in Status, NEW next,
         next \notin ChoosingPCs \cup {"down"}, pc \notin {"idle", "down"},
         StatusUpdate(status, next), UNCHANGED <<cache, buckets>>, scan' = scan \/ scan' = NoScan,
         \/ status.name \in Given \cup {NoName}
         \/ fresh => Given = {} /\ Single((Tagged \cup {status.name}) \ missed)
  PROVE  NameInv'
  <1>1. Alone' /\ Given' \subseteq Given \cup (IF fresh THEN {status.name} \ {NoName} ELSE {})
    BY StatusUpdateGives DEF IInv, NameInv, TypeOK
  <1>2. TagsOK' /\ Tagged' = Tagged
    BY DEF NameInv, TagsOK, Tagged
  <1>3. Single((Given \cup Tagged) \ missed)'
    BY <1>1, <1>2, MissedGrows DEF NameInv, Single
  <1>4. pc' \notin ChoosingPCs
    BY DEF StatusUpdate, Return, ChoosingPCs
  <1>5. ScanInv'
    BY <1>4, NextTags, MissedGrows, ScanKept DEF ChoosingPCs
  <1> QED
    BY <1>1, <1>2, <1>3, <1>4, <1>5 DEF NameInv, ChoosingPCs
\* The calls of the search: it loses no tagged bucket and finds no second one.
LEMMA SearchNames == IInv /\ NameInv /\ Search => NameInv'
  <1> SUFFICES ASSUME IInv, NameInv, Search PROVE NameInv'
    OBVIOUS
  <1>0. /\ [Next]_vars /\ inst \in Status /\ PlaceOK /\ Following /\ LoopTypeOK(S3PCs) /\ TypeOK
        /\ Alone /\ TagsOK /\ ScanInv /\ missed \subseteq missed'
        /\ buckets \in [Buckets -> Bucket] /\ scan \in Scans
    BY MissedGrows DEF Next, Worker, IInv, TypeOK, LoopTypeOK, NameInv, Scans
  <1>1. fresh /\ pc \in {"tags", "saveName"} => Given = {}
    <2>1. fresh /\ pc \in {"tags", "saveName"} => cr.name = NoName /\ pc \in ChoosingPCs
      BY <1>0 DEF Following, PlaceOK, SearchPCs, ChoosingPCs
    <2> QED
      BY <1>0, <2>1, ChoiceIsFirst
  <1>2. CASE ListBuckets \/ ListBucketTags \/ \E b \in Buckets : GetBucketLocation(b) \/ GetBucketTagging(b)
    <2>1. /\ UNCHANGED <<cr, watch, cache, buckets>> /\ pc \in {"list", "locate", "tags"}
          /\ \E next \in {"locate", "tags"} : Goto(next) \/ Return(TRUE)
      BY <1>2 DEF ListBuckets, ListBucketTags, GetBucketLocation, GetBucketTagging, Skip, Denied, Rest
    <2>2. Alone' /\ Given' \subseteq Given
      BY <1>0, <2>1, CallGives DEF ChoosingPCs
    <2>3. pc' \notin {"propose", "saveName"}
      BY <2>1 DEF Goto, Return
    <2>4. Tagged' = Tagged /\ Single(Tagged \ missed)
      BY <2>1 DEF Tagged, NameInv, Single
    <2>5. ASSUME NEW b \in Buckets, Denied(b) PROVE NameInv'
      <3>1. scan' = NoScan /\ pc' = "idle"
        BY <2>5 DEF Denied, Return
      <3>2. ScanInv'
        BY <3>1 DEF ScanInv, NoScan
      <3> QED
        BY <1>0, <2>2, <2>3, <3>2, NamesKept
    <2>10. ASSUME NEW b \in Buckets, b \in scan.todo, pc \in {"locate", "tags"}, Skip(b) PROVE NameInv'
      <3>1. /\ scan'.todo = scan.todo \ {b} /\ scan'.kept = scan.kept /\ scan'.tags = scan.tags
            /\ pc' = pc /\ missed' = missed \cup ({b} \cap Unseen \cap Tagged)
        BY <1>0, <2>10 DEF Skip, Goto, Scans
      <3>2. b \notin Tagged \ missed'
        BY <1>0, <2>10, <3>1, SomeTags DEF Skip, NotFound, TagsOK, Tagged
      <3>3. Read' = Read /\ Tagged' \ missed' \subseteq Tagged \ missed
        BY <1>0, <2>4, <3>1 DEF Read
      <3>4. ASSUME pc = "locate" PROVE ScanInv'
        BY <1>0, <2>1, <3>1, <3>2, <3>3, <3>4 DEF ScanInv
      <3>5. ASSUME pc = "tags" PROVE ScanInv'
        <4>1. Single((Tagged \cup Read) \ missed)'
          BY <1>0, <2>4, <3>3, <3>5 DEF ScanInv, Single
        <4> QED
          BY <1>0, <2>1, <3>1, <3>2, <3>3, <3>5, <4>1 DEF ScanInv
      <3>6. ScanInv'
        BY <2>10, <3>4, <3>5
      <3> QED
        BY <1>0, <2>2, <2>3, <3>6, NamesKept
    <2>6. CASE ListBuckets
      <3>0. PICK omitted \in SUBSET Unseen :
              /\ scan' = [NoScan EXCEPT !.todo = {b \in Buckets : buckets[b].owner = "us"} \ omitted]
              /\ missed' = missed \cup (omitted \cap Tagged)
        BY <2>6 DEF ListBuckets
      <3> DEFINE listed == {b \in Buckets : buckets[b].owner = "us"} \ omitted
      <3>1. scan' = [NoScan EXCEPT !.todo = listed] /\ pc' = "locate"
        BY <2>6, <3>0 DEF ListBuckets, Goto
      <3>2. Tagged \ missed' \subseteq listed
        BY <1>0, <3>0, SomeTags DEF Tagged, TagsOK
      <3>3. scan'.todo = listed /\ scan'.kept = {} /\ scan'.tags = [b \in Buckets |-> {}]
        BY <3>1 DEF NoScan
      <3> HIDE DEF listed
      <3> QED
        BY <1>0, <2>2, <2>3, <2>4, <3>1, <3>2, <3>3, NamesKept DEF ScanInv, Read
    <2>7. ASSUME NEW b \in Buckets, GetBucketLocation(b) PROVE NameInv'
      <3>1. CASE Skip(b) \/ Denied(b)
        BY <2>5, <2>10, <2>7, <3>1 DEF GetBucketLocation
      <3>2. CASE ~(Skip(b) \/ Denied(b))
        <4> DEFINE kept == IF buckets[b].here THEN scan.kept \cup {b} ELSE scan.kept
        <4>1. /\ scan' = [scan EXCEPT !.todo = scan.todo \ {b}, !.kept = kept] /\ missed' = missed
              /\ pc = "locate" /\ pc' = "locate"
          BY <2>7, <3>2 DEF GetBucketLocation, Goto
        <4>2. scan'.todo = scan.todo \ {b} /\ scan'.kept = kept /\ scan'.tags = scan.tags
          BY <1>0, <4>1 DEF Scans
        <4>3. Read' = Read
          BY <4>2 DEF Read
        <4>4. \A c \in kept : buckets'[c].here \/ buckets'[c].tags = {}
          BY <1>0, <2>1, <4>1 DEF ScanInv
        <4>5. Tagged' \ missed' \subseteq scan'.todo \cup scan'.kept
          BY <1>0, <2>4, <4>1, <4>2 DEF ScanInv, Tagged
        <4> HIDE DEF kept
        <4>6. ScanInv'
          BY <1>0, <4>1, <4>2, <4>3, <4>4, <4>5 DEF ScanInv
        <4> QED
          BY <1>0, <2>2, <2>3, <4>6, NamesKept
      <3> QED
        BY <3>1, <3>2
    <2>8. CASE ListBucketTags
      <3>1. /\ scan' = [scan EXCEPT !.todo = scan.kept] /\ pc = "locate" /\ pc' = "tags"
            /\ scan.todo = {} /\ missed' = missed
        BY <2>8 DEF ListBucketTags, Goto
      <3>2. scan'.todo = scan.kept /\ scan'.kept = scan.kept /\ scan'.tags = scan.tags
        BY <1>0, <3>1 DEF Scans
      <3>3. Read' = {}
        BY <1>0, <3>1, <3>2 DEF Read, ScanInv
      <3>4. ScanInv'
        BY <1>0, <2>1, <2>4, <3>1, <3>2, <3>3 DEF ScanInv
      <3> QED
        BY <1>0, <2>2, <2>3, <3>4, NamesKept
    <2>9. ASSUME NEW b \in Buckets, GetBucketTagging(b) PROVE NameInv'
      <3>1. CASE Skip(b) \/ Denied(b)
        BY <2>5, <2>10, <2>9, <3>1 DEF GetBucketTagging
      <3>2. CASE ~(Skip(b) \/ Denied(b))
        <4>1. /\ pc = "tags" /\ pc' = "tags" /\ b \in scan.todo /\ missed' = missed
              /\ scan'.todo = scan.todo \ {b} /\ scan'.kept = scan.kept
              /\ scan'.tags = [scan.tags EXCEPT ![b] = buckets[b].tags]
          BY <1>0, <2>9, <3>2 DEF GetBucketTagging, Goto, Scans
        <4>2. \A c \in Buckets : scan'.tags[c] = IF c = b THEN buckets[b].tags ELSE scan.tags[c]
          BY <1>0, <4>1 DEF Scans
        <4>3. buckets[b].tags # {} => b \in Tagged
          BY <1>0, <4>1 DEF ScanInv, TagsOK, Tagged
        <4>4. Tagged' \ missed' \subseteq scan'.todo \cup Read'
          <5> SUFFICES ASSUME NEW c \in Tagged \ missed PROVE c \in scan'.todo \cup Read'
            BY <2>4, <4>1
          <5>1. c \in Buckets /\ buckets[c].tags # {} /\ c \in scan.todo \cup Read
            BY <1>0, <4>1, SomeTags DEF Tagged, ScanInv
          <5> QED
            BY <4>1, <4>2, <5>1 DEF Read
        <4>5. Read' \subseteq Read \cup Tagged
          BY <4>2, <4>3 DEF Read
        <4>6. Single((Tagged \cup Read) \ missed)'
          BY <1>0, <2>4, <4>1, <4>5 DEF ScanInv, Single
        <4>7. \A c \in Buckets : scan'.tags[c] \in {{}, VeleroTags(InfraName)}
          BY <1>0, <4>2 DEF ScanInv, TagsOK
        <4>8. ScanInv'
          BY <1>0, <2>1, <4>1, <4>4, <4>6, <4>7 DEF ScanInv
        <4> QED
          BY <1>0, <2>2, <2>3, <4>8, NamesKept
      <3> QED
        BY <3>1, <3>2
    <2> QED
      BY <1>2, <2>6, <2>7, <2>8, <2>9
  <1>3. CASE FindBucket
    <2>1. PICK existing \in FindMatchingTags(scan.tags, InfraName, NoName) :
            \/ /\ existing # NoName
               /\ StatusUpdate([inst EXCEPT !.name = existing, !.provisioned = TRUE], "head")
            \/ /\ existing = NoName
               /\ Goto("propose")
               /\ UNCHANGED apiVars
      BY <1>3 DEF FindBucket
    <2>2. /\ pc = "tags" /\ scan.todo = {} /\ scan' = NoScan /\ UNCHANGED <<cache, buckets>>
          /\ Tagged \ missed \subseteq Read /\ Single((Tagged \cup Read) \ missed)
      BY <1>0, <1>3 DEF FindBucket, ScanInv
    <2>3. scan.tags \in [Buckets -> {{}, VeleroTags(InfraName)}]
      <3>1. scan.tags \in [Buckets -> SUBSET Tags]
        BY <1>0 DEF Scans
      <3> QED
        BY <1>0, <3>1 DEF ScanInv
    <2>4. (existing \in Buckets /\ existing \in Read) \/ (existing = NoName /\ Read = {})
      BY <2>3, FindTagged DEF Read
    <2>5. CASE existing = NoName
      <3>1. Tagged \subseteq missed /\ pc' = "propose"
        BY <2>1, <2>2, <2>4, <2>5, NoNameAssumption DEF Goto
      <3>2. PICK next \in {"propose"} : Goto(next)
        BY <2>1, <2>5
      <3>3. Alone' /\ Given' \subseteq Given
        BY <1>0, <2>1, <2>2, <2>5, <3>2, CallGives DEF ChoosingPCs, apiVars
      <3>4. ScanInv'
        BY <1>0, <2>2, <3>1, NextTags, ScanKept
      <3> QED
        BY <1>0, <3>1, <3>3, <3>4, NamesKept
    <2>6. CASE existing # NoName
      <3>1. PICK status \in Status : status = [inst EXCEPT !.name = existing, !.provisioned = TRUE]
        BY <1>0, <2>4, <2>6 DEF Status
      <3>2. status.name = existing
        BY <1>0, <3>1 DEF Status
      <3>3. Single((Tagged \cup {existing}) \ missed)
        BY <2>2, <2>4, <2>6 DEF Single
      <3>4. PICK next \in {"head"} : StatusUpdate(status, next)
        BY <2>1, <2>6, <3>1
      <3> QED
        BY <1>0, <1>1, <2>2, <3>2, <3>3, <3>4, NamesUpdated DEF ChoosingPCs
    <2> QED
      BY <2>5, <2>6
  <1>4. CASE SaveName
    <2>1. /\ Tagged \subseteq missed /\ pc = "saveName" /\ Single((Tagged \cup {inst.name}) \ missed)
          /\ UNCHANGED <<cache, buckets, scan>>
      BY <1>4 DEF SaveName, NameInv, Single, s3Vars
    <2>2. PICK next \in {"head"} : StatusUpdate(inst, next)
      BY <1>4 DEF SaveName
    <2> QED
      BY <1>0, <1>1, <2>1, <2>2, NamesUpdated DEF ChoosingPCs
  <1>5. ASSUME NEW n \in Buckets, ProposeName(n) PROVE NameInv'
    <2>1. Held' \subseteq Held \cup {EmptyStatus, Absent}
      BY <1>5 DEF ProposeName, Return, Held
    <2>2. Alone'
      BY <1>0, <1>5 DEF ProposeName, Return, Alone, ChoosingPCs
    <2>3. Tagged \subseteq missed /\ scan' = scan /\ pc' \notin {"locate", "tags"}
      BY <1>5 DEF ProposeName, Return, NameInv, s3Vars
    <2>4. ScanInv'
      BY <1>0, <2>3, NextTags, ScanKept
    <2> QED
      BY <1>0, <2>1, <2>2, <2>3, <2>4, GivenShrinks, NamesKept
  <1> QED
    BY <1>2, <1>3, <1>4, <1>5 DEF Search

\* The other calls of CreateStorage: only the bucket of the instance is tagged.
LEMMA EnforceNames == IInv /\ NameInv /\ Enforce => NameInv'
  <1> SUFFICES ASSUME IInv, NameInv, Enforce PROVE NameInv'
    OBVIOUS
  <1>0. /\ [Next]_vars /\ inst \in Status /\ Alone /\ TagStep /\ "idle" \notin ChoosingPCs \cup {"down"}
        /\ missed \subseteq missed'
    BY NextTags, MissedGrows DEF Next, Worker, IInv, TypeOK, LoopTypeOK, NameInv, ChoosingPCs
  <1>1. CASE AbandonName
    <2>1. PICK status \in Status : status = [inst EXCEPT !.name = NoName]
      BY <1>0 DEF Status
    <2>2. status.name = NoName
      BY <1>0, <2>1 DEF Status
    <2> QED
      BY <1>0, <1>1, <2>1, <2>2, NamesUpdated DEF AbandonName, s3Vars
  <1>2. CASE MarkMissing
    <2>1. PICK status \in Status : status = [inst EXCEPT !.provisioned = FALSE]
      BY <1>0 DEF Status
    <2>2. status.name \in Given
      BY <1>0, <1>2, <2>1, InstGiven DEF Status, MarkMissing, NamedPCs
    <2> QED
      BY <1>0, <1>2, <2>1, <2>2, NamesUpdated DEF MarkMissing, s3Vars
  <1>3. CASE RecordSync
    <2>1. PICK status \in Status : status = [inst EXCEPT !.provisioned = TRUE, !.lastSync = "recent"]
      BY <1>0 DEF Status, SyncAges
    <2>2. status.name \in Given
      BY <1>0, <1>3, <2>1, InstGiven DEF Status, RecordSync, NamedPCs
    <2> QED
      BY <1>0, <1>3, <2>1, <2>2, NamesUpdated DEF RecordSync, s3Vars
  <1>4. CASE \/ NewS3Client \/ CreateBucket \/ ClearBucketTags \/ TagBucket \/ StorageExists
             \/ EncryptBucket \/ BlockBucketPublicAccess \/ SetBucketLifecycle
    <2>1. /\ UNCHANGED <<cr, watch, cache, scan>>
          /\ pc \notin {"saveName", "locate", "tags"}
      BY <1>4 DEF NewS3Client, CreateBucket, ClearBucketTags, TagBucket, StorageExists,
           EncryptBucket, BlockBucketPublicAccess, SetBucketLifecycle, Write, Rest
    <2>2. PICK next \in {"list", "create", "head", "clearNewTags", "abandon", "putNewTags", "putTags",
                         "sync", "encrypt", "missing", "block", "lifecycle", "clearTags"} :
            /\ Goto(next) \/ Return(TRUE)
            /\ next = "list" => pc = "storage"
      <3>1. CASE NewS3Client \/ CreateBucket \/ StorageExists
        BY <3>1 DEF NewS3Client, CreateBucket, StorageExists
      <3>2. CASE ClearBucketTags \/ TagBucket
        BY <3>2 DEF ClearBucketTags, TagBucket, Write
      <3>3. CASE EncryptBucket \/ BlockBucketPublicAccess \/ SetBucketLifecycle
        BY <3>3 DEF EncryptBucket, BlockBucketPublicAccess, SetBucketLifecycle, Write
      <3> QED
        BY <1>4, <3>1, <3>2, <3>3
    <2>3. Alone' /\ Given' \subseteq Given
      BY <1>0, <2>1, <2>2, CallGives DEF ChoosingPCs
    <2>4. pc' \notin {"propose", "saveName", "locate", "tags"}
      BY <2>2 DEF Goto, Return
    <2>5. ScanInv'
      BY <1>0, <2>1, <2>4, ScanKept
    <2> QED
      BY <1>0, <2>3, <2>4, <2>5, NamesKept
  <1> QED
    BY <1>1, <1>2, <1>3, <1>4 DEF Enforce

\* Every step keeps it.
LEMMA NextNames == IInv /\ NameInv /\ [Next]_vars => NameInv'
  <1> SUFFICES ASSUME IInv, NameInv, [Next]_vars PROVE NameInv'
    OBVIOUS
  <1>0. LoopTypeOK(S3PCs) /\ Following /\ Alone /\ TagStep /\ missed \subseteq missed'
    BY NextTags, MissedGrows DEF IInv, TypeOK, NameInv
  <1>1. CASE \/ LoopStep /\ UNCHANGED s3Vars
             \/ Failure
             \/ LoopEnvironment /\ UNCHANGED s3Vars
    <2>1. Alone' /\ Given' \subseteq Given
      BY <1>0, <1>1, LoopStepGives, LoopFailureGives, LoopEnvironmentGives DEF Failure
    <2>2. pc' \in {"propose", "saveName", "locate", "tags"} => pc' = pc /\ scan' = scan
      <3>1. CASE LoopStep
        BY <3>1 DEF LoopStep, Fetch, ChooseWork, ProvisionVelero, Goto, Return
      <3>2. CASE LoopFailure
        BY <3>2 DEF LoopFailure, CallFails, Crash, Return
      <3>3. CASE LoopEnvironment /\ UNCHANGED s3Vars
        BY <3>3 DEF LoopEnvironment, Restart, Deliver, Resync, CreateCR, DeleteCR, TouchCR, PeriodEnds,
             s3Vars
      <3> QED
        BY <1>1, <3>1, <3>2, <3>3 DEF Failure
    <2>3. scan' = scan \/ scan' = NoScan
      BY <1>1 DEF Failure, s3Vars
    <2>4. ScanInv'
      BY <1>0, <2>2, <2>3, ScanKept
    <2> QED
      BY <2>1, <2>2, <2>4, NamesKept DEF NameInv
  <1>2. CASE (\E b \in Buckets : Settle(b)) \/ Interference \/ UNCHANGED vars
    <2>1. UNCHANGED <<cr, watch, cache, pc, inst, fresh, scan>>
      BY <1>2 DEF Settle, Interference, DeleteBucket, ForeignCreate, ChangeConfig, RemoveTags, Disturb,
           loopVars, vars
    <2>2. Alone' /\ Given' = Given
      BY <1>0, <2>1 DEF Alone, Given, Held, NamesOf
    <2>3. ScanInv'
      BY <1>0, <2>1, ScanKept
    <2> QED
      BY <2>1, <2>2, <2>3, NamesKept DEF NameInv
  <1> QED
    BY <1>1, <1>2, SearchNames, EnforceNames DEF Next, Worker

(***************************************************************************)
(* Where no other cluster shares the account, at most one bucket of the    *)
(* region ever carries the cluster's tags, apart from buckets S3 did not   *)
(* show to a search yet, for any number of buckets there and in other      *)
(* regions, and even when the VeleroInstall is deleted and created again   *)
(* under a running Reconcile.  Both conditions are needed: the flags of    *)
(* FindMatchingTags can be set by two clusters' buckets, and a bucket that *)
(* a search misses is followed by a second one.                            *)
(***************************************************************************)
THEOREM OneBucketTheorem == TheirBuckets = {} /\ Spec => []OneBucketPerCluster
  <1>1. TheirBuckets = {} /\ Init => NameInv
    <2> SUFFICES ASSUME TheirBuckets = {}, Init PROVE NameInv
      OBVIOUS
    <2>1. Given = {}
      <3>1. {watch[i] : i \in DOMAIN watch} = {}
        BY DEF Init, LoopInit
      <3> QED
        BY <3>1 DEF Init, LoopInit, Given, Held, NamesOf, EmptyStatus
    <2>2. TagsOK /\ Tagged = {}
      BY SomeTags DEF Init, TagsOK, Tagged, OldBucket, NoBucket
    <2>3. ScanInv /\ Alone
      BY DEF Init, LoopInit, ScanInv, NoScan, Alone
    <2> QED
      BY <2>1, <2>2, <2>3 DEF NameInv, Single, Init, LoopInit
  <1>2. NameInv => OneBucketPerCluster
    <2> SUFFICES ASSUME NameInv PROVE OneBucketPerCluster
      OBVIOUS
    <2>1. Single(Tagged \ missed)
      BY DEF NameInv, Single
    <2> QED
      BY <2>1, SingleCardinality DEF OneBucketPerCluster
  <1> QED
    BY <1>1, <1>2, NextNames, Invariance, PTL DEF Spec
=============================================================================
