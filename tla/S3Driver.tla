------------------------------ MODULE S3Driver ------------------------------
(***************************************************************************)
(* The S3 storage driver: CreateStorage, call by call, in the reconcile    *)
(* loop of Reconciler, against an account whose buckets other people can   *)
(* delete, change, or create first.                                        *)
(***************************************************************************)
EXTENDS Reconciler, TagSearch

CONSTANTS
    TheirBuckets,   \* buckets of another cluster that shares the AWS account
    RemoteBuckets   \* buckets of the account in another region, tagged for this cluster

ASSUME BucketsAssumption ==
    /\ TheirBuckets \subseteq Buckets
    /\ RemoteBuckets \subseteq Buckets
    /\ TheirBuckets \cap RemoteBuckets = {}

VARIABLES
    buckets,    \* every bucket name's state in S3
    scan,       \* the search for an existing bucket: what is left, kept and read
    missed,     \* tagged buckets that a search could not see (history)
    disturbed   \* buckets changed by others than the operator (history)

s3Vars == <<buckets, scan, missed, disturbed>>
vars == <<cr, watch, cache, queued, driver, pc, inst, fresh, faults,
          buckets, scan, missed, disturbed>>

-----------------------------------------------------------------------------
\* The settings CreateStorage enforces on the bucket.
Settings == {"encryption", "publicAccessBlock", "lifecycle"}

\* owner: the operator's account, another account, or none if there is no such
\* bucket; seen: the creation has reached all of S3, and every call finds the bucket.
Bucket == [owner : {"none", "us", "foreign"}, here : BOOLEAN, seen : BOOLEAN,
           tags : SUBSET Tags, config : SUBSET Settings]

NoBucket ==
    [owner |-> "none", here |-> FALSE, seen |-> FALSE, tags |-> {}, config |-> {}]
ForeignBucket == [NoBucket EXCEPT !.owner = "foreign"]
NewBucket(seen) == [NoBucket EXCEPT !.owner = "us", !.here = TRUE, !.seen = seen]
OldBucket(here, tags) ==
    [owner |-> "us", here |-> here, seen |-> TRUE, tags |-> tags, config |-> Settings]

NoScan == [todo |-> {}, kept |-> {}, tags |-> [b \in Buckets |-> {}]]

S3PCs == LoopPCs \cup
    {"list", "locate", "tags", "propose", "saveName", "create", "abandon",
     "clearNewTags", "putNewTags", "head", "missing", "encrypt", "block",
     "lifecycle", "clearTags", "putTags", "sync"}

\* Every variable of the loop and of the driver has its type; the worker is at a
\* call that CreateStorage makes, and its instance is a VeleroInstall that was read.
TypeOK ==
    /\ LoopTypeOK(S3PCs)
    /\ buckets \in [Buckets -> Bucket]
    /\ scan \in [todo : SUBSET Buckets, kept : SUBSET Buckets, tags : [Buckets -> SUBSET Tags]]
    /\ missed \in SUBSET Buckets
    /\ disturbed \in SUBSET Buckets

Init ==
    /\ LoopInit
    /\ buckets = [b \in Buckets |->
                    IF b \in TheirBuckets THEN OldBucket(TRUE, VeleroTags(OtherInfra))
                    ELSE IF b \in RemoteBuckets THEN OldBucket(FALSE, VeleroTags(InfraName))
                    ELSE NoBucket]
    /\ scan = NoScan
    /\ missed = {}
    /\ disturbed = {}

-----------------------------------------------------------------------------
\* What a step of CreateStorage that does not write the status leaves alone.
Rest == <<cr, watch, cache, driver, faults, disturbed>>

\* The account's buckets that a call may not find yet ("delays in AWS API").
Unseen == {b \in Buckets : buckets[b].owner = "us" /\ ~buckets[b].seen}

\* The buckets of the region that carry the cluster's tags.
Tagged == {b \in Buckets : buckets[b].here /\ VeleroTags(InfraName) \subseteq buckets[b].tags}

\* A call about b may be answered with NoSuchBucket or NotFound.
NotFound(b) == buckets[b].owner = "none" \/ b \in Unseen

\* A client is made from the credentials secret, and the switch is taken.
NewS3Client ==
    /\ pc = "storage"
    /\ CASE inst.name = NoName -> Goto("list")
         [] inst.name # NoName /\ ~inst.provisioned -> Goto("create")
         [] OTHER -> Goto("head")
    /\ UNCHANGED <<Rest, buckets, scan, missed>>

\* setInstanceBucketName: all buckets of the account are listed that S3 shows.
ListBuckets ==
    /\ pc = "list"
    /\ \E omitted \in SUBSET Unseen :
          /\ scan' = [NoScan EXCEPT !.todo = {b \in Buckets : buckets[b].owner = "us"} \ omitted]
          /\ missed' = missed \cup (omitted \cap Tagged)
    /\ Goto("locate")
    /\ UNCHANGED <<Rest, buckets>>

\* The search goes on without b, for which S3 answers that there is none.
Skip(b) ==
    /\ NotFound(b)
    /\ scan' = [scan EXCEPT !.todo = @ \ {b}]
    /\ missed' = missed \cup ({b} \cap Unseen \cap Tagged)
    /\ Goto(pc)
    /\ UNCHANGED <<Rest, buckets>>

\* The bucket has become another account's: the search ends in an error.
Denied(b) ==
    /\ buckets[b].owner = "foreign"
    /\ scan' = NoScan
    /\ Return(TRUE)
    /\ UNCHANGED <<Rest, buckets, missed>>

\* Mutant: buckets are kept whatever their region.
Mutant_GetBucketLocationAnywhere(b) ==
    /\ pc = "locate"
    /\ b \in scan.todo
    /\ \/ Skip(b)
       \/ Denied(b)
       \/ /\ buckets[b].owner = "us"
          /\ scan' = [scan EXCEPT !.todo = @ \ {b}, !.kept = @ \cup {b}]
          /\ Goto("locate")
          /\ UNCHANGED <<Rest, buckets, missed>>

\* Mutant: a null location is not read as us-east-1, so no bucket there is kept.
Mutant_GetBucketLocationNull(b) ==
    /\ pc = "locate"
    /\ b \in scan.todo
    /\ scan' = [scan EXCEPT !.todo = @ \ {b}]
    /\ Goto("locate")
    /\ UNCHANGED <<Rest, buckets, missed>>

\* One listed bucket is kept if it is in the region; one that S3 does not find is skipped.
GetBucketLocation(b) ==
    /\ pc = "locate"
    /\ b \in scan.todo
    /\ \/ Skip(b)
       \/ Denied(b)
       \/ /\ buckets[b].owner = "us"
          /\ scan' = [scan EXCEPT !.todo = @ \ {b},
                                  !.kept = IF buckets[b].here THEN @ \cup {b} ELSE @]
          /\ Goto("locate")
          /\ UNCHANGED <<Rest, buckets, missed>>

\* ListBucketsInRegion is done; ListBucketTags goes over what it kept.
ListBucketTags ==
    /\ pc = "locate"
    /\ scan.todo = {}
    /\ scan' = [scan EXCEPT !.todo = scan.kept]
    /\ Goto("tags")
    /\ UNCHANGED <<Rest, buckets, missed>>

\* The tags of one bucket are read; one that S3 does not find, or without any, is skipped.
GetBucketTagging(b) ==
    /\ pc = "tags"
    /\ b \in scan.todo
    /\ \/ Skip(b)
       \/ Denied(b)
       \/ /\ buckets[b].owner = "us"
          /\ scan' = [scan EXCEPT !.todo = @ \ {b}, !.tags[b] = buckets[b].tags]
          /\ Goto("tags")
          /\ UNCHANGED <<Rest, buckets, missed>>

\* The tags are searched for a bucket of this cluster, which is adopted as it is;
\* CreateStorage goes on to verify and enforce it.
FindBucket ==
    /\ pc = "tags"
    /\ scan.todo = {}
    /\ \E existing \in FindMatchingTags(scan.tags, InfraName, NoName) :
          \/ /\ existing # NoName
             /\ StatusUpdate([inst EXCEPT !.name = existing, !.provisioned = TRUE], "head")
          \/ /\ existing = NoName
             /\ Goto("propose")
             /\ UNCHANGED apiVars
    /\ scan' = NoScan
    /\ UNCHANGED <<cache, driver, faults, disturbed, buckets, missed>>

(***************************************************************************)
(* A new name is generated and must not be that of a bucket S3 shows.      *)
(* The names are UUIDs: hitting a taken one is a disturbance.              *)
(***************************************************************************)
ProposeName(n) ==
    /\ pc = "propose"
    /\ IF buckets[n].owner = "none" THEN UNCHANGED faults ELSE Fault
    /\ \/ /\ NotFound(n)
          /\ pc' = "saveName"
          /\ inst' = [inst EXCEPT !.name = n, !.provisioned = FALSE]
          /\ UNCHANGED <<fresh, queued>>
       \/ /\ buckets[n].owner # "none"
          /\ Return(TRUE)
    /\ UNCHANGED <<cr, watch, cache, driver, s3Vars>>

\* The last call of setInstanceBucketName, after which CreateStorage goes on.
SaveName ==
    /\ pc = "saveName"
    /\ StatusUpdate(inst, "head")
    /\ UNCHANGED <<cache, driver, faults, s3Vars>>

-----------------------------------------------------------------------------
\* A bound: there is always another UUID to propose, where the model's names run out.
Spare(b) == \E n \in Buckets \ {b} : buckets[n].owner = "none"

\* The bucket is created; one that is already ours is as good, a foreign one is not.
CreateBucket ==
    /\ pc = "create"
    /\ \/ /\ buckets[inst.name].owner = "none"
          /\ \E seen \in BOOLEAN :
                /\ seen \/ Spare(inst.name)
                /\ buckets' = [buckets EXCEPT ![inst.name] = NewBucket(seen)]
          /\ Goto("clearNewTags")
       \/ /\ buckets[inst.name].owner = "us"
          /\ Goto("clearNewTags")
          /\ UNCHANGED buckets
       \/ /\ buckets[inst.name].owner = "foreign"
          /\ Goto("abandon")
          /\ UNCHANGED buckets
    /\ UNCHANGED <<Rest, scan, missed>>

\* BucketAlreadyExists: the name is given up, to start again without one.
AbandonName ==
    /\ pc = "abandon"
    /\ StatusUpdate([inst EXCEPT !.name = NoName], "idle")
    /\ UNCHANGED <<cache, driver, faults, s3Vars>>

\* A bucket the driver's client can write to.
Accessible(b) == buckets[b].owner = "us" /\ buckets[b].here

\* One write to the bucket, after which CreateStorage makes the next call.
Write(bucket, next) ==
    /\ \/ /\ Accessible(inst.name)
          /\ buckets' = [buckets EXCEPT ![inst.name] = bucket]
          /\ Goto(next)
       \/ /\ ~Accessible(inst.name) \/ NotFound(inst.name)
          /\ Return(TRUE)
          /\ UNCHANGED buckets
    /\ UNCHANGED <<Rest, scan, missed>>

\* TagBucket wipes the tags before it writes them, after the creation of the
\* bucket and again at the end of every pass.
ClearBucketTags ==
    \/ pc = "clearNewTags" /\ Write([buckets[inst.name] EXCEPT !.tags = {}], "putNewTags")
    \/ pc = "clearTags" /\ Write([buckets[inst.name] EXCEPT !.tags = {}], "putTags")

TagBucket ==
    LET tagged == [buckets[inst.name] EXCEPT !.tags = VeleroTags(InfraName)]
    IN  \/ pc = "putNewTags" /\ Write(tagged, "head")
        \/ pc = "putTags" /\ Write(tagged, "sync")

-----------------------------------------------------------------------------
\* The bucket is there, is not (yet), or cannot be told (403, or another region).
StorageExists ==
    /\ pc = "head"
    /\ \/ /\ Accessible(inst.name)
          /\ Goto("encrypt")
       \/ /\ NotFound(inst.name)
          /\ Goto("missing")
       \/ /\ buckets[inst.name].owner # "none"
          /\ ~Accessible(inst.name)
          /\ Return(TRUE)
    /\ UNCHANGED <<Rest, buckets, scan, missed>>

\* A missing bucket is to be created again, under the name it had.
MarkMissing ==
    /\ pc = "missing"
    /\ StatusUpdate([inst EXCEPT !.provisioned = FALSE], "idle")
    /\ UNCHANGED <<cache, driver, faults, s3Vars>>

EncryptBucket ==
    /\ pc = "encrypt"
    /\ Write([buckets[inst.name] EXCEPT !.config = @ \cup {"encryption"}], "block")

BlockBucketPublicAccess ==
    /\ pc = "block"
    /\ Write([buckets[inst.name] EXCEPT !.config = @ \cup {"publicAccessBlock"}], "lifecycle")

SetBucketLifecycle ==
    /\ pc = "lifecycle"
    /\ Write([buckets[inst.name] EXCEPT !.config = @ \cup {"lifecycle"}], "clearTags")

\* The end of a pass: the bucket is as it should be, as of now.
RecordSync ==
    /\ pc = "sync"
    /\ StatusUpdate([inst EXCEPT !.provisioned = TRUE, !.lastSync = "recent"], "idle")
    /\ UNCHANGED <<cache, driver, faults, s3Vars>>

-----------------------------------------------------------------------------
\* The creation of a bucket becomes visible everywhere.
Settle(b) ==
    /\ buckets[b].owner = "us"
    /\ ~buckets[b].seen
    /\ buckets' = [buckets EXCEPT ![b].seen = TRUE]
    /\ UNCHANGED <<loopVars, scan, missed, disturbed>>

\* Somebody with access to the account, or another account, interferes with b.
Disturb(b, bucket) ==
    /\ Fault
    /\ buckets' = [buckets EXCEPT ![b] = bucket]
    /\ disturbed' = disturbed \cup {b}
    /\ UNCHANGED <<cr, watch, cache, queued, driver, pc, inst, fresh, scan, missed>>

DeleteBucket(b) == buckets[b].owner = "us" /\ Disturb(b, NoBucket)

\* Another account creates b; there is always another UUID left to propose.
ForeignCreate(b) ==
    /\ buckets[b].owner = "none"
    /\ Spare(b)
    /\ Disturb(b, ForeignBucket)

ChangeConfig(b) ==
    /\ buckets[b].owner = "us"
    /\ \E setting \in buckets[b].config :
          Disturb(b, [buckets[b] EXCEPT !.config = @ \ {setting}])

RemoveTags(b) ==
    /\ buckets[b].owner = "us"
    /\ buckets[b].tags # {}
    /\ Disturb(b, [buckets[b] EXCEPT !.tags = {}])

-----------------------------------------------------------------------------
\* setInstanceBucketName: the search for a bucket, or else for a name.
Search ==
    \/ ListBuckets \/ ListBucketTags \/ FindBucket \/ SaveName
    \/ \E b \in Buckets : GetBucketLocation(b) \/ GetBucketTagging(b) \/ ProposeName(b)

\* The calls of CreateStorage that do not concern the choice of the name.
Enforce ==
    \/ NewS3Client \/ CreateBucket \/ AbandonName \/ ClearBucketTags \/ TagBucket
    \/ StorageExists \/ MarkMissing \/ EncryptBucket \/ BlockBucketPublicAccess
    \/ SetBucketLifecycle \/ RecordSync

\* What the operator's one worker does.
Worker == (LoopStep /\ UNCHANGED s3Vars) \/ Search \/ Enforce

\* A Reconcile that does not come to its end forgets what it had listed.
Failure == LoopFailure /\ scan' = NoScan /\ UNCHANGED <<buckets, missed, disturbed>>

Interference ==
    \E b \in Buckets : DeleteBucket(b) \/ ForeignCreate(b) \/ ChangeConfig(b) \/ RemoveTags(b)

Next ==
    \/ Worker
    \/ Failure
    \/ LoopEnvironment /\ UNCHANGED s3Vars
    \/ \E b \in Buckets : Settle(b)
    \/ Interference

Spec == Init /\ [][Next]_vars

(***************************************************************************)
(* The worker goes on, the informer is told of changes and resyncs, a dead *)
(* pod is restarted, S3 settles and time passes.  Faults are bounded, so   *)
(* they cease; nobody need create or delete anything.                      *)
(***************************************************************************)
Fairness ==
    /\ WF_vars(Worker)
    /\ WF_vars(Deliver /\ UNCHANGED s3Vars)
    /\ WF_vars(Resync /\ UNCHANGED s3Vars)
    /\ WF_vars(Restart /\ UNCHANGED s3Vars)
    /\ WF_vars(PeriodEnds /\ UNCHANGED s3Vars)
    /\ \A b \in Buckets : WF_vars(Settle(b))

FairSpec == Spec /\ Fairness
=============================================================================
