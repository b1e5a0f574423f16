# Verification of managed-velero-operator

TLA+ models of the operator's reconcile loop, its storage drivers, its
installation of Velero and its start, the TLC runs that check them on small instances, and TLAPS proofs of the main results
for every value of the constants.

## The system

The operator watches one kind of resource, `VeleroInstall`. For each it obtains an object storage
bucket, keeps the bucket's settings as they should be, and installs Velero on it.

| Part | State it keeps | Operations | Talks to |
|---|---|---|---|
| Reconcile loop (`veleroinstall_controller.go`) | the storage driver, once made | fetch, read the infrastructure, make the driver, then *either* `CreateStorage` *or* `provisionVelero` | API server through the informer cache, storage driver |
| Bucket status (`api/v1alpha2/reconcile.go`) | name, provisioned, last sync, in the resource's status: all the operator persists | `StorageBucketReconcileRequired`, `StatusUpdate` | API server |
| S3 driver (`pkg/storage/s3`) | nothing between calls | find or choose a name, create, verify, encrypt, block public access, lifecycle, tag | AWS, one HTTP call after the other |
| GCS driver (`pkg/storage/gcs`) | nothing between calls | find or choose a name, create, verify, label | GCS |
| `provisionVelero` (`velero.go`) | six Kubernetes objects | get, create or update each in turn | API server |
| Startup (`main.go`, `pkg/velero/crds.go`) | the leader's lock, the CRDs, the metrics Service and ServiceMonitor | namespace check, leader lock, platform check, CRDs, controller, metrics, manager | API server |
| Driver selection (`pkg/storage/storage.go`) | none | the driver of the platform, from region and project | storage drivers |

What is hard in it, with the lines, is the list of hazards of `PROJECT.json`. In short: the
instance is read from a cache that runs behind; the status is the only memory, and it is written
after the cloud has been changed; a pass is a dozen calls, each of which may fail, and the process
may die between any two of them; the account is shared with other clusters and with people; the
next pass is asked for only by an event, an error or the informers' resync.

What makes each part correct:

* the loop: Velero is installed only on a bucket that was given every setting; nothing is left
  undone with nobody to ask for it;
* the drivers: a cluster gets one bucket and keeps it, takes no other cluster's, and comes to a
  synced status once disturbances cease; settings that drift are put back;
* the status: it changes only in the ways of `StorageContract`, whichever driver writes it and
  however stale the instance was;
* `provisionVelero`: Velero is only ever pointed at a ready bucket, the one of the status; all six
  objects come to be as specified and stay so, though the cache is old, the Service is not
  watched, and the owners of the objects may have been replaced; nothing is left when the resource is gone;
* the start: one pod at a time is past the leader's lock; a manager runs on the CRDs of its own
  release; whatever a former process left half done, the latest pod comes up.

## Modules

| Module | Models |
|---|---|
| `BucketStatus` | the `StorageBucket` block, `StorageBucketReconcileRequired` |
| `Reconciler` | `Reconcile`, `StatusUpdate`, the stored resource, informer, work queue, crashes and restarts, other writers |
| `TagSearch` | how a cluster's bucket is recognised: `FindMatchingTags`, `findVeleroBucket`, the label functions |
| `TagLoop` | the loop of `FindMatchingTags` step by step, to justify its closed form in `TagSearch` |
| `S3Driver` | `CreateStorage` of the S3 driver, composed with `Reconciler` |
| `GCSDriver` | `CreateStorage` of the GCS driver, composed with `Reconciler` |
| `StorageContract` | abstract: how the stored status may change and what a sync promises |
| `S3Properties`, `GCSProperties` | what is claimed, and the refinement mappings to `StorageContract` |
| `Provision` | `provisionVelero`, on top of `StorageContract`: the six objects, their informers, owners and the garbage collector |
| `ProvisionProperties` | what is claimed of it |
| `Startup` | `main`, `InstallVeleroCRDs`, `addMetrics`, `leader.Become`, `NewDriver`, the roll-over of pods; and what is claimed of them |
| `MCS3`, `MCGCS` | bucket names and symmetry for TLC |
| `ReconcilerProofs` | lemmas about the loop that do not depend on the driver |
| `S3Proofs`, `S3SearchProofs` | proofs about the S3 driver: types, gate and contract; the search for a bucket and where the loop rests |
| `GCSProofs` | proofs about the GCS driver |
| `TagLoopProofs`, `StorageContractProofs`, `ProvisionProofs`, `StartupProofs` | proofs about the modules of those names |

### Correspondence

`cr` is the resource in the API server (its status, or `Absent`), `watch` the versions the informer
has still to hear of, `cache` the informer's copy, `queued` the (deduplicating) work queue. There
is one worker (`MaxConcurrentReconciles` is 1), so `pc`, `inst` and `fresh` are the local state of
the one running `Reconcile`: where it is, the instance in its hands, and whether that still has the
stored `resourceVersion`. `StatusUpdate` succeeds exactly when it has; an update that changes
nothing makes no new version and no event, as in the API server. `lastSync` keeps of the timestamp
what the code tests: unset, recent, expired; `PeriodEnds` ages every copy at once.

The two drivers replace the state `storage` of the loop by one state per call they make, named
after the call: `list`, `locate`, `tags`, `propose`, `saveName`, `create`, `abandon`,
`clearNewTags`, `putNewTags`, `head`, `missing`, `encrypt`, `block`, `lifecycle`, `clearTags`,
`putTags`, `sync`. One action is one call and everything the code does up to the next one. A call
that fails for a reason of its own is `CallFails` at any of these; one that fails because of what
the cloud holds (a foreign bucket, a bucket that is gone) is in the action of the call. A panic (the nil `aerr` at
`s3.go:188` and `bucket.go:59`) is recovered nowhere and is a `Crash`.

A bucket name's state says who owns it (`us`: the operator's account), whether it is in the
cluster's region, whether its creation is visible everywhere yet (`seen`), its tags and its settings. While it is
not, *any* call may find the bucket or not, one call the one, the next the other: `ListBuckets` may leave it out, `GetBucketLocation` and `GetBucketTagging` may answer
NoSuchBucket, which the search passes over without an error (`bucket.go:209`, `247`, "delays in AWS API"), `HeadBucket` may not find it, and a
write to it may fail. Two history variables: `disturbed` are the buckets that somebody else has changed, deleted or taken, `missed`
the tagged buckets that a search did not get to see.

`Provision` is the other branch of `Reconcile`. Its storage half is the contract itself:
`CreateStorage` is one of the contract's steps, taken if the instance in hand is still the stored
one. So it is composed with whatever implements the contract (`ImplementsContract` of both drivers), and its states
do not multiply with theirs. `pc` is the object the worker comes to next, in the order of the code; a kind
that an instance leaves out is skipped. `objs` is what is stored, `seen` what the informers show, `behind` the kinds where they differ in
version, `notify` those of which an event for the VeleroInstall is under way. A lookup reads `seen`
and a write goes to `objs`: not found but stored is AlreadyExists, different but `behind` is a
Conflict or NotFound (`Refused`), and each of them is an error that queues the request again. Owners are UIDs: `uid` is the
VeleroInstall's, a Service has one that the ServiceMonitor refers to, and
`GarbageCollect` deletes what refers to a UID that is gone. Only the kinds in `Owns` of `SetupWithManager`
notify, and only through an owner, so objects made by others, the Service and the ServiceMonitor are silent;
`unnoticed` (history) remembers those. An object's data is the bucket it names, or whether it is as the code wants it. Of
what others may write, a ProviderSpec that cannot be decoded is kept apart, since the code stops at it.

`Startup` has a process per pod. `stage` is how far `main` has come, one value per call that can fail; `left`
are the CRDs that the loop of `InstallVeleroCRDs` has still to look at, in any order. `things` says
of each CRD and metrics object which pod's release it is as, so an upgrade has
something to change. These calls go to the API server directly (the manager's cache is not
started), so they act on what is stored. The ServiceMonitor is owned by the Service: `uid` is the stored Service's UID, `owner` the one the
stored ServiceMonitor refers to, and `inHand` the one of the Service that `addMetrics` has generated, which has none unless it was
created in this very run (`main.go:224`, `234`, `265`). `GenerateServiceMonitor` is in a library that is not part of the repository and is taken to be what the repository's
own copy of it is (`generateServiceMonitor`, `velero.go:584`); that an owner needs a UID is what `velero.go:201` says. `CollectMonitor` is the garbage collector. The lock is
leader-for-life: its ConfigMap is owned by the pod, outlives the container and goes with the pod. `disturbed`
(history) are the things others changed since. The controller and probes
that `main` registers have no state of their own and are one step, `SetupWithManager`.

Left out of the data: regions other than "here", credentials, the contents of the settings, log
messages. Names are UUIDs, so proposing a name that is taken is counted as a disturbance, and there
is always one that is not taken (`Spare`: another account takes a name, and a creation is slow to be seen, only while there is a further name).

## Runs

| Run | Checks | Distinct states |
|---|---|---|
| `s3_safety` | `TypeOK`, `GateHardened`, `OneBucketPerCluster`, `RestsOnlyWhenMissing`, refinement `ImplementsContract` | 4,532,298 |
| `s3_live` | `Converges`, `DriftRepaired` | 724,542 |
| `s3_theirs` | `TheirsUntouched` is violated | |
| `s3_stranded` | `NothingStranded` is violated | |
| `s3_orphan` | `ExistingBucketUsed` is violated | |
| `tag_loop` | `LoopComputesClosedForm` | 2,240 |
| `gcs` | `TypeOK`, `OneBucketPerCluster`, `TheirsUntouched`, refinement `ImplementsContract`, `ConvergesUnlessUnrecorded` | 206,046 |
| `gcs_stuck` | `Converges` is violated | |
| `provision` | `TypeOK`, `VeleroOnReadyBucket`, `AtRestInstalled`, `StaysOnBucket`, `Settles`, `Collected` | 636,992 |
| `provision_garbled` | `ChangesPutBack` is violated | |
| `startup` | `TypeOK`, `OneLeader`, `ClusterFits`, `UntouchedUnlessSupported`, `TakesOverUnlessHalfMeasured` | 842,050 |
| `startup_metrics` | `TakesOver` is violated | |

`GateHardened`: whenever `Reconcile` goes on to `provisionVelero`, and whenever any copy of the status says that
the bucket was synced within the period, the bucket was given every setting, unless somebody else
changed it. `OneBucketPerCluster`: never two buckets with the cluster's tags (on GCS also none of the operator's making without them),
although the name is lost when the resource is deleted; on S3 apart from buckets that a search could not see yet, which do lead to a second one (see `s3_orphan` below).
`RestsOnlyWhenMissing`: where nobody asks for a Reconcile a name has been chosen, and a bucket that is called provisioned was synced. `Converges` and `DriftRepaired`: the eventual results.

`VeleroOnReadyBucket` carries the gate to the objects, `StaysOnBucket` (an action property) says that a write never
points Velero at another bucket than the status names then; its run has two buckets, so that a VeleroInstall that was deleted and created again
can get another one while the objects, the caches and a running Reconcile still have the first. `AtRestInstalled`: where nothing is queued, running or on its way,
all that could be heard of is installed; `Settles`: while the sync lasts, everything comes to be so for good, with owners
that exist; `Collected`: when the resource is gone for good, so is what the operator made.

`OneLeader`: no two pods past the lock. `ClusterFits`: a running manager's CRDs and metrics objects are those of its release.
`UntouchedUnlessSupported`: nothing is written where namespace or platform do not fit. `TakesOverUnlessHalfMeasured`:
the latest pod ends up with a running manager and, given region and project, a driver; or it comes to the ServiceMonitor again and again and finds
the Service there and the ServiceMonitor not.

### The six disagreements

* `s3_theirs`: `FindMatchingTags` keeps its two flags from bucket to bucket, and remembers the last
  bucket that set either. With this cluster's bucket and another cluster's in one account it may
  return the other's. It takes a `VeleroInstall` without a bucket name (recreated, say). The
  closed form used here is checked against the loop by `tag_loop`.
* `s3_stranded`: the bucket was created, `HeadBucket` does not see it yet; `Provisioned` is set
  to false, as it was, and the call returns nil. No event, no error, no requeue: the operator rests until
  the informers resync. `Reconcile` assumes otherwise at line 84. `Converges` still holds, because of the resync.
* `s3_orphan`: create and tag are two calls, and every pass clears the tags before it writes them. A failure in
  between leaves a bucket that the search does not recognise; if the resource is then deleted and created again, the
  cluster gets a second bucket. On GCS `OneBucketPerCluster` excludes it: labels come with the creation. The same claim fails in a second way, without a
  failure: a bucket that is created and tagged, but that S3 does not show everywhere yet, is passed over by the search without an error (`bucket.go:209`, `247`). If the
  resource is deleted and created again meanwhile, a second bucket is made and tagged beside it. `OneBucketPerCluster` excuses exactly these buckets (`missed`), and shows that the
  search misses a tagged bucket in no other way.
* `gcs_stuck`: GCS reports the operator's own bucket like anybody's when it is created again, so a
  failure between `createBucket` and the status update blocks the resource for ever.
  `ConvergesUnlessUnrecorded` shows that it is the only way to get stuck on a name that is the operator's own. A name that
  another project holds blocks the resource too, whether it was taken before the bucket was created or after it was deleted: the driver returns the error of
  `createBucket` (`gcs.go:105`) and, unlike S3's, never gives the name up. Both properties excuse that (`Blocked`), as no document says what should happen.
* `provision_garbled`: a CredentialsRequest whose ProviderSpec does not decode is an error of
  `credentialsRequestSpecEqual`, returned before the update that would repair it. Every later Reconcile stops there too, and the
  Deployment, Service and ServiceMonitor after it are no longer looked at. `Settles` shows that this is the only obstacle.
* `startup_metrics`: `addMetrics` generates the ServiceMonitor from the Service it has generated, not from the one it has found. A process that ends
  between the two leaves a Service that every later start finds, so its ServiceMonitor has an owner without UID, is refused, and `main` exits, again and again. A
  ServiceMonitor that is deleted, or collected after its Service was replaced, has the same effect at the next start. `provisionVelero` avoids it (`velero.go:201`).

Two more are plain from the code and have no run. The README has region and project (and installer provisioned infrastructure) validated when the operator starts, with the
platform (`README.md:14-17`); `main` looks at the platform's type only, and `NewDriver` at the others at the first Reconcile, so without them CRDs and metrics objects are
installed and a manager runs whose every Reconcile fails. `Supported` therefore does not ask for them, nor `Managed` for a driver where they are not there. And the README promises that the bucket's
settings are enforced again, while the GCS driver enforces labels only (`gcs.go:123`): in `GCSDriver` nothing sets `uniform` again after `OpenAccess`.

### Bounds

* `Buckets`: three names (four for GCS with another cluster's bucket). Two are needed to have a second bucket or a name that is taken, the
  third to have a bucket of another cluster or region besides.
* `MaxFaults` (at most 3) bounds failed calls, crashes, deletions, other writers and outside changes of buckets. Three suffice for
  the longest scenarios met: delete the resource, cut a pass short, and interfere with a bucket. `watch` needs no bound of its
  own: only faults and status changes append to it.
* Symmetry over the bucket names in `s3_safety`, `s3_stranded` and `s3_orphan`, where no constant singles one out and no property is a liveness property.
* `provision`: the kinds bsl, service and monitor (the first, and the unwatched ones; vsl, creds and deployment behave as bsl does, creds with a bucket on AWS only and with a
  comparison that can fail, for which `provision_garbled` has it), two buckets, one disturbance: what is hard here comes from the lagging
  caches, which are not bounded. Safety was also explored with creds besides (5,810,440 states), with two disturbances (3,756,511)
  and with all six kinds on GCP without disturbances; liveness with creds and one bucket (495,188), and with one bucket and two disturbances. `uid` grows only with deletions. Six Service UIDs suffice, as at most five are referred to at a time.
* `startup`: two CRDs (a loop cut short in the middle), three pods (one that goes, one that takes over, one that
  overtakes it), three disturbances. `uid` grows only when a Service is created, which takes a disturbance each time but the first. `startup_metrics` needs one pod.
* `CHECK_DEADLOCK FALSE` only in the runs of `Startup`: an operator whose manager runs, with no pods and disturbances left, has nothing more to do.

### Fairness

`FairSpec` assumes weak fairness of the worker (a queued request is taken and each call returns),
of the informer's delivery, of the restart of the pod (its Deployment), of the clock, of S3's
propagation, and of `Resync`: controller-runtime's informers resync (ten hours by default, not
changed in `main.go`), which queues the resource. Nothing is assumed of administrators, and failures end because they are
bounded, which stands for "no further disturbance". `ProvisionVelero` may ask for a requeue each time.

`Provision` assumes the same of worker, informers, resync and restart, and that the garbage collector works. It assumes
nothing of the storage or the clock: `Settles` is conditional on the sync lasting. `Startup` assumes that calls return,
that containers are restarted, that the Deployment replaces a pod that is gone and stops the one that
was replaced, and that the lock of a pod that is gone and the ServiceMonitor of a Service that is gone are collected; not that there is ever a new release.

## Proofs

Every safety property of a passing run, the refinements and the action property included, is a
theorem: TLC shows it on a small instance, TLAPS for all buckets, names, kinds, pods and numbers of
disturbances. Each inductive invariant below was checked by TLC before it was proved.

### Assumptions

Only the named `ASSUME`s, which TLC evaluates in the runs: the empty name is no bucket, `Absent` no status, `MaxFaults` a natural number, the
constants' sets are sets of buckets, the kinds are among the six and hold the three
the code refers to by name, `Platform` is AWS or GCP, no bucket is called like a marker of `Specs`, no CRD like a metrics object,
and there is a pod. The two infrastructure names differ, and
`sanitizeBucketLabel` leaves them as they are (`InfraSanitizedAssumption`): it turns what is not allowed in a GCS label into "-", and
an infrastructure name is a cluster's name and random letters joined by "-". Two names that became one when sanitized
would make two clusters one to the GCS driver.

One theorem has a condition of its own, `TheirBuckets = {}` in `S3SearchProofs!OneBucketTheorem`. It is the instance of `s3_safety`, and without it
the statement is false: the mix-up of `s3_theirs` leads the operator to tag another cluster's bucket as its own second one.

### Storage

* `S3Proofs!TypeCorrect`: `Spec => []TypeOK`.
* `S3Proofs!Invariance`: `Spec => []IInv`. `GateHardened` alone is not inductive. `IInv` adds `Following` (the
  informer is behind by exactly what is in `watch`; a fresh instance is what is stored, except between
  choosing a name and saving it), `PlaceOK` (what each call finds: a name or none, the settings of the calls
  before it, and that no pass is made on a recent status), `Unowned`, and that *all* copies of the
  status are vouched for, `inst` too. The key lemma is `ReadyGrows`: no step takes a setting from a bucket without its counting as disturbed.
* `S3Proofs!GateTheorem`: `Spec => []GateHardened`, from `IInv`.
* `S3Proofs!ContractTheorem`: `Spec => ImplementsContract`. Only the five status updates of
  `CreateStorage` need work: by `Following` they are made on what is stored; the rest is `Prepare` or nothing.
* `S3SearchProofs!RestTheorem`: `Spec => []RestsOnlyWhenMissing`. The state of rest shows nothing of the pass that led to it. `RestsInv` adds that a running
  Reconcile that nothing will follow (no request queued, no version on its way to the informer) holds the stored version, so that
  what it leaves is what it has just written or found.
* `S3SearchProofs!OneBucketTheorem`: `Spec => []OneBucketPerCluster`, under the condition above. The name is lost with the resource, but copies of it live on in the cache, in
  `watch` and in a Reconcile that still runs. `NameInv` says that all names in circulation and all tagged buckets, apart from the `missed` ones, together are at most one bucket,
  and that a name is proposed and saved only where every tagged bucket was missed; `ScanInv` follows the search: every tagged bucket is still to be
  looked at, was read or was missed, though buckets are hidden from it and tags disappear while it goes on. `Alone` (in `ReconcilerProofs`) is what the loop
  contributes: a Reconcile that chooses a name for the stored version read it from an informer that had nothing more to learn, so no other name is under way.
* `TagLoopProofs!LoopTheorem`: `Spec => []LoopComputesClosedForm`. The results of the loop of `FindMatchingTags`, over all orders of the map, are exactly those of the closed form that
  `S3Driver` uses. `LoopInv` says that each flag tells whether a bucket the loop has come to sets it, and that `possiblematch` is one of those that set either.
* `GCSProofs!TypeCorrect`, `Invariance`, `GateTheorem`, `ContractTheorem`: the same for the GCS driver, with the labels as what a sync stands for, on the lemmas of `ReconcilerProofs`.
* `GCSProofs!TheirsTheorem`: `Spec => []TheirsUntouched`. `TheirsInv` adds that no copy of the status names the other cluster's bucket; what `findVeleroBucket`
  returns has this cluster's labels, and `LabelsDiffer` shows that the other's bucket has not. It is the property that S3 lacks.
* `GCSProofs!OneBucketTheorem`: `Spec => []OneBucketPerCluster`, with other clusters in the project. The argument is that of S3; `BucketsOK` adds that a bucket the operator made is labelled
  from the start, so that the theorem also speaks of buckets whose name was never recorded.
* `StorageContractProofs!ContractSafe`: the contract alone implies that a recent sync is backed by a
  provisioned, ready bucket. By the two contract theorems it applies to both drivers.

### Installation

* `ProvisionProofs!ProvisionInvariance`: `Spec => []IInv`. An object gets its bucket from the instance, that from the cache, and that from
  the status, so the invariant follows the name along this way: `CacheOK` (a copy that counts as synced names a ready bucket
  and is the stored one; if the copy is of a former VeleroInstall, the present one has no name yet), `InstanceOK` (the same of the instance while objects
  are seen to: nobody but the worker writes names, and it is busy), `ObjectsOK`. The contract's own invariant is a conjunct, kept
  because every step maps to a step of the contract (`StorageStep`).
* `ProvisionTypes`, `ReadyBucketTheorem`, `StaysTheorem`: `TypeOK`, `VeleroOnReadyBucket` and the action property
  `StaysOnBucket`, from it. The type invariant needs it too: that the Service in the cache has a UID, and that there is a name, are facts about other actions.
* `ProvisionProofs!RestTheorem`: `Spec => []AtRestInstalled`. `RestInv` follows a Reconcile from object to object. `DoneOK`: if nothing will bring about another one, it
  works on the stored version, and the objects it has passed are in order. It judges by the informers' copies, so
  `CopiesOK` says what a copy may hide: one that is out of date with no event under way hides what others did
  unheard, or the operator's own write to an object whose events never come, which is then as specified or has no owner.

### Start

* `StartupProofs!StartupInvariance`: `Spec => []IInv`. `OneLeader` and `ClusterFits` speak only of the end of the start; `IInv` adds
  `LockHeld` (who is past the lock holds it), `Progress` (what a process has seen to, at each stage, is as its release has it) and `Checked` (the checks it has passed).
* `StartupTypes`, `OneLeaderTheorem`, `ClusterFitsTheorem`, `UntouchedTheorem`: the four safety invariants, for any number of pods and CRDs.

### Only model-checked

The liveness properties `Converges`, `DriftRepaired`, `ConvergesUnlessUnrecorded`, `Settles`, `Collected` and `TakesOverUnlessHalfMeasured`: fairness and `ENABLED` are out of the prover's reach. The
violations are counterexamples and need no proof.

## Not modelled

* The literal specifications of the Deployment, Service and ServiceMonitor and how they are compared: data without control.
  A comparison that is never equal (the API server filling in defaults, say) would be a matter of these literals.
* Generated code, scheme registration, constants, version and build files.
* The end of leadership without the end of the process (a pod deleted by force while its node is cut off): leader-for-life gives the lock away then, and
  nothing in this repository could notice.
* CRDs that change while the operator runs. They are looked at only by `main` (`main.go:175`), and `ClusterFits` excuses what was disturbed since; the
  README's list of steps (`README.md:19`) can be read as part of the loop.
* A CredentialsRequest without a ProviderSpec (which the API server lets pass, if its schema does): `credentialsRequestSpecEqual` dereferences the nil. It would come back at
  every Reconcile as the one that cannot be decoded does, as a panic rather than an error.

## Plan

1. Done: `BucketStatus`, `Reconciler`, `TagSearch`/`TagLoop`, both drivers, `StorageContract`, the S3 proofs.
2. Done: `Provision`, composed with `StorageContract` rather than with a driver, and `Startup`, with the proofs of their safety.
3. Done: the proofs of `OneBucketPerCluster` and `RestsOnlyWhenMissing` for S3, of the closed form of the search, of all safety of the GCS driver, and of `AtRestInstalled`.
4. Done: S3's delay in what every call may miss, the ServiceMonitor's owner in `Startup`, and the properties that depend on them.
5. Left, model: a `disturbed` that a later pass clears, so that the gate speaks again of a bucket that was repaired, and the gate's proof with it.
