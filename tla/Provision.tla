----------------------------- MODULE Provision -----------------------------
(***************************************************************************)
(* provisionVelero: the six objects that make up a Velero installation,    *)
(* each looked up in the informers' cache and created or updated in turn,  *)
(* with the owner references by which Kubernetes collects them and by      *)
(* which their events come back to the operator.                           *)
(*                                                                         *)
(* The storage half of Reconcile is what StorageContract says of it, which *)
(* is what the drivers implement.  Here a VeleroInstall also has a UID:    *)
(* one that is deleted and created again is another owner.                 *)
(***************************************************************************)
EXTENDS Naturals, StorageContract

CONSTANTS
    Platform,   \* "AWS" or "GCP"
    Kinds,      \* the kinds of objects followed: all six, or fewer in a small instance
    MaxFaults   \* bound: failed calls, crashes, deletions, changes by others

ASSUME PlatformAssumption == Platform \in {"AWS", "GCP"}
ASSUME KindsAssumption ==
    /\ Kinds \subseteq {"bsl", "vsl", "creds", "deployment", "service", "monitor"}
    /\ {"bsl", "service", "monitor"} \subseteq Kinds
ASSUME FaultsAssumption == MaxFaults \in Nat

VARIABLES
    uid,        \* UID of the stored VeleroInstall, or of the last one there was
    cached,     \* the informer's copy of the VeleroInstall, or Absent
    lagging,    \* the informer has not been told of the stored VeleroInstall yet
    queued,     \* the request is in the work queue
    pc,         \* the object the worker comes to next; "storage", "idle" or "down"
    inst,       \* instance of the running Reconcile
    fresh,      \* instance still carries the stored resourceVersion
    svc,        \* UID of foundService
    objs,       \* the stored object of each kind, or Absent
    seen,       \* the informers' copy of it
    behind,     \* kinds whose copy is not the stored version
    notify,     \* kinds of which an event for the VeleroInstall is under way
    unnoticed,  \* kinds that others changed without such an event (history)
    faults      \* disturbances that may still happen

crVars == <<status, ready, uid, cached, lagging>>
runVars == <<pc, inst, fresh, svc, queued>>
objVars == <<objs, behind, notify, unnoticed>>
vars == <<status, ready, uid, cached, lagging, queued, pc, inst, fresh, svc,
          objs, seen, behind, notify, unnoticed, faults>>

-----------------------------------------------------------------------------
\* The kinds SetupWithManager names in Owns: events of the others go nowhere.
Watched == Kinds \ {"service", "monitor"}

\* The order of the kinds in provisionVelero.
Rank == [bsl |-> 1, vsl |-> 2, creds |-> 3, deployment |-> 4, service |-> 5, monitor |-> 6]

After(k) == CHOOSE n \in Kinds : /\ Rank[n] > Rank[k]
                                /\ \A m \in Kinds : Rank[m] > Rank[k] => Rank[n] <= Rank[m]

NoUid == 0

\* UIDs of Services: five places hold one, so one of these is always new.
ServiceUids == 1..6

\* What an object specifies: a bucket, what the code wants of it otherwise, something
\* else, or (a CredentialsRequest) a ProviderSpec that cannot be decoded.
Specs == Buckets \cup {"ours", "drift", "garbled"}

Object == [owner : Nat, spec : Specs, uid : ServiceUids \cup {NoUid}, by : {"operator", "others"}]

ASSUME SpecsAssumption == Buckets \cap {"ours", "drift", "garbled"} = {}

Instance == [uid : Nat, status : Status]
NoInstance == [uid |-> NoUid, status |-> EmptyStatus]

ASSUME NothingAssumption == Absent \notin Object /\ Absent \notin Instance

\* On AWS the policy of the credentials names the bucket; on GCP they are roles of the project.
awsCredentialsRequest(bucketName) == bucketName
gcpCredentialsRequest == "ours"

\* The Spec provisionVelero builds for the instance in its hands.
Wanted(k) ==
    CASE k = "bsl" -> inst.status.name
      [] k = "creds" /\ Platform = "AWS" -> awsCredentialsRequest(inst.status.name)
      [] k = "creds" /\ Platform = "GCP" -> gcpCredentialsRequest
      [] OTHER -> "ours"

\* Every variable has its type; the worker has an instance in its hands whenever it
\* is at work, and a Service's UID when it comes to the ServiceMonitor.
TypeOK ==
    /\ status \in Status \cup {Absent}
    /\ ready \in SUBSET Buckets
    /\ uid \in Nat
    /\ cached \in Instance \cup {Absent}
    /\ lagging \in BOOLEAN
    /\ queued \in BOOLEAN
    /\ pc \in Kinds \cup {"storage", "idle", "down"}
    /\ inst \in Instance
    /\ fresh \in BOOLEAN
    /\ svc \in ServiceUids \cup {NoUid}
    /\ objs \in [Kinds -> Object \cup {Absent}]
    /\ seen \in [Kinds -> Object \cup {Absent}]
    /\ behind \in SUBSET Kinds
    /\ notify \in SUBSET behind
    /\ unnoticed \in SUBSET Kinds
    /\ faults \in 0..MaxFaults
    /\ pc \in Kinds => inst.status.name \in Buckets
    /\ pc = "monitor" <=> svc # NoUid

Init ==
    /\ ContractInit
    /\ uid = NoUid
    /\ cached = Absent
    /\ lagging = FALSE
    /\ queued = FALSE
    /\ pc = "idle"
    /\ inst = NoInstance
    /\ fresh = FALSE
    /\ svc = NoUid
    /\ objs = [k \in Kinds |-> Absent]
    /\ seen = [k \in Kinds |-> Absent]
    /\ behind = {}
    /\ notify = {}
    /\ unnoticed = {}
    /\ faults = MaxFaults

-----------------------------------------------------------------------------
Fault == faults > 0 /\ faults' = faults - 1

\* Reconcile returns; with an error or Requeue the request is queued again.
Return(requeue) ==
    /\ pc' = "idle"
    /\ inst' = NoInstance
    /\ fresh' = FALSE
    /\ svc' = NoUid
    /\ queued' = (queued \/ requeue)

Goto(next) ==
    /\ pc' = next
    /\ UNCHANGED <<inst, fresh, svc, queued>>

\* An event of the kind reaches the VeleroInstall through the controller reference of
\* the object before or after the change.
Heard(k, obj) ==
    /\ k \in Watched
    /\ \E version \in {objs[k], obj} : version # Absent /\ version.owner # NoUid

\* A write to the stored object, of which the informers learn later.
Write(k, obj) ==
    /\ objs' = [objs EXCEPT ![k] = obj]
    /\ behind' = behind \cup {k}
    /\ notify' = IF Heard(k, obj) THEN notify \cup {k} ELSE notify

OperatorWrites(k, obj) ==
    /\ Write(k, obj)
    /\ unnoticed' = unnoticed \ {k}

\* A new process looks at everything, so nothing goes unnoticed while there is none.
OthersWrite(k, obj) ==
    /\ Write(k, obj)
    /\ unnoticed' = IF Heard(k, obj) \/ pc = "down" THEN unnoticed ELSE unnoticed \cup {k}

\* The API server gives a Service a UID that nothing refers to.
NewUid(k) ==
    IF k # "service" THEN NoUid
    ELSE CHOOSE u \in ServiceUids :
            /\ u # svc
            /\ \A copy \in {objs, seen} :
                  /\ copy["service"] # Absent => copy["service"].uid # u
                  /\ copy["monitor"] # Absent => copy["monitor"].owner # u

-----------------------------------------------------------------------------
\* Mutant: the resource is not asked whether it needs a bucket.
Mutant_FetchUngated ==
    /\ pc = "idle"
    /\ queued
    /\ queued' = FALSE
    /\ cached # Absent
    /\ inst' = cached
    /\ fresh' = ~lagging
    /\ pc' = "bsl"
    /\ UNCHANGED <<crVars, svc, objVars, seen, faults>>

\* Reconcile starts: the instance is read from the cache and the work chosen.
Fetch ==
    /\ pc = "idle"
    /\ queued
    /\ queued' = FALSE
    /\ \/ /\ cached = Absent
          /\ UNCHANGED <<pc, inst, fresh>>
       \/ /\ cached # Absent
          /\ inst' = cached
          /\ fresh' = ~lagging
          /\ pc' = IF StorageBucketReconcileRequired(cached.status) THEN "storage" ELSE "bsl"
    /\ UNCHANGED <<crVars, svc, objVars, seen, faults>>

\* CreateStorage, as the contract has it: the status is written if the instance is still
\* the stored one, with or without going on after a name was chosen.
CreateStorage ==
    /\ pc = "storage"
    /\ \/ /\ ~fresh
          /\ Return(TRUE)
          /\ UNCHANGED <<status, ready, lagging>>
       \/ /\ fresh
          /\ Lose \/ GiveUp \/ Sync \/ \E n \in Buckets : Choose(n)
          /\ Return(FALSE)
          /\ lagging' = (lagging \/ status' # status)
       \/ /\ fresh
          /\ \E n \in Buckets : Choose(n)
          /\ inst' = [inst EXCEPT !.status = status']
          /\ lagging' = TRUE
          /\ UNCHANGED <<pc, fresh, svc, queued>>
    /\ UNCHANGED <<uid, cached, objVars, seen, faults>>

-----------------------------------------------------------------------------
\* The object is found and specifies something else.
Differs(k) == seen[k] # Absent /\ seen[k].spec # Wanted(k)

\* credentialsRequestSpecEqual cannot decode what it finds.
Undecodable(k) == seen[k] # Absent /\ seen[k].spec = "garbled"

\* The lookup ends in an error: the object was created, changed or deleted since the
\* cache was filled (AlreadyExists, Conflict, NotFound), or cannot be compared.
Refused(k) ==
    \/ seen[k] = Absent /\ objs[k] # Absent
    \/ Differs(k) /\ k \in behind
    \/ Undecodable(k)

\* Mutant: SetControllerReference is left out.
Mutant_OwnedByNobody(k) == [owner |-> NoUid, spec |-> Wanted(k), uid |-> NewUid(k), by |-> "operator"]

\* The object as it is built, with the instance as its controller.
OwnedByInstance(k) == [owner |-> inst.uid, spec |-> Wanted(k), uid |-> NewUid(k), by |-> "operator"]

\* The ServiceMonitor is owned by the Service that was found.
generateServiceMonitor(service) ==
    [owner |-> service, spec |-> Wanted("monitor"), uid |-> NoUid, by |-> "operator"]

\* The object is not found and is created.
CreateObject(k, obj) ==
    /\ seen[k] = Absent
    /\ objs[k] = Absent
    /\ OperatorWrites(k, obj)

\* Mutant: an object that exists is not compared.
Mutant_UpdateObjectNever(k) == seen[k] # Absent /\ UNCHANGED objVars

\* Mutant: the update takes the object over, and not the Spec.
Mutant_UpdateObjectAdopts(k) ==
    /\ seen[k] # Absent
    /\ IF Differs(k) THEN OperatorWrites(k, [seen[k] EXCEPT !.owner = inst.uid])
                     ELSE UNCHANGED objVars

\* The object is found as it should be, or its Spec, and only that, is put right.
UpdateObject(k) ==
    /\ seen[k] # Absent
    /\ IF Differs(k) THEN OperatorWrites(k, [seen[k] EXCEPT !.spec = Wanted(k)])
                     ELSE UNCHANGED objVars

\* BackupStorageLocation, VolumeSnapshotLocation, CredentialsRequest and Deployment.
Ensure(k) ==
    /\ pc = k
    /\ \/ Refused(k) /\ Return(TRUE) /\ UNCHANGED objVars
       \/ ~Refused(k) /\ (CreateObject(k, OwnedByInstance(k)) \/ UpdateObject(k)) /\ Goto(After(k))
    /\ UNCHANGED <<crVars, seen, faults>>

\* Mutant: the Service is created and Reconcile returns without asking to be called again.
Mutant_EnsureServiceNoRequeue ==
    /\ pc = "service"
    /\ \/ Refused("service") /\ Return(TRUE) /\ UNCHANGED objVars
       \/ ~Refused("service") /\ CreateObject("service", OwnedByInstance("service")) /\ Return(FALSE)
       \/ /\ ~Refused("service")
          /\ UpdateObject("service")
          /\ svc' = seen["service"].uid
          /\ pc' = "monitor"
          /\ UNCHANGED <<inst, fresh, queued>>
    /\ UNCHANGED <<crVars, seen, faults>>

\* After creating the Service, Reconcile asks to be called again for the ServiceMonitor.
EnsureService ==
    /\ pc = "service"
    /\ \/ Refused("service") /\ Return(TRUE) /\ UNCHANGED objVars
       \/ ~Refused("service") /\ CreateObject("service", OwnedByInstance("service")) /\ Return(TRUE)
       \/ /\ ~Refused("service")
          /\ UpdateObject("service")
          /\ svc' = seen["service"].uid
          /\ pc' = "monitor"
          /\ UNCHANGED <<inst, fresh, queued>>
    /\ UNCHANGED <<crVars, seen, faults>>

\* The ServiceMonitor comes last; it is not owned by the VeleroInstall.
EnsureMonitor ==
    /\ pc = "monitor"
    /\ \/ Refused("monitor") /\ Return(TRUE) /\ UNCHANGED objVars
       \/ /\ ~Refused("monitor")
          /\ CreateObject("monitor", generateServiceMonitor(svc)) \/ UpdateObject("monitor")
          /\ Return(FALSE)
    /\ UNCHANGED <<crVars, seen, faults>>

provisionVelero == (\E k \in Watched : Ensure(k)) \/ EnsureService \/ EnsureMonitor

Worker == Fetch \/ CreateStorage \/ provisionVelero

-----------------------------------------------------------------------------
\* A call fails, and Reconcile returns the error.
CallFails ==
    /\ pc \notin {"idle", "down"}
    /\ Fault
    /\ Return(TRUE)
    /\ UNCHANGED <<crVars, objVars, seen>>

\* The process dies, with its caches and its queue.
Crash ==
    /\ pc # "down"
    /\ Fault
    /\ pc' = "down"
    /\ inst' = NoInstance
    /\ fresh' = FALSE
    /\ svc' = NoUid
    /\ queued' = FALSE
    /\ cached' = Absent
    /\ lagging' = FALSE
    /\ seen' = [k \in Kinds |-> Absent]
    /\ behind' = {}
    /\ notify' = {}
    /\ UNCHANGED <<status, ready, uid, objs, unnoticed>>

\* The stored VeleroInstall as an informer is told of it.
Stored == IF status = Absent THEN Absent ELSE [uid |-> uid, status |-> status]

\* The new process lists everything.
Restart ==
    /\ pc = "down"
    /\ pc' = "idle"
    /\ cached' = Stored
    /\ lagging' = FALSE
    /\ queued' = (status # Absent)
    /\ seen' = objs
    /\ behind' = {}
    /\ notify' = {}
    /\ unnoticed' = {}
    /\ UNCHANGED <<status, ready, uid, inst, fresh, svc, objs, faults>>

\* The informer learns of the VeleroInstall's latest version.
Deliver ==
    /\ pc # "down"
    /\ lagging
    /\ cached' = Stored
    /\ lagging' = FALSE
    /\ queued' = TRUE
    /\ UNCHANGED <<status, ready, uid, pc, inst, fresh, svc, objVars, seen, faults>>

\* An informer learns of an object's latest version; its owner is queued, if it has one.
Observe(k) ==
    /\ pc # "down"
    /\ k \in behind
    /\ seen' = [seen EXCEPT ![k] = objs[k]]
    /\ behind' = behind \ {k}
    /\ notify' = notify \ {k}
    /\ queued' = (queued \/ k \in notify)
    /\ UNCHANGED <<crVars, pc, inst, fresh, svc, objs, unnoticed, faults>>

\* The informers' periodic resync.
Resync ==
    /\ pc # "down"
    /\ cached # Absent
    /\ ~queued
    /\ queued' = TRUE
    /\ UNCHANGED <<crVars, pc, inst, fresh, svc, objVars, seen, faults>>

-----------------------------------------------------------------------------
CreateCR ==
    /\ Create
    /\ uid' = uid + 1
    /\ lagging' = TRUE
    /\ UNCHANGED <<cached, runVars, objVars, seen, faults>>

DeleteCR ==
    /\ Delete
    /\ Fault
    /\ fresh' = FALSE
    /\ lagging' = TRUE
    /\ UNCHANGED <<uid, cached, pc, inst, svc, queued, objVars, seen>>

\* The buckets' settings, which the drivers see to.
PrepareBucket ==
    /\ Prepare
    /\ ready' # ready
    /\ UNCHANGED <<uid, cached, lagging, runVars, objVars, seen, faults>>

AgedInstance(i) == IF i = Absent THEN Absent ELSE [i EXCEPT !.status = Aged(i.status)]

\* The reconcile period of the last sync runs out, for every copy of it.
PeriodEnds ==
    /\ <<status, cached, inst>> # <<Aged(status), AgedInstance(cached), AgedInstance(inst)>>
    /\ status' = Aged(status)
    /\ cached' = AgedInstance(cached)
    /\ inst' = AgedInstance(inst)
    /\ UNCHANGED <<ready, uid, lagging, pc, fresh, svc, queued, objVars, seen, faults>>

\* The owner an object refers to by UID does not exist.
Orphaned(k) ==
    /\ objs[k] # Absent
    /\ objs[k].owner # NoUid
    /\ IF k = "monitor"
       THEN objs["service"] # Absent => objs["service"].uid # objs[k].owner
       ELSE status # Absent => uid # objs[k].owner

\* Kubernetes deletes the objects whose owner is gone.
GarbageCollect(k) ==
    /\ Orphaned(k)
    /\ OthersWrite(k, Absent)
    /\ UNCHANGED <<crVars, runVars, seen, faults>>

\* Somebody deletes an object, changes it, or makes one of the same name.
Interfere(k, obj) ==
    /\ Fault
    /\ OthersWrite(k, obj)
    /\ UNCHANGED <<crVars, runVars, seen>>

RemoveObject(k) == objs[k] # Absent /\ Interfere(k, Absent)

ChangeObject(k) ==
    /\ objs[k] # Absent
    /\ \E spec \in {"drift"} \cup (IF k = "creds" THEN {"garbled"} ELSE {}) :
          objs[k].spec # spec /\ Interfere(k, [objs[k] EXCEPT !.spec = spec])

MakeObject(k) ==
    /\ objs[k] = Absent
    /\ Interfere(k, [owner |-> NoUid, spec |-> "drift", uid |-> NewUid(k), by |-> "others"])

Cluster ==
    \/ CreateCR \/ DeleteCR \/ PrepareBucket \/ PeriodEnds
    \/ \E k \in Kinds : GarbageCollect(k) \/ RemoveObject(k) \/ ChangeObject(k) \/ MakeObject(k)

Next ==
    \/ Worker
    \/ CallFails \/ Crash \/ Restart \/ Deliver \/ Resync
    \/ \E k \in Kinds : Observe(k)
    \/ Cluster

Spec == Init /\ [][Next]_vars

(***************************************************************************)
(* The worker takes what is queued and its calls return; the informers     *)
(* deliver and resync; the pod is restarted; the garbage collector works.  *)
(* Nothing is asked of the storage, the clock or people.                   *)
(***************************************************************************)
Fairness ==
    /\ WF_vars(Worker)
    /\ WF_vars(Deliver)
    /\ WF_vars(Resync)
    /\ WF_vars(Restart)
    /\ \A k \in Kinds : WF_vars(Observe(k)) /\ WF_vars(GarbageCollect(k))

FairSpec == Spec /\ Fairness
=============================================================================
