-------------------------- MODULE ProvisionProofs --------------------------
(***************************************************************************)
(* The safety of provisionVelero, for any buckets, any choice of kinds and *)
(* any number of disturbances, over whatever keeps the storage contract.   *)
(***************************************************************************)
EXTENDS ProvisionProperties, StorageContractProofs

(***************************************************************************)
(* Neither property is inductive: an object gets the bucket of the         *)
(* instance, which comes from the cache, which comes from the status.  The *)
(* invariant follows the bucket's name along that way.                     *)
(***************************************************************************)

\* An object of the kind that may be stored: a Service has a UID, and one that names a
\* bucket names one that is ready.
ObjectOK(k, obj) ==
    /\ obj \in Object \cup {Absent}
    /\ obj # Absent =>
          /\ k = "service" => obj.uid # NoUid
          /\ k \in BucketKinds => obj.spec \in ready \cup {"drift", "garbled"}

ObjectsOK == \A k \in Kinds : ObjectOK(k, objs[k]) /\ ObjectOK(k, seen[k])

\* The informer's copy of the VeleroInstall.  One that counts as synced names a ready
\* bucket, and is the stored one; if it is of a former VeleroInstall the present one has
\* no name yet.
CacheOK ==
    /\ ~lagging /\ pc # "down" => cached = Stored
    /\ pc = "down" => cached = Absent /\ ~fresh
    /\ cached # Absent =>
          /\ cached.uid <= uid
          /\ cached.status.lastSync = "recent" => cached.status.name \in ready
          /\ status # Absent /\ cached.uid # uid => status.name = NoName
          /\ status # Absent /\ cached.uid = uid /\ cached.status.lastSync = "recent" =>
                cached.status = status

\* The instance of the running Reconcile.  While objects are seen to nobody writes the
\* status, so that its name is still the stored one or that of a former VeleroInstall.
InstanceOK ==
    /\ fresh => /\ status # Absent
                /\ inst = [uid |-> uid, status |-> status]
                /\ cached # Absent /\ cached.uid = uid
    /\ pc \in Kinds =>
          /\ inst.uid <= uid
          /\ inst.status.name \in ready
          /\ status # Absent /\ inst.uid # uid => status.name = NoName
          /\ status # Absent /\ inst.uid = uid => status.name = inst.status.name

IInv == TypeOK /\ ContractInv /\ ObjectsOK /\ CacheOK /\ InstanceOK

-----------------------------------------------------------------------------
\* Facts about the operators of the model.

LEMMA KindsFacts ==
  /\ Watched = Kinds \ {"service", "monitor"} /\ Watched \subseteq Kinds
  /\ "bsl" \in Kinds /\ "service" \in Kinds /\ "monitor" \in Kinds
  /\ "storage" \notin Kinds /\ "idle" \notin Kinds /\ "down" \notin Kinds
  /\ BucketKinds \subseteq Watched
  BY KindsAssumption DEF Watched, BucketKinds

\* After a watched kind comes another, or the Service, and no kind is passed over.
LEMMA AfterType ==
  ASSUME NEW k \in Watched
  PROVE  /\ After(k) \in Kinds \ {"monitor"}
         /\ \A m \in Kinds : Rank[m] > Rank[k] => Rank[After(k)] <= Rank[m]
  <1> DEFINE Least(n) == /\ Rank[n] > Rank[k]
                         /\ \A m \in Kinds : Rank[m] > Rank[k] => Rank[n] <= Rank[m]
  <1>1. /\ k \in {"bsl", "vsl", "creds", "deployment"}
        /\ Kinds \subseteq {"bsl", "vsl", "creds", "deployment", "service", "monitor"}
        /\ "service" \in Kinds
    BY KindsAssumption DEF Watched
  <1>2. \E n \in Kinds : Least(n)
    <2>1. CASE "vsl" \in Kinds /\ k = "bsl"
      <3>1. Least("vsl")
        BY <1>1, <2>1 DEF Rank
      <3> QED
        BY <2>1, <3>1
    <2>2. CASE "creds" \in Kinds /\ (k = "vsl" \/ (k = "bsl" /\ "vsl" \notin Kinds))
      <3>1. Least("creds")
        BY <1>1, <2>2 DEF Rank
      <3> QED
        BY <2>2, <3>1
    <2>3. CASE /\ "deployment" \in Kinds
               /\ \/ k = "creds"
                  \/ k = "vsl" /\ "creds" \notin Kinds
                  \/ k = "bsl" /\ "vsl" \notin Kinds /\ "creds" \notin Kinds
      <3>1. Least("deployment")
        BY <1>1, <2>3 DEF Rank
      <3> QED
        BY <2>3, <3>1
    <2>4. CASE \/ k = "deployment"
               \/ k = "creds" /\ "deployment" \notin Kinds
               \/ k = "vsl" /\ "creds" \notin Kinds /\ "deployment" \notin Kinds
               \/ /\ k = "bsl" /\ "vsl" \notin Kinds
                  /\ "creds" \notin Kinds /\ "deployment" \notin Kinds
      <3>1. Least("service")
        BY <1>1, <2>4 DEF Rank
      <3> QED
        BY <1>1, <3>1
    <2> QED
      BY <1>1, <2>1, <2>2, <2>3, <2>4
  <1>3. After(k) \in Kinds /\ Least(After(k))
    BY <1>2 DEF After
  <1>4. Rank[After(k)] <= Rank["service"]
    BY <1>1, <1>3 DEF Rank
  <1>5. After(k) # "monitor"
    BY <1>4 DEF Rank
  <1> QED
    BY <1>3, <1>5

\* Of six UIDs one is none of five given ones.
LEMMA OneIsFree ==
  ASSUME NEW a \in Nat, NEW b \in Nat, NEW c \in Nat, NEW d \in Nat, NEW e \in Nat
  PROVE  \E u \in ServiceUids : u # a /\ u # b /\ u # c /\ u # d /\ u # e
  BY DEF ServiceUids

LEMMA NewUidType ==
  ASSUME TypeOK, NEW k \in Kinds
  PROVE  /\ NewUid(k) \in ServiceUids \cup {NoUid}
         /\ k = "service" => NewUid(k) # NoUid
  <1>1. CASE k # "service"
    BY <1>1 DEF NewUid
  <1>2. CASE k = "service"
    <2> DEFINE Uid(copy) == IF copy["service"] = Absent THEN NoUid ELSE copy["service"].uid
               Own(copy) == IF copy["monitor"] = Absent THEN NoUid ELSE copy["monitor"].owner
    <2>1. svc \in Nat /\ \A copy \in {objs, seen} : Uid(copy) \in Nat /\ Own(copy) \in Nat
      BY KindsFacts DEF TypeOK, Object, ServiceUids, NoUid
    <2>2. PICK u \in ServiceUids : /\ u # svc /\ u # Uid(objs) /\ u # Uid(seen)
                                   /\ u # Own(objs) /\ u # Own(seen)
      <3> HIDE DEF Uid, Own
      <3> QED
        BY <2>1, OneIsFree
    <2>3. \E v \in ServiceUids :
            /\ v # svc
            /\ \A copy \in {objs, seen} :
                  /\ copy["service"] # Absent => copy["service"].uid # v
                  /\ copy["monitor"] # Absent => copy["monitor"].owner # v
      BY <2>2
    <2>4. NewUid(k) \in ServiceUids
      BY <1>2, <2>3 DEF NewUid
    <2> QED
      BY <2>4 DEF ServiceUids, NoUid
  <1> QED
    BY <1>1, <1>2

LEMMA AgedType ==
  /\ \A s \in Status : Aged(s) \in Status /\ Aged(s).name = s.name /\ Aged(s).lastSync # "recent"
  /\ Aged(Absent) = Absent
  BY AbsentAssumption DEF Aged, Status, SyncAges

LEMMA AgedInstanceType ==
  /\ \A i \in Instance : /\ AgedInstance(i) = [uid |-> i.uid, status |-> Aged(i.status)]
                         /\ AgedInstance(i) \in Instance
  /\ AgedInstance(Absent) = Absent
  BY AgedType, NothingAssumption DEF AgedInstance, Instance

LEMMA NoInstanceType == NoInstance \in Instance
  BY DEF NoInstance, Instance, EmptyStatus, Status, SyncAges, NoUid

\* What provisionVelero wants while it sees to an object.
LEMMA WantedType ==
  ASSUME IInv, pc \in Kinds, NEW k \in Kinds
  PROVE  Wanted(k) \in Specs /\ (k \in BucketKinds => Wanted(k) = inst.status.name)
  <1>1. inst.status.name \in Buckets
    BY DEF IInv, TypeOK
  <1> QED
    BY <1>1, PlatformAssumption
    DEF Wanted, Specs, BucketKinds, awsCredentialsRequest, gcpCredentialsRequest

-----------------------------------------------------------------------------
\* The type invariant by parts: the VeleroInstall, the worker, the objects.
CrTypes == uid \in Nat /\ cached \in Instance \cup {Absent} /\ lagging \in BOOLEAN

RunTypes ==
    /\ queued \in BOOLEAN
    /\ pc \in Kinds \cup {"storage", "idle", "down"}
    /\ inst \in Instance
    /\ fresh \in BOOLEAN
    /\ svc \in ServiceUids \cup {NoUid}
    /\ faults \in 0..MaxFaults
    /\ pc = "monitor" <=> svc # NoUid

ObjTypes ==
    /\ objs \in [Kinds -> Object \cup {Absent}]
    /\ seen \in [Kinds -> Object \cup {Absent}]
    /\ behind \in SUBSET Kinds
    /\ notify \in SUBSET behind
    /\ unnoticed \in SUBSET Kinds

LEMMA Parts ==
  /\ IInv => CrTypes /\ RunTypes /\ ObjTypes
  /\ (/\ ContractInv /\ CrTypes /\ RunTypes /\ ObjTypes
      /\ ObjectsOK /\ CacheOK /\ InstanceOK) => IInv
  BY DEF IInv, TypeOK, ContractInv, CrTypes, RunTypes, ObjTypes, InstanceOK

\* The status and the settings change only as the contract has it.
LEMMA StorageStep ==
  ASSUME IInv, [Next]_vars
  PROVE  [ContractNext]_contractVars /\ ready \subseteq ready'
  <1>1. CASE UNCHANGED <<status, ready>>
    BY <1>1 DEF contractVars
  <1>2. CASE CreateStorage
    BY <1>2 DEF CreateStorage, ContractNext, contractVars, Lose, GiveUp, Sync, Choose, Update
  <1>3. CASE CreateCR
    BY <1>3 DEF CreateCR, Create, ContractNext
  <1>4. CASE DeleteCR
    BY <1>4 DEF DeleteCR, Delete, ContractNext
  <1>5. CASE PrepareBucket
    BY <1>5 DEF PrepareBucket, Prepare, ContractNext
  <1>6. CASE PeriodEnds
    BY <1>6 DEF PeriodEnds, Aged, Expire, ContractNext, contractVars
  <1>7. CASE Fetch \/ provisionVelero
    BY <1>1, <1>7 DEF Fetch, provisionVelero, Ensure, EnsureService, EnsureMonitor, crVars
  <1>8. CASE CallFails \/ Crash \/ Restart \/ Deliver \/ Resync \/ (\E k \in Kinds : Observe(k))
    BY <1>1, <1>8 DEF CallFails, Crash, Restart, Deliver, Resync, Observe, crVars
  <1>9. CASE \E k \in Kinds :
               GarbageCollect(k) \/ RemoveObject(k) \/ ChangeObject(k) \/ MakeObject(k)
    BY <1>1, <1>9
    DEF GarbageCollect, RemoveObject, ChangeObject, MakeObject, Interfere, crVars
  <1>10. CASE UNCHANGED vars
    BY <1>1, <1>10 DEF vars
  <1> QED
    BY <1>2, <1>3, <1>4, <1>5, <1>6, <1>7, <1>8, <1>9, <1>10 DEF Next, Worker, Cluster

\* An object stays in order when buckets become ready.
LEMMA ObjectKeeps ==
  ASSUME NEW k, NEW obj, ObjectOK(k, obj), ready \subseteq ready'
  PROVE  ObjectOK(k, obj)'
  BY DEF ObjectOK

LEMMA ObjectsUnwritten ==
  ASSUME IInv, UNCHANGED <<objVars, seen>>, ready \subseteq ready'
  PROVE  ObjTypes' /\ ObjectsOK'
  BY ObjectKeeps DEF objVars, IInv, TypeOK, ObjTypes, ObjectsOK, ObjectOK

LEMMA ObjectWritten ==
  ASSUME IInv, NEW k \in Kinds, NEW obj, ObjectOK(k, obj), Write(k, obj),
         unnoticed' \in SUBSET Kinds, UNCHANGED <<ready, seen>>
  PROVE  ObjTypes' /\ ObjectsOK'
  <1>1. ObjTypes'
    BY Parts DEF ObjTypes, Write, ObjectOK
  <1>2. \A m \in Kinds : objs'[m] = IF m = k THEN obj ELSE objs[m]
    BY Parts DEF ObjTypes, Write
  <1>3. ObjectsOK'
    BY <1>2 DEF IInv, ObjectsOK, ObjectOK
  <1> QED
    BY <1>1, <1>3

\* What provisionVelero writes is in order.
LEMMA OperatorKeeps ==
  ASSUME IInv, pc \in Kinds, NEW k \in Kinds, NEW obj \in Object,
         obj.spec = Wanted(k), k = "service" => obj.uid # NoUid,
         CreateObject(k, obj) \/ UpdateObject(k), UNCHANGED <<ready, seen>>
  PROVE  ObjTypes' /\ ObjectsOK'
  <1>1. Wanted(k) \in Specs /\ (k \in BucketKinds => Wanted(k) \in ready)
    BY WantedType DEF IInv, InstanceOK
  <1>2. CASE CreateObject(k, obj)
    <2>1. ObjectOK(k, obj)
      BY <1>1 DEF ObjectOK
    <2>2. unnoticed' \in SUBSET Kinds
      BY <1>2, Parts DEF CreateObject, OperatorWrites, ObjTypes
    <2> QED
      BY <1>2, <2>1, <2>2, ObjectWritten DEF CreateObject, OperatorWrites
  <1>3. CASE UpdateObject(k)
    <2>1. CASE Differs(k)
      <3> DEFINE new == [seen[k] EXCEPT !.spec = Wanted(k)]
      <3>1. seen[k] \in Object /\ (k = "service" => seen[k].uid # NoUid)
        BY <1>3, Parts DEF UpdateObject, ObjTypes, IInv, ObjectsOK, ObjectOK
      <3>2. new \in Object /\ new.uid = seen[k].uid /\ new.spec = Wanted(k)
        BY <1>1, <3>1 DEF Object
      <3>3. ObjectOK(k, new)
        BY <1>1, <3>1, <3>2 DEF ObjectOK
      <3>4. Write(k, new) /\ unnoticed' \in SUBSET Kinds
        BY <1>3, <2>1, Parts DEF UpdateObject, OperatorWrites, ObjTypes
      <3> HIDE DEF new
      <3> QED
        BY <3>3, <3>4, ObjectWritten
    <2>2. CASE ~Differs(k)
      BY <1>3, <2>2, ObjectsUnwritten DEF UpdateObject, objVars
    <2> QED
      BY <2>1, <2>2
  <1> QED
    BY <1>2, <1>3

-----------------------------------------------------------------------------
\* Steps that neither touch the VeleroInstall nor give the worker another instance.
LEMMA CopiesKept ==
  ASSUME IInv, UNCHANGED crVars,
         \/ UNCHANGED <<pc, inst, fresh>>
         \/ pc \in Kinds /\ pc' \in Kinds /\ UNCHANGED <<inst, fresh>>
         \/ pc # "down" /\ pc' = "idle" /\ fresh' = FALSE
  PROVE  CrTypes' /\ CacheOK' /\ InstanceOK'
  <1>1. CrTypes'
    BY Parts DEF CrTypes, crVars
  <1>2. Stored' = Stored
    BY DEF Stored, crVars
  <1>3. CacheOK'
    BY <1>2, KindsFacts DEF IInv, CacheOK, crVars
  <1>4. InstanceOK'
    BY KindsFacts DEF IInv, InstanceOK, crVars
  <1> QED
    BY <1>1, <1>3, <1>4

LEMMA FaultTypes ==
  ASSUME IInv, Fault
  PROVE  faults' \in 0..MaxFaults
  BY Parts, FaultsAssumption DEF RunTypes, Fault

LEMMA ReturnTypes ==
  ASSUME IInv, NEW requeue \in BOOLEAN, Return(requeue), faults' \in 0..MaxFaults
  PROVE  RunTypes'
  BY Parts, NoInstanceType DEF Return, RunTypes, NoUid

\* A step of provisionVelero, on any of the objects.
LEMMA ProvisionKeeps ==
  ASSUME IInv, provisionVelero
  PROVE  CrTypes' /\ RunTypes' /\ ObjTypes' /\ ObjectsOK' /\ CacheOK' /\ InstanceOK'
  <1>0. /\ UNCHANGED <<crVars, seen, faults>> /\ ready \subseteq ready' /\ pc \in Kinds
        /\ faults' \in 0..MaxFaults
    BY Parts, KindsFacts
    DEF provisionVelero, Ensure, EnsureService, EnsureMonitor, crVars, RunTypes
  <1>1. ASSUME NEW requeue \in BOOLEAN, Return(requeue)
        PROVE  CrTypes' /\ RunTypes' /\ CacheOK' /\ InstanceOK'
    BY <1>0, <1>1, ReturnTypes, CopiesKept, KindsFacts DEF Return
  <1>2. UNCHANGED objVars => ObjTypes' /\ ObjectsOK'
    BY <1>0, ObjectsUnwritten
  <1>3. ASSUME NEW k \in Watched, Ensure(k)
        PROVE  CrTypes' /\ RunTypes' /\ ObjTypes' /\ ObjectsOK' /\ CacheOK' /\ InstanceOK'
    <2>1. CASE Refused(k)
      BY <1>1, <1>2, <1>3, <2>1 DEF Ensure
    <2>2. CASE ~Refused(k)
      <3> DEFINE obj == OwnedByInstance(k)
      <3>1. k \in Kinds /\ k # "service" /\ k # "monitor"
        BY KindsFacts
      <3>2. obj \in Object /\ obj.spec = Wanted(k)
        BY <1>0, <3>1, WantedType, NewUidType, Parts
        DEF OwnedByInstance, Object, RunTypes, Instance, IInv
      <3>3. ObjTypes' /\ ObjectsOK'
        <4>1. CreateObject(k, obj) \/ UpdateObject(k)
          BY <1>3, <2>2 DEF Ensure
        <4> HIDE DEF obj
        <4> QED
          BY <1>0, <3>1, <3>2, <4>1, OperatorKeeps DEF crVars
      <3>4. pc' \in Kinds \ {"monitor"} /\ pc = k /\ UNCHANGED <<inst, fresh, svc, queued>>
        BY <1>3, <2>2, AfterType DEF Ensure, Goto
      <3>5. RunTypes'
        BY <1>0, <3>1, <3>4, Parts DEF RunTypes
      <3> QED
        BY <1>0, <3>3, <3>4, <3>5, CopiesKept
    <2> QED
      BY <2>1, <2>2
  <1>4. CASE EnsureService
    <2> DEFINE obj == OwnedByInstance("service")
    <2>1. obj \in Object /\ obj.spec = Wanted("service") /\ obj.uid # NoUid
      BY <1>0, KindsFacts, WantedType, NewUidType, Parts
      DEF OwnedByInstance, Object, RunTypes, Instance, IInv
    <2>2. CASE Refused("service")
      BY <1>1, <1>2, <1>4, <2>2 DEF EnsureService
    <2>3. CASE CreateObject("service", obj) /\ Return(TRUE)
      <3> HIDE DEF obj
      <3> QED
        BY <1>0, <1>1, <2>1, <2>3, OperatorKeeps, KindsFacts DEF crVars
    <2>4. CASE /\ UpdateObject("service")
               /\ svc' = seen["service"].uid
               /\ pc' = "monitor"
               /\ UNCHANGED <<inst, fresh, queued>>
      <3>1. ObjTypes' /\ ObjectsOK'
        <4> HIDE DEF obj
        <4> QED
          BY <1>0, <2>1, <2>4, OperatorKeeps, KindsFacts DEF crVars
      <3>2. svc' \in ServiceUids
        BY <2>4, Parts, KindsFacts DEF UpdateObject, ObjTypes, IInv, ObjectsOK, ObjectOK, Object
      <3>3. RunTypes'
        BY <1>0, <2>4, <3>2, Parts, KindsFacts DEF RunTypes, ServiceUids, NoUid
      <3> QED
        BY <1>0, <2>4, <3>1, <3>3, CopiesKept, KindsFacts
    <2> QED
      BY <1>4, <2>2, <2>3, <2>4 DEF EnsureService
  <1>5. CASE EnsureMonitor
    <2> DEFINE obj == generateServiceMonitor(svc)
    <2>1. obj \in Object /\ obj.spec = Wanted("monitor")
      BY <1>0, KindsFacts, WantedType, Parts
      DEF generateServiceMonitor, Object, RunTypes, ServiceUids, NoUid
    <2>2. CASE Refused("monitor")
      BY <1>1, <1>2, <1>5, <2>2 DEF EnsureMonitor
    <2>3. CASE (CreateObject("monitor", obj) \/ UpdateObject("monitor")) /\ Return(FALSE)
      <3> HIDE DEF obj
      <3> QED
        BY <1>0, <1>1, <2>1, <2>3, OperatorKeeps, KindsFacts DEF crVars
    <2> QED
      BY <1>5, <2>2, <2>3 DEF EnsureMonitor
  <1> QED
    BY <1>3, <1>4, <1>5 DEF provisionVelero

-----------------------------------------------------------------------------
\* Reconcile starts on what the cache holds.
LEMMA FetchKeeps ==
  ASSUME IInv, Fetch
  PROVE  CrTypes' /\ RunTypes' /\ CacheOK' /\ InstanceOK'
  <1>0. UNCHANGED crVars /\ pc = "idle"
    BY DEF Fetch
  <1>1. CASE cached = Absent
    BY <1>0, <1>1, CopiesKept, Parts DEF Fetch, RunTypes
  <1>2. CASE cached # Absent
    <2>1. cached \in Instance /\ inst' = cached /\ pc' \in {"storage", "bsl"}
      BY <1>2, Parts DEF Fetch, CrTypes
    <2>2. RunTypes'
      BY <1>2, <2>1, Parts, KindsFacts DEF Fetch, RunTypes, CrTypes
    <2>3. Stored' = Stored
      BY <1>0 DEF Stored, crVars
    <2>4. CrTypes' /\ CacheOK'
      BY <1>0, <2>1, <2>3, Parts, KindsFacts DEF CrTypes, IInv, CacheOK, crVars
    <2>5. fresh' => cached = Stored /\ status # Absent
      BY <1>0, <1>2 DEF Fetch, IInv, CacheOK, Stored
    <2>6. pc' \in Kinds => ~StorageBucketReconcileRequired(cached.status)
      BY <1>2, KindsFacts DEF Fetch
    <2>7. pc' \in Kinds => cached.status.lastSync = "recent"
      BY <2>1, <2>6 DEF StorageBucketReconcileRequired, Instance, Status, SyncAges
    <2>8. InstanceOK'
      BY <1>0, <1>2, <2>1, <2>5, <2>7 DEF InstanceOK, IInv, CacheOK, Stored, crVars
    <2> QED
      BY <2>2, <2>4, <2>8
  <1> QED
    BY <1>1, <1>2

\* The status is written by the worker, on the version that is stored.
LEMMA StorageKeeps ==
  ASSUME IInv, CreateStorage, ready \subseteq ready', ContractInv'
  PROVE  CrTypes' /\ RunTypes' /\ CacheOK' /\ InstanceOK'
  <1>0. pc = "storage" /\ UNCHANGED <<uid, cached, faults>>
    BY DEF CreateStorage
  <1>1. CASE ~fresh /\ Return(TRUE) /\ UNCHANGED <<status, ready, lagging>>
    BY <1>0, <1>1, CopiesKept, ReturnTypes, Parts DEF Return, crVars, RunTypes
  <1>2. ASSUME fresh, StorageBucketReconcileRequired(status), lagging' \in BOOLEAN,
               lagging' \/ (status' = status /\ lagging' = lagging),
               status' # Absent
        PROVE  CrTypes' /\ (pc' # "down" => CacheOK')
    <2>1. /\ status # Absent /\ inst = [uid |-> uid, status |-> status]
          /\ cached # Absent /\ cached.uid = uid
      BY <1>2 DEF IInv, InstanceOK
    <2>2. cached.status.lastSync # "recent"
      BY <1>2, <2>1, NoNameAssumption
      DEF IInv, CacheOK, ContractInv, StorageBucketReconcileRequired, Status, SyncAges
    <2>3. CrTypes'
      BY <1>0, <1>2, Parts DEF CrTypes
    <2>4. status' = status => Stored' = Stored
      BY <1>0 DEF Stored
    <2>5. pc' # "down" => CacheOK'
      BY <1>0, <1>2, <2>1, <2>2, <2>4 DEF IInv, CacheOK
    <2> QED
      BY <2>3, <2>5
  <1>3. CASE /\ fresh
             /\ Lose \/ GiveUp \/ Sync \/ \E n \in Buckets : Choose(n)
             /\ Return(FALSE)
             /\ lagging' = (lagging \/ status' # status)
    <2>1. status # Absent /\ StorageBucketReconcileRequired(status) /\ status' # Absent
      BY <1>3, AbsentAssumption
      DEF Lose, GiveUp, Sync, Choose, Update, IInv, ContractInv, Status, SyncAges
    <2>2. lagging' \in BOOLEAN /\ (lagging' \/ (status' = status /\ lagging' = lagging))
      BY <1>3, Parts DEF CrTypes
    <2>3. CrTypes' /\ CacheOK'
      BY <1>2, <1>3, <2>1, <2>2 DEF Return
    <2>4. RunTypes'
      BY <1>0, <1>3, ReturnTypes, Parts DEF RunTypes
    <2>5. InstanceOK'
      BY <1>3, KindsFacts DEF Return, InstanceOK
    <2> QED
      BY <2>3, <2>4, <2>5
  <1>4. CASE /\ fresh
             /\ \E n \in Buckets : Choose(n)
             /\ inst' = [inst EXCEPT !.status = status']
             /\ lagging' = TRUE
             /\ UNCHANGED <<pc, fresh, svc, queued>>
    <2>1. status # Absent /\ StorageBucketReconcileRequired(status)
      BY <1>4 DEF Choose, Update
    <2>2. status' \in Status /\ status' # Absent
      BY <1>4, AbsentAssumption DEF Choose, Update, IInv, ContractInv, Status, SyncAges
    <2>3. CrTypes' /\ CacheOK'
      BY <1>0, <1>2, <1>4, <2>1, <2>2
    <2>4. inst = [uid |-> uid, status |-> status] /\ cached # Absent /\ cached.uid = uid
      BY <1>4 DEF IInv, InstanceOK
    <2>5. inst' = [uid |-> uid, status |-> status'] /\ inst' \in Instance
      BY <1>4, <2>2, <2>4, Parts DEF CrTypes, Instance
    <2>6. RunTypes'
      BY <1>0, <1>4, <2>5, Parts DEF RunTypes
    <2>7. InstanceOK'
      BY <1>0, <1>4, <2>2, <2>4, <2>5, KindsFacts DEF InstanceOK
    <2> QED
      BY <2>3, <2>6, <2>7
  <1> QED
    BY <1>1, <1>3, <1>4 DEF CreateStorage

\* The process dies, or a new one lists everything.
LEMMA CrashKeeps ==
  ASSUME IInv, Crash \/ Restart
  PROVE  CrTypes' /\ RunTypes' /\ ObjTypes' /\ ObjectsOK' /\ CacheOK' /\ InstanceOK'
  <1>0. Stored \in Instance \cup {Absent}
    BY Parts DEF Stored, Instance, CrTypes, IInv, ContractInv
  <1>1. CASE Crash
    <2>1. CrTypes' /\ CacheOK' /\ InstanceOK'
      BY <1>1, Parts, KindsFacts DEF Crash, CrTypes, CacheOK, InstanceOK
    <2>2. RunTypes'
      BY <1>1, FaultTypes, KindsFacts, NoInstanceType DEF Crash, RunTypes, NoUid
    <2>3. ObjTypes'
      BY <1>1, Parts DEF Crash, ObjTypes
    <2>4. ObjectsOK'
      BY <1>1 DEF Crash, IInv, ObjectsOK, ObjectOK
    <2> QED
      BY <2>1, <2>2, <2>3, <2>4
  <1>2. CASE Restart
    <2>1. CrTypes' /\ Stored' = Stored
      BY <1>0, <1>2, Parts DEF Restart, CrTypes, Stored
    <2>2. CacheOK'
      BY <1>2, <2>1, Parts DEF Restart, CacheOK, IInv, ContractInv, Stored, CrTypes
    <2>3. InstanceOK'
      BY <1>2, KindsFacts DEF Restart, InstanceOK, IInv, CacheOK
    <2>4. RunTypes'
      BY <1>2, Parts, KindsFacts DEF Restart, RunTypes
    <2>5. ObjTypes' /\ ObjectsOK'
      BY <1>2, Parts DEF Restart, ObjTypes, IInv, ObjectsOK, ObjectOK
    <2> QED
      BY <2>1, <2>2, <2>3, <2>4, <2>5
  <1> QED
    BY <1>1, <1>2

\* A failed call, and what the informers are told.
LEMMA LoopKeeps ==
  ASSUME IInv, CallFails \/ Deliver \/ Resync \/ \E k \in Kinds : Observe(k)
  PROVE  CrTypes' /\ RunTypes' /\ ObjTypes' /\ ObjectsOK' /\ CacheOK' /\ InstanceOK'
  <1>1. CASE CallFails
    <2>1. ObjTypes' /\ ObjectsOK'
      BY <1>1, ObjectsUnwritten DEF CallFails, crVars
    <2> QED
      BY <1>1, <2>1, FaultTypes, ReturnTypes, CopiesKept DEF CallFails, Return
  <1>2. CASE Deliver
    <2>1. ObjTypes' /\ ObjectsOK'
      BY <1>2, ObjectsUnwritten DEF Deliver
    <2>2. RunTypes'
      BY <1>2, Parts DEF Deliver, RunTypes
    <2>3. Stored \in Instance \cup {Absent} /\ Stored' = Stored
      BY <1>2, Parts DEF Deliver, Stored, Instance, CrTypes, IInv, ContractInv
    <2>4. CrTypes'
      BY <1>2, <2>3, Parts DEF Deliver, CrTypes
    <2>5. CacheOK'
      <3>1. cached' = Stored /\ pc' # "down" /\ UNCHANGED <<status, ready, uid>>
        BY <1>2 DEF Deliver
      <3>2. Stored # Absent =>
              /\ Stored.uid = uid /\ uid <= uid /\ Stored.status = status
              /\ status # Absent
        BY Parts DEF Stored, CrTypes
      <3>3. status # Absent /\ status.lastSync = "recent" => status.name \in ready
        BY DEF IInv, ContractInv
      <3> QED
        BY <2>3, <3>1, <3>2, <3>3 DEF CacheOK
    <2>6. InstanceOK'
      BY <1>2, NothingAssumption, Parts
      DEF Deliver, InstanceOK, IInv, Stored, CrTypes, Instance, ContractInv
    <2> QED
      BY <2>1, <2>2, <2>4, <2>5, <2>6
  <1>3. CASE Resync
    <2>1. ObjTypes' /\ ObjectsOK'
      BY <1>3, ObjectsUnwritten DEF Resync, crVars
    <2> QED
      BY <1>3, <2>1, CopiesKept, Parts DEF Resync, RunTypes
  <1>4. ASSUME NEW k \in Kinds, Observe(k)
        PROVE  CrTypes' /\ RunTypes' /\ ObjTypes' /\ ObjectsOK' /\ CacheOK' /\ InstanceOK'
    <2>1. CrTypes' /\ CacheOK' /\ InstanceOK'
      BY <1>4, CopiesKept DEF Observe
    <2>2. RunTypes'
      BY <1>4, Parts DEF Observe, RunTypes
    <2>3. ObjTypes'
      BY <1>4, Parts DEF Observe, ObjTypes
    <2>4. \A m \in Kinds : objs'[m] = objs[m] /\ seen'[m] = IF m = k THEN objs[m] ELSE seen[m]
      BY <1>4, Parts DEF Observe, ObjTypes
    <2>5. ObjectsOK'
      BY <1>4, <2>4 DEF Observe, crVars, IInv, ObjectsOK, ObjectOK
    <2> QED
      BY <2>1, <2>2, <2>3, <2>5
  <1> QED
    BY <1>1, <1>2, <1>3, <1>4

\* What happens to the VeleroInstall and the buckets.
LEMMA InstallKeeps ==
  ASSUME IInv, CreateCR \/ DeleteCR \/ PrepareBucket \/ PeriodEnds, ready \subseteq ready'
  PROVE  CrTypes' /\ RunTypes' /\ ObjTypes' /\ ObjectsOK' /\ CacheOK' /\ InstanceOK'
  <1>0. ObjTypes' /\ ObjectsOK'
    BY ObjectsUnwritten DEF CreateCR, DeleteCR, PrepareBucket, PeriodEnds
  <1>1. CASE CreateCR
    <2>1. status = Absent /\ status'.name = NoName /\ uid' = uid + 1 /\ lagging' = TRUE
      BY <1>1 DEF CreateCR, Create, EmptyStatus
    <2>2. UNCHANGED <<ready, cached, runVars, faults>>
      BY <1>1 DEF CreateCR, Create
    <2>3. CrTypes' /\ RunTypes'
      BY <2>1, <2>2, Parts DEF CrTypes, RunTypes, runVars
    <2>4. CacheOK'
      BY <2>1, <2>2, Parts DEF CacheOK, IInv, CrTypes, Instance, runVars
    <2>5. InstanceOK'
      BY <2>1, <2>2, Parts DEF InstanceOK, IInv, CrTypes, RunTypes, Instance, runVars
    <2> QED
      BY <1>0, <2>3, <2>4, <2>5
  <1>2. CASE DeleteCR
    <2>1. status' = Absent /\ lagging' = TRUE /\ fresh' = FALSE
      BY <1>2 DEF DeleteCR, Delete
    <2>2. UNCHANGED <<ready, uid, cached, pc, inst, svc, queued>>
      BY <1>2 DEF DeleteCR, Delete
    <2>3. faults' \in 0..MaxFaults
      BY <1>2, FaultTypes DEF DeleteCR
    <2>4. CrTypes' /\ RunTypes'
      BY <2>1, <2>2, <2>3, Parts DEF CrTypes, RunTypes
    <2>5. CacheOK' /\ InstanceOK'
      BY <2>1, <2>2 DEF CacheOK, InstanceOK, IInv
    <2> QED
      BY <1>0, <2>4, <2>5
  <1>3. CASE PrepareBucket
    <2>1. UNCHANGED <<status, uid, cached, lagging, runVars, faults>>
      BY <1>3 DEF PrepareBucket, Prepare
    <2>2. CrTypes' /\ RunTypes'
      BY <2>1, Parts DEF CrTypes, RunTypes, runVars
    <2>3. CacheOK' /\ InstanceOK'
      BY <2>1 DEF CacheOK, InstanceOK, IInv, Stored, runVars
    <2> QED
      BY <1>0, <2>2, <2>3
  <1>4. CASE PeriodEnds
    <2>1. /\ status' = Aged(status)
          /\ cached' = AgedInstance(cached)
          /\ inst' = AgedInstance(inst)
          /\ UNCHANGED <<ready, uid, lagging, pc, fresh, svc, queued, faults>>
      BY <1>4 DEF PeriodEnds
    <2>2. status \in Status \cup {Absent} /\ cached \in Instance \cup {Absent} /\ inst \in Instance
      BY Parts DEF CrTypes, RunTypes, IInv, ContractInv
    <2>3. /\ inst' \in Instance
          /\ inst'.uid = inst.uid
          /\ inst'.status = Aged(inst.status)
          /\ inst'.status.name = inst.status.name
      BY <2>1, <2>2, AgedInstanceType, AgedType DEF Instance
    <2>4. /\ cached = Absent <=> cached' = Absent
          /\ cached # Absent => /\ cached' \in Instance
                                /\ cached'.uid = cached.uid
                                /\ cached'.status.lastSync # "recent"
      BY <2>1, <2>2, AgedInstanceType, AgedType, NothingAssumption DEF Instance
    <2>5. /\ status = Absent <=> status' = Absent
          /\ status # Absent => status'.name = status.name
      BY <2>1, <2>2, AgedType, AbsentAssumption
    <2>6. cached = Stored => cached' = Stored'
      BY <2>1, <2>2, <2>5, AgedInstanceType, Parts DEF Stored, Instance, CrTypes
    <2>7. CrTypes' /\ RunTypes'
      BY <2>1, <2>3, <2>4, Parts DEF CrTypes, RunTypes
    <2>8. CacheOK'
      BY <2>1, <2>4, <2>5, <2>6 DEF CacheOK, IInv
    <2>9. inst = [uid |-> uid, status |-> status] =>
              inst' = [uid |-> uid', status |-> status']
      BY <2>1, <2>2, AgedInstanceType
    <2>10. InstanceOK'
      BY <2>1, <2>3, <2>4, <2>5, <2>9 DEF InstanceOK, IInv
    <2> QED
      BY <1>0, <2>7, <2>8, <2>10
  <1> QED
    BY <1>1, <1>2, <1>3, <1>4

\* What others do to the objects.
LEMMA OthersKeep ==
  ASSUME IInv, NEW k \in Kinds,
         GarbageCollect(k) \/ RemoveObject(k) \/ ChangeObject(k) \/ MakeObject(k)
  PROVE  CrTypes' /\ RunTypes' /\ ObjTypes' /\ ObjectsOK' /\ CacheOK' /\ InstanceOK'
  <1>0. UNCHANGED <<crVars, runVars, seen>>
    BY DEF GarbageCollect, RemoveObject, ChangeObject, MakeObject, Interfere
  <1>1. faults' \in 0..MaxFaults
    BY FaultTypes, Parts
    DEF GarbageCollect, RemoveObject, ChangeObject, MakeObject, Interfere, RunTypes
  <1>2. CrTypes' /\ CacheOK' /\ InstanceOK'
    BY <1>0, CopiesKept DEF runVars
  <1>3. RunTypes'
    BY <1>0, <1>1, Parts DEF RunTypes, runVars
  <1>4. ASSUME NEW obj, ObjectOK(k, obj), OthersWrite(k, obj)
        PROVE  ObjTypes' /\ ObjectsOK'
    <2>1. unnoticed' \in SUBSET Kinds
      BY <1>4, Parts DEF OthersWrite, ObjTypes
    <2> QED
      BY <1>0, <1>4, <2>1, ObjectWritten DEF OthersWrite, crVars
  <1>5. CASE GarbageCollect(k) \/ RemoveObject(k)
    <2>1. ObjectOK(k, Absent)
      BY DEF ObjectOK
    <2> QED
      BY <1>2, <1>3, <1>4, <1>5, <2>1 DEF GarbageCollect, RemoveObject, Interfere
  <1>6. CASE ChangeObject(k)
    <2>1. PICK spec \in {"drift", "garbled"} : OthersWrite(k, [objs[k] EXCEPT !.spec = spec])
      BY <1>6 DEF ChangeObject, Interfere
    <2> DEFINE new == [objs[k] EXCEPT !.spec = spec]
    <2>2. objs[k] \in Object /\ (k = "service" => objs[k].uid # NoUid)
      BY <1>6, Parts DEF ChangeObject, ObjTypes, IInv, ObjectsOK, ObjectOK
    <2>3. new \in Object /\ new.spec = spec /\ new.uid = objs[k].uid
      BY <2>2 DEF Object, Specs
    <2>4. ObjectOK(k, new)
      BY <2>2, <2>3 DEF ObjectOK
    <2> HIDE DEF new
    <2> QED
      BY <1>2, <1>3, <1>4, <2>1, <2>4 DEF new
  <1>7. CASE MakeObject(k)
    <2> DEFINE new == [owner |-> NoUid, spec |-> "drift", uid |-> NewUid(k), by |-> "others"]
    <2>1. OthersWrite(k, new)
      BY <1>7 DEF MakeObject, Interfere
    <2>2. NewUid(k) \in ServiceUids \cup {NoUid} /\ (k = "service" => NewUid(k) # NoUid)
      BY NewUidType DEF IInv
    <2>3. ObjectOK(k, new)
      BY <2>2 DEF ObjectOK, Object, Specs, NoUid
    <2> HIDE DEF new
    <2> QED
      BY <1>2, <1>3, <1>4, <2>1, <2>3
  <1> QED
    BY <1>5, <1>6, <1>7

-----------------------------------------------------------------------------
LEMMA IInvInit == Init => IInv
  <1> SUFFICES ASSUME Init PROVE IInv
    OBVIOUS
  <1>1. ContractInv
    BY AbsentAssumption DEF Init, ContractInit, ContractInv
  <1>2. CrTypes
    BY DEF Init, CrTypes, NoUid
  <1>3. RunTypes
    <2>1. pc = "idle" /\ svc = NoUid
      BY DEF Init
    <2>2. pc = "monitor" <=> svc # NoUid
      BY <2>1
    <2>3. faults \in 0..MaxFaults
      BY FaultsAssumption DEF Init
    <2> QED
      BY <2>2, <2>3, NoInstanceType DEF Init, RunTypes
  <1>4. ObjTypes
    BY DEF Init, ObjTypes
  <1>5. ObjectsOK
    BY DEF Init, ObjectsOK, ObjectOK
  <1>6. CacheOK /\ InstanceOK
    BY KindsFacts DEF Init, ContractInit, CacheOK, InstanceOK, Stored
  <1> QED
    BY <1>1, <1>2, <1>3, <1>4, <1>5, <1>6, Parts

LEMMA IInvStep ==
  ASSUME IInv, [Next]_vars
  PROVE  IInv'
  <1>1. ready \subseteq ready' /\ ContractInv'
    BY StorageStep, ContractKeeps DEF IInv
  <1> DEFINE Kept == CrTypes' /\ RunTypes' /\ ObjTypes' /\ ObjectsOK' /\ CacheOK' /\ InstanceOK'
  <1>2. Fetch => Kept
    BY <1>1, FetchKeeps, ObjectsUnwritten DEF Fetch
  <1>3. CreateStorage => Kept
    BY <1>1, StorageKeeps, ObjectsUnwritten DEF CreateStorage
  <1>4. ASSUME UNCHANGED vars PROVE Kept
    <2>1. ObjTypes' /\ ObjectsOK'
      BY <1>1, <1>4, ObjectsUnwritten DEF vars, objVars
    <2>2. RunTypes'
      BY <1>4, Parts DEF vars, RunTypes
    <2> QED
      BY <1>4, <2>1, <2>2, CopiesKept DEF vars, crVars
  <1>5. Kept
    BY <1>1, <1>2, <1>3, <1>4, ProvisionKeeps, CrashKeeps, LoopKeeps, InstallKeeps, OthersKeep
    DEF Next, Worker, Cluster
  <1>6. (/\ ContractInv /\ CrTypes /\ RunTypes /\ ObjTypes
         /\ ObjectsOK /\ CacheOK /\ InstanceOK)' => IInv'
    BY Parts, PTL
  <1> QED
    BY <1>1, <1>5, <1>6

(***************************************************************************)
(* Along status, cache, instance and objects, a bucket's name is passed on *)
(* only when the bucket is ready, and the older copies are told apart from *)
(* the stored one by their UID.                                            *)
(***************************************************************************)
THEOREM ProvisionInvariance == Spec => []IInv
  BY IInvInit, IInvStep, PTL DEF Spec

(***************************************************************************)
(* The types of provisionVelero; that there is a Service's UID at hand for *)
(* the ServiceMonitor, and a bucket's name for every object, is part of    *)
(* them and rests on the rest of the invariant.                            *)
(***************************************************************************)
THEOREM ProvisionTypes == Spec => []TypeOK
  <1>1. IInv => TypeOK
    BY DEF IInv
  <1> QED
    BY <1>1, ProvisionInvariance, PTL

(***************************************************************************)
(* No BackupStorageLocation and no credentials for a bucket that was not   *)
(* given every setting, whatever the caches showed and whatever failed.    *)
(***************************************************************************)
THEOREM ReadyBucketTheorem == Spec => []VeleroOnReadyBucket
  <1>1. IInv => VeleroOnReadyBucket
    BY KindsFacts DEF IInv, ObjectsOK, ObjectOK, VeleroOnReadyBucket
  <1> QED
    BY <1>1, ProvisionInvariance, PTL

\* A write of the operator that gives an object a bucket gives it the instance's.
LEMMA WritesInstanceBucket ==
  ASSUME IInv, provisionVelero, NEW k \in BucketKinds, objs'[k] # objs[k]
  PROVE  pc \in Kinds /\ objs'[k].spec = inst.status.name
  <1>0. k \in Watched /\ k \in Kinds
    BY KindsFacts
  <1>1. ASSUME NEW m \in Kinds, NEW obj, Write(m, obj)
        PROVE  m = k /\ objs'[k] = obj
    BY <1>0, <1>1, Parts DEF Write, ObjTypes
  <1>2. PICK m \in Kinds : pc = m /\ \E obj : Write(m, obj) /\ obj.spec = Wanted(m)
    <2>1. ASSUME NEW m \in Kinds, pc = m, NEW obj, obj.spec = Wanted(m),
                 CreateObject(m, obj) \/ UpdateObject(m)
          PROVE  \E new : Write(m, new) /\ new.spec = Wanted(m)
      <3>1. CASE CreateObject(m, obj)
        BY <2>1, <3>1 DEF CreateObject, OperatorWrites
      <3>2. CASE UpdateObject(m)
        <4> DEFINE new == [seen[m] EXCEPT !.spec = Wanted(m)]
        <4>1. Write(m, new)
          BY <3>2 DEF UpdateObject, OperatorWrites, objVars
        <4>2. new.spec = Wanted(m)
          BY <3>2, Parts DEF UpdateObject, ObjTypes, Object
        <4> HIDE DEF new
        <4> QED
          BY <4>1, <4>2
      <3> QED
        BY <2>1, <3>1, <3>2
    <2>2. ~ UNCHANGED objVars
      BY DEF objVars
    <2>3. \A m \in Kinds : OwnedByInstance(m).spec = Wanted(m)
      BY DEF OwnedByInstance
    <2>4. generateServiceMonitor(svc).spec = Wanted("monitor")
      BY DEF generateServiceMonitor
    <2>5. ASSUME NEW m \in Watched, Ensure(m)
          PROVE  \E new : Write(m, new) /\ new.spec = Wanted(m)
      BY <2>1, <2>2, <2>3, <2>5, KindsFacts DEF Ensure
    <2>6. ASSUME EnsureService
          PROVE  \E new : Write("service", new) /\ new.spec = Wanted("service")
      BY <2>1, <2>2, <2>3, <2>6, KindsFacts DEF EnsureService
    <2>7. ASSUME EnsureMonitor
          PROVE  \E new : Write("monitor", new) /\ new.spec = Wanted("monitor")
      BY <2>1, <2>2, <2>4, <2>7, KindsFacts DEF EnsureMonitor
    <2> QED
      BY <2>5, <2>6, <2>7, KindsFacts
      DEF provisionVelero, Ensure, EnsureService, EnsureMonitor
  <1> QED
    BY <1>0, <1>1, <1>2, WantedType

(***************************************************************************)
(* Every write that gives an object a bucket gives it the one the status   *)
(* names at that moment, however stale the cache it was made from.         *)
(***************************************************************************)
THEOREM StaysTheorem == Spec => StaysOnBucket
  <1>1. IInv /\ [Next]_vars => [NamesStatusBucket]_vars
    <2> SUFFICES ASSUME IInv, Next,
                        NEW k \in BucketKinds, objs'[k] # objs[k], objs'[k] # Absent,
                        objs'[k].spec \in Buckets, status # Absent,
                        status.name # NoName \/ inst.uid = uid
                 PROVE  objs'[k].spec = status.name
      BY DEF NamesStatusBucket
    <2>0. k \in Kinds
      BY KindsFacts
    <2>1. CASE provisionVelero
      BY <2>1, WritesInstanceBucket DEF IInv, InstanceOK
    <2>2. ASSUME NEW m \in Kinds,
                 GarbageCollect(m) \/ RemoveObject(m) \/ ChangeObject(m) \/ MakeObject(m)
          PROVE  FALSE
      <3>1. PICK obj : /\ Write(m, obj)
                       /\ obj = Absent \/ obj.spec \in {"drift", "garbled"}
        <4>1. CASE GarbageCollect(m) \/ RemoveObject(m)
          BY <4>1 DEF GarbageCollect, RemoveObject, Interfere, OthersWrite
        <4>2. CASE ChangeObject(m)
          <5>1. PICK spec \in {"drift", "garbled"} :
                   OthersWrite(m, [objs[m] EXCEPT !.spec = spec])
            BY <4>2 DEF ChangeObject, Interfere
          <5> DEFINE new == [objs[m] EXCEPT !.spec = spec]
          <5>2. new.spec = spec
            BY <4>2, Parts DEF ChangeObject, ObjTypes, Object
          <5>3. Write(m, new)
            BY <5>1 DEF OthersWrite
          <5> HIDE DEF new
          <5> QED
            BY <5>2, <5>3
        <4>3. CASE MakeObject(m)
          BY <4>3 DEF MakeObject, Interfere, OthersWrite
        <4> QED
          BY <2>2, <4>1, <4>2, <4>3
      <3>2. objs'[k] = obj
        BY <2>0, <3>1, Parts DEF Write, ObjTypes
      <3> QED
        BY <3>1, <3>2, SpecsAssumption
    <2>3. UNCHANGED objs => FALSE
      OBVIOUS
    <2>4. CASE Fetch \/ CreateStorage \/ CallFails \/ Crash \/ Restart \/ Deliver \/ Resync
      BY <2>3, <2>4
      DEF Fetch, CreateStorage, CallFails, Crash, Restart, Deliver, Resync, objVars
    <2>5. CASE \/ CreateCR \/ DeleteCR \/ PrepareBucket \/ PeriodEnds
               \/ \E m \in Kinds : Observe(m)
      BY <2>3, <2>5 DEF CreateCR, DeleteCR, PrepareBucket, PeriodEnds, Observe, objVars
    <2> QED
      BY <2>1, <2>2, <2>4, <2>5 DEF Next, Worker, Cluster
  <1> QED
    BY <1>1, ProvisionInvariance, PTL DEF Spec, StaysOnBucket

-----------------------------------------------------------------------------
(***************************************************************************)
(* Where the operator comes to rest.  Nothing of the run before is visible *)
(* in the state of rest, so the invariant has to follow a Reconcile from   *)
(* object to object: as long as nothing will bring it back, what it has    *)
(* passed is in order.  It judges by the informers' copies, so it also     *)
(* says what a copy that is out of date may hide.                          *)
(***************************************************************************)

\* Nothing is on its way to start another Reconcile of the stored VeleroInstall.
Undisturbed == ~queued /\ ~lagging /\ notify = {} /\ status # Absent

\* What AtRestInstalled says of one object.
InOrder(k) ==
    \/ k \in unnoticed
    \/ Installed(k)
    \/ objs[k] # Absent /\ objs[k].owner = NoUid

\* A copy that is out of date with no event under way, and not because of others, hides
\* a write of the operator to an object whose events never come.
CopiesOK ==
    pc # "down" =>
        \A k \in Kinds :
            /\ k \notin behind => seen[k] = objs[k]
            /\ k \in behind /\ k \notin notify /\ k \notin unnoticed =>
                  /\ objs[k] # Absent
                  /\ k \in Watched => objs[k].owner = NoUid
                  /\ k \notin Watched => objs[k].spec = "ours"

\* A Reconcile that nothing will follow works on the stored version, and leaves the
\* objects it has passed in order.
DoneOK ==
    pc \in Kinds /\ Undisturbed =>
        /\ fresh
        /\ \A k \in Kinds : Rank[k] < Rank[pc] => InOrder(k)

RestInv == CopiesOK /\ DoneOK /\ AtRestInstalled

\* AtRestInstalled in the terms of the invariant.
LEMMA RestForm ==
  AtRestInstalled <=>
     (pc = "idle" /\ Undisturbed /\ ~StorageBucketReconcileRequired(status) =>
         \A k \in Kinds : InOrder(k))
  BY DEF AtRestInstalled, Quiet, Undisturbed, InOrder

\* What has to be shown of a step, besides the copies.
LEMMA RestAfter ==
  ASSUME Undisturbed' =>
            /\ pc' \in Kinds => /\ fresh'
                                /\ \A k \in Kinds : Rank[k] < Rank[pc'] => InOrder(k)'
            /\ pc' = "idle" /\ ~StorageBucketReconcileRequired(status') =>
                  \A k \in Kinds : InOrder(k)'
  PROVE  DoneOK' /\ AtRestInstalled'
  <1>1. DoneOK'
    BY DEF DoneOK
  <1>2. (pc = "idle" /\ Undisturbed /\ ~StorageBucketReconcileRequired(status) =>
            \A k \in Kinds : InOrder(k))'
    OBVIOUS
  <1>3. AtRestInstalled'
    BY <1>2, RestForm, PTL
  <1> QED
    BY <1>1, <1>3

\* An object stays in order while it and the bucket's name stay as they are.
LEMMA InOrderKept ==
  ASSUME NEW k \in Kinds, InOrder(k), objs'[k] = objs[k], unnoticed \subseteq unnoticed',
         status # Absent, status' # Absent, status'.name = status.name
  PROVE  InOrder(k)'
  BY DEF InOrder, Installed, BucketKinds

\* Steps of others that leave an object in order, or bring a Reconcile about.
LEMMA RestKept ==
  ASSUME RestInv, UNCHANGED <<pc, fresh>>, unnoticed \subseteq unnoticed',
         Undisturbed' =>
            /\ Undisturbed
            /\ status'.name = status.name
            /\ StorageBucketReconcileRequired(status) => StorageBucketReconcileRequired(status')
            /\ \A k \in Kinds : k \in unnoticed' \/ objs'[k] = objs[k]
  PROVE  DoneOK' /\ AtRestInstalled'
  <1>1. ASSUME Undisturbed', NEW k \in Kinds, InOrder(k) PROVE InOrder(k)'
    <2>1. status # Absent /\ status' # Absent
      BY <1>1 DEF Undisturbed
    <2>2. CASE k \in unnoticed'
      BY <2>2 DEF InOrder
    <2>3. CASE objs'[k] = objs[k]
      BY <1>1, <2>1, <2>3, InOrderKept
    <2> QED
      BY <1>1, <2>2, <2>3
  <1>2. ASSUME Undisturbed', pc' \in Kinds
        PROVE  fresh' /\ \A k \in Kinds : Rank[k] < Rank[pc'] => InOrder(k)'
    BY <1>1, <1>2 DEF RestInv, DoneOK
  <1>3. ASSUME Undisturbed', pc' = "idle", ~StorageBucketReconcileRequired(status')
        PROVE  \A k \in Kinds : InOrder(k)'
    BY <1>1, <1>3, RestForm DEF RestInv
  <1> QED
    BY <1>2, <1>3, RestAfter

\* The copies stay as they were.
LEMMA CopiesUntouched ==
  ASSUME CopiesOK, pc # "down", UNCHANGED <<objVars, seen>>
  PROVE  CopiesOK'
  BY DEF CopiesOK, objVars

\* A write of the operator leaves a copy out of date as the invariant allows it.
LEMMA OperatorCopies ==
  ASSUME IInv, CopiesOK, pc # "down", NEW k \in Kinds, NEW obj \in Object,
         k \notin Watched => obj.spec = "ours", OperatorWrites(k, obj), UNCHANGED seen
  PROVE  CopiesOK'
  <1>1. /\ \A m \in Kinds : objs'[m] = IF m = k THEN obj ELSE objs[m]
        /\ behind' = behind \cup {k} /\ unnoticed' = unnoticed \ {k}
        /\ notify \subseteq notify'
    BY Parts DEF OperatorWrites, Write, ObjTypes
  <1>2. k \in Watched /\ k \notin notify' => obj.owner = NoUid
    BY NothingAssumption DEF OperatorWrites, Write, Heard
  <1> QED
    BY <1>1, <1>2, NothingAssumption DEF CopiesOK

\* So does one of others, which is either heard of or put down as unnoticed.
LEMMA OthersCopies ==
  ASSUME IInv, RestInv, NEW k \in Kinds, NEW obj, OthersWrite(k, obj),
         UNCHANGED <<crVars, runVars, seen>>
  PROVE  RestInv'
  <1>1. /\ \A m \in Kinds : m # k => objs'[m] = objs[m]
        /\ behind' = behind \cup {k} /\ notify \subseteq notify' /\ unnoticed \subseteq unnoticed'
        /\ unnoticed' \subseteq unnoticed \cup {k}
    BY Parts DEF OthersWrite, Write, ObjTypes
  <1>2. pc # "down" => k \in notify' \/ k \in unnoticed'
    BY DEF OthersWrite, Write
  <1>3. CopiesOK'
    BY <1>1, <1>2 DEF RestInv, CopiesOK, runVars
  <1>4. CASE pc = "down"
    <2>1. pc' = "down"
      BY <1>4 DEF runVars
    <2> QED
      BY <1>3, <2>1, KindsFacts, RestAfter DEF RestInv
  <1>5. CASE pc # "down"
    <2>1. Undisturbed' => /\ Undisturbed
                          /\ \A m \in Kinds : m \in unnoticed' \/ objs'[m] = objs[m]
      BY <1>1, <1>2, <1>5 DEF Undisturbed, crVars, runVars
    <2>2. DoneOK' /\ AtRestInstalled'
      BY <1>1, <2>1, RestKept DEF crVars, runVars
    <2> QED
      BY <1>3, <2>2 DEF RestInv
  <1> QED
    BY <1>4, <1>5

\* What provisionVelero wants for the stored VeleroInstall.
LEMMA WantedInstalled ==
  ASSUME IInv, RestInv, Undisturbed, pc \in Kinds, NEW k \in Kinds
  PROVE  Wanted(k) = IF k \in BucketKinds THEN status.name ELSE "ours"
  <1>1. inst.status.name = status.name
    BY DEF RestInv, DoneOK, IInv, InstanceOK
  <1> QED
    BY <1>1, PlatformAssumption
    DEF Wanted, BucketKinds, awsCredentialsRequest, gcpCredentialsRequest

\* What provisionVelero wants of the objects that are not watched.
LEMMA WantedOurs ==
  ASSUME NEW k \in Kinds \ Watched
  PROVE  Wanted(k) = "ours"
  BY DEF Watched, Wanted

\* The object that provisionVelero has seen to is in order, unless there will be another
\* Reconcile; so are those that were.
LEMMA EnsuredRests ==
  ASSUME IInv, RestInv, NEW k \in Kinds, pc = k, NEW obj \in Object, obj.spec = Wanted(k),
         CreateObject(k, obj) \/ UpdateObject(k), UNCHANGED <<crVars, seen>>, queued => queued'
  PROVE  /\ CopiesOK'
         /\ Undisturbed' =>
               /\ Undisturbed
               /\ \A m \in Kinds : m = k \/ Rank[m] < Rank[k] => InOrder(m)'
  <1>1. pc # "down"
    BY KindsFacts
  <1>2. \/ UNCHANGED objVars /\ seen[k] # Absent /\ seen[k].spec = Wanted(k)
        \/ \E new \in Object : OperatorWrites(k, new) /\ new.spec = Wanted(k)
    <2>1. CASE UpdateObject(k) /\ Differs(k)
      <3> DEFINE new == [seen[k] EXCEPT !.spec = Wanted(k)]
      <3>1. seen[k] \in Object /\ Wanted(k) \in Specs
        BY <2>1, Parts, WantedType DEF UpdateObject, ObjTypes
      <3>2. new \in Object /\ new.spec = Wanted(k) /\ OperatorWrites(k, new)
        BY <2>1, <3>1 DEF UpdateObject, Object
      <3> HIDE DEF new
      <3> QED
        BY <3>2
    <2> QED
      BY <2>1 DEF CreateObject, UpdateObject, Differs
  <1>3. CASE UNCHANGED objVars /\ seen[k] # Absent /\ seen[k].spec = Wanted(k)
    <2>1. CopiesOK'
      BY <1>1, <1>3, CopiesUntouched DEF RestInv
    <2>2. Undisturbed' => Undisturbed
      BY <1>3 DEF Undisturbed, crVars, objVars
    <2>3. ASSUME Undisturbed PROVE InOrder(k)
      <3>1. Wanted(k) = IF k \in BucketKinds THEN status.name ELSE "ours"
        BY <2>3, WantedInstalled
      <3>2. CASE k \notin behind
        BY <1>1, <1>3, <2>3, <3>1, <3>2 DEF RestInv, CopiesOK, InOrder, Installed, Undisturbed
      <3>3. CASE k \in behind /\ k \notin unnoticed
        BY <1>1, <2>3, <3>1, <3>3, KindsFacts
        DEF RestInv, CopiesOK, InOrder, Installed, Undisturbed
      <3> QED
        BY <3>2, <3>3 DEF InOrder
    <2>4. ASSUME Undisturbed', NEW m \in Kinds, m = k \/ Rank[m] < Rank[k] PROVE InOrder(m)'
      <3>1. InOrder(m)
        BY <2>2, <2>3, <2>4 DEF RestInv, DoneOK
      <3> QED
        BY <1>3, <2>4, <3>1, InOrderKept DEF crVars, objVars, Undisturbed
    <2> QED
      BY <2>1, <2>2, <2>4
  <1>4. ASSUME NEW new \in Object, OperatorWrites(k, new), new.spec = Wanted(k)
        PROVE  /\ CopiesOK'
               /\ Undisturbed' =>
                     /\ Undisturbed
                     /\ \A m \in Kinds : m = k \/ Rank[m] < Rank[k] => InOrder(m)'
    <2>1. CopiesOK'
      BY <1>1, <1>4, WantedOurs, OperatorCopies DEF RestInv
    <2>2. /\ \A m \in Kinds : objs'[m] = IF m = k THEN new ELSE objs[m]
          /\ unnoticed' = unnoticed \ {k}
          /\ notify \subseteq notify'
      BY <1>4, Parts DEF OperatorWrites, Write, ObjTypes
    <2>3. Undisturbed' => Undisturbed
      BY <2>2 DEF Undisturbed, crVars
    <2>4. ASSUME Undisturbed PROVE InOrder(k)'
      <3>1. Wanted(k) = IF k \in BucketKinds THEN status.name ELSE "ours"
        BY <2>4, WantedInstalled
      <3>2. objs'[k] = new /\ new # Absent /\ status' = status /\ status # Absent
        BY <2>2, <2>4, NothingAssumption DEF crVars, Undisturbed
      <3> QED
        BY <1>4, <3>1, <3>2 DEF InOrder, Installed, BucketKinds
    <2>5. ASSUME Undisturbed', NEW m \in Kinds, m # k, Rank[m] < Rank[k] PROVE InOrder(m)'
      <3>1. InOrder(m) /\ status # Absent /\ status' = status
        BY <2>3, <2>5 DEF RestInv, DoneOK, Undisturbed, crVars
      <3> QED
        BY <2>2, <2>5, <3>1 DEF InOrder, Installed, BucketKinds
    <2> QED
      BY <2>1, <2>3, <2>4, <2>5
  <1> QED
    BY <1>2, <1>3, <1>4

\* A step of provisionVelero.
LEMMA ProvisionRests ==
  ASSUME IInv, RestInv, provisionVelero
  PROVE  RestInv'
  <1>0. /\ UNCHANGED <<crVars, seen>> /\ pc \in Kinds /\ pc # "down"
        /\ svc \in Nat /\ queued \in BOOLEAN
    <2>1. UNCHANGED <<crVars, seen>> /\ pc \in Kinds
      BY KindsFacts DEF provisionVelero, Ensure, EnsureService, EnsureMonitor
    <2>2. svc \in Nat /\ queued \in BOOLEAN
      BY Parts DEF RunTypes, ServiceUids, NoUid
    <2> QED
      BY <2>1, <2>2, KindsFacts
  <1>1. ASSUME Return(TRUE), UNCHANGED objVars PROVE RestInv'
    <2>1. CopiesOK'
      BY <1>0, <1>1, CopiesUntouched DEF RestInv
    <2>2. ~Undisturbed'
      BY <1>1 DEF Return, Undisturbed
    <2> QED
      BY <2>1, <2>2, RestAfter DEF RestInv
  <1>2. ASSUME NEW k \in Kinds PROVE pc = k /\ k # "monitor" => OwnedByInstance(k) \in Object
    BY <1>2, WantedType, NewUidType, Parts DEF OwnedByInstance, Object, RunTypes, Instance, IInv
  <1>3. ASSUME NEW k \in Watched, Ensure(k), ~Refused(k) PROVE RestInv'
    <2> DEFINE obj == OwnedByInstance(k)
    <2>1. /\ k \in Kinds /\ k # "monitor" /\ pc = k /\ pc' = After(k)
          /\ UNCHANGED <<fresh, queued>> /\ (CreateObject(k, obj) \/ UpdateObject(k))
      BY <1>3, KindsFacts DEF Ensure, Goto
    <2>2. obj \in Object /\ obj.spec = Wanted(k)
      BY <1>2, <2>1 DEF OwnedByInstance
    <2>3. /\ CopiesOK'
          /\ Undisturbed' =>
                /\ Undisturbed
                /\ \A m \in Kinds : m = k \/ Rank[m] < Rank[k] => InOrder(m)'
      <3> HIDE DEF obj
      <3> QED
        BY <1>0, <2>1, <2>2, EnsuredRests
    <2>4. pc' \in Kinds /\ \A m \in Kinds : Rank[m] < Rank[pc'] => m = k \/ Rank[m] < Rank[k]
      <3>1. /\ After(k) \in Kinds
            /\ \A m \in Kinds : Rank[m] > Rank[k] => Rank[After(k)] <= Rank[m]
        BY AfterType
      <3>2. \A m, n \in Kinds : Rank[m] \in Nat /\ (Rank[m] = Rank[n] => m = n)
        BY KindsAssumption DEF Rank
      <3> QED
        BY <2>1, <3>1, <3>2
    <2>5. DoneOK' /\ AtRestInstalled'
      BY <1>0, <2>1, <2>3, <2>4, KindsFacts, RestAfter DEF RestInv, DoneOK
    <2> QED
      BY <2>3, <2>5 DEF RestInv
  <1>4. CASE EnsureService /\ ~Refused("service")
    <2> DEFINE obj == OwnedByInstance("service")
    <2>1. obj \in Object /\ obj.spec = Wanted("service") /\ pc = "service"
      BY <1>2, <1>4, KindsFacts DEF OwnedByInstance, EnsureService
    <2>2. /\ CreateObject("service", obj) \/ UpdateObject("service")
          /\ queued => queued'
          /\ queued' \/ (pc' = "monitor" /\ fresh' = fresh)
      <3>1. \/ CreateObject("service", obj) /\ Return(TRUE)
            \/ UpdateObject("service") /\ pc' = "monitor" /\ UNCHANGED <<fresh, queued>>
        BY <1>4 DEF EnsureService
      <3>2. Return(TRUE) => queued'
        BY DEF Return
      <3>3. CASE Return(TRUE)
        BY <3>1, <3>2, <3>3
      <3>4. CASE UpdateObject("service") /\ pc' = "monitor" /\ UNCHANGED <<fresh, queued>>
        <4>1. queued' = queued /\ fresh' = fresh
          BY <3>4
        <4> QED
          BY <3>4, <4>1
      <3> QED
        BY <3>1, <3>3, <3>4
    <2>3. /\ CopiesOK'
          /\ Undisturbed' =>
                /\ Undisturbed
                /\ \A m \in Kinds : m = "service" \/ Rank[m] < Rank["service"] => InOrder(m)'
      <3> HIDE DEF obj
      <3> QED
        BY <1>0, <2>1, <2>2, KindsFacts, EnsuredRests
    <2>4. \A m \in Kinds : Rank[m] < Rank["monitor"] => m = "service" \/ Rank[m] < Rank["service"]
      BY KindsAssumption DEF Rank
    <2>5. Undisturbed' => pc' = "monitor" /\ fresh' = fresh
      BY <2>2 DEF Undisturbed
    <2>6. DoneOK' /\ AtRestInstalled'
      BY <1>0, <2>3, <2>4, <2>5, RestAfter DEF RestInv, DoneOK
    <2> QED
      BY <2>3, <2>6 DEF RestInv
  <1>5. CASE EnsureMonitor /\ ~Refused("monitor")
    <2> DEFINE obj == generateServiceMonitor(svc)
    <2>1. obj \in Object /\ obj.spec = Wanted("monitor") /\ pc = "monitor"
      BY <1>0, <1>5, KindsFacts, WantedType
      DEF generateServiceMonitor, Object, EnsureMonitor, NoUid
    <2>2. /\ CreateObject("monitor", obj) \/ UpdateObject("monitor")
          /\ queued => queued'
          /\ pc' = "idle"
      BY <1>0, <1>5 DEF EnsureMonitor, Return
    <2>3. /\ CopiesOK'
          /\ Undisturbed' =>
                \A m \in Kinds : m = "monitor" \/ Rank[m] < Rank["monitor"] => InOrder(m)'
      <3> HIDE DEF obj
      <3> QED
        BY <1>0, <2>1, <2>2, KindsFacts, EnsuredRests
    <2>4. \A m \in Kinds : m = "monitor" \/ Rank[m] < Rank["monitor"]
      BY KindsAssumption DEF Rank
    <2>5. DoneOK' /\ AtRestInstalled'
      BY <2>2, <2>3, <2>4, KindsFacts, RestAfter
    <2> QED
      BY <2>3, <2>5 DEF RestInv
  <1>6. CASE (\E k \in Watched : Ensure(k) /\ Refused(k))
               \/ (EnsureService /\ Refused("service")) \/ (EnsureMonitor /\ Refused("monitor"))
    BY <1>1, <1>6 DEF Ensure, EnsureService, EnsureMonitor
  <1> QED
    BY <1>3, <1>4, <1>5, <1>6 DEF provisionVelero

\* The worker outside provisionVelero: it starts, or writes the status.
LEMMA WorkerRests ==
  ASSUME IInv, RestInv, Fetch \/ CreateStorage
  PROVE  RestInv'
  <1>0. CopiesOK'
    BY CopiesUntouched DEF Fetch, CreateStorage, RestInv
  <1>1. CASE Fetch /\ cached = Absent
    <2>1. pc' = "idle" /\ ~Undisturbed'
      <3>1. ~lagging => status = Absent
        BY <1>1, NothingAssumption, Parts
        DEF Fetch, IInv, CacheOK, Stored, CrTypes, Instance, ContractInv
      <3> QED
        BY <1>1, <3>1 DEF Fetch, Undisturbed, crVars
    <2> QED
      BY <1>0, <2>1, RestAfter DEF RestInv
  <1>2. CASE Fetch /\ cached # Absent
    <2>1. pc' \in {"storage", "bsl"} /\ (Undisturbed' => fresh')
      BY <1>2 DEF Fetch, Undisturbed, crVars
    <2>2. \A k \in Kinds : ~(Rank[k] < Rank["bsl"])
      BY KindsAssumption DEF Rank
    <2> QED
      BY <1>0, <2>1, <2>2, KindsFacts, RestAfter DEF RestInv
  <1>3. CASE CreateStorage
    <2>1. pc' \in {"idle", "storage"}
      BY <1>3 DEF CreateStorage, Return
    <2>2. Undisturbed' => StorageBucketReconcileRequired(status')
      BY <1>3 DEF CreateStorage, Return, Undisturbed, Lose, GiveUp, Sync, Choose, Update
    <2> QED
      BY <1>0, <2>1, <2>2, KindsFacts, RestAfter DEF RestInv
  <1> QED
    BY <1>1, <1>2, <1>3

\* Failures, the informers, and what happens to the VeleroInstall.
LEMMA LoopRests ==
  ASSUME IInv, RestInv,
         \/ CallFails \/ Crash \/ Restart \/ Deliver \/ Resync \/ (\E k \in Kinds : Observe(k))
         \/ CreateCR \/ DeleteCR \/ PrepareBucket \/ PeriodEnds
  PROVE  RestInv'
  <1>1. CASE CallFails \/ Deliver \/ Resync
    <2>1. CopiesOK' /\ ~Undisturbed'
      BY <1>1, CopiesUntouched
      DEF CallFails, Return, Deliver, Resync, Undisturbed, RestInv
    <2> QED
      BY <2>1, RestAfter DEF RestInv
  <1>2. CASE Crash \/ Restart
    <2>1. CopiesOK' /\ (pc' = "down" \/ ~Undisturbed')
      BY <1>2 DEF Crash, Restart, CopiesOK, Undisturbed
    <2> QED
      BY <2>1, KindsFacts, RestAfter DEF RestInv
  <1>3. ASSUME NEW k \in Kinds, Observe(k) PROVE RestInv'
    <2>1. /\ \A m \in Kinds : seen'[m] = IF m = k THEN objs[m] ELSE seen[m]
          /\ UNCHANGED <<crVars, pc, fresh, objs, unnoticed>>
          /\ behind' = behind \ {k} /\ notify' = notify \ {k} /\ queued' = (queued \/ k \in notify)
      BY <1>3, Parts DEF Observe, ObjTypes
    <2>2. CopiesOK'
      BY <2>1 DEF RestInv, CopiesOK
    <2>3. Undisturbed' => Undisturbed /\ status' = status
      BY <2>1 DEF Undisturbed, crVars
    <2>4. DoneOK' /\ AtRestInstalled'
      BY <2>1, <2>3, RestKept
    <2> QED
      BY <2>2, <2>4 DEF RestInv
  <1>4. CASE CreateCR \/ DeleteCR \/ PrepareBucket \/ PeriodEnds
    <2>1. UNCHANGED <<pc, objVars, seen>>
      BY <1>4 DEF CreateCR, DeleteCR, PrepareBucket, PeriodEnds, runVars
    <2>2. CopiesOK'
      BY <2>1, CopiesUntouched DEF RestInv, CopiesOK
    <2>3. CASE CreateCR \/ DeleteCR
      <3>1. ~Undisturbed'
        BY <2>3 DEF CreateCR, DeleteCR, Undisturbed
      <3> QED
        BY <2>2, <3>1, RestAfter DEF RestInv
    <2>4. CASE PrepareBucket
      <3>1. UNCHANGED <<status, lagging, queued, fresh>>
        BY <2>4 DEF PrepareBucket, Prepare, runVars
      <3>2. DoneOK' /\ AtRestInstalled'
        BY <2>1, <3>1, RestKept DEF Undisturbed, objVars
      <3> QED
        BY <2>2, <3>2 DEF RestInv
    <2>5. CASE PeriodEnds
      <3>1. status' = Aged(status) /\ UNCHANGED <<lagging, queued, fresh>>
        BY <2>5 DEF PeriodEnds
      <3>2. status \in Status \cup {Absent}
        BY DEF IInv, ContractInv
      <3>3. Undisturbed' =>
              /\ Undisturbed
              /\ status'.name = status.name
              /\ StorageBucketReconcileRequired(status')
        BY <2>1, <3>1, <3>2, AgedType, AbsentAssumption
        DEF Undisturbed, objVars, StorageBucketReconcileRequired, Status, SyncAges
      <3>4. DoneOK' /\ AtRestInstalled'
        BY <2>1, <3>1, <3>3, RestKept DEF objVars
      <3> QED
        BY <2>2, <3>4 DEF RestInv
    <2> QED
      BY <1>4, <2>3, <2>4, <2>5
  <1> QED
    BY <1>1, <1>2, <1>3, <1>4

LEMMA RestStep ==
  ASSUME IInv, RestInv, [Next]_vars
  PROVE  RestInv'
  <1>1. CASE \E k \in Kinds :
               GarbageCollect(k) \/ RemoveObject(k) \/ ChangeObject(k) \/ MakeObject(k)
    <2>1. PICK k \in Kinds :
             GarbageCollect(k) \/ RemoveObject(k) \/ ChangeObject(k) \/ MakeObject(k)
      BY <1>1
    <2>2. (\E obj : OthersWrite(k, obj)) /\ UNCHANGED <<crVars, runVars, seen>>
      BY <2>1 DEF GarbageCollect, RemoveObject, ChangeObject, MakeObject, Interfere
    <2> QED
      BY <2>2, OthersCopies
  <1>2. CASE UNCHANGED vars
    <2>1. UNCHANGED <<pc, fresh, objVars, seen, unnoticed, status, queued, lagging, notify, objs>>
      BY <1>2 DEF vars, objVars
    <2>2. CopiesOK'
      BY <2>1, CopiesUntouched DEF RestInv, CopiesOK
    <2>3. DoneOK' /\ AtRestInstalled'
      BY <2>1, RestKept DEF Undisturbed
    <2> QED
      BY <2>2, <2>3 DEF RestInv
  <1> QED
    BY <1>1, <1>2, ProvisionRests, WorkerRests, LoopRests DEF Next, Worker, Cluster

(***************************************************************************)
(* However a Reconcile was turned away, cut short or sent on with a stale  *)
(* copy: the operator comes to rest on a synced VeleroInstall only with    *)
(* every object as specified, but for those that it cannot hear of.        *)
(***************************************************************************)
THEOREM RestTheorem == Spec => []AtRestInstalled
  <1>1. Init => RestInv
    BY KindsFacts DEF Init, ContractInit, RestInv, CopiesOK, DoneOK, AtRestInstalled
  <1>2. RestInv => AtRestInstalled
    BY DEF RestInv
  <1> QED
    BY <1>1, <1>2, ProvisionInvariance, RestStep, PTL DEF Spec
=============================================================================
