------------------------------ MODULE Startup ------------------------------
(***************************************************************************)
(* main: from the start of the operator's process to the running manager,  *)
(* and the choice of the storage driver by its first Reconcile.            *)
(*                                                                         *)
(* The operator's Deployment has one replica, but rolls over: a new pod is *)
(* started before the old one is stopped, and leader.Become makes it wait. *)
(* Every error is an os.Exit, after which the container is started again   *)
(* in its pod.  Each pod is of a release of its own, which has its own     *)
(* idea of the CRDs and of the metrics objects.                            *)
(***************************************************************************)
EXTENDS Naturals

CONSTANTS
    CRDs,       \* the CRDs that come with Velero
    MaxPods,    \* bound: pods there ever are
    MaxFaults   \* bound: failures, evictions, changes by others

ASSUME PodsAssumption == MaxPods \in Nat \ {0}
ASSUME FaultsAssumption == MaxFaults \in Nat

Pods == 1..MaxPods
NoPod == 0

\* What the startup installs: the CRDs, then the two objects of addMetrics.
ASSUME CRDsAssumption == CRDs \cap {"service", "monitor"} = {}
Things == CRDs \cup {"service", "monitor"}

\* A thing is not there, is as the release of a pod has it, or is something else.
Missing == 0
Altered == MaxPods + 1

\* The UID of an object that the API server has not returned, or no owner.
NoUid == 0

VARIABLES
    env,        \* the namespace and the infrastructure the operator finds
    stage,      \* how far each pod's process has come
    left,       \* CRDs that InstallVeleroCRDs has still to look at
    driver,     \* the storage driver of each pod's reconciler
    inHand,     \* UID of the Service each pod's addMetrics has generated
    lock,       \* the pod that owns the leader's ConfigMap
    things,     \* what is stored
    uid,        \* UID of the stored Service, or of the last one there was
    owner,      \* UID of the Service that the stored ServiceMonitor refers to
    disturbed,  \* things others changed since the operator saw to them (history)
    faults      \* disturbances that may still happen

memory == <<left, driver, inHand>>
stored == <<things, uid, owner, disturbed>>
vars == <<env, stage, left, driver, inHand, lock, things, uid, owner, disturbed, faults>>

-----------------------------------------------------------------------------
\* details: region and, on GCP, project are known.
Environment == [namespace : {"openshift-velero", "other", "unset"},
                platform : {"AWS", "GCP", "None"},
                details : BOOLEAN]

\* The stages that only the leader gets to.
Leading == {"platform", "crds", "service", "monitor", "start", "manage"}

Stages == Leading \cup {"absent", "namespace", "lock", "exited", "gone"}

\* Every variable has its type; a process that is not in InstallVeleroCRDs has no CRD
\* left to look at, only a running manager has a driver, and only addMetrics a Service.
TypeOK ==
    /\ env \in Environment
    /\ stage \in [Pods -> Stages]
    /\ left \in [Pods -> SUBSET CRDs]
    /\ driver \in [Pods -> {"none", "s3", "gcs"}]
    /\ inHand \in [Pods -> Nat]
    /\ lock \in Pods \cup {NoPod}
    /\ things \in [Things -> Pods \cup {Missing, Altered}]
    /\ uid \in Nat
    /\ owner \in Nat
    /\ disturbed \in SUBSET Things
    /\ faults \in 0..MaxFaults
    /\ \A p \in Pods : /\ left[p] # {} => stage[p] = "crds"
                       /\ driver[p] # "none" => stage[p] = "manage"
                       /\ inHand[p] # NoUid => stage[p] = "monitor"

Init ==
    /\ env \in Environment
    /\ stage = [p \in Pods |-> IF p = 1 THEN "namespace" ELSE "absent"]
    /\ left = [p \in Pods |-> {}]
    /\ driver = [p \in Pods |-> "none"]
    /\ inHand = [p \in Pods |-> NoUid]
    /\ lock = NoPod
    /\ things = [t \in Things |-> Missing]
    /\ uid = NoUid
    /\ owner = NoUid
    /\ disturbed = {}
    /\ faults = MaxFaults

-----------------------------------------------------------------------------
Fault == faults > 0 /\ faults' = faults - 1

Goto(p, next) == stage' = [stage EXCEPT ![p] = next]

\* The process is gone, with what it had in memory; where says what is left of the pod.
End(p, where) ==
    /\ Goto(p, where)
    /\ left' = [left EXCEPT ![p] = {}]
    /\ driver' = [driver EXCEPT ![p] = "none"]
    /\ inHand' = [inHand EXCEPT ![p] = NoUid]

\* os.Exit(1).
Exit(p) == End(p, "exited")

\* Mutant: the leader's lock is forgotten.
Mutant_getWatchNamespaceUnlocked(p) ==
    /\ stage[p] = "namespace"
    /\ \/ /\ env.namespace = "openshift-velero"
          /\ Goto(p, "platform")
          /\ UNCHANGED memory
       \/ /\ env.namespace # "openshift-velero"
          /\ Exit(p)
    /\ UNCHANGED <<env, lock, stored, faults>>

\* The namespace must be set, and be the one Velero is to be configured in.
getWatchNamespace(p) ==
    /\ stage[p] = "namespace"
    /\ \/ /\ env.namespace = "openshift-velero"
          /\ Goto(p, "lock")
          /\ UNCHANGED memory
       \/ /\ env.namespace # "openshift-velero"
          /\ Exit(p)
    /\ UNCHANGED <<env, lock, stored, faults>>

\* leader.Become: the first pod to create the ConfigMap is leader for its life, also
\* after a restart of its container; the others wait.
Become(p) ==
    /\ stage[p] = "lock"
    /\ lock \in {NoPod, p}
    /\ lock' = p
    /\ Goto(p, "platform")
    /\ UNCHANGED <<env, memory, stored, faults>>

\* Mutant: every platform will do.
Mutant_IsPlatformSupportedAny(p) ==
    /\ stage[p] = "platform"
    /\ Goto(p, "crds")
    /\ left' = [left EXCEPT ![p] = CRDs]
    /\ UNCHANGED <<env, driver, inHand, lock, stored, faults>>

\* Only the type of the platform is looked at.
IsPlatformSupported(p) ==
    /\ stage[p] = "platform"
    /\ \/ /\ env.platform \in {"AWS", "GCP"}
          /\ Goto(p, "crds")
          /\ left' = [left EXCEPT ![p] = CRDs]
          /\ UNCHANGED <<driver, inHand>>
       \/ /\ env.platform \notin {"AWS", "GCP"}
          /\ Exit(p)
    /\ UNCHANGED <<env, lock, stored, faults>>

\* A thing is created, updated if it differs, or left as it is.  These calls are not
\* cached, so that a thing changed between lookup and write is a call that fails.
Ensure(p, t) ==
    /\ things' = [things EXCEPT ![t] = p]
    /\ disturbed' = disturbed \ {t}

\* Mutant: a CRD that exists is an error.
Mutant_InstallVeleroCRDsCreateOnly(p, c) ==
    /\ stage[p] = "crds"
    /\ c \in left[p]
    /\ \/ /\ things[c] = Missing
          /\ Ensure(p, c)
          /\ left' = [left EXCEPT ![p] = @ \ {c}]
          /\ UNCHANGED <<stage, driver, inHand>>
       \/ /\ things[c] # Missing
          /\ Exit(p)
          /\ UNCHANGED <<things, disturbed>>
    /\ UNCHANGED <<env, lock, uid, owner, faults>>

\* Mutant: a CRD that exists is not compared.
Mutant_InstallVeleroCRDsNoUpdate(p, c) ==
    /\ stage[p] = "crds"
    /\ c \in left[p]
    /\ left' = [left EXCEPT ![p] = @ \ {c}]
    /\ IF things[c] = Missing THEN Ensure(p, c) ELSE UNCHANGED <<things, disturbed>>
    /\ UNCHANGED <<env, stage, driver, inHand, lock, uid, owner, faults>>

InstallVeleroCRDs(p, c) ==
    /\ stage[p] = "crds"
    /\ c \in left[p]
    /\ Ensure(p, c)
    /\ left' = [left EXCEPT ![p] = @ \ {c}]
    /\ UNCHANGED <<env, stage, driver, inHand, lock, uid, owner, faults>>

\* Mutant: the loop over the CRDs is left early.
Mutant_SetupWithManagerEarly(p) ==
    /\ stage[p] = "crds"
    /\ Goto(p, "service")
    /\ UNCHANGED <<env, memory, lock, stored, faults>>

\* The controller and the probes are set up.
SetupWithManager(p) ==
    /\ stage[p] = "crds"
    /\ left[p] = {}
    /\ Goto(p, "service")
    /\ UNCHANGED <<env, memory, lock, stored, faults>>

(***************************************************************************)
(* addMetrics generates the Service and looks it up.  Only its creation    *)
(* gives what was generated a UID: a Service that is found is updated, and *)
(* its UID is not taken over.                                              *)
(***************************************************************************)
EnsureService(p) ==
    /\ stage[p] = "service"
    /\ Ensure(p, "service")
    /\ \/ /\ things["service"] = Missing
          /\ uid' = uid + 1
          /\ inHand' = [inHand EXCEPT ![p] = uid + 1]
       \/ /\ things["service"] # Missing
          /\ UNCHANGED <<uid, inHand>>
    /\ Goto(p, "monitor")
    /\ UNCHANGED <<env, left, driver, lock, owner, faults>>

(***************************************************************************)
(* The ServiceMonitor is generated from that Service, its owner.  One that *)
(* is found keeps its owner, only the Spec is updated; one to be created   *)
(* with an owner that has no UID is refused.                               *)
(***************************************************************************)
EnsureMonitor(p) ==
    /\ stage[p] = "monitor"
    /\ \/ /\ things["monitor"] # Missing \/ inHand[p] # NoUid
          /\ Ensure(p, "monitor")
          /\ owner' = IF things["monitor"] = Missing THEN inHand[p] ELSE owner
          /\ inHand' = [inHand EXCEPT ![p] = NoUid]
          /\ Goto(p, "start")
          /\ UNCHANGED <<left, driver>>
       \/ /\ things["monitor"] = Missing
          /\ inHand[p] = NoUid
          /\ Exit(p)
          /\ UNCHANGED <<things, owner, disturbed>>
    /\ UNCHANGED <<env, lock, uid, faults>>

addMetrics(p) == EnsureService(p) \/ EnsureMonitor(p)

StartManager(p) ==
    /\ stage[p] = "start"
    /\ Goto(p, "manage")
    /\ UNCHANGED <<env, memory, lock, stored, faults>>

\* Reconcile makes the driver of the platform when it has none; without the details it
\* returns an error, and the next Reconcile tries again.
NewDriver(p) ==
    /\ stage[p] = "manage"
    /\ driver[p] = "none"
    /\ env.details
    /\ driver' = [driver EXCEPT ![p] = IF env.platform = "AWS" THEN "s3" ELSE "gcs"]
    /\ UNCHANGED <<env, stage, left, inHand, lock, stored, faults>>

main(p) ==
    \/ getWatchNamespace(p) \/ Become(p) \/ IsPlatformSupported(p)
    \/ \E c \in CRDs : InstallVeleroCRDs(p, c)
    \/ SetupWithManager(p) \/ addMetrics(p) \/ StartManager(p) \/ NewDriver(p)

-----------------------------------------------------------------------------
Running == Stages \ {"absent", "exited", "gone"}

\* A call fails and main exits, or the process dies.
Fail(p) ==
    /\ stage[p] \in Running
    /\ Fault
    /\ Exit(p)
    /\ UNCHANGED <<env, lock, stored>>

\* The container is started again.
RestartContainer(p) ==
    /\ stage[p] = "exited"
    /\ Goto(p, "namespace")
    /\ UNCHANGED <<env, memory, lock, stored, faults>>

\* A new release, or a replacement: the next pod is started.
StartPod(p) ==
    /\ stage[p] = "absent"
    /\ p > 1
    /\ stage[p - 1] # "absent"
    /\ Goto(p, "namespace")
    /\ UNCHANGED <<env, memory, lock, stored, faults>>

\* The old pod is stopped once the new one runs.
StopPod(p) ==
    /\ stage[p] \notin {"absent", "gone"}
    /\ p < MaxPods
    /\ stage[p + 1] \in Running \cup {"gone"}
    /\ End(p, "gone")
    /\ UNCHANGED <<env, lock, stored, faults>>

\* The pod is evicted before there is another.
EvictPod(p) ==
    /\ stage[p] \notin {"absent", "gone"}
    /\ p < MaxPods
    /\ Fault
    /\ End(p, "gone")
    /\ UNCHANGED <<env, lock, stored>>

\* The pod that is gone takes its ConfigMap with it.
ReleaseLock ==
    /\ lock # NoPod
    /\ stage[lock] = "gone"
    /\ lock' = NoPod
    /\ UNCHANGED <<env, stage, memory, stored, faults>>

\* Somebody changes, deletes or creates what the startup installs.
ChangeThing(t, new) ==
    /\ Fault
    /\ things' = [things EXCEPT ![t] = new]
    /\ disturbed' = disturbed \cup {t}
    /\ uid' = IF t = "service" /\ things[t] = Missing /\ new # Missing THEN uid + 1 ELSE uid
    /\ owner' = IF t = "monitor" /\ new = Missing THEN NoUid ELSE owner
    /\ UNCHANGED <<env, stage, memory, lock>>

\* Kubernetes collects a ServiceMonitor whose Service is there no more.
CollectMonitor ==
    /\ owner # NoUid
    /\ things["service"] = Missing \/ owner # uid
    /\ things' = [things EXCEPT !["monitor"] = Missing]
    /\ owner' = NoUid
    /\ disturbed' = disturbed \cup {"monitor"}
    /\ UNCHANGED <<env, stage, memory, lock, uid, faults>>

Next ==
    \/ \E p \in Pods : \/ main(p) \/ Fail(p) \/ RestartContainer(p)
                       \/ StartPod(p) \/ StopPod(p) \/ EvictPod(p)
    \/ ReleaseLock
    \/ CollectMonitor
    \/ \E t \in Things, new \in {Missing, Altered} : ChangeThing(t, new)

Spec == Init /\ [][Next]_vars

(***************************************************************************)
(* Calls return, containers are restarted, the Deployment replaces a pod   *)
(* that is gone and stops the one that was replaced, and the lock of a pod *)
(* that is gone is collected, as is a ServiceMonitor without its Service.  *)
(* That there be a new release is not assumed.                             *)
(***************************************************************************)
Fairness ==
    /\ WF_vars(ReleaseLock)
    /\ WF_vars(CollectMonitor)
    /\ \A p \in Pods :
          /\ WF_vars(main(p))
          /\ WF_vars(RestartContainer(p))
          /\ WF_vars(StopPod(p))
          /\ WF_vars(StartPod(p) /\ stage[p - 1] = "gone")

FairSpec == Spec /\ Fairness

-----------------------------------------------------------------------------
(***************************************************************************)
(* "Become the leader before proceeding": through roll-overs, evictions    *)
(* and restarts of containers, no two pods are past the lock, so that the  *)
(* startup writes and the reconciles of two releases do not mix.           *)
(***************************************************************************)
OneLeader ==
    \A p, q \in Pods : stage[p] \in Leading /\ stage[q] \in Leading => p = q

(***************************************************************************)
(* "Verify all velero CRDs are installed": a manager runs only where every *)
(* CRD and both metrics objects are as its own release has them, whichever *)
(* releases were here before and wherever they or itself were cut short,   *)
(* unless somebody else has changed them since, or has deleted the Service *)
(* so that the ServiceMonitor went with it.                                *)
(***************************************************************************)
ClusterFits ==
    \A p \in Pods : stage[p] = "manage" => \A t \in Things \ disturbed : things[t] = p

Supported == env.namespace = "openshift-velero" /\ env.platform \in {"AWS", "GCP"}

(***************************************************************************)
(* In a namespace or on a platform that is not supported the operator      *)
(* installs nothing: whichever pod starts, and however often, main checks  *)
(* both before its first write (but for the leader's lock, which it takes  *)
(* before it looks at the platform).                                       *)
(***************************************************************************)
UntouchedUnlessSupported ==
    ~Supported => \A t \in Things \ disturbed : things[t] = Missing

\* The latest pod there is.
Newest == CHOOSE p \in Pods : /\ stage[p] # "absent"
                              /\ \A q \in Pods : stage[q] # "absent" => q <= p

\* The latest pod manages and, if the infrastructure has the details, got its driver.
Managed == stage[Newest] = "manage" /\ (env.details => driver[Newest] # "none")

(***************************************************************************)
(* "addMetrics will create the Services and Service Monitors": where it is *)
(* supported, the operator comes up, whatever a former process left half   *)
(* installed and whoever held the lock.                                    *)
(***************************************************************************)
TakesOver == Supported => <>[]Managed

\* The Service is there and the ServiceMonitor is not.
HalfMeasured == things["service"] # Missing /\ things["monitor"] = Missing

(***************************************************************************)
(* The same, but for the one way it fails: the latest pod becomes the      *)
(* leader, gets past its checks and all CRDs, and starts its manager, or   *)
(* it comes to addMetrics time and again and each time there is a Service  *)
(* and no ServiceMonitor.                                                  *)
(***************************************************************************)
TakesOverUnlessHalfMeasured ==
    Supported => <>[]Managed \/ (<>[]HalfMeasured /\ []<>(stage[Newest] = "monitor"))
=============================================================================
