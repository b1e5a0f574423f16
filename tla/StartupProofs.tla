--------------------------- MODULE StartupProofs ---------------------------
(***************************************************************************)
(* The safety of the operator's start, for any number of pods, CRDs and    *)
(* disturbances.                                                           *)
(***************************************************************************)
EXTENDS Startup, TLAPS

-----------------------------------------------------------------------------
\* The type invariant is inductive.

LEMMA TypeInit == Init => TypeOK
  <1> SUFFICES ASSUME Init PROVE TypeOK
    OBVIOUS
  <1>1. 1 \in Pods
    BY PodsAssumption DEF Pods
  <1> QED
    BY <1>1, FaultsAssumption DEF Init, TypeOK, Stages, Leading, Missing, NoUid, Environment

\* The end of a process keeps the types.
LEMMA EndTypes ==
  ASSUME TypeOK, NEW p \in Pods, NEW where \in Stages, End(p, where)
  PROVE  /\ stage' \in [Pods -> Stages]
         /\ left' \in [Pods -> SUBSET CRDs]
         /\ driver' \in [Pods -> {"none", "s3", "gcs"}]
         /\ inHand' \in [Pods -> Nat]
         /\ \A q \in Pods : /\ left'[q] # {} => stage'[q] = "crds"
                            /\ driver'[q] # "none" => stage'[q] = "manage"
                            /\ inHand'[q] # NoUid => stage'[q] = "monitor"
  BY DEF TypeOK, End, Goto, NoUid

\* The steps of main keep the types.
LEMMA MainTypes ==
  ASSUME TypeOK, NEW p \in Pods, main(p)
  PROVE  TypeOK'
  <1>0. "exited" \in Stages
    BY DEF Stages
  <1>1. CASE getWatchNamespace(p)
    <2>1. CASE env.namespace = "openshift-velero"
      BY <1>1, <2>1 DEF getWatchNamespace, Goto, memory, stored, TypeOK, Stages, Leading
    <2>2. CASE env.namespace # "openshift-velero"
      BY <1>0, <1>1, <2>2, EndTypes DEF getWatchNamespace, Exit, stored, TypeOK
    <2> QED
      BY <2>1, <2>2
  <1>2. CASE Become(p)
    BY <1>2 DEF Become, Goto, memory, stored, TypeOK, Stages, Leading
  <1>3. CASE IsPlatformSupported(p)
    <2>1. CASE env.platform \in {"AWS", "GCP"}
      BY <1>3, <2>1 DEF IsPlatformSupported, Goto, stored, TypeOK, Stages, Leading
    <2>2. CASE env.platform \notin {"AWS", "GCP"}
      BY <1>0, <1>3, <2>2, EndTypes DEF IsPlatformSupported, Exit, stored, TypeOK
    <2> QED
      BY <2>1, <2>2
  <1>4. ASSUME NEW c \in CRDs, InstallVeleroCRDs(p, c)
        PROVE  TypeOK'
    BY <1>4 DEF InstallVeleroCRDs, Ensure, TypeOK, Things
  <1>5. CASE SetupWithManager(p)
    BY <1>5 DEF SetupWithManager, Goto, memory, stored, TypeOK, Stages, Leading
  <1>6. CASE EnsureService(p)
    <2>1. stage' = [stage EXCEPT ![p] = "monitor"] /\ things' \in [Things -> Pods \cup {Missing, Altered}]
      BY <1>6 DEF EnsureService, Goto, Ensure, TypeOK, Things
    <2>2. uid' \in Nat /\ inHand' \in [Pods -> Nat] /\ \A q \in Pods \ {p} : inHand'[q] = inHand[q]
      BY <1>6 DEF EnsureService, TypeOK
    <2> QED
      BY <1>6, <2>1, <2>2 DEF EnsureService, Ensure, TypeOK, Stages, Leading
  <1>7. CASE EnsureMonitor(p)
    <2>1. CASE Exit(p) /\ UNCHANGED <<things, owner, disturbed>>
      BY <1>0, <1>7, <2>1, EndTypes DEF EnsureMonitor, Exit, TypeOK
    <2>2. CASE ~(Exit(p) /\ UNCHANGED <<things, owner, disturbed>>)
      <3>1. stage' = [stage EXCEPT ![p] = "start"] /\ things' \in [Things -> Pods \cup {Missing, Altered}]
        BY <1>7, <2>2 DEF EnsureMonitor, Goto, Ensure, TypeOK, Things
      <3>2. owner' \in Nat /\ inHand' = [inHand EXCEPT ![p] = NoUid]
        BY <1>7, <2>2 DEF EnsureMonitor, TypeOK
      <3>3. UNCHANGED <<env, left, driver, lock, uid, faults>> /\ disturbed' \in SUBSET Things
        BY <1>7, <2>2 DEF EnsureMonitor, Ensure, TypeOK
      <3> QED
        BY <1>7, <3>1, <3>2, <3>3 DEF EnsureMonitor, TypeOK, Stages, Leading, NoUid
    <2> QED
      BY <2>1, <2>2
  <1>8. CASE StartManager(p)
    BY <1>8 DEF StartManager, Goto, memory, stored, TypeOK, Stages, Leading
  <1>9. CASE NewDriver(p)
    BY <1>9 DEF NewDriver, stored, TypeOK
  <1> QED
    BY <1>1, <1>2, <1>3, <1>4, <1>5, <1>6, <1>7, <1>8, <1>9 DEF main, addMetrics

\* So does what happens to the pods.
LEMMA PodTypes ==
  ASSUME TypeOK, NEW p \in Pods,
         Fail(p) \/ RestartContainer(p) \/ StartPod(p) \/ StopPod(p) \/ EvictPod(p)
  PROVE  TypeOK'
  <1>0. "exited" \in Stages /\ "gone" \in Stages /\ "namespace" \in Stages
    BY DEF Stages
  <1>1. CASE Fail(p)
    BY <1>0, <1>1, EndTypes, FaultsAssumption DEF Fail, Fault, Exit, stored, TypeOK
  <1>2. CASE RestartContainer(p)
    BY <1>0, <1>2 DEF RestartContainer, Goto, memory, stored, TypeOK
  <1>3. CASE StartPod(p)
    BY <1>0, <1>3 DEF StartPod, Goto, memory, stored, TypeOK
  <1>4. CASE StopPod(p)
    BY <1>0, <1>4, EndTypes DEF StopPod, stored, TypeOK
  <1>5. CASE EvictPod(p)
    BY <1>0, <1>5, EndTypes, FaultsAssumption DEF EvictPod, Fault, stored, TypeOK
  <1> QED
    BY <1>1, <1>2, <1>3, <1>4, <1>5

\* Every step keeps the types.
LEMMA TypeStep ==
  ASSUME TypeOK, [Next]_vars
  PROVE  TypeOK'
  <1>1. ASSUME NEW p \in Pods, main(p)
        PROVE  TypeOK'
    BY <1>1, MainTypes
  <1>2. ASSUME NEW p \in Pods,
               Fail(p) \/ RestartContainer(p) \/ StartPod(p) \/ StopPod(p) \/ EvictPod(p)
        PROVE  TypeOK'
    BY <1>2, PodTypes
  <1>3. CASE ReleaseLock
    BY <1>3 DEF ReleaseLock, memory, stored, TypeOK
  <1>4. ASSUME NEW t \in Things, NEW new \in {Missing, Altered}, ChangeThing(t, new)
        PROVE  TypeOK'
    <2>1. uid' \in Nat /\ owner' \in Nat /\ faults' \in 0..MaxFaults
      BY <1>4, FaultsAssumption DEF ChangeThing, Fault, TypeOK, NoUid
    <2> QED
      BY <1>4, <2>1 DEF ChangeThing, memory, TypeOK
  <1>5. CASE UNCHANGED vars
    BY <1>5 DEF vars, TypeOK
  <1>6. CASE CollectMonitor
    BY <1>6 DEF CollectMonitor, memory, TypeOK, Things, NoUid
  <1> QED
    BY <1>1, <1>2, <1>3, <1>4, <1>5, <1>6 DEF Next

(***************************************************************************)
(* The types hold in every reachable state of main, whatever the cluster.  *)
(***************************************************************************)
THEOREM StartupTypes == Spec => []TypeOK
  BY TypeInit, TypeStep, PTL DEF Spec

-----------------------------------------------------------------------------
(***************************************************************************)
(* OneLeader says nothing of the lock, and ClusterFits nothing of a start  *)
(* that has not ended, so neither is inductive.  The invariant says who    *)
(* holds the lock, what a process has seen to at each stage, and which     *)
(* checks it has passed.                                                   *)
(***************************************************************************)
LockHeld == \A p \in Pods : stage[p] \in Leading => lock = p

\* What the process of p has seen to so far.
Done(p, t) ==
    \/ t \in CRDs \ left[p] /\ stage[p] \in {"crds", "service", "monitor", "start", "manage"}
    \/ t = "service" /\ stage[p] \in {"monitor", "start", "manage"}
    \/ t = "monitor" /\ stage[p] \in {"start", "manage"}

Progress ==
    \A p \in Pods : \A t \in Things \ disturbed : Done(p, t) => things[t] = p

Checked ==
    \A p \in Pods :
        /\ stage[p] \in Leading \cup {"lock"} => env.namespace = "openshift-velero"
        /\ stage[p] \in Leading \ {"platform"} => env.platform \in {"AWS", "GCP"}

IInv == TypeOK /\ LockHeld /\ Progress /\ Checked /\ UntouchedUnlessSupported

LEMMA IInvInit == Init => IInv
  <1> SUFFICES ASSUME Init PROVE IInv
    OBVIOUS
  <1>1. \A p \in Pods : stage[p] \in {"namespace", "absent"}
    BY DEF Init
  <1>2. LockHeld /\ Progress /\ Checked
    BY <1>1 DEF LockHeld, Progress, Checked, Done, Leading
  <1>3. UntouchedUnlessSupported
    BY DEF Init, UntouchedUnlessSupported
  <1> QED
    BY <1>2, <1>3, TypeInit DEF IInv

\* A process that leaves the leader's stages, or is not among them, harms nothing.
LEMMA OutsideKeeps ==
  ASSUME IInv, NEW p \in Pods, NEW where \in Stages \ (Leading \cup {"lock"}), Goto(p, where),
         UNCHANGED <<env, lock, things, disturbed>>,
         \A q \in Pods \ {p} : left'[q] = left[q]
  PROVE  LockHeld' /\ Progress' /\ Checked' /\ UntouchedUnlessSupported'
  <1>1. \A q \in Pods \ {p} : stage'[q] = stage[q]
    BY DEF Goto, IInv, TypeOK
  <1>2. stage'[p] \notin Leading \cup {"lock"}
    BY DEF Goto, IInv, TypeOK
  <1>3. LockHeld'
    BY <1>1, <1>2 DEF IInv, LockHeld
  <1>4. Checked'
    BY <1>1, <1>2 DEF IInv, Checked
  <1>5. Progress'
    BY <1>1, <1>2 DEF IInv, Progress, Done, Leading
  <1>6. UntouchedUnlessSupported'
    BY DEF IInv, UntouchedUnlessSupported, Supported
  <1> QED
    BY <1>3, <1>4, <1>5, <1>6

\* While p is at a leader's stage no other process is.
LEMMA Alone ==
  ASSUME IInv, NEW p \in Pods, NEW q \in Pods, stage[p] \in Leading, stage[q] \in Leading
  PROVE  p = q
  BY DEF IInv, LockHeld

\* A leader past its checks that sees to a thing, and goes on in its stages.
LEMMA LeaderKeeps ==
  ASSUME IInv, NEW p \in Pods, NEW t \in Things, Ensure(p, t),
         stage[p] \in {"crds", "service", "monitor"},
         stage'[p] \in {"crds", "monitor", "start"},
         \A q \in Pods \ {p} : stage'[q] = stage[q] /\ left'[q] = left[q],
         \A u \in Things \ {t} : Done(p, u)' => Done(p, u),
         UNCHANGED <<env, lock>>
  PROVE  LockHeld' /\ Progress' /\ Checked' /\ UntouchedUnlessSupported'
  <1>1. \A q \in Pods \ {p} : stage[q] \notin Leading
    BY Alone DEF Leading
  <1>2. things'[t] = p /\ \A u \in Things \ {t} : things'[u] = things[u]
    BY DEF Ensure, IInv, TypeOK
  <1>3. LockHeld'
    BY <1>1 DEF IInv, LockHeld, Leading
  <1>4. Checked'
    BY <1>1 DEF IInv, Checked, Leading
  <1>5. \A u \in Things \ disturbed' : Done(p, u)' => things'[u] = p
    BY <1>2 DEF Ensure, IInv, Progress
  <1>6. \A q \in Pods \ {p} : \A u \in Things : ~ Done(q, u)'
    BY <1>1 DEF Done, Leading
  <1>7. Progress'
    BY <1>5, <1>6 DEF Progress
  <1>8. UntouchedUnlessSupported'
    BY DEF IInv, Checked, UntouchedUnlessSupported, Supported, Leading
  <1> QED
    BY <1>3, <1>4, <1>7, <1>8

\* The steps of main keep the invariant.
LEMMA MainKeeps ==
  ASSUME IInv, NEW p \in Pods, main(p)
  PROVE  LockHeld' /\ Progress' /\ Checked' /\ UntouchedUnlessSupported'
  <1> USE DEF IInv
  <1>0. "exited" \in Stages \ (Leading \cup {"lock"})
    BY DEF Stages, Leading
  <1>1. CASE getWatchNamespace(p)
    <2>1. CASE env.namespace = "openshift-velero"
      <3>1. stage'[p] = "lock" /\ \A q \in Pods \ {p} : stage'[q] = stage[q]
        BY <1>1, <2>1 DEF getWatchNamespace, Goto, Exit, End, TypeOK
      <3>2. UNCHANGED <<env, left, lock, things, disturbed>>
        BY <1>1, <2>1 DEF getWatchNamespace, memory, stored
      <3>3. LockHeld' /\ Checked'
        BY <2>1, <3>1, <3>2 DEF LockHeld, Checked, Leading
      <3>4. Progress'
        BY <3>1, <3>2 DEF Progress, Done
      <3>5. UntouchedUnlessSupported'
        BY <3>2 DEF UntouchedUnlessSupported, Supported
      <3> QED
        BY <3>3, <3>4, <3>5
    <2>2. CASE env.namespace # "openshift-velero"
      BY <1>0, <1>1, <2>2, OutsideKeeps DEF getWatchNamespace, Exit, End, stored, TypeOK
    <2> QED
      BY <2>1, <2>2
  <1>2. CASE Become(p)
    <2>1. stage'[p] = "platform" /\ \A q \in Pods \ {p} : stage'[q] = stage[q]
      BY <1>2 DEF Become, Goto, TypeOK
    <2>2. \A q \in Pods \ {p} : stage[q] \notin Leading
      BY <1>2, PodsAssumption DEF Become, LockHeld, NoPod, Pods
    <2>3. LockHeld'
      BY <1>2, <2>1, <2>2 DEF Become, LockHeld
    <2>4. Progress'
      BY <1>2, <2>1, <2>2 DEF Become, memory, stored, Progress, Done, Leading
    <2>5. Checked'
      BY <1>2, <2>1 DEF Become, Checked, Leading
    <2>6. UntouchedUnlessSupported'
      BY <1>2 DEF Become, stored, UntouchedUnlessSupported, Supported
    <2> QED
      BY <2>3, <2>4, <2>5, <2>6
  <1>3. CASE IsPlatformSupported(p)
    <2>1. CASE env.platform \in {"AWS", "GCP"}
      <3>1. /\ stage'[p] = "crds" /\ left'[p] = CRDs
            /\ \A q \in Pods \ {p} : stage'[q] = stage[q] /\ left'[q] = left[q]
        BY <1>3, <2>1 DEF IsPlatformSupported, Goto, TypeOK
      <3>2. UNCHANGED <<env, lock, things, disturbed>> /\ stage[p] = "platform"
        BY <1>3 DEF IsPlatformSupported, stored
      <3>3. LockHeld' /\ Checked'
        BY <2>1, <3>1, <3>2 DEF LockHeld, Checked, Leading
      <3>4. Progress'
        BY <3>1, <3>2 DEF Progress, Done
      <3>5. UntouchedUnlessSupported'
        BY <3>2 DEF UntouchedUnlessSupported, Supported
      <3> QED
        BY <3>3, <3>4, <3>5
    <2>2. CASE env.platform \notin {"AWS", "GCP"}
      BY <1>0, <1>3, <2>2, OutsideKeeps DEF IsPlatformSupported, Exit, End, stored, TypeOK
    <2> QED
      BY <2>1, <2>2
  <1>4. ASSUME NEW c \in CRDs, InstallVeleroCRDs(p, c)
        PROVE  LockHeld' /\ Progress' /\ Checked' /\ UntouchedUnlessSupported'
    <2>1. c \in Things
      BY DEF Things
    <2>2. left'[p] = left[p] \ {c} /\ \A q \in Pods \ {p} : left'[q] = left[q]
      BY <1>4 DEF InstallVeleroCRDs, TypeOK
    <2>3. \A u \in Things \ {c} : Done(p, u)' => Done(p, u)
      BY <1>4, <2>2 DEF InstallVeleroCRDs, Done
    <2> QED
      BY <1>4, <2>1, <2>2, <2>3, LeaderKeeps DEF InstallVeleroCRDs
  <1>5. CASE SetupWithManager(p)
    <2>1. stage'[p] = "service" /\ \A q \in Pods \ {p} : stage'[q] = stage[q]
      BY <1>5 DEF SetupWithManager, Goto, TypeOK
    <2>2. UNCHANGED <<env, left, lock, things, disturbed>> /\ stage[p] = "crds"
      BY <1>5 DEF SetupWithManager, memory, stored
    <2>3. LockHeld' /\ Checked'
      BY <2>1, <2>2 DEF LockHeld, Checked, Leading
    <2>4. Progress'
      BY <2>1, <2>2 DEF Progress, Done
    <2>5. UntouchedUnlessSupported'
      BY <2>2 DEF UntouchedUnlessSupported, Supported
    <2> QED
      BY <2>3, <2>4, <2>5
  <1>6. CASE EnsureService(p)
    <2>1. /\ "service" \in Things /\ UNCHANGED <<env, left, lock>> /\ stage[p] = "service"
          /\ stage'[p] = "monitor" /\ Ensure(p, "service")
          /\ \A q \in Pods \ {p} : stage'[q] = stage[q]
      BY <1>6 DEF EnsureService, Goto, TypeOK, Things
    <2>2. \A u \in Things \ {"service"} : Done(p, u)' => Done(p, u)
      BY <2>1 DEF Done
    <2> QED
      BY <2>1, <2>2, LeaderKeeps
  <1>7. CASE StartManager(p)
    <2>1. stage'[p] = "manage" /\ \A q \in Pods \ {p} : stage'[q] = stage[q]
      BY <1>7 DEF StartManager, Goto, TypeOK
    <2>2. UNCHANGED <<env, left, lock, things, disturbed>> /\ stage[p] = "start"
      BY <1>7 DEF StartManager, memory, stored
    <2>3. LockHeld' /\ Checked'
      BY <2>1, <2>2 DEF LockHeld, Checked, Leading
    <2>4. Progress'
      BY <2>1, <2>2 DEF Progress, Done
    <2>5. UntouchedUnlessSupported'
      BY <2>2 DEF UntouchedUnlessSupported, Supported
    <2> QED
      BY <2>3, <2>4, <2>5
  <1>8. CASE NewDriver(p)
    BY <1>8 DEF NewDriver, stored, LockHeld, Progress, Done, Checked, UntouchedUnlessSupported,
                Supported
  <1>9. CASE EnsureMonitor(p)
    <2>1. CASE Exit(p) /\ UNCHANGED <<things, owner, disturbed>>
      BY <1>0, <1>9, <2>1, OutsideKeeps DEF EnsureMonitor, Exit, End, TypeOK
    <2>2. CASE ~(Exit(p) /\ UNCHANGED <<things, owner, disturbed>>)
      <3>1. /\ "monitor" \in Things /\ UNCHANGED <<env, left, lock>> /\ stage[p] = "monitor"
            /\ stage'[p] = "start" /\ Ensure(p, "monitor")
            /\ \A q \in Pods \ {p} : stage'[q] = stage[q]
        BY <1>9, <2>2 DEF EnsureMonitor, Goto, TypeOK, Things
      <3>2. \A u \in Things \ {"monitor"} : Done(p, u)' => Done(p, u)
        BY <3>1 DEF Done
      <3> QED
        BY <3>1, <3>2, LeaderKeeps
    <2> QED
      BY <2>1, <2>2
  <1> QED
    BY <1>1, <1>2, <1>3, <1>4, <1>5, <1>6, <1>7, <1>8, <1>9 DEF main, addMetrics

LEMMA IInvStep ==
  ASSUME IInv, [Next]_vars
  PROVE  IInv'
  <1> USE DEF IInv
  <1>0. {"exited", "gone", "namespace"} \subseteq Stages \ (Leading \cup {"lock"})
    BY DEF Stages, Leading
  <1>T. TypeOK'
    BY TypeStep
  <1>1. ASSUME NEW p \in Pods, main(p)
        PROVE  LockHeld' /\ Progress' /\ Checked' /\ UntouchedUnlessSupported'
    BY <1>1, MainKeeps
  <1>2. ASSUME NEW p \in Pods,
               Fail(p) \/ RestartContainer(p) \/ StartPod(p) \/ StopPod(p) \/ EvictPod(p)
        PROVE  LockHeld' /\ Progress' /\ Checked' /\ UntouchedUnlessSupported'
    <2>1. PICK where \in {"exited", "gone", "namespace"} : Goto(p, where)
      BY <1>2 DEF Fail, RestartContainer, StartPod, StopPod, EvictPod, Exit, End
    <2>2. UNCHANGED <<env, lock, things, disturbed>>
      BY <1>2 DEF Fail, RestartContainer, StartPod, StopPod, EvictPod, stored
    <2>3. \A q \in Pods \ {p} : left'[q] = left[q]
      BY <1>2 DEF Fail, RestartContainer, StartPod, StopPod, EvictPod, Exit, End, memory, TypeOK
    <2> QED
      BY <1>0, <2>1, <2>2, <2>3, OutsideKeeps
  <1>3. CASE ReleaseLock
    <2>1. \A p \in Pods : stage[p] \notin Leading
      BY <1>3 DEF ReleaseLock, LockHeld, Leading
    <2> QED
      BY <1>3, <1>T, <2>1 DEF ReleaseLock, memory, stored, LockHeld, Progress, Done, Checked,
                             UntouchedUnlessSupported, Supported
  <1>4. ASSUME CollectMonitor \/ \E t \in Things, new \in {Missing, Altered} : ChangeThing(t, new)
        PROVE  LockHeld' /\ Progress' /\ Checked' /\ UntouchedUnlessSupported'
    <2>1. \A u \in Things \ disturbed' : u \notin disturbed /\ things'[u] = things[u]
      BY <1>4 DEF ChangeThing, CollectMonitor, TypeOK
    <2>2. UNCHANGED <<env, stage, left, driver, lock>>
      BY <1>4 DEF ChangeThing, CollectMonitor, memory
    <2>3. LockHeld' /\ Checked'
      BY <2>2 DEF LockHeld, Checked
    <2>4. Progress'
      BY <2>1, <2>2 DEF Progress, Done
    <2>5. UntouchedUnlessSupported'
      BY <2>1, <2>2 DEF UntouchedUnlessSupported, Supported
    <2> QED
      BY <2>3, <2>4, <2>5
  <1>5. CASE UNCHANGED vars
    BY <1>5, <1>T DEF vars, LockHeld, Progress, Done, Checked, UntouchedUnlessSupported,
                      Supported
  <1>6. LockHeld' /\ Progress' /\ Checked' /\ UntouchedUnlessSupported'
    BY <1>1, <1>2, <1>3, <1>4, <1>5 DEF Next
  <1> QED
    BY <1>6, <1>T

(***************************************************************************)
(* The lock is its holder's alone, every stage rests on the ones before    *)
(* it, and nothing is installed before both checks.                        *)
(***************************************************************************)
THEOREM StartupInvariance == Spec => []IInv
  BY IInvInit, IInvStep, PTL DEF Spec

(***************************************************************************)
(* Of any number of pods, started, stopped, evicted and restarted at any   *)
(* time, at most one is past leader.Become.                                *)
(***************************************************************************)
THEOREM OneLeaderTheorem == Spec => []OneLeader
  <1>1. IInv => OneLeader
    BY Alone DEF OneLeader
  <1> QED
    BY <1>1, StartupInvariance, PTL

(***************************************************************************)
(* A manager runs only on the CRDs and metrics objects of its own release, *)
(* whichever pods were cut short before it, up to what others changed.     *)
(***************************************************************************)
THEOREM ClusterFitsTheorem == Spec => []ClusterFits
  <1>1. IInv => ClusterFits
    <2> SUFFICES ASSUME IInv, NEW p \in Pods, stage[p] = "manage", NEW t \in Things \ disturbed
                 PROVE  things[t] = p
      BY DEF ClusterFits
    <2>1. left[p] = {}
      BY DEF IInv, TypeOK
    <2>2. Done(p, t)
      BY <2>1 DEF Done, Things
    <2> QED
      BY <2>2 DEF IInv, Progress
  <1> QED
    BY <1>1, StartupInvariance, PTL

(***************************************************************************)
(* Where namespace or platform do not fit, main installs nothing, whatever *)
(* the number of pods and restarts.                                        *)
(***************************************************************************)
THEOREM UntouchedTheorem == Spec => []UntouchedUnlessSupported
  <1>1. IInv => UntouchedUnlessSupported
    BY DEF IInv
  <1> QED
    BY <1>1, StartupInvariance, PTL
=============================================================================
