------------------------ MODULE ProvisionProperties ------------------------
(***************************************************************************)
(* What is claimed of provisionVelero and the objects it keeps.            *)
(***************************************************************************)
EXTENDS Provision

\* The kinds that name the bucket.
BucketKinds == {k \in Kinds : k = "bsl" \/ (k = "creds" /\ Platform = "AWS")}

(***************************************************************************)
(* The gate of Reconcile, carried to the objects: no BackupStorageLocation *)
(* and no credentials are ever written for a bucket that was not given     *)
(* every setting, however old the instance was they were made from.        *)
(***************************************************************************)
VeleroOnReadyBucket ==
    \A k \in BucketKinds :
        objs[k] # Absent => objs[k].spec \in ready \cup {"drift", "garbled"}

\* A step that gives an object a bucket gives it the one of the status, if that has a
\* name or the instance is of the VeleroInstall that exists.
NamesStatusBucket ==
    \A k \in BucketKinds :
        (/\ objs'[k] # objs[k]
         /\ objs'[k] # Absent
         /\ objs'[k].spec \in Buckets
         /\ status # Absent
         /\ status.name # NoName \/ inst.uid = uid) => objs'[k].spec = status.name

(***************************************************************************)
(* provisionVelero has no check of its own: it writes whatever bucket its  *)
(* cached instance names.  All the same Velero is never pointed at another *)
(* bucket than the status names at that moment (one that was given up, or  *)
(* that of a VeleroInstall deleted since), once there is a name or the     *)
(* instance is of the VeleroInstall that exists.                           *)
(***************************************************************************)
StaysOnBucket == [][NamesStatusBucket]_vars

-----------------------------------------------------------------------------
\* Nothing is queued, running or on its way to the queue.
Quiet == pc = "idle" /\ ~queued /\ ~lagging /\ notify = {}

\* The stored object is what provisionVelero wants for the stored VeleroInstall.
Installed(k) ==
    /\ status # Absent
    /\ objs[k] # Absent
    /\ objs[k].spec = IF k \in BucketKinds THEN status.name ELSE "ours"

(***************************************************************************)
(* A Reconcile that was turned away by a stale cache, that stopped at the  *)
(* Service, or that was cut short leaves a request behind: where the       *)
(* operator comes to rest on a synced VeleroInstall, every object is as    *)
(* specified, but for those that others changed without an event or that   *)
(* have no owner, others having made them: their events are never heard.   *)
(***************************************************************************)
AtRestInstalled ==
    Quiet /\ status # Absent /\ ~StorageBucketReconcileRequired(status) =>
        \A k \in Kinds \ unnoticed :
            Installed(k) \/ (objs[k] # Absent /\ objs[k].owner = NoUid)

(***************************************************************************)
(* While the sync of a VeleroInstall lasts, all six objects come to be as  *)
(* specified and stay so, with owners that exist (the ServiceMonitor's is  *)
(* the very Service that is there), whatever was deleted, changed or left  *)
(* by a former VeleroInstall; unless the CredentialsRequest holds          *)
(* something that provisionVelero cannot read.                             *)
(***************************************************************************)
Settles ==
    (<>[](/\ status # Absent
          /\ ~StorageBucketReconcileRequired(status)
          /\ \A k \in Kinds : objs[k] # Absent => objs[k].spec # "garbled"))
        => <>[](\A k \in Kinds : Installed(k) /\ ~Orphaned(k))

(***************************************************************************)
(* Reconcile: "Owned objects are automatically garbage collected."  When   *)
(* the VeleroInstall is gone for good, nothing that the operator made      *)
(* stays, except a ServiceMonitor whose Service somebody else made.        *)
(***************************************************************************)
Collected ==
    <>[](status = Absent) =>
        <>[](\A k \in Kinds : \/ objs[k] = Absent
                              \/ objs[k].by = "others"
                              \/ /\ k = "monitor"
                                 /\ objs["service"] # Absent
                                 /\ objs["service"].by = "others")

(***************************************************************************)
(* README: the operator will "periodically run the Reconcile loop to       *)
(* change the settings back to what it expects", whatever they were        *)
(* changed to.                                                             *)
(***************************************************************************)
ChangesPutBack ==
    (<>[](status # Absent /\ ~StorageBucketReconcileRequired(status)))
        => <>[](\A k \in Kinds : Installed(k))
=============================================================================
