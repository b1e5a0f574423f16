-------------------------- MODULE StorageContract --------------------------
(***************************************************************************)
(* What the storage half of the operator promises, whichever driver keeps  *)
(* the promise and however its calls are interleaved, lost or repeated:    *)
(* how the status of the VeleroInstall may change, and what a recorded     *)
(* sync says of the bucket it names.                                       *)
(***************************************************************************)
EXTENDS BucketStatus

VARIABLES
    status,     \* the stored StorageBucket status, or Absent
    ready       \* buckets with every setting, or changed by others since

contractVars == <<status, ready>>

ContractInit ==
    /\ status = Absent
    /\ ready \in SUBSET Buckets

-----------------------------------------------------------------------------
Create ==
    /\ status = Absent
    /\ status' = EmptyStatus
    /\ UNCHANGED ready

Delete ==
    /\ status # Absent
    /\ status' = Absent
    /\ UNCHANGED ready

\* The driver writes the status: only one that has something left to reconcile.
Update(next) ==
    /\ status # Absent
    /\ StorageBucketReconcileRequired(status)
    /\ status' = next
    /\ UNCHANGED ready

\* A name is chosen, once: a new one, or that of the bucket the cluster already has.
Choose(n) ==
    /\ status # Absent
    /\ status.name = NoName
    /\ \E existing \in BOOLEAN :
          Update([status EXCEPT !.name = n, !.provisioned = existing])

\* The named bucket is missing.
Lose ==
    /\ status # Absent
    /\ status.name # NoName
    /\ Update([status EXCEPT !.provisioned = FALSE])

\* The name belongs to somebody else; possible only before the bucket was provisioned.
GiveUp ==
    /\ status # Absent
    /\ status.name # NoName
    /\ ~status.provisioned
    /\ Update([status EXCEPT !.name = NoName])

\* The bucket has been enforced.
Sync ==
    /\ status # Absent
    /\ status.name \in ready
    /\ Update([status EXCEPT !.provisioned = TRUE, !.lastSync = "recent"])

Expire ==
    /\ status # Absent
    /\ status.lastSync = "recent"
    /\ status' = Aged(status)
    /\ UNCHANGED ready

\* Settings are enforced, or a bucket is taken out of the operator's hands.
Prepare ==
    /\ ready' \in SUBSET Buckets
    /\ ready \subseteq ready'
    /\ UNCHANGED status

ContractNext ==
    \/ Create \/ Delete \/ Lose \/ GiveUp \/ Sync \/ Expire \/ Prepare
    \/ \E n \in Buckets : Choose(n)

ContractSpec == ContractInit /\ [][ContractNext]_contractVars

-----------------------------------------------------------------------------
(***************************************************************************)
(* What the contract is worth: a status that asks for no reconcile, the    *)
(* one on which Reconcile goes on to install Velero, names a bucket that   *)
(* has every setting.                                                      *)
(***************************************************************************)
ContractInv ==
    /\ status \in Status \cup {Absent}
    /\ ready \in SUBSET Buckets
    /\ status # Absent /\ status.lastSync = "recent" =>
          status.provisioned /\ status.name \in ready
=============================================================================
