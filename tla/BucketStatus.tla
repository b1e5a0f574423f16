---------------------------- MODULE BucketStatus ----------------------------
(***************************************************************************)
(* The StorageBucket block of a VeleroInstall's status: the only state the *)
(* operator persists about its bucket.                                     *)
(***************************************************************************)
CONSTANTS
    Buckets,    \* the bucket names that can occur
    NoName,     \* the empty bucket name
    Absent      \* what stands in the place of a VeleroInstall that is not there

ASSUME NoNameAssumption == NoName \notin Buckets

(***************************************************************************)
(* LastSyncTimestamp, seen through the only test the code makes of it: it  *)
(* is unset, within the reconcile period, or older than the period.        *)
(***************************************************************************)
SyncAges == {"unset", "recent", "expired"}

Status == [name : Buckets \cup {NoName}, provisioned : BOOLEAN, lastSync : SyncAges]

ASSUME AbsentAssumption == Absent \notin Status

\* A VeleroInstall as it is created: the status is the zero value.
EmptyStatus == [name |-> NoName, provisioned |-> FALSE, lastSync |-> "unset"]

\* Mutant: the timestamp test is dropped, an old sync never asks for another.
Mutant_RequiredOnce(s) == s.name = NoName \/ ~s.provisioned \/ s.lastSync = "unset"

\* Mutant: a missing timestamp is taken for a recent one.
Mutant_RequiredIgnoresUnset(s) == s.name = NoName \/ ~s.provisioned \/ s.lastSync = "expired"

StorageBucketReconcileRequired(s) ==
    \/ s.name = NoName
    \/ ~s.provisioned
    \/ s.lastSync = "unset"
    \/ s.lastSync = "expired"

\* A copy of the resource after the reconcile period has run out.
Aged(s) ==
    IF s # Absent /\ s.lastSync = "recent" THEN [s EXCEPT !.lastSync = "expired"] ELSE s
=============================================================================
