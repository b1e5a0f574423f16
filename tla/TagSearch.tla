----------------------------- MODULE TagSearch -----------------------------
(***************************************************************************)
(* How the drivers recognise the bucket of their cluster among all the     *)
(* buckets of the account: FindMatchingTags of the S3 driver and           *)
(* findVeleroBucket of the GCS driver, as what they can return.            *)
(*                                                                         *)
(* A tag set holds at most one tag per key.  tags[b] is the tag set read   *)
(* from bucket b, {} when b was skipped or has none.                       *)
(***************************************************************************)
CONSTANTS
    InfraName,      \* the infrastructure name of this cluster
    OtherInfra      \* the infrastructure name of another cluster of the account

ASSUME InfraAssumption == InfraName # OtherInfra

bucketTagBackupLocation == "velero.io/backup-location"
bucketTagInfraName == "velero.io/infrastructureName"
DefaultVeleroBackupStorageLocation == "default"

\* The two tags the operator of a cluster writes on its bucket.
VeleroTags(infra) ==
    {[key |-> bucketTagBackupLocation, value |-> DefaultVeleroBackupStorageLocation],
     [key |-> bucketTagInfraName, value |-> infra]}

Tags == [key : {bucketTagBackupLocation}, value : {DefaultVeleroBackupStorageLocation}]
        \cup [key : {bucketTagInfraName}, value : {InfraName, OtherInfra}]

\* The two tests FindMatchingTags makes of a tag.
MatchesCluster(tag, infra) == tag.key = bucketTagInfraName /\ tag.value = infra
MatchesVelero(tag) == tag.key = bucketTagBackupLocation

(***************************************************************************)
(* The names FindMatchingTags can return.  Its two flags are set by any    *)
(* bucket and never reset between buckets, and possiblematch is the last   *)
(* bucket of the iteration that set one; Go iterates a map in any order,   *)
(* so any such bucket can be the last.  "none" is the empty name.          *)
(***************************************************************************)
FindMatchingTags(tags, infra, none) ==
    LET clusterHits == {b \in DOMAIN tags : \E tag \in tags[b] : MatchesCluster(tag, infra)}
        veleroHits == {b \in DOMAIN tags : \E tag \in tags[b] : MatchesVelero(tag)}
    IN  IF clusterHits # {} /\ veleroHits # {} THEN clusterHits \cup veleroHits ELSE {none}

-----------------------------------------------------------------------------
\* sanitizeBucketLabel on the strings it is given: other characters than lower
\* case letters, digits, "-" and "_" become "-".  An infrastructure name has none.
sanitizeBucketLabel(string) ==
    CASE string = bucketTagBackupLocation -> "velero-io-backup-location"
      [] string = bucketTagInfraName -> "velero-io-infrastructurename"
      [] OTHER -> string

\* sanitizeBucketLabel leaves infrastructure names as they are, so two clusters'
\* labels differ: a name is a cluster name and random letters, joined with "-".
ASSUME InfraSanitizedAssumption ==
    \A infra \in {InfraName, OtherInfra} : sanitizeBucketLabel(infra) = infra

buildLabelMap(infra) ==
    {[key |-> sanitizeBucketLabel(tag.key), value |-> sanitizeBucketLabel(tag.value)] :
        tag \in VeleroTags(infra)}

\* Mutant: the label of the infrastructure name is looked up by its unsanitized key.
Mutant_findVeleroBucketRawKey(labels, infra, none) ==
    LET matches == {b \in DOMAIN labels : VeleroTags(infra) \subseteq labels[b]}
    IN  IF matches # {} THEN matches ELSE {none}

\* Mutant: any Velero bucket will do, whichever cluster's it is.
Mutant_findVeleroBucketAnyCluster(labels, infra, none) ==
    LET key == sanitizeBucketLabel(bucketTagBackupLocation)
        matches == {b \in DOMAIN labels : \E label \in labels[b] : label.key = key}
    IN  IF matches # {} THEN matches ELSE {none}

\* The names findVeleroBucket can return: the first bucket of the list, whatever
\* its order, that carries both labels.
findVeleroBucket(labels, infra, none) ==
    LET matches == {b \in DOMAIN labels : buildLabelMap(infra) \subseteq labels[b]}
    IN  IF matches # {} THEN matches ELSE {none}
=============================================================================
