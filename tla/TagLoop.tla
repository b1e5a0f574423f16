------------------------------ MODULE TagLoop ------------------------------
(***************************************************************************)
(* The loop of FindMatchingTags, one bucket of the map at a time and in    *)
(* any order, against the closed form TagSearch gives of its result.       *)
(***************************************************************************)
EXTENDS TagSearch

CONSTANTS
    Buckets,    \* the buckets that have tags
    NoName      \* the empty bucket name

ASSUME LoopNoNameAssumption == NoName \notin Buckets

VARIABLES
    tags,               \* the argument: a tag set per bucket
    todo,               \* buckets the loop has not come to
    tagMatchesCluster,
    tagMatchesVelero,
    possiblematch

loopVars == <<tags, todo, tagMatchesCluster, tagMatchesVelero, possiblematch>>

\* A tag set has at most one tag per key.
TagSets == {set \in SUBSET Tags : \A t, u \in set : t.key = u.key => t = u}

LoopInit ==
    /\ tags \in [Buckets -> TagSets]
    /\ todo = Buckets
    /\ tagMatchesCluster = FALSE
    /\ tagMatchesVelero = FALSE
    /\ possiblematch = NoName

ClusterHit(b) == \E tag \in tags[b] : MatchesCluster(tag, InfraName)
VeleroHit(b) == \E tag \in tags[b] : MatchesVelero(tag)

\* Mutant: one of the two flags is started afresh for every bucket.
Mutant_IterateResetsVelero(b) ==
    /\ b \in todo
    /\ todo' = todo \ {b}
    /\ tagMatchesCluster' = (tagMatchesCluster \/ ClusterHit(b))
    /\ tagMatchesVelero' = VeleroHit(b)
    /\ possiblematch' = IF ClusterHit(b) \/ VeleroHit(b) THEN b ELSE possiblematch
    /\ UNCHANGED tags

\* One iteration of the outer loop.
Iterate(b) ==
    /\ b \in todo
    /\ todo' = todo \ {b}
    /\ tagMatchesCluster' = (tagMatchesCluster \/ ClusterHit(b))
    /\ tagMatchesVelero' = (tagMatchesVelero \/ VeleroHit(b))
    /\ possiblematch' = IF ClusterHit(b) \/ VeleroHit(b) THEN b ELSE possiblematch
    /\ UNCHANGED tags

Next == \E b \in Buckets : Iterate(b)

Spec == LoopInit /\ [][Next]_loopVars

\* What is returned when the loop is over.
Result == IF tagMatchesCluster /\ tagMatchesVelero THEN possiblematch ELSE NoName

-----------------------------------------------------------------------------
(***************************************************************************)
(* The results the loop can still come to from here: the last bucket to    *)
(* set a flag wins, and any bucket left can be the last.                   *)
(***************************************************************************)
Outcomes(left, cluster, velero, match) ==
    LET hits == {b \in left : ClusterHit(b) \/ VeleroHit(b)}
    IN  IF /\ cluster \/ \E b \in left : ClusterHit(b)
           /\ velero \/ \E b \in left : VeleroHit(b)
        THEN IF hits = {} THEN {match} ELSE hits
        ELSE {NoName}

Ahead == Outcomes(todo, tagMatchesCluster, tagMatchesVelero, possiblematch)

(***************************************************************************)
(* FindMatchingTags of TagSearch is what the loop of bucket.go computes:   *)
(* the closed form is the set of outcomes at the start, an iteration only  *)
(* narrows the outcomes, every outcome is kept by some iteration, and the  *)
(* one outcome at the end is the result.  So the closed form has exactly   *)
(* the results of the loop, over all orders of the map.                    *)
(***************************************************************************)
After(b) ==
    Outcomes(todo \ {b}, tagMatchesCluster \/ ClusterHit(b), tagMatchesVelero \/ VeleroHit(b),
             IF ClusterHit(b) \/ VeleroHit(b) THEN b ELSE possiblematch)

LoopComputesClosedForm ==
    /\ todo = Buckets => Ahead = FindMatchingTags(tags, InfraName, NoName)
    /\ todo # {} => Ahead = UNION {After(b) : b \in todo}
    /\ todo = {} => /\ Ahead = {Result}
                    /\ Result \in FindMatchingTags(tags, InfraName, NoName)
=============================================================================
