--------------------------- MODULE TagLoopProofs ---------------------------
(***************************************************************************)
(* Proof that the loop of FindMatchingTags computes its closed form, for   *)
(* any set of buckets and any tags on them.                                *)
(***************************************************************************)
EXTENDS TagLoop, TLAPS

\* The buckets of a set that set one of the two flags.
Hits(set) == {b \in set : ClusterHit(b) \/ VeleroHit(b)}

(***************************************************************************)
(* The inductive invariant: each flag tells whether some bucket the loop   *)
(* has come to sets it, and possiblematch is one of those that set any.    *)
(***************************************************************************)
LoopInv ==
    /\ DOMAIN tags = Buckets
    /\ todo \subseteq Buckets
    /\ tagMatchesCluster \in BOOLEAN
    /\ tagMatchesVelero \in BOOLEAN
    /\ tagMatchesCluster <=> \E b \in Buckets \ todo : ClusterHit(b)
    /\ tagMatchesVelero <=> \E b \in Buckets \ todo : VeleroHit(b)
    /\ possiblematch \in Hits(Buckets \ todo) \/ (possiblematch = NoName /\ Hits(Buckets \ todo) = {})

\* It holds before the first iteration.
LEMMA InitLoopInv == LoopInit => LoopInv
  BY DEF LoopInit, LoopInv, Hits

\* An iteration keeps it.
LEMMA NextLoopInv == LoopInv /\ [Next]_loopVars => LoopInv'
  <1> SUFFICES ASSUME LoopInv, [Next]_loopVars PROVE LoopInv'
    OBVIOUS
  <1>1. ASSUME NEW b \in Buckets, Iterate(b) PROVE LoopInv'
    <2>1. \A c : ClusterHit(c)' = ClusterHit(c) /\ VeleroHit(c)' = VeleroHit(c)
      BY <1>1 DEF Iterate, ClusterHit, VeleroHit
    <2>2. /\ b \in todo /\ todo' = todo \ {b} /\ todo' \subseteq Buckets
          /\ Buckets \ todo' = (Buckets \ todo) \cup {b}
      BY <1>1 DEF Iterate, LoopInv
    <2>3. /\ tagMatchesCluster' = (tagMatchesCluster \/ ClusterHit(b))
          /\ tagMatchesVelero' = (tagMatchesVelero \/ VeleroHit(b))
          /\ possiblematch' = IF ClusterHit(b) \/ VeleroHit(b) THEN b ELSE possiblematch
          /\ tags' = tags
      BY <1>1 DEF Iterate
    <2>4. tagMatchesCluster' <=> \E c \in Buckets \ todo' : ClusterHit(c)
      BY <2>2, <2>3 DEF LoopInv
    <2>5. tagMatchesVelero' <=> \E c \in Buckets \ todo' : VeleroHit(c)
      BY <2>2, <2>3 DEF LoopInv
    <2>6. Hits(Buckets \ todo)' =
            IF ClusterHit(b) \/ VeleroHit(b) THEN Hits(Buckets \ todo) \cup {b} ELSE Hits(Buckets \ todo)
      BY <2>1, <2>2 DEF Hits
    <2>7. \/ possiblematch' \in Hits(Buckets \ todo)'
          \/ possiblematch' = NoName /\ Hits(Buckets \ todo)' = {}
      BY <2>3, <2>6 DEF LoopInv
    <2> QED
      BY <2>1, <2>2, <2>3, <2>4, <2>5, <2>7 DEF LoopInv
  <1>2. CASE UNCHANGED loopVars
    BY <1>2 DEF loopVars, LoopInv, Hits, ClusterHit, VeleroHit
  <1> QED
    BY <1>1, <1>2 DEF Next

-----------------------------------------------------------------------------
\* At the start, the outcomes are those of the closed form.
LEMMA StartOutcomes ==
  ASSUME LoopInv, todo = Buckets
  PROVE  Ahead = FindMatchingTags(tags, InfraName, NoName)
  <1>1. /\ ~tagMatchesCluster /\ ~tagMatchesVelero
    BY DEF LoopInv
  <1>2. {b \in DOMAIN tags : \E tag \in tags[b] : MatchesCluster(tag, InfraName)} = {b \in Buckets : ClusterHit(b)}
    BY DEF LoopInv, ClusterHit
  <1>3. {b \in DOMAIN tags : \E tag \in tags[b] : MatchesVelero(tag)} = {b \in Buckets : VeleroHit(b)}
    BY DEF LoopInv, VeleroHit
  <1>4. Hits(Buckets) = {b \in Buckets : ClusterHit(b)} \cup {b \in Buckets : VeleroHit(b)}
    BY DEF Hits
  <1>5. Ahead = IF {b \in Buckets : ClusterHit(b)} # {} /\ {b \in Buckets : VeleroHit(b)} # {}
                THEN Hits(Buckets) ELSE {NoName}
    BY <1>1 DEF Ahead, Outcomes, Hits
  <1>6. FindMatchingTags(tags, InfraName, NoName) =
          IF {b \in Buckets : ClusterHit(b)} # {} /\ {b \in Buckets : VeleroHit(b)} # {}
          THEN {b \in Buckets : ClusterHit(b)} \cup {b \in Buckets : VeleroHit(b)} ELSE {NoName}
    BY <1>2, <1>3, Zenon DEF FindMatchingTags
  <1> QED
    BY <1>4, <1>5, <1>6

\* Whether both flags are up at the end does not depend on what comes next.
BothFlags == (\E b \in Buckets : ClusterHit(b)) /\ (\E b \in Buckets : VeleroHit(b))

\* The outcomes from any state of the loop.
LEMMA AheadForm ==
  ASSUME LoopInv
  PROVE  Ahead = IF BothFlags THEN IF Hits(todo) = {} THEN {possiblematch} ELSE Hits(todo)
                 ELSE {NoName}
  BY DEF LoopInv, Ahead, Outcomes, BothFlags, Hits

\* The outcomes after an iteration over b.
LEMMA AfterForm ==
  ASSUME LoopInv, NEW b \in todo
  PROVE  After(b) = IF BothFlags
                    THEN IF Hits(todo \ {b}) = {}
                         THEN {IF b \in Hits(todo) THEN b ELSE possiblematch}
                         ELSE Hits(todo \ {b})
                    ELSE {NoName}
  <1>1. /\ ((tagMatchesCluster \/ ClusterHit(b)) \/ \E c \in todo \ {b} : ClusterHit(c))
             <=> \E c \in Buckets : ClusterHit(c)
        /\ ((tagMatchesVelero \/ VeleroHit(b)) \/ \E c \in todo \ {b} : VeleroHit(c))
             <=> \E c \in Buckets : VeleroHit(c)
    BY DEF LoopInv
  <1>2. b \in Hits(todo) <=> ClusterHit(b) \/ VeleroHit(b)
    BY DEF Hits
  <1> QED
    BY <1>1, <1>2 DEF After, Outcomes, BothFlags, Hits

\* Every outcome is kept by some iteration, and an iteration adds none.
LEMMA StepOutcomes ==
  ASSUME LoopInv, todo # {}
  PROVE  Ahead = UNION {After(b) : b \in todo}
  <1>1. CASE ~BothFlags
    <2>1. Ahead = {NoName} /\ \A b \in todo : After(b) = {NoName}
      BY <1>1, AheadForm, AfterForm
    <2> QED
      BY <2>1
  <1>2. CASE BothFlags /\ Hits(todo) = {}
    <2>1. \A b \in todo : Hits(todo \ {b}) = {}
      BY <1>2 DEF Hits
    <2>2. Ahead = {possiblematch} /\ \A b \in todo : After(b) = {possiblematch}
      BY <1>2, <2>1, AheadForm, AfterForm
    <2> QED
      BY <2>2
  <1>3. CASE BothFlags /\ Hits(todo) # {}
    <2>1. Ahead = Hits(todo)
      BY <1>3, AheadForm
    <2>2. ASSUME NEW b \in todo PROVE After(b) \subseteq Hits(todo)
      <3>1. Hits(todo \ {b}) \subseteq Hits(todo)
        BY DEF Hits
      <3>2. Hits(todo \ {b}) = {} => b \in Hits(todo)
        BY <1>3 DEF Hits
      <3> QED
        BY <1>3, <3>1, <3>2, AfterForm
    <2>3. ASSUME NEW h \in Hits(todo) PROVE \E b \in todo : h \in After(b)
      <3>1. CASE \E b \in todo : b # h
        <4>1. PICK b \in todo : b # h
          BY <3>1
        <4>2. h \in Hits(todo \ {b})
          BY <4>1 DEF Hits
        <4> QED
          BY <1>3, <4>2, AfterForm
      <3>2. CASE \A b \in todo : b = h
        <4>1. h \in todo /\ Hits(todo \ {h}) = {}
          BY <3>2 DEF Hits
        <4> QED
          BY <1>3, <4>1, AfterForm
      <3> QED
        BY <3>1, <3>2
    <2> QED
      BY <2>1, <2>2, <2>3
  <1> QED
    BY <1>1, <1>2, <1>3

\* At the end, the one outcome left is what is returned, and the closed form has it.
LEMMA EndOutcome ==
  ASSUME LoopInv, todo = {}
  PROVE  Ahead = {Result} /\ Result \in FindMatchingTags(tags, InfraName, NoName)
  <1>1. BothFlags <=> tagMatchesCluster /\ tagMatchesVelero
    BY DEF LoopInv, BothFlags
  <1>2. Ahead = {Result}
    BY <1>1, AheadForm DEF Result, Hits
  <1>3. BothFlags => Result \in Hits(Buckets)
    <2> SUFFICES ASSUME BothFlags PROVE Result \in Hits(Buckets)
      OBVIOUS
    <2>1. Hits(Buckets) # {}
      BY DEF BothFlags, Hits
    <2> QED
      BY <1>1, <2>1 DEF Result, LoopInv
  <1>4. ~BothFlags => Result = NoName
    BY <1>1 DEF Result
  <1>5. Hits(Buckets) = {b \in Buckets : ClusterHit(b)} \cup {b \in Buckets : VeleroHit(b)}
    BY DEF Hits
  <1>6. FindMatchingTags(tags, InfraName, NoName) = IF BothFlags THEN Hits(Buckets) ELSE {NoName}
    BY <1>5 DEF FindMatchingTags, LoopInv, BothFlags, ClusterHit, VeleroHit
  <1> QED
    BY <1>2, <1>3, <1>4, <1>6

(***************************************************************************)
(* The closed form by which the S3 driver's model searches, in TagSearch,  *)
(* has exactly the results of the loop of FindMatchingTags in bucket.go,   *)
(* in whatever order Go iterates over the map, for any number of buckets.  *)
(***************************************************************************)
THEOREM LoopTheorem == Spec => []LoopComputesClosedForm
  <1>1. LoopInv => LoopComputesClosedForm
    BY StartOutcomes, StepOutcomes, EndOutcome DEF LoopComputesClosedForm
  <1> QED
    BY <1>1, InitLoopInv, NextLoopInv, PTL DEF Spec
=============================================================================
