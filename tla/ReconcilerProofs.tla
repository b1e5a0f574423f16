-------------------------- MODULE ReconcilerProofs --------------------------
(***************************************************************************)
(* Facts about the steps of the reconcile loop that hold with any driver.  *)
(***************************************************************************)
EXTENDS Reconciler, FiniteSets, FiniteSetTheorems, SequenceTheorems, TLAPS

Versions == Status \cup {Absent}

\* A period's end leaves a copy of the resource a copy of the resource.
LEMMA AgedType == \A copy \in Versions : Aged(copy) \in Versions
  BY DEF Versions, Aged, Status, SyncAges

\* It keeps Status apart from Absent, and a sync that was not recent as it was.
LEMMA AgedStatus == \A s \in Status : Aged(s) \in Status
  BY AbsentAssumption DEF Aged, Status, SyncAges

\* What PeriodEnds makes of the undelivered versions.
LEMMA AgedWatch ==
  ASSUME NEW w \in Seq(Versions)
  PROVE  /\ [i \in DOMAIN w |-> Aged(w[i])] \in Seq(Versions)
         /\ Len([i \in DOMAIN w |-> Aged(w[i])]) = Len(w)
  <1>1. Len(w) \in Nat /\ DOMAIN w = 1..Len(w) /\ \A i \in 1..Len(w) : w[i] \in Versions
    BY LenProperties, ElementOfSeq
  <1>2. \A i \in 1..Len(w) : Aged(w[i]) \in Versions
    BY <1>1, AgedType
  <1> QED
    BY <1>1, <1>2

\* The empty status is a status, which is how a Reconcile leaves its instance.
LEMMA EmptyStatusType == EmptyStatus \in Status
  BY DEF EmptyStatus, Status, SyncAges

\* The budget of disturbances stays within its bound.
LEMMA FaultType ==
  ASSUME faults \in 0..MaxFaults, Fault
  PROVE  faults' \in 0..MaxFaults
  BY MaxFaultsAssumption DEF Fault

\* A status update leaves the types of the loop's state, if what is written is a
\* status and the worker goes on to one of its places.
LEMMA StatusUpdateType ==
  ASSUME NEW pcs, LoopPCs \subseteq pcs, LoopTypeOK(pcs),
         NEW status \in Status, NEW next \in pcs,
         StatusUpdate(status, next), UNCHANGED <<cache, driver, faults>>
  PROVE  LoopTypeOK(pcs)'
  <1>1. Append(watch, status) \in Seq(Versions)
    BY AppendProperties DEF LoopTypeOK, Versions
  <1> QED
    BY <1>1, EmptyStatusType
    DEF LoopTypeOK, StatusUpdate, Publish, Return, apiVars, LoopPCs, Versions

\* Every step of the loop and its surroundings leaves the types of its state.
LEMMA LoopStepType ==
  ASSUME NEW pcs, LoopPCs \subseteq pcs, LoopTypeOK(pcs), LoopStep
  PROVE  LoopTypeOK(pcs)'
  BY EmptyStatusType DEF LoopTypeOK, LoopPCs, LoopStep, Fetch, ChooseWork, ProvisionVelero, Goto, Return

\* A failed call and a crash leave the types of the loop's state.
LEMMA LoopFailureType ==
  ASSUME NEW pcs, LoopPCs \subseteq pcs, LoopTypeOK(pcs), LoopFailure
  PROVE  LoopTypeOK(pcs)'
  <1>1. CASE CallFails
    BY <1>1, EmptyStatusType, FaultType DEF LoopTypeOK, LoopPCs, CallFails, Return
  <1>2. CASE Crash
    BY <1>2, EmptyStatusType, FaultType, EmptySeq DEF LoopTypeOK, LoopPCs, Crash
  <1> QED
    BY <1>1, <1>2 DEF LoopFailure

\* So do the informer, the administrator, the restart and the clock.
LEMMA LoopEnvironmentType ==
  ASSUME NEW pcs, LoopPCs \subseteq pcs, LoopTypeOK(pcs), LoopEnvironment
  PROVE  LoopTypeOK(pcs)'
  <1> USE DEF LoopTypeOK, LoopPCs
  <1>1. CASE Restart
    BY <1>1 DEF Restart
  <1>2. CASE Deliver
    BY <1>2, HeadTailProperties DEF Deliver
  <1>3. CASE Resync
    BY <1>3 DEF Resync
  <1>4. CASE CreateCR
    BY <1>4, EmptyStatusType, AppendProperties DEF CreateCR, Publish
  <1>5. CASE DeleteCR
    BY <1>5, AppendProperties, FaultType DEF DeleteCR, Publish
  <1>6. CASE TouchCR
    BY <1>6, AppendProperties, FaultType DEF TouchCR, Publish
  <1>7. CASE PeriodEnds
    BY <1>7, AgedType, AgedStatus, AgedWatch DEF PeriodEnds, Versions
  <1> QED
    BY <1>1, <1>2, <1>3, <1>4, <1>5, <1>6, <1>7 DEF LoopEnvironment

-----------------------------------------------------------------------------
(***************************************************************************)
(* The informer is behind the API server by what is in watch and no more,  *)
(* and a Reconcile whose instance is fresh works on what is stored, except *)
(* between the choice of a name and the update that saves it.              *)
(***************************************************************************)
Following ==
    /\ watch = <<>> /\ pc # "down" => cache = cr
    /\ watch # <<>> => watch[Len(watch)] = cr
    /\ pc = "down" => watch = <<>>
    /\ fresh => cr # Absent /\ pc \notin {"idle", "down"}
    /\ fresh /\ pc # "saveName" => inst = cr
    /\ fresh /\ pc = "saveName" =>
          /\ cr.name = NoName
          /\ inst = [cr EXCEPT !.name = inst.name, !.provisioned = FALSE]

\* All the copies of the resource there are.
Copies == {cr, cache, inst} \cup {watch[i] : i \in DOMAIN watch}

\* What a write does to the undelivered versions: the last one is what is stored.
LEMMA AppendLast ==
  ASSUME NEW w \in Seq(Versions), NEW v \in Versions
  PROVE  /\ Append(w, v) \in Seq(Versions)
         /\ Append(w, v) # <<>>
         /\ Append(w, v)[Len(Append(w, v))] = v
         /\ {Append(w, v)[i] : i \in DOMAIN Append(w, v)} \subseteq
               {w[i] : i \in DOMAIN w} \cup {v}
  <1>1. Len(w) \in Nat /\ DOMAIN w = 1..Len(w)
    BY LenProperties
  <1>2. /\ Append(w, v) \in Seq(Versions)
        /\ Append(w, v) # <<>>
        /\ Len(Append(w, v)) = Len(w) + 1
        /\ DOMAIN Append(w, v) = 1..(Len(w) + 1)
        /\ Append(w, v)[Len(w) + 1] = v
        /\ \A i \in 1..Len(w) : Append(w, v)[i] = w[i]
    BY <1>1, AppendProperties, LenProperties
  <1>3. \A i \in 1..(Len(w) + 1) : i \in 1..Len(w) \/ i = Len(w) + 1
    BY <1>1
  <1> QED
    BY <1>1, <1>2, <1>3

\* What a delivery does to them.
LEMMA TailLast ==
  ASSUME NEW w \in Seq(Versions), w # <<>>
  PROVE  /\ Head(w) \in {w[i] : i \in DOMAIN w}
         /\ Tail(w) = <<>> => Head(w) = w[Len(w)]
         /\ Tail(w) # <<>> => Tail(w)[Len(Tail(w))] = w[Len(w)]
         /\ {Tail(w)[i] : i \in DOMAIN Tail(w)} \subseteq {w[i] : i \in DOMAIN w}
  <1>1. Len(w) \in Nat \ {0} /\ DOMAIN w = 1..Len(w)
    BY LenProperties, EmptySeq
  <1>2. /\ Tail(w) \in Seq(Versions)
        /\ Len(Tail(w)) = Len(w) - 1
        /\ DOMAIN Tail(w) = 1..(Len(w) - 1)
        /\ \A i \in 1..(Len(w) - 1) : Tail(w)[i] = w[i + 1]
    BY <1>1, HeadTailProperties, LenProperties
  <1>3. Head(w) = w[1]
    BY <1>1
  <1>4. Tail(w) = <<>> => Len(w) = 1
    <2> SUFFICES ASSUME Tail(w) = <<>> PROVE Len(w) = 1
      OBVIOUS
    <2>1. Len(Tail(w)) = 0
      BY EmptySeq, Zenon
    <2> QED
      BY <1>1, <1>2, <2>1
  <1>5. Tail(w) # <<>> => Len(Tail(w)) \in 1..(Len(w) - 1)
    BY <1>1, <1>2, EmptySeq
  <1>6. \A i \in 1..(Len(w) - 1) : i + 1 \in 1..Len(w)
    BY <1>1
  <1>7. {Tail(w)[i] : i \in DOMAIN Tail(w)} \subseteq {w[i] : i \in DOMAIN w}
    BY <1>1, <1>2, <1>6
  <1> QED
    BY <1>1, <1>2, <1>3, <1>4, <1>5, <1>7

-----------------------------------------------------------------------------
\* An update of the status is either refused, or it is made on what is stored.
LEMMA StatusUpdateFollows ==
  ASSUME NEW pcs, LoopTypeOK(pcs), Following,
         NEW status \in Status, NEW next, next \notin {"down", "saveName"},
         pc \notin {"idle", "down"},
         StatusUpdate(status, next), UNCHANGED cache
  PROVE  /\ Following'
         /\ Copies' \subseteq Copies \cup {status, EmptyStatus}
         /\ cr' = cr \/ (fresh /\ cr' = status)
  <1>0. watch \in Seq(Versions) /\ status \in Versions /\ status # Absent
    BY AbsentAssumption DEF LoopTypeOK, Versions
  <1>1. CASE fresh /\ status = cr
    BY <1>0, <1>1 DEF StatusUpdate, Following, Copies, apiVars, Return
  <1>2. CASE fresh /\ status # cr
    <2>1. cr' = status /\ watch' = Append(watch, status)
      BY <1>2 DEF StatusUpdate, Publish
    <2>2. pc' # "down" /\ pc' # "saveName"
      BY <1>2 DEF StatusUpdate, Return
    <2>3. watch' # <<>> /\ watch'[Len(watch')] = cr'
      BY <1>0, <2>1, AppendLast
    <2>4. fresh' => pc' \notin {"idle", "down"} /\ inst' = cr'
      BY <1>2, <2>1 DEF StatusUpdate, Return
    <2>5. inst' \in {status, EmptyStatus}
      BY <1>2 DEF StatusUpdate, Return
    <2>6. {watch'[i] : i \in DOMAIN watch'} \subseteq {watch[i] : i \in DOMAIN watch} \cup {status}
      BY <1>0, <2>1, AppendLast
    <2>7. Following'
      BY <1>0, <2>1, <2>2, <2>3, <2>4 DEF Following
    <2> QED
      BY <1>2, <2>1, <2>5, <2>6, <2>7 DEF Copies
  <1>3. CASE ~fresh
    BY <1>3 DEF StatusUpdate, Following, Copies, apiVars, Return
  <1> QED
    BY <1>1, <1>2, <1>3

\* A call that writes no status leaves the copies as they are.
LEMMA CallFollows ==
  ASSUME Following, pc \notin {"idle", "down", "saveName"}, UNCHANGED <<cr, watch, cache>>,
         NEW next, next \notin {"idle", "down", "saveName"},
         Goto(next) \/ \E requeue \in BOOLEAN : Return(requeue)
  PROVE  Following' /\ Copies' \subseteq Copies \cup {EmptyStatus}
  BY DEF Following, Copies, Goto, Return

\* The worker's own steps make no new copy of the resource but an empty one.
LEMMA LoopStepFollows ==
  ASSUME Following, LoopStep
  PROVE  /\ Following'
         /\ Copies' \subseteq Copies \cup {EmptyStatus}
         /\ cr' = cr
  <1>1. CASE Fetch
    <2>1. CASE cache = Absent
      BY <1>1, <2>1 DEF Fetch, Following, Copies
    <2>2. CASE cache # Absent
      <3>1. pc' = "infra" /\ inst' = cache /\ UNCHANGED <<cr, watch, cache>>
        BY <1>1, <2>2 DEF Fetch
      <3>2. fresh' => watch = <<>>
        BY <1>1, <2>2, Zenon DEF Fetch
      <3>3. watch = <<>> => cache = cr
        BY <1>1 DEF Fetch, Following
      <3> QED
        BY <2>2, <3>1, <3>2, <3>3 DEF Following, Copies
    <2> QED
      BY <2>1, <2>2
  <1>2. CASE ChooseWork
    BY <1>2 DEF ChooseWork, Goto, Following, Copies
  <1>3. CASE ProvisionVelero
    BY <1>3 DEF ProvisionVelero, Return, Following, Copies
  <1> QED
    BY <1>1, <1>2, <1>3 DEF LoopStep

\* A failed call or a crash drops copies; the informer is behind by as much as before.
LEMMA LoopFailureFollows ==
  ASSUME Following, LoopFailure
  PROVE  /\ Following'
         /\ Copies' \subseteq Copies \cup {EmptyStatus, Absent}
         /\ cr' = cr
  <1>1. CASE CallFails
    BY <1>1 DEF CallFails, Return, Following, Copies
  <1>2. CASE Crash
    <2>1. {watch'[i] : i \in DOMAIN watch'} = {}
      BY <1>2 DEF Crash
    <2> QED
      BY <1>2, <2>1 DEF Crash, Following, Copies
  <1> QED
    BY <1>1, <1>2 DEF LoopFailure

\* A write by somebody else makes the running Reconcile stale, and the informer late.
LEMMA PublishFollows ==
  ASSUME NEW pcs, LoopTypeOK(pcs), Following, NEW version \in Versions, Publish(version),
         UNCHANGED <<cache, pc, inst>>, fresh' = FALSE
  PROVE  Following' /\ Copies' \subseteq Copies \cup {version}
  <1>0. watch \in Seq(Versions)
    BY DEF LoopTypeOK, Versions
  <1>1. CASE pc = "down"
    BY <1>1 DEF Publish, Following, Copies
  <1>2. CASE pc # "down"
    <2>1. cr' = version /\ watch' = Append(watch, version)
      BY <1>2 DEF Publish
    <2> QED
      BY <1>0, <1>2, <2>1, AppendLast DEF Following, Copies
  <1> QED
    BY <1>1, <1>2

\* The end of a period ages all copies alike, so they keep their agreement.
LEMMA PeriodEndsFollows ==
  ASSUME NEW pcs, LoopTypeOK(pcs), Following, PeriodEnds
  PROVE  /\ Following'
         /\ \A copy \in Copies' : \E old \in Copies : copy = Aged(old)
         /\ cr' = Aged(cr)
  <1>0. /\ watch \in Seq(Versions) /\ watch' \in Seq(Versions)
        /\ Len(watch') = Len(watch) /\ DOMAIN watch' = DOMAIN watch
        /\ \A i \in DOMAIN watch : watch'[i] = Aged(watch[i])
    BY AgedWatch, LenProperties DEF LoopTypeOK, Versions, PeriodEnds
  <1>1. /\ watch = <<>> <=> watch' = <<>>
        /\ watch # <<>> => Len(watch) \in DOMAIN watch
    BY <1>0, EmptySeq, LenProperties
  <1>2. watch' # <<>> => watch'[Len(watch')] = cr'
    BY <1>0, <1>1 DEF PeriodEnds, Following
  <1>3. fresh /\ pc = "saveName" => Aged(cr).name = NoName /\
          Aged(inst) = [Aged(cr) EXCEPT !.name = Aged(inst).name, !.provisioned = FALSE]
    <2>1. inst \in Status /\ (fresh => cr \in Status) /\ \A s \in Status : s # Absent
      BY AbsentAssumption DEF LoopTypeOK, Following
    <2> QED
      BY <2>1 DEF Following, Aged, Status
  <1>4. cr # Absent => Aged(cr) # Absent
    BY AgedStatus, AbsentAssumption DEF LoopTypeOK
  <1>5. Following'
    BY <1>1, <1>2, <1>3, <1>4 DEF PeriodEnds, Following
  <1>6. \A copy \in Copies' : \E old \in Copies : copy = Aged(old)
    BY <1>0 DEF PeriodEnds, Copies
  <1> QED
    BY <1>5, <1>6 DEF PeriodEnds

\* The surroundings, but for the end of a period, only add versions they create.
LEMMA LoopEnvironmentFollows ==
  ASSUME NEW pcs, LoopTypeOK(pcs), Following, LoopEnvironment, ~PeriodEnds
  PROVE  /\ Following'
         /\ Copies' \subseteq Copies \cup {EmptyStatus, Absent}
         /\ cr' = cr \/ cr' = Absent \/ (cr = Absent /\ cr' = EmptyStatus)
  <1>1. CASE Restart
    BY <1>1 DEF Restart, Following, Copies
  <1>2. CASE Deliver
    <2>1. watch \in Seq(Versions)
      BY DEF LoopTypeOK, Versions
    <2> QED
      BY <1>2, <2>1, TailLast DEF Deliver, Following, Copies
  <1>3. CASE Resync
    BY <1>3 DEF Resync, Following, Copies
  <1>4. CASE CreateCR
    <2>1. EmptyStatus \in Versions /\ ~fresh /\ ~fresh'
      BY <1>4, EmptyStatusType DEF Versions, CreateCR, Following, LoopTypeOK
    <2> QED
      BY <1>4, <2>1, PublishFollows DEF CreateCR, Publish, LoopTypeOK
  <1>5. CASE DeleteCR
    <2>1. Absent \in Versions
      BY DEF Versions
    <2> QED
      BY <1>5, <2>1, PublishFollows DEF DeleteCR, Publish
  <1>6. CASE TouchCR
    <2>1. cr \in Versions /\ cr \in Copies
      BY DEF Versions, LoopTypeOK, Copies
    <2> QED
      BY <1>6, <2>1, PublishFollows DEF TouchCR, Publish
  <1> QED
    BY <1>1, <1>2, <1>3, <1>4, <1>5, <1>6 DEF LoopEnvironment

-----------------------------------------------------------------------------
(***************************************************************************)
(* The names of buckets in circulation: those in a copy of the resource,   *)
(* and that of the instance in hand, unless the name was only proposed and *)
(* is still to be saved.                                                   *)
(***************************************************************************)
Held ==
    {cr, cache} \cup {watch[i] : i \in DOMAIN watch}
                \cup (IF pc = "saveName" THEN {} ELSE {inst})

NamesOf(copies) == {copy.name : copy \in copies \ {Absent}} \ {NoName}

Given == NamesOf(Held)

\* A Reconcile that comes to choose a name, and works on what is stored, has read
\* it from an informer that had nothing more to learn.
ChoosingPCs == {"infra", "storage", "list", "locate", "tags", "propose", "saveName"}

Alone == fresh /\ pc \in ChoosingPCs => watch = <<>>

\* A set with one element at most.
Single(set) == \A a, b \in set : a = b

\* A set with one element at most has that cardinality.
LEMMA SingleCardinality ==
  ASSUME NEW set, Single(set)
  PROVE  Cardinality(set) <= 1
  <1>1. CASE set = {}
    BY <1>1, FS_EmptySet
  <1>2. CASE set # {}
    <2>1. PICK x : set = {x}
      BY <1>2 DEF Single
    <2> QED
      BY <2>1, FS_Singleton
  <1> QED
    BY <1>1, <1>2

\* A choice made on what is stored is made when there is no name anywhere.
LEMMA ChoiceIsFirst ==
  ASSUME NEW pcs, LoopTypeOK(pcs), Following, Alone, fresh, pc \in ChoosingPCs, cr.name = NoName
  PROVE  Given = {}
  <1>1. {watch[i] : i \in DOMAIN watch} = {} /\ cache = cr
    BY DEF Alone, Following, ChoosingPCs
  <1>2. pc # "saveName" => inst = cr
    BY DEF Following
  <1> QED
    BY <1>1, <1>2 DEF Given, Held, NamesOf

\* Neither an empty status nor the lack of a resource gives a name.
LEMMA GivenShrinks ==
  ASSUME Held' \subseteq Held \cup {EmptyStatus, Absent}
  PROVE  Given' \subseteq Given
  BY DEF Given, NamesOf, EmptyStatus

\* An update of the status puts into circulation the name it writes, if it is accepted.
LEMMA StatusUpdateGives ==
  ASSUME NEW pcs, LoopTypeOK(pcs), Following, Alone,
         NEW status \in Status, NEW next, next \notin ChoosingPCs, pc # "down",
         StatusUpdate(status, next), UNCHANGED cache
  PROVE  /\ Alone'
         /\ Given' \subseteq Given \cup (IF fresh THEN {status.name} \ {NoName} ELSE {})
  <1>0. watch \in Seq(Versions) /\ status \in Versions
    BY DEF LoopTypeOK, Versions
  <1>1. pc' = "idle" \/ pc' = next
    BY DEF StatusUpdate, Return
  <1>2. Alone'
    BY <1>1 DEF Alone, ChoosingPCs
  <1>3. CASE fresh
    <2>1. {watch'[i] : i \in DOMAIN watch'} \subseteq {watch[i] : i \in DOMAIN watch} \cup {status}
      BY <1>0, <1>3, AppendLast DEF StatusUpdate, Publish, apiVars
    <2>2. cr' = status /\ inst' \in {status, EmptyStatus}
      BY <1>3 DEF StatusUpdate, Return, Publish, apiVars
    <2>3. Held' \subseteq Held \cup {status, EmptyStatus}
      BY <2>1, <2>2 DEF Held
    <2>4. Given' \subseteq Given \cup ({status.name} \ {NoName})
      BY <2>3 DEF Given, NamesOf, EmptyStatus
    <2> QED
      BY <1>2, <1>3, <2>4
  <1>4. CASE ~fresh
    <2>1. Held' \subseteq Held \cup {EmptyStatus, Absent}
      BY <1>4 DEF StatusUpdate, Return, apiVars, Held
    <2> QED
      BY <1>2, <1>4, <2>1, GivenShrinks
  <1> QED
    BY <1>3, <1>4

\* A call that writes no status gives no name.
LEMMA CallGives ==
  ASSUME Alone, pc # "saveName", UNCHANGED <<cr, watch, cache>>,
         NEW next, next # "saveName", next \in ChoosingPCs => pc \in ChoosingPCs,
         Goto(next) \/ \E requeue \in BOOLEAN : Return(requeue)
  PROVE  Alone' /\ Given' \subseteq Given
  <1>1. Held' \subseteq Held \cup {EmptyStatus, Absent}
    BY DEF Goto, Return, Held
  <1>2. Alone'
    BY DEF Goto, Return, Alone, ChoosingPCs
  <1> QED
    BY <1>1, <1>2, GivenShrinks

\* Neither do the loop's own steps.
LEMMA LoopStepGives ==
  ASSUME Alone, LoopStep
  PROVE  Alone' /\ Given' \subseteq Given
  <1>1. Held' \subseteq Held \cup {EmptyStatus, Absent}
    BY DEF LoopStep, Fetch, ChooseWork, ProvisionVelero, Goto, Return, Held
  <1>2. CASE Fetch
    <2>1. fresh' => watch' = <<>> \/ (fresh /\ pc' = pc)
      BY <1>2, Zenon DEF Fetch
    <2> QED
      BY <1>1, <1>2, <2>1, GivenShrinks DEF Fetch, Alone
  <1>3. CASE ChooseWork \/ ProvisionVelero
    <2>1. Alone'
      BY <1>3 DEF ChooseWork, ProvisionVelero, Goto, Return, Alone, ChoosingPCs
    <2> QED
      BY <1>1, <2>1, GivenShrinks
  <1> QED
    BY <1>2, <1>3 DEF LoopStep

\* Neither does a failure.
LEMMA LoopFailureGives ==
  ASSUME LoopFailure
  PROVE  Alone' /\ Given' \subseteq Given
  <1>1. CASE CallFails
    <2>1. Held' \subseteq Held \cup {EmptyStatus, Absent}
      BY <1>1 DEF CallFails, Return, Held
    <2> QED
      BY <1>1, <2>1, GivenShrinks DEF CallFails, Return, Alone
  <1>2. CASE Crash
    <2>1. {watch'[i] : i \in DOMAIN watch'} = {}
      BY <1>2 DEF Crash
    <2>2. Held' \subseteq Held \cup {EmptyStatus, Absent}
      BY <1>2, <2>1 DEF Crash, Held
    <2> QED
      BY <1>2, <2>2, GivenShrinks DEF Crash, Alone
  <1> QED
    BY <1>1, <1>2 DEF LoopFailure

\* The end of a period changes no name.
LEMMA PeriodEndsGives ==
  ASSUME NEW pcs, LoopTypeOK(pcs), Alone, PeriodEnds
  PROVE  Alone' /\ Given' \subseteq Given
  <1>0. /\ watch \in Seq(Versions) /\ watch' \in Seq(Versions)
        /\ Len(watch') = Len(watch) /\ DOMAIN watch' = DOMAIN watch
        /\ \A i \in DOMAIN watch : watch'[i] = Aged(watch[i])
    BY AgedWatch, LenProperties DEF LoopTypeOK, Versions, PeriodEnds
  <1>1. watch = <<>> => watch' = <<>>
    BY <1>0, EmptySeq, LenProperties
  <1>2. \A copy \in Held' : \E old \in Held : copy = Aged(old)
    BY <1>0 DEF PeriodEnds, Held
  <1>3. Held \subseteq Versions
    BY <1>0, ElementOfSeq, LenProperties DEF Held, LoopTypeOK, Versions
  <1>4. \A s \in Versions : Aged(s) # Absent => s # Absent /\ Aged(s).name = s.name
    BY AbsentAssumption DEF Versions, Aged, Status
  <1>5. Given' \subseteq Given
    BY <1>2, <1>3, <1>4 DEF Given, NamesOf
  <1> QED
    BY <1>1, <1>5 DEF PeriodEnds, Alone

\* Nor do the surroundings otherwise bring a name into circulation.
LEMMA LoopEnvironmentGives ==
  ASSUME NEW pcs, LoopTypeOK(pcs), Following, Alone, LoopEnvironment
  PROVE  Alone' /\ Given' \subseteq Given
  <1>0. watch \in Seq(Versions) /\ cr \in Versions /\ EmptyStatus \in Versions /\ Absent \in Versions
    BY EmptyStatusType DEF LoopTypeOK, Versions
  <1>1. CASE Restart
    <2>1. Held' \subseteq Held \cup {EmptyStatus, Absent}
      BY <1>1 DEF Restart, Held
    <2> QED
      BY <1>1, <2>1, GivenShrinks DEF Restart, Alone, ChoosingPCs
  <1>2. CASE Deliver
    <2>1. /\ cache' \in {watch[i] : i \in DOMAIN watch}
          /\ {watch'[i] : i \in DOMAIN watch'} \subseteq {watch[i] : i \in DOMAIN watch}
      BY <1>0, <1>2, TailLast DEF Deliver
    <2>2. Held' \subseteq Held \cup {EmptyStatus, Absent}
      BY <1>2, <2>1 DEF Deliver, Held
    <2> QED
      BY <1>2, <2>2, GivenShrinks DEF Deliver, Alone
  <1>3. CASE Resync
    BY <1>3, GivenShrinks DEF Resync, Alone, Held
  <1>4. CASE CreateCR \/ DeleteCR \/ TouchCR
    <2>1. PICK version \in {EmptyStatus, Absent, cr} : Publish(version)
      BY <1>4 DEF CreateCR, DeleteCR, TouchCR
    <2>2. UNCHANGED <<cache, pc, inst>> /\ ~fresh'
      BY <1>4 DEF CreateCR, DeleteCR, TouchCR, Following, LoopTypeOK
    <2>3. {watch'[i] : i \in DOMAIN watch'} \subseteq {watch[i] : i \in DOMAIN watch} \cup {version}
      BY <1>0, <2>1, AppendLast DEF Publish
    <2>4. Held' \subseteq Held \cup {EmptyStatus, Absent}
      BY <2>1, <2>2, <2>3 DEF Publish, Held
    <2> QED
      BY <2>2, <2>4, GivenShrinks DEF Alone
  <1>5. CASE PeriodEnds
    BY <1>5, PeriodEndsGives
  <1> QED
    BY <1>1, <1>2, <1>3, <1>4, <1>5 DEF LoopEnvironment
=============================================================================
