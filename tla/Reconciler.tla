----------------------------- MODULE Reconciler -----------------------------
(***************************************************************************)
(* The reconcile loop of VeleroInstallReconciler and what it stands on:    *)
(* the VeleroInstall in the API server, the informer cache that follows it *)
(* late, the work queue, and the operator process that can die at any      *)
(* call.  The storage drivers extend this module with the calls they make  *)
(* between "storage" and the return of CreateStorage.                      *)
(*                                                                         *)
(* There is one worker, so one Reconcile at a time: pc says which call it  *)
(* makes next.  Every call to the API server or the cloud is one step.     *)
(***************************************************************************)
EXTENDS Naturals, Sequences, BucketStatus

CONSTANTS
    MaxFaults   \* bound: disturbances (failed calls, crashes, outside changes)

ASSUME MaxFaultsAssumption == MaxFaults \in Nat

VARIABLES
    cr,         \* the VeleroInstall's status in the API server, or Absent
    watch,      \* versions of it the informer has not been told of yet
    cache,      \* the informer's copy, which Reconcile reads
    queued,     \* the request is in the work queue
    driver,     \* VeleroInstallReconciler.driver has been created
    pc,         \* where the worker is; "idle" between reconciles, "down" after a crash
    inst,       \* instance.Status of the running Reconcile
    fresh,      \* instance still carries the stored object's resourceVersion
    faults      \* disturbances that may still happen

apiVars == <<cr, watch>>
runVars == <<pc, inst, fresh, queued>>
loopVars == <<cr, watch, cache, queued, driver, pc, inst, fresh, faults>>

LoopTypeOK(pcs) ==
    /\ cr \in Status \cup {Absent}
    /\ watch \in Seq(Status \cup {Absent})
    /\ cache \in Status \cup {Absent}
    /\ queued \in BOOLEAN
    /\ driver \in BOOLEAN
    /\ pc \in pcs
    /\ inst \in Status
    /\ fresh \in BOOLEAN
    /\ faults \in 0..MaxFaults

\* The pcs every driver has.
LoopPCs == {"down", "idle", "infra", "storage", "provision"}

LoopInit ==
    /\ cr = Absent
    /\ watch = <<>>
    /\ cache = Absent
    /\ queued = FALSE
    /\ driver = FALSE
    /\ pc = "idle"
    /\ inst = EmptyStatus
    /\ fresh = FALSE
    /\ faults = MaxFaults

-----------------------------------------------------------------------------
\* One of the bounded number of disturbances happens.
Fault == faults > 0 /\ faults' = faults - 1

\* Reconcile returns; with an error (or Requeue) the request is queued again.
Return(requeue) ==
    /\ pc' = "idle"
    /\ inst' = EmptyStatus
    /\ fresh' = FALSE
    /\ queued' = (queued \/ requeue)

\* The worker goes on to its next call.
Goto(next) ==
    /\ pc' = next
    /\ UNCHANGED <<inst, fresh, queued>>

\* A write to the stored resource; a running informer is told of it.
Publish(version) ==
    /\ cr' = version
    /\ watch' = IF pc = "down" THEN watch ELSE Append(watch, version)

\* Mutant: the write is not conditional on the resourceVersion.
Mutant_StatusUpdateUnconditional(status, next) ==
    \/ /\ cr # Absent
       /\ cr' = status
       /\ watch' = IF status = cr THEN watch ELSE Append(watch, status)
       /\ IF next = "idle" THEN Return(FALSE)
          ELSE pc' = next /\ inst' = status /\ fresh' = TRUE /\ UNCHANGED queued
    \/ /\ cr = Absent
       /\ Return(TRUE)
       /\ UNCHANGED apiVars

(***************************************************************************)
(* instance.StatusUpdate: accepted only if instance was read at the stored *)
(* resourceVersion, refused with a conflict (or not found) otherwise.  The *)
(* API server drops an update that changes nothing: no new version and no  *)
(* event.  A reply that is lost is an accepted write followed by a failed  *)
(* call or by a resync, so it needs no case of its own.                    *)
(***************************************************************************)
StatusUpdate(status, next) ==
    \/ /\ fresh
       /\ IF status = cr THEN UNCHANGED apiVars ELSE Publish(status)
       /\ IF next = "idle" THEN Return(FALSE)
          ELSE pc' = next /\ inst' = status /\ UNCHANGED <<fresh, queued>>
    \/ /\ ~fresh
       /\ Return(TRUE)
       /\ UNCHANGED apiVars

-----------------------------------------------------------------------------
\* Mutant: a resource that is not found is reconciled all the same.
Mutant_FetchUnchecked ==
    /\ pc = "idle"
    /\ queued
    /\ queued' = FALSE
    /\ pc' = "infra"
    /\ inst' = cache
    /\ fresh' = (watch = <<>>)
    /\ UNCHANGED <<cr, watch, cache, driver, faults>>

\* Reconcile starts: the instance is read from the cache, however old that is.
Fetch ==
    /\ pc = "idle"
    /\ queued
    /\ queued' = FALSE
    /\ \/ /\ cache = Absent
          /\ UNCHANGED <<pc, inst, fresh>>
       \/ /\ cache # Absent
          /\ pc' = "infra"
          /\ inst' = cache
          /\ fresh' = (watch = <<>>)
    /\ UNCHANGED <<cr, watch, cache, driver, faults>>

\* The infrastructure is read, the driver made once, and the work chosen.
ChooseWork ==
    /\ pc = "infra"
    /\ driver' = TRUE
    /\ IF StorageBucketReconcileRequired(inst) THEN Goto("storage") ELSE Goto("provision")
    /\ UNCHANGED <<cr, watch, cache, faults>>

\* provisionVelero, as far as this loop is concerned: it returns, or asks to run again.
ProvisionVelero ==
    /\ pc = "provision"
    /\ \E requeue \in BOOLEAN : Return(requeue)
    /\ UNCHANGED <<cr, watch, cache, driver, faults>>

\* Mutant: the error is dropped and the request not queued again.
Mutant_CallFailsForgets ==
    /\ pc \notin {"idle", "down"}
    /\ Fault
    /\ Return(FALSE)
    /\ UNCHANGED <<cr, watch, cache, driver>>

\* A call made by the running Reconcile fails, and Reconcile returns the error.
CallFails ==
    /\ pc \notin {"idle", "down"}
    /\ Fault
    /\ Return(TRUE)
    /\ UNCHANGED <<cr, watch, cache, driver>>

-----------------------------------------------------------------------------
\* The process dies: everything in memory is gone.
Crash ==
    /\ pc # "down"
    /\ Fault
    /\ pc' = "down"
    /\ inst' = EmptyStatus
    /\ fresh' = FALSE
    /\ queued' = FALSE
    /\ driver' = FALSE
    /\ cache' = Absent
    /\ watch' = <<>>
    /\ UNCHANGED cr

\* The new process lists the resource and queues what it finds.
Restart ==
    /\ pc = "down"
    /\ pc' = "idle"
    /\ cache' = cr
    /\ queued' = (cr # Absent)
    /\ UNCHANGED <<cr, watch, driver, inst, fresh, faults>>

\* The informer learns of the next version and queues a request.
Deliver ==
    /\ watch # <<>>
    /\ cache' = Head(watch)
    /\ watch' = Tail(watch)
    /\ queued' = TRUE
    /\ UNCHANGED <<cr, driver, pc, inst, fresh, faults>>

\* The informers' periodic resync, or an event of an owned object.
Resync ==
    /\ pc # "down"
    /\ cache # Absent
    /\ ~queued
    /\ queued' = TRUE
    /\ UNCHANGED <<cr, watch, cache, driver, pc, inst, fresh, faults>>

-----------------------------------------------------------------------------
\* An administrator creates the VeleroInstall.
CreateCR ==
    /\ cr = Absent
    /\ Publish(EmptyStatus)
    /\ UNCHANGED <<cache, queued, driver, pc, inst, fresh, faults>>

\* An administrator deletes it, taking the bucket name with it.
DeleteCR ==
    /\ cr # Absent
    /\ Fault
    /\ Publish(Absent)
    /\ fresh' = FALSE
    /\ UNCHANGED <<cache, queued, driver, pc, inst>>

\* Somebody else updates it (a label, an annotation): a new resourceVersion.
TouchCR ==
    /\ cr # Absent
    /\ Fault
    /\ Publish(cr)
    /\ fresh' = FALSE
    /\ UNCHANGED <<cache, queued, driver, pc, inst>>

\* The reconcile period of the last sync runs out, for every copy of it.
PeriodEnds ==
    /\ \E copy \in {cr, cache, inst} \cup {watch[i] : i \in DOMAIN watch} : copy # Aged(copy)
    /\ cr' = Aged(cr)
    /\ cache' = Aged(cache)
    /\ watch' = [i \in DOMAIN watch |-> Aged(watch[i])]
    /\ inst' = Aged(inst)
    /\ UNCHANGED <<queued, driver, pc, fresh, faults>>

\* What the worker itself does, whichever driver it has.
LoopStep == Fetch \/ ChooseWork \/ ProvisionVelero

\* A Reconcile is cut short.
LoopFailure == CallFails \/ Crash

\* What the operator's surroundings do to the loop.
LoopEnvironment ==
    \/ Restart \/ Deliver \/ Resync
    \/ CreateCR \/ DeleteCR \/ TouchCR \/ PeriodEnds
=============================================================================
