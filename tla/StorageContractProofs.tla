----------------------- MODULE StorageContractProofs -----------------------
EXTENDS StorageContract, TLAPS

\* Every step of the contract keeps its invariant.
LEMMA ContractKeeps ==
  ASSUME ContractInv, [ContractNext]_contractVars
  PROVE  ContractInv'
  <1> USE AbsentAssumption, NoNameAssumption
      DEF ContractInv, Update, StorageBucketReconcileRequired, Status, SyncAges
  <1>1. CASE Create
    BY <1>1 DEF Create, EmptyStatus
  <1>2. CASE Delete
    BY <1>2 DEF Delete
  <1>3. CASE Lose
    BY <1>3 DEF Lose
  <1>4. CASE GiveUp
    BY <1>4 DEF GiveUp
  <1>5. CASE Sync
    BY <1>5 DEF Sync
  <1>6. CASE Expire
    BY <1>6 DEF Expire, Aged
  <1>7. CASE Prepare
    BY <1>7 DEF Prepare
  <1>8. ASSUME NEW n \in Buckets, Choose(n)
        PROVE  ContractInv'
    BY <1>8 DEF Choose
  <1>9. CASE UNCHANGED contractVars
    BY <1>9 DEF contractVars
  <1> QED
    BY <1>1, <1>2, <1>3, <1>4, <1>5, <1>6, <1>7, <1>8, <1>9 DEF ContractNext

(***************************************************************************)
(* Whatever implements the contract never stores a status that says of an  *)
(* unprovisioned bucket, or of one that lacks a setting, that it was       *)
(* synced within the period: the status on which Reconcile skips           *)
(* CreateStorage can be relied on.                                         *)
(***************************************************************************)
THEOREM ContractSafe == ContractSpec => []ContractInv
  <1>1. ContractInit => ContractInv
    BY AbsentAssumption DEF ContractInit, ContractInv
  <1> QED
    BY <1>1, ContractKeeps, PTL DEF ContractSpec
=============================================================================
