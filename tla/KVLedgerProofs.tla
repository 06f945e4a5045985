--------------------------- MODULE KVLedgerProofs ---------------------------
(***************************************************************************)
(* Proofs about KVLedger, for every set of outcomes and every height: the  *)
(* inductive invariant IInv, the safety properties that follow from it,    *)
(* and the refinement of LedgerAPI.                                        *)
(***************************************************************************)
EXTENDS KVLedger, SequenceTheorems, TLAPS

USE DEF Opening, Serving, Committing, Offline, Height, store, commitMem

\* What Append does to length and elements; every commit and recovery step appends.
LEMMA AppendFacts ==
  ASSUME NEW S, NEW s \in Seq(S), NEW e \in S
  PROVE  /\ Append(s, e) \in Seq(S)
         /\ Len(Append(s, e)) = Len(s) + 1
         /\ Append(s, e)[Len(s) + 1] = e
         /\ \A i \in 1..Len(s) : Append(s, e)[i] = s[i]
  OBVIOUS

\* The outcome and the hash of a stored block have their types.
LEMMA BlockTyped ==
  ASSUME TypeOK, NEW i \in 1..Len(blocks)
  PROVE  blocks[i].out \in Outcome /\ blocks[i].hash \in Seq(Outcome)
<1>1. blocks[i] \in Block
  BY ElementOfSeq DEF TypeOK
<1> QED BY <1>1 DEF Block

\* A ledger that is new, made from a snapshot, or left by an older release.
LEMMA InitIInv == Init => IInv
<1> SUFFICES ASSUME Init PROVE IInv
  OBVIOUS
<1> USE KVLedgerAssumption
<1> DEFINE N == BootHeight + LegacyHeight
<1>1. PICK o \in Outcome :
         /\ stateDB = [i \in 1..N |-> o]
         /\ blocks = [i \in 1..N |->
                        [out |-> o, hash |-> IF BootHeight = 0 THEN << >>
                                             ELSE [j \in 1..(i - 1) |-> o]]]
  BY DEF Init
<1>2. N \in Nat /\ N =< MaxHeight
  OBVIOUS
<1>3. stateDB \in Seq(Outcome) /\ Len(stateDB) = N
  BY <1>1, <1>2
<1>4. \A i \in 1..N : blocks[i] \in Block
  <2> SUFFICES ASSUME NEW i \in 1..N PROVE blocks[i] \in Block
    OBVIOUS
  <2>1. [j \in 1..(i - 1) |-> o] \in Seq(Outcome)
    BY <1>2
  <2> QED BY <1>1, <2>1 DEF Block
<1>5. blocks \in Seq(Block) /\ Len(blocks) = N
  BY <1>1, <1>2, <1>4
<1>6. TypeOK
  <2>1. configHistory \subseteq 0..MaxHeight /\ bookkeeper \subseteq 0..MaxHeight
    BY <1>2 DEF Init
  <2>2. commitHash \in Seq(Outcome)
    BY EmptySeq DEF Init
  <2>3. pvtHt \in 0..MaxHeight /\ pvtHtSeen \in 0..MaxHeight /\ target \in 0..MaxHeight
    BY <1>2 DEF Init
  <2> QED BY <1>2, <1>3, <1>5, <2>1, <2>2, <2>3 DEF Init, TypeOK
<1>7. AgreesWithBlocks(stateDB) /\ AgreesWithBlocks(historyDB)
  BY <1>1, <1>2, <1>3, <1>5 DEF Init, AgreesWithBlocks
<1>8. CommitHashChained
  <2> SUFFICES ASSUME NEW i \in 2..N
               PROVE  \/ blocks[i].hash = Append(blocks[i - 1].hash, blocks[i].out)
                      \/ blocks[i].hash = << >> /\ blocks[i - 1].hash = << >>
    BY <1>5 DEF CommitHashChained
  <2>1. CASE BootHeight = 0
    BY <2>1, <1>1, <1>2
  <2>2. CASE BootHeight # 0
    <3> DEFINE p == [j \in 1..(i - 1 - 1) |-> o]
               q == [j \in 1..(i - 1) |-> o]
    <3>1. blocks[i].hash = q /\ blocks[i - 1].hash = p /\ blocks[i].out = o
      BY <2>2, <1>1, <1>2
    <3>2. p \in Seq(Outcome) /\ q \in Seq(Outcome) /\ Len(p) = i - 2 /\ Len(q) = i - 1
      BY <1>2
    <3>3. Append(p, o) \in Seq(Outcome) /\ Len(Append(p, o)) = i - 1
          /\ \A k \in 1..(i - 1) : Append(p, o)[k] = q[k]
      BY <3>2
    <3> HIDE DEF p, q
    <3>4. Append(p, o) = q
      BY <3>2, <3>3, SeqEqual
    <3> QED BY <3>1, <3>4
  <2> QED BY <2>1, <2>2
<1>9. HashInv
  BY <1>1, <1>2, <1>5, <1>8 DEF Init, HashInv
<1>10. FlagInv /\ HeightsInv /\ OfflineInv /\ CoverInv /\ NeverRefused
  BY <1>2, <1>3, <1>5 DEF Init, FlagInv, InMemory, HeightsInv, OfflineInv, CoverInv, NeverRefused
<1> QED BY <1>6, <1>7, <1>9, <1>10 DEF IInv

\* Opening: the hash is reloaded and the flag computed (newKVLedger).
LEMMA NewKVLedgerStep ==
  ASSUME IInv, NewKVLedger PROVE IInv'
<1> USE KVLedgerAssumption DEF IInv, NewKVLedger, ShouldRecover, RecoveryRefused, isPvtDataStoreAheadOfBlockStore, lastPersistedCommitHash, LastOf
<1>1. TypeOK'
  <2>1. lastPersistedCommitHash \in Seq(Outcome)
    <3>1. CASE Height = 0
      BY <3>1, EmptySeq
    <3>2. CASE Height # 0
      <4>1. Len(blocks) \in 1..Len(blocks)
        BY <3>2 DEF TypeOK
      <4> QED BY <3>2, <4>1, BlockTyped
    <3> QED BY <3>1, <3>2
  <2> QED BY <2>1 DEF TypeOK
<1>2. FlagInv'
  BY DEF TypeOK, FlagInv, InMemory, HeightsInv
<1>3. AgreesWithBlocks(stateDB)' /\ AgreesWithBlocks(historyDB)'
  BY DEF TypeOK, Block, AgreesWithBlocks, HeightsInv
<1>4. HeightsInv'
  <2>1. Len(stateDB) \in Nat /\ Len(historyDB) \in Nat /\ Len(blocks) \in Nat
    BY DEF TypeOK
  <2>2. CASE Height = 0
    BY <2>1, <2>2 DEF TypeOK, HeightsInv
  <2>3. CASE Height # 0
    BY <2>1, <2>3 DEF TypeOK, HeightsInv
  <2> QED BY <2>2, <2>3
<1>5. OfflineInv'
  BY DEF TypeOK, HeightsInv, OfflineInv
<1>6. HashInv'
  BY DEF TypeOK, Block, HashInv, CommitHashChained, HeightsInv, lastPersistedCommitHash, LastOf
<1>7. CoverInv'
  BY DEF TypeOK, CoverInv, HeightsInv
<1>8. (StateInLevelDB => NeverRefused)'
  BY DEF TypeOK, NeverRefused, FlagInv, InMemory, HeightsInv, OfflineInv
<1> QED BY <1>1, <1>2, <1>3, <1>4, <1>5, <1>6, <1>7, <1>8

\* Recovery feeds the history DB the next block of the block store.
LEMMA RecommitHistoryStep ==
  ASSUME IInv, RecommitHistory PROVE IInv'
<1> USE KVLedgerAssumption DEF IInv, RecommitHistory, RecoveredPC, NextToRecover
<1>1. TypeOK'
  <2>1. Len(historyDB) + 1 \in 1..Len(blocks)
    BY DEF TypeOK, HeightsInv
  <2>2. blocks[Len(historyDB) + 1].out \in Outcome
    BY <2>1, BlockTyped
  <2>3. historyDB' \in Seq(Outcome)
    BY <2>2, AppendFacts DEF TypeOK
  <2> QED BY <2>3 DEF TypeOK
<1>2. FlagInv'
  BY DEF TypeOK, FlagInv, InMemory, HeightsInv
<1>3. AgreesWithBlocks(stateDB)' /\ AgreesWithBlocks(historyDB)'
  <2> DEFINE o == blocks[Len(historyDB) + 1].out
  <2>1. blocks' = blocks /\ stateDB' = stateDB /\ historyDB' = Append(historyDB, o)
    OBVIOUS
  <2>2. AgreesWithBlocks(stateDB)'
    BY <2>1 DEF AgreesWithBlocks
  <2>3. /\ Len(historyDB') = Len(historyDB) + 1
        /\ historyDB'[Len(historyDB) + 1] = o
        /\ \A i \in 1..Len(historyDB) : historyDB'[i] = historyDB[i]
    BY <2>1 DEF TypeOK
  <2>4. AgreesWithBlocks(historyDB)'
    BY <2>1, <2>3 DEF TypeOK, AgreesWithBlocks
  <2> QED BY <2>2, <2>4
<1>4. HeightsInv'
  BY DEF TypeOK, HeightsInv, OfflineInv
<1>5. OfflineInv'
  BY DEF TypeOK, HeightsInv, OfflineInv
<1>6. HashInv'
  BY DEF TypeOK, Block, HashInv, CommitHashChained, HeightsInv, lastPersistedCommitHash, LastOf
<1>7. CoverInv'
  BY DEF TypeOK, CoverInv, HeightsInv
<1>8. (StateInLevelDB => NeverRefused)'
  BY DEF TypeOK, NeverRefused, FlagInv, InMemory, HeightsInv, OfflineInv
<1> QED BY <1>1, <1>2, <1>3, <1>4, <1>5, <1>6, <1>7, <1>8

\* Recovery records the config history of the block the state DB needs next.
LEMMA RecommitPrepareStep ==
  ASSUME IInv, RecommitPrepare PROVE IInv'
<1> USE KVLedgerAssumption DEF IInv, RecommitPrepare, NextToRecover
<1>1. TypeOK'
  <2>1. Len(stateDB) \in 0..MaxHeight
    BY DEF TypeOK, HeightsInv
  <2>2. configHistory' \subseteq 0..MaxHeight
    BY <2>1 DEF TypeOK
  <2> QED BY <2>2 DEF TypeOK
<1>2. FlagInv'
  BY DEF TypeOK, FlagInv, InMemory, HeightsInv
<1>3. AgreesWithBlocks(stateDB)' /\ AgreesWithBlocks(historyDB)'
  BY DEF TypeOK, Block, AgreesWithBlocks, HeightsInv
<1>4. HeightsInv'
  BY DEF TypeOK, HeightsInv, OfflineInv
<1>5. OfflineInv'
  BY DEF TypeOK, HeightsInv, OfflineInv
<1>6. HashInv'
  BY DEF TypeOK, Block, HashInv, CommitHashChained, HeightsInv, lastPersistedCommitHash, LastOf
<1>7. CoverInv'
  BY DEF TypeOK, CoverInv, HeightsInv
<1>8. (StateInLevelDB => NeverRefused)'
  BY DEF TypeOK, NeverRefused, FlagInv, InMemory, HeightsInv, OfflineInv
<1> QED BY <1>1, <1>2, <1>3, <1>4, <1>5, <1>6, <1>7, <1>8

\* Recovery records the expiry entries of that block.
LEMMA RecommitExpiryStep ==
  ASSUME IInv, RecommitExpiry PROVE IInv'
<1> USE KVLedgerAssumption DEF IInv, RecommitExpiry
<1>1. TypeOK'
  <2>1. Len(stateDB) \in 0..MaxHeight
    BY DEF TypeOK, HeightsInv
  <2>2. bookkeeper' \subseteq 0..MaxHeight
    BY <2>1 DEF TypeOK
  <2> QED BY <2>2 DEF TypeOK
<1>2. FlagInv'
  BY DEF TypeOK, FlagInv, InMemory, HeightsInv
<1>3. AgreesWithBlocks(stateDB)' /\ AgreesWithBlocks(historyDB)'
  BY DEF TypeOK, Block, AgreesWithBlocks, HeightsInv
<1>4. HeightsInv'
  BY DEF TypeOK, HeightsInv, OfflineInv
<1>5. OfflineInv'
  BY DEF TypeOK, HeightsInv, OfflineInv
<1>6. HashInv'
  BY DEF TypeOK, Block, HashInv, CommitHashChained, HeightsInv, lastPersistedCommitHash, LastOf
<1>7. CoverInv'
  BY DEF TypeOK, CoverInv, HeightsInv
<1>8. (StateInLevelDB => NeverRefused)'
  BY DEF TypeOK, NeverRefused, FlagInv, InMemory, HeightsInv, OfflineInv
<1> QED BY <1>1, <1>2, <1>3, <1>4, <1>5, <1>6, <1>7, <1>8

\* Recovery applies that block to the state DB.
LEMMA RecommitStateStep ==
  ASSUME IInv, RecommitState PROVE IInv'
<1> USE KVLedgerAssumption DEF IInv, RecommitState, RecoveredPC
<1>1. TypeOK'
  <2>1. Len(stateDB) + 1 \in 1..Len(blocks)
    BY DEF TypeOK, HeightsInv
  <2>2. blocks[Len(stateDB) + 1].out \in Outcome
    BY <2>1, BlockTyped
  <2>3. stateDB' \in Seq(Outcome)
    BY <2>2, AppendFacts DEF TypeOK
  <2> QED BY <2>3 DEF TypeOK
<1>2. FlagInv'
  BY DEF TypeOK, FlagInv, InMemory, HeightsInv
<1>3. AgreesWithBlocks(stateDB)' /\ AgreesWithBlocks(historyDB)'
  BY DEF TypeOK, Block, AgreesWithBlocks, HeightsInv
<1>4. HeightsInv'
  BY DEF TypeOK, HeightsInv, OfflineInv
<1>5. OfflineInv'
  BY DEF TypeOK, HeightsInv, OfflineInv
<1>6. HashInv'
  BY DEF TypeOK, Block, HashInv, CommitHashChained, HeightsInv, lastPersistedCommitHash, LastOf
<1>7. CoverInv'
  BY DEF TypeOK, CoverInv, HeightsInv
<1>8. (StateInLevelDB => NeverRefused)'
  BY DEF TypeOK, NeverRefused, FlagInv, InMemory, HeightsInv, OfflineInv
<1> QED BY <1>1, <1>2, <1>3, <1>4, <1>5, <1>6, <1>7, <1>8

\* Validation writes the config history and extends the commit hash.
LEMMA ValidateAndPrepareStep ==
  ASSUME NEW o \in Outcome, IInv, ValidateAndPrepare(o) PROVE IInv'
<1> USE KVLedgerAssumption DEF IInv, ValidateAndPrepare, ExtendedHash
<1>1. TypeOK'
  <2>0. Len(blocks) \in 0..MaxHeight
    BY DEF TypeOK
  <2>1. configHistory' \subseteq 0..MaxHeight
    BY <2>0 DEF TypeOK
  <2>2. commitHash' \in Seq(Outcome)
    BY AppendFacts DEF TypeOK
  <2> QED BY <2>1, <2>2 DEF TypeOK
<1>2. FlagInv'
  BY DEF TypeOK, FlagInv, InMemory, HeightsInv
<1>3. AgreesWithBlocks(stateDB)' /\ AgreesWithBlocks(historyDB)'
  BY DEF TypeOK, Block, AgreesWithBlocks, HeightsInv
<1>4. HeightsInv'
  BY DEF TypeOK, HeightsInv, OfflineInv
<1>5. OfflineInv'
  BY DEF TypeOK, HeightsInv, OfflineInv
<1>6. HashInv'
  BY DEF TypeOK, Block, HashInv, CommitHashChained, HeightsInv, lastPersistedCommitHash, LastOf
<1>7. CoverInv'
  BY DEF TypeOK, CoverInv, HeightsInv
<1>8. (StateInLevelDB => NeverRefused)'
  BY DEF TypeOK, NeverRefused, FlagInv, InMemory, HeightsInv, OfflineInv
<1> QED BY <1>1, <1>2, <1>3, <1>4, <1>5, <1>6, <1>7, <1>8

\* The private data store is written unless the flag says it is ahead.
LEMMA CommitPvtDataStep ==
  ASSUME IInv, CommitPvtData PROVE IInv'
<1> USE KVLedgerAssumption DEF IInv, CommitPvtData
<1>1. TypeOK'
  <2>1. pvtHt' \in 0..MaxHeight /\ pvtHtSeen' \in 0..MaxHeight
    BY DEF TypeOK, HeightsInv
  <2> QED BY <2>1 DEF TypeOK
<1>2. FlagInv'
  BY DEF TypeOK, FlagInv, InMemory, HeightsInv
<1>3. AgreesWithBlocks(stateDB)' /\ AgreesWithBlocks(historyDB)'
  BY DEF TypeOK, Block, AgreesWithBlocks, HeightsInv
<1>4. HeightsInv'
  BY DEF TypeOK, HeightsInv, OfflineInv
<1>5. OfflineInv'
  BY DEF TypeOK, HeightsInv, OfflineInv
<1>6. HashInv'
  BY DEF TypeOK, Block, HashInv, CommitHashChained, HeightsInv, lastPersistedCommitHash, LastOf
<1>7. CoverInv'
  BY DEF TypeOK, CoverInv, HeightsInv
<1>8. (StateInLevelDB => NeverRefused)'
  BY DEF TypeOK, NeverRefused, FlagInv, InMemory, HeightsInv, OfflineInv
<1> QED BY <1>1, <1>2, <1>3, <1>4, <1>5, <1>6, <1>7, <1>8

\* The block store is written and the flag goes down when it has caught up.
LEMMA AddBlockStep ==
  ASSUME IInv, AddBlock PROVE IInv'
<1> USE KVLedgerAssumption DEF IInv, AddBlock
<1> DEFINE b == [out |-> cur, hash |-> commitHash]
<1>0. /\ blocks' \in Seq(Block)
      /\ Len(blocks') = Len(blocks) + 1
      /\ blocks'[Len(blocks) + 1] = b
      /\ \A i \in 1..Len(blocks) : blocks'[i] = blocks[i]
  <2>1. b \in Block
    BY DEF TypeOK, Block
  <2>2. blocks \in Seq(Block) /\ blocks' = Append(blocks, b)
    BY DEF TypeOK
  <2> HIDE DEF b, AddBlock, IInv
  <2> QED BY <2>1, <2>2, AppendFacts
<1>1. TypeOK'
  <2>1. Len(blocks') =< MaxHeight
    BY <1>0 DEF TypeOK, HeightsInv
  <2>2. pvtHt' = pvtHt /\ ahead' \in BOOLEAN
    OBVIOUS
  <2> QED BY <1>0, <2>1, <2>2 DEF TypeOK
<1>2. FlagInv'
  <2>1. Len(blocks) \in Nat /\ pvtHt \in Nat /\ pvtHtSeen \in Nat
    BY DEF TypeOK
  <2>2. pc' = "expiry" /\ pvtHt' = pvtHt /\ Height' = Height + 1
    BY <1>0
  <2>3. pvtHt > Height
    BY DEF FlagInv
  <2>4. CASE ahead
    <3>1. pvtHtSeen = pvtHt
      BY <2>4 DEF FlagInv
    <3>2. ahead' <=> pvtHt # Height + 1
      BY <2>4, <3>1
    <3> QED BY <2>1, <2>2, <2>3, <3>2 DEF FlagInv, InMemory
  <2>5. CASE ~ahead
    <3>1. pvtHt = Height + 1 /\ ~ahead'
      BY <2>5 DEF FlagInv
    <3> QED BY <2>1, <2>2, <3>1 DEF FlagInv, InMemory
  <2> QED BY <2>4, <2>5
<1>3. AgreesWithBlocks(stateDB)' /\ AgreesWithBlocks(historyDB)'
  BY <1>0 DEF TypeOK, Block, AgreesWithBlocks, HeightsInv
<1>4. HeightsInv'
  BY <1>0 DEF TypeOK, HeightsInv, OfflineInv
<1>5. OfflineInv'
  BY <1>0 DEF TypeOK, HeightsInv, OfflineInv
<1>6. HashInv'
  <2>1. Len(blocks) \in Nat /\ commitHash' = commitHash /\ pc' = "expiry"
    BY DEF TypeOK
  <2>2. lastPersistedCommitHash' = commitHash
    BY <1>0, <2>1 DEF lastPersistedCommitHash, LastOf
  <2>3. CommitHashChained'
    <3> SUFFICES ASSUME NEW i \in 2..(Len(blocks) + 1)
                 PROVE  \/ blocks'[i].hash = Append(blocks'[i - 1].hash, blocks'[i].out)
                        \/ blocks'[i].hash = << >> /\ blocks'[i - 1].hash = << >>
      BY <1>0 DEF CommitHashChained
    <3>1. CASE i =< Len(blocks)
      <4>1. i \in 2..Height
        BY <3>1, <2>1
      <4>2. blocks'[i] = blocks[i] /\ blocks'[i - 1] = blocks[i - 1]
        BY <4>1, <1>0, <2>1
      <4>3. \/ blocks[i].hash = Append(blocks[i - 1].hash, blocks[i].out)
            \/ blocks[i].hash = << >> /\ blocks[i - 1].hash = << >>
        BY <4>1 DEF HashInv, CommitHashChained
      <4> QED BY <4>2, <4>3
    <3>2. CASE i = Len(blocks) + 1
      <4>1. blocks'[i] = b /\ blocks'[i - 1] = blocks[Len(blocks)]
        BY <3>2, <1>0, <2>1
      <4>2. lastPersistedCommitHash = blocks[Len(blocks)].hash
        BY <3>2, <2>1 DEF lastPersistedCommitHash, LastOf
      <4>3. commitHash = IF Height = 1 \/ lastPersistedCommitHash # << >>
                           THEN Append(lastPersistedCommitHash, cur)
                           ELSE lastPersistedCommitHash
        BY DEF HashInv
      <4> QED BY <4>1, <4>2, <4>3
    <3> QED BY <2>1, <3>1, <3>2
  <2>4. blocks'[1].hash = << >>
    <3>1. CASE Height = 0
      <4>1. commitHash = << >>
        BY <3>1 DEF HashInv, lastPersistedCommitHash
      <4> QED BY <4>1, <3>1, <1>0
    <3>2. CASE Height # 0
      BY <3>2, <1>0, <2>1 DEF HashInv
    <3> QED BY <3>1, <3>2
  <2> QED BY <2>1, <2>2, <2>3, <2>4 DEF HashInv
<1>7. CoverInv'
  BY <1>0 DEF TypeOK, CoverInv, HeightsInv
<1>8. (StateInLevelDB => NeverRefused)'
  BY DEF TypeOK, NeverRefused, FlagInv, InMemory, HeightsInv, OfflineInv
<1> QED BY <1>1, <1>2, <1>3, <1>4, <1>5, <1>6, <1>7, <1>8

\* The bookkeeping DB is written before the state DB.
LEMMA UpdateExpiryInfoStep ==
  ASSUME IInv, UpdateExpiryInfo PROVE IInv'
<1> USE KVLedgerAssumption DEF IInv, UpdateExpiryInfo
<1>1. TypeOK'
  <2>1. Len(blocks) - 1 \in 0..MaxHeight
    BY DEF TypeOK, HeightsInv
  <2>2. bookkeeper' \subseteq 0..MaxHeight
    BY <2>1 DEF TypeOK
  <2> QED BY <2>2 DEF TypeOK
<1>2. FlagInv'
  BY DEF TypeOK, FlagInv, InMemory, HeightsInv
<1>3. AgreesWithBlocks(stateDB)' /\ AgreesWithBlocks(historyDB)'
  BY DEF TypeOK, Block, AgreesWithBlocks, HeightsInv
<1>4. HeightsInv'
  BY DEF TypeOK, HeightsInv, OfflineInv
<1>5. OfflineInv'
  BY DEF TypeOK, HeightsInv, OfflineInv
<1>6. HashInv'
  BY DEF TypeOK, Block, HashInv, CommitHashChained, HeightsInv, lastPersistedCommitHash, LastOf
<1>7. CoverInv'
  BY DEF TypeOK, CoverInv, HeightsInv
<1>8. (StateInLevelDB => NeverRefused)'
  BY DEF TypeOK, NeverRefused, FlagInv, InMemory, HeightsInv, OfflineInv
<1> QED BY <1>1, <1>2, <1>3, <1>4, <1>5, <1>6, <1>7, <1>8

\* The state DB gets the block that was stored.
LEMMA CommitStateStep ==
  ASSUME IInv, CommitState PROVE IInv'
<1> USE KVLedgerAssumption DEF IInv, CommitState
<1>1. TypeOK'
  BY DEF TypeOK, Block
<1>2. FlagInv'
  BY DEF TypeOK, FlagInv, InMemory, HeightsInv
<1>3. AgreesWithBlocks(stateDB)' /\ AgreesWithBlocks(historyDB)'
  BY DEF TypeOK, Block, AgreesWithBlocks, HeightsInv
<1>4. HeightsInv'
  BY DEF TypeOK, HeightsInv, OfflineInv
<1>5. OfflineInv'
  BY DEF TypeOK, HeightsInv, OfflineInv
<1>6. HashInv'
  BY DEF TypeOK, Block, HashInv, CommitHashChained, HeightsInv, lastPersistedCommitHash, LastOf
<1>7. CoverInv'
  BY DEF TypeOK, CoverInv, HeightsInv
<1>8. (StateInLevelDB => NeverRefused)'
  BY DEF TypeOK, NeverRefused, FlagInv, InMemory, HeightsInv, OfflineInv
<1> QED BY <1>1, <1>2, <1>3, <1>4, <1>5, <1>6, <1>7, <1>8

\* The history DB gets the block that was stored.
LEMMA CommitHistoryStep ==
  ASSUME IInv, CommitHistory PROVE IInv'
<1> USE KVLedgerAssumption DEF IInv, CommitHistory
<1>1. TypeOK'
  BY DEF TypeOK, Block
<1>2. FlagInv'
  BY DEF TypeOK, FlagInv, InMemory, HeightsInv
<1>3. AgreesWithBlocks(stateDB)' /\ AgreesWithBlocks(historyDB)'
  BY DEF TypeOK, Block, AgreesWithBlocks, HeightsInv
<1>4. HeightsInv'
  BY DEF TypeOK, HeightsInv, OfflineInv
<1>5. OfflineInv'
  BY DEF TypeOK, HeightsInv, OfflineInv
<1>6. HashInv'
  BY DEF TypeOK, Block, HashInv, CommitHashChained, HeightsInv, lastPersistedCommitHash, LastOf
<1>7. CoverInv'
  BY DEF TypeOK, CoverInv, HeightsInv
<1>8. (StateInLevelDB => NeverRefused)'
  BY DEF TypeOK, NeverRefused, FlagInv, InMemory, HeightsInv, OfflineInv
<1> QED BY <1>1, <1>2, <1>3, <1>4, <1>5, <1>6, <1>7, <1>8

\* A crash loses the memory and none of the stores.
LEMMA CrashStep ==
  ASSUME IInv, Crash PROVE IInv'
<1> USE KVLedgerAssumption DEF IInv, Crash
<1>1. TypeOK'
  BY DEF TypeOK, Block
<1>2. FlagInv'
  BY DEF TypeOK, FlagInv, InMemory, HeightsInv
<1>3. AgreesWithBlocks(stateDB)' /\ AgreesWithBlocks(historyDB)'
  BY DEF TypeOK, Block, AgreesWithBlocks, HeightsInv
<1>4. HeightsInv'
  BY DEF TypeOK, HeightsInv, OfflineInv
<1>5. OfflineInv'
  BY DEF TypeOK, HeightsInv, OfflineInv
<1>6. HashInv'
  BY DEF TypeOK, Block, HashInv, CommitHashChained, HeightsInv, lastPersistedCommitHash, LastOf
<1>7. CoverInv'
  BY DEF TypeOK, CoverInv, HeightsInv
<1>8. (StateInLevelDB => NeverRefused)'
  BY DEF TypeOK, NeverRefused, FlagInv, InMemory, HeightsInv, OfflineInv
<1> QED BY <1>1, <1>2, <1>3, <1>4, <1>5, <1>6, <1>7, <1>8

\* Rollback starts with a target below the last block.
LEMMA RollbackKVLedgerStep ==
  ASSUME IInv, RollbackKVLedger PROVE IInv'
<1> USE KVLedgerAssumption DEF IInv, RollbackKVLedger, StartDropping
<1>1. TypeOK'
  BY DEF TypeOK, Block
<1>2. FlagInv'
  BY DEF TypeOK, FlagInv, InMemory, HeightsInv
<1>3. AgreesWithBlocks(stateDB)' /\ AgreesWithBlocks(historyDB)'
  BY DEF TypeOK, Block, AgreesWithBlocks, HeightsInv
<1>4. HeightsInv'
  BY DEF TypeOK, HeightsInv, OfflineInv
<1>5. OfflineInv'
  BY DEF TypeOK, HeightsInv, OfflineInv
<1>6. HashInv'
  BY DEF TypeOK, Block, HashInv, CommitHashChained, HeightsInv, lastPersistedCommitHash, LastOf
<1>7. CoverInv'
  BY DEF TypeOK, CoverInv, HeightsInv
<1>8. (StateInLevelDB => NeverRefused)'
  BY DEF TypeOK, NeverRefused, FlagInv, InMemory, HeightsInv, OfflineInv
<1> QED BY <1>1, <1>2, <1>3, <1>4, <1>5, <1>6, <1>7, <1>8

\* Reset starts with the genesis block as target.
LEMMA ResetAllKVLedgersStep ==
  ASSUME IInv, ResetAllKVLedgers PROVE IInv'
<1> USE KVLedgerAssumption DEF IInv, ResetAllKVLedgers, StartDropping
<1>1. TypeOK'
  BY DEF TypeOK, Block
<1>2. FlagInv'
  BY DEF TypeOK, FlagInv, InMemory, HeightsInv
<1>3. AgreesWithBlocks(stateDB)' /\ AgreesWithBlocks(historyDB)'
  BY DEF TypeOK, Block, AgreesWithBlocks, HeightsInv
<1>4. HeightsInv'
  BY DEF TypeOK, HeightsInv, OfflineInv
<1>5. OfflineInv'
  BY DEF TypeOK, HeightsInv, OfflineInv
<1>6. HashInv'
  BY DEF TypeOK, Block, HashInv, CommitHashChained, HeightsInv, lastPersistedCommitHash, LastOf
<1>7. CoverInv'
  BY DEF TypeOK, CoverInv, HeightsInv
<1>8. (StateInLevelDB => NeverRefused)'
  BY DEF TypeOK, NeverRefused, FlagInv, InMemory, HeightsInv, OfflineInv
<1> QED BY <1>1, <1>2, <1>3, <1>4, <1>5, <1>6, <1>7, <1>8

\* Rebuilding drops a CouchDB state DB and truncates nothing.
LEMMA RebuildDBsStep ==
  ASSUME IInv, RebuildDBs PROVE IInv'
<1> USE KVLedgerAssumption DEF IInv, RebuildDBs
<1>1. TypeOK'
  BY DEF TypeOK, Block
<1>2. FlagInv'
  BY DEF TypeOK, FlagInv, InMemory, HeightsInv
<1>3. AgreesWithBlocks(stateDB)' /\ AgreesWithBlocks(historyDB)'
  BY DEF TypeOK, Block, AgreesWithBlocks, HeightsInv
<1>4. HeightsInv'
  BY DEF TypeOK, HeightsInv, OfflineInv
<1>5. OfflineInv'
  BY DEF TypeOK, HeightsInv, OfflineInv
<1>6. HashInv'
  BY DEF TypeOK, Block, HashInv, CommitHashChained, HeightsInv, lastPersistedCommitHash, LastOf
<1>7. CoverInv'
  BY DEF TypeOK, CoverInv, HeightsInv
<1>8. (StateInLevelDB => NeverRefused)'
  BY DEF TypeOK, NeverRefused, FlagInv, InMemory, HeightsInv, OfflineInv
<1> QED BY <1>1, <1>2, <1>3, <1>4, <1>5, <1>6, <1>7, <1>8

\* The state DB is dropped first.
LEMMA DropStateLevelDBStep ==
  ASSUME IInv, DropStateLevelDB PROVE IInv'
<1> USE KVLedgerAssumption DEF IInv, DropStateLevelDB
<1>1. TypeOK'
  BY DEF TypeOK, Block
<1>2. FlagInv'
  BY DEF TypeOK, FlagInv, InMemory, HeightsInv
<1>3. AgreesWithBlocks(stateDB)' /\ AgreesWithBlocks(historyDB)'
  BY DEF TypeOK, Block, AgreesWithBlocks, HeightsInv
<1>4. HeightsInv'
  BY DEF TypeOK, HeightsInv, OfflineInv
<1>5. OfflineInv'
  BY DEF TypeOK, HeightsInv, OfflineInv
<1>6. HashInv'
  BY DEF TypeOK, Block, HashInv, CommitHashChained, HeightsInv, lastPersistedCommitHash, LastOf
<1>7. CoverInv'
  BY DEF TypeOK, CoverInv, HeightsInv
<1>8. (StateInLevelDB => NeverRefused)'
  BY DEF TypeOK, NeverRefused, FlagInv, InMemory, HeightsInv, OfflineInv
<1> QED BY <1>1, <1>2, <1>3, <1>4, <1>5, <1>6, <1>7, <1>8

\* The config history is dropped when a LevelDB state DB is empty.
LEMMA DropConfigHistoryDBStep ==
  ASSUME IInv, DropConfigHistoryDB PROVE IInv'
<1> USE KVLedgerAssumption DEF IInv, DropConfigHistoryDB
<1>1. TypeOK'
  BY DEF TypeOK, Block
<1>2. FlagInv'
  BY DEF TypeOK, FlagInv, InMemory, HeightsInv
<1>3. AgreesWithBlocks(stateDB)' /\ AgreesWithBlocks(historyDB)'
  BY DEF TypeOK, Block, AgreesWithBlocks, HeightsInv
<1>4. HeightsInv'
  BY DEF TypeOK, HeightsInv, OfflineInv
<1>5. OfflineInv'
  BY DEF TypeOK, HeightsInv, OfflineInv
<1>6. HashInv'
  BY DEF TypeOK, Block, HashInv, CommitHashChained, HeightsInv, lastPersistedCommitHash, LastOf
<1>7. CoverInv'
  <2>1. StateInLevelDB => stateDB' = << >>
    BY DEF OfflineInv
  <2>2. StateInLevelDB => Len(stateDB') = 0
    BY <2>1
  <2> QED BY <2>2 DEF CoverInv
<1>8. (StateInLevelDB => NeverRefused)'
  BY DEF TypeOK, NeverRefused, FlagInv, InMemory, HeightsInv, OfflineInv
<1> QED BY <1>1, <1>2, <1>3, <1>4, <1>5, <1>6, <1>7, <1>8

\* The bookkeeping DB is dropped when a LevelDB state DB is empty.
LEMMA DropBookkeeperDBStep ==
  ASSUME IInv, DropBookkeeperDB PROVE IInv'
<1> USE KVLedgerAssumption DEF IInv, DropBookkeeperDB
<1>1. TypeOK'
  BY DEF TypeOK, Block
<1>2. FlagInv'
  BY DEF TypeOK, FlagInv, InMemory, HeightsInv
<1>3. AgreesWithBlocks(stateDB)' /\ AgreesWithBlocks(historyDB)'
  BY DEF TypeOK, Block, AgreesWithBlocks, HeightsInv
<1>4. HeightsInv'
  BY DEF TypeOK, HeightsInv, OfflineInv
<1>5. OfflineInv'
  BY DEF TypeOK, HeightsInv, OfflineInv
<1>6. HashInv'
  BY DEF TypeOK, Block, HashInv, CommitHashChained, HeightsInv, lastPersistedCommitHash, LastOf
<1>7. CoverInv'
  <2>1. StateInLevelDB => stateDB' = << >>
    BY DEF OfflineInv
  <2>2. StateInLevelDB => Len(stateDB') = 0
    BY <2>1
  <2> QED BY <2>2 DEF CoverInv
<1>8. (StateInLevelDB => NeverRefused)'
  BY DEF TypeOK, NeverRefused, FlagInv, InMemory, HeightsInv, OfflineInv
<1> QED BY <1>1, <1>2, <1>3, <1>4, <1>5, <1>6, <1>7, <1>8

\* The history DB is dropped before the block store is truncated.
LEMMA DropHistoryDBStep ==
  ASSUME IInv, DropHistoryDB PROVE IInv'
<1> USE KVLedgerAssumption DEF IInv, DropHistoryDB
<1>1. TypeOK'
  BY DEF TypeOK, Block
<1>2. FlagInv'
  BY DEF TypeOK, FlagInv, InMemory, HeightsInv
<1>3. AgreesWithBlocks(stateDB)' /\ AgreesWithBlocks(historyDB)'
  BY DEF TypeOK, Block, AgreesWithBlocks, HeightsInv
<1>4. HeightsInv'
  BY DEF TypeOK, HeightsInv, OfflineInv
<1>5. OfflineInv'
  BY DEF TypeOK, HeightsInv, OfflineInv
<1>6. HashInv'
  BY DEF TypeOK, Block, HashInv, CommitHashChained, HeightsInv, lastPersistedCommitHash, LastOf
<1>7. CoverInv'
  BY DEF TypeOK, CoverInv, HeightsInv
<1>8. (StateInLevelDB => NeverRefused)'
  BY DEF TypeOK, NeverRefused, FlagInv, InMemory, HeightsInv, OfflineInv
<1> QED BY <1>1, <1>2, <1>3, <1>4, <1>5, <1>6, <1>7, <1>8

\* Truncation leaves a prefix of the block store and of its hash chain.
LEMMA TruncateBlockStoreStep ==
  ASSUME IInv, TruncateBlockStore PROVE IInv'
<1> USE KVLedgerAssumption DEF IInv, TruncateBlockStore
<1>0. /\ blocks' \in Seq(Block)
      /\ Len(blocks') = target
      /\ target \in 0..Len(blocks)
      /\ \A i \in 1..target : blocks'[i] = blocks[i]
  <2>1. target \in 0..Len(blocks) /\ blocks \in Seq(Block)
    BY DEF TypeOK, OfflineInv
  <2>2. \A i \in 1..target : blocks[i] \in Block
    BY <2>1, ElementOfSeq
  <2> QED BY <2>1, <2>2, SubSeqProperties
<1>1. TypeOK'
  BY <1>0 DEF TypeOK
<1>2. FlagInv'
  BY <1>0 DEF TypeOK, FlagInv, InMemory
<1>3. AgreesWithBlocks(stateDB)' /\ AgreesWithBlocks(historyDB)'
  BY <1>0 DEF TypeOK, AgreesWithBlocks
<1>4. HeightsInv'
  BY <1>0 DEF TypeOK, HeightsInv, OfflineInv
<1>5. OfflineInv'
  BY <1>0 DEF TypeOK, HeightsInv, OfflineInv
<1>6. HashInv'
  <2>1. Len(blocks) \in Nat /\ pc' = "down"
    BY DEF TypeOK
  <2>2. CommitHashChained'
    <3> SUFFICES ASSUME NEW i \in 2..target
                 PROVE  \/ blocks'[i].hash = Append(blocks'[i - 1].hash, blocks'[i].out)
                        \/ blocks'[i].hash = << >> /\ blocks'[i - 1].hash = << >>
      BY <1>0 DEF CommitHashChained
    <3>1. blocks'[i] = blocks[i] /\ blocks'[i - 1] = blocks[i - 1] /\ i \in 2..Len(blocks)
      BY <1>0, <2>1
    <3> QED BY <3>1 DEF HashInv, CommitHashChained
  <2>3. (Height > 0 => blocks[1].hash = << >>)'
    BY <1>0, <2>1 DEF HashInv
  <2> QED BY <2>1, <2>2, <2>3 DEF HashInv
<1>7. CoverInv'
  BY <1>0 DEF TypeOK, CoverInv, HeightsInv
<1>8. (StateInLevelDB => NeverRefused)'
  BY DEF TypeOK, NeverRefused, FlagInv, InMemory, HeightsInv, OfflineInv
<1> QED BY <1>1, <1>2, <1>3, <1>4, <1>5, <1>6, <1>7, <1>8

\* The operator drops the state DB while the peer is down.
LEMMA DropStateDBStep ==
  ASSUME IInv, DropStateDB PROVE IInv'
<1> USE KVLedgerAssumption DEF IInv, DropStateDB
<1>1. TypeOK'
  BY DEF TypeOK, Block
<1>2. FlagInv'
  BY DEF TypeOK, FlagInv, InMemory, HeightsInv
<1>3. AgreesWithBlocks(stateDB)' /\ AgreesWithBlocks(historyDB)'
  BY DEF TypeOK, Block, AgreesWithBlocks, HeightsInv
<1>4. HeightsInv'
  BY DEF TypeOK, HeightsInv, OfflineInv
<1>5. OfflineInv'
  BY DEF TypeOK, HeightsInv, OfflineInv
<1>6. HashInv'
  BY DEF TypeOK, Block, HashInv, CommitHashChained, HeightsInv, lastPersistedCommitHash, LastOf
<1>7. CoverInv'
  BY DEF TypeOK, CoverInv, HeightsInv
<1>8. (StateInLevelDB => NeverRefused)'
  BY DEF TypeOK, NeverRefused, FlagInv, InMemory, HeightsInv, OfflineInv
<1> QED BY <1>1, <1>2, <1>3, <1>4, <1>5, <1>6, <1>7, <1>8

\* IInv is inductive: one case for each action.
LEMMA NextStep == ASSUME IInv, [Next]_vars PROVE IInv'
<1>1. CASE NewKVLedger
  BY <1>1, NewKVLedgerStep
<1>2. CASE Recovery
  BY <1>2, RecommitHistoryStep, RecommitPrepareStep, RecommitExpiryStep,
     RecommitStateStep DEF Recovery
<1>3. ASSUME NEW o \in Outcome, ValidateAndPrepare(o) PROVE IInv'
  BY <1>3, ValidateAndPrepareStep
<1>4. CASE CommitSteps
  BY <1>4, CommitPvtDataStep, AddBlockStep, UpdateExpiryInfoStep, CommitStateStep,
     CommitHistoryStep DEF CommitSteps
<1>5. CASE Crash
  BY <1>5, CrashStep
<1>6. CASE OfflineCommands
  BY <1>6, RollbackKVLedgerStep, ResetAllKVLedgersStep, RebuildDBsStep,
     DropStateLevelDBStep, DropConfigHistoryDBStep, DropBookkeeperDBStep,
     DropHistoryDBStep, TruncateBlockStoreStep, DropStateDBStep DEF OfflineCommands
<1>7. CASE UNCHANGED vars
  <2> USE <1>7 DEF vars
  <2>1. TypeOK'
    BY DEF IInv, TypeOK
  <2>2. FlagInv'
    BY DEF IInv, FlagInv, InMemory
  <2>3. AgreesWithBlocks(stateDB)' /\ AgreesWithBlocks(historyDB)'
    BY DEF IInv, AgreesWithBlocks
  <2>4. HeightsInv' /\ OfflineInv'
    BY DEF IInv, HeightsInv, OfflineInv
  <2>5. HashInv'
    BY DEF IInv, HashInv, CommitHashChained, lastPersistedCommitHash, LastOf
  <2>6. CoverInv' /\ (StateInLevelDB => NeverRefused)'
    BY DEF IInv, CoverInv, NeverRefused
  <2> QED BY <2>1, <2>2, <2>3, <2>4, <2>5, <2>6 DEF IInv
<1> QED BY <1>1, <1>2, <1>3, <1>4, <1>5, <1>6, <1>7 DEF Next

(***************************************************************************)
(* IInv holds in every reachable state, whatever is committed, wherever    *)
(* the process crashes and whichever offline commands run.                 *)
(***************************************************************************)
THEOREM Invariance == Spec => []IInv
  BY InitIInv, NextStep, PTL DEF Spec

(***************************************************************************)
(* Every variable keeps its type; in particular the private data store     *)
(* never runs past the last block there can be.                            *)
(***************************************************************************)
THEOREM TypeCorrect == Spec => []TypeOK
<1>1. IInv => TypeOK
  BY DEF IInv
<1> QED BY <1>1, Invariance, PTL

(***************************************************************************)
(* commitToPvtAndBlockStore keeps its order of writes: a block in the      *)
(* block store has its private data in the private data store.             *)
(***************************************************************************)
THEOREM PvtDataFirst == Spec => []PvtDataBeforeBlock
<1>1. IInv => PvtDataBeforeBlock
  BY DEF IInv, FlagInv, PvtDataBeforeBlock
<1> QED BY <1>1, Invariance, PTL

(***************************************************************************)
(* With a LevelDB state DB newKVLedger never refuses to recover, and the   *)
(* private data store never rejects a block.                               *)
(***************************************************************************)
THEOREM NoRefusal ==
  ASSUME StateInLevelDB
  PROVE  Spec => []NeverRefused
<1>1. IInv => NeverRefused
  BY DEF IInv
<1> QED BY <1>1, Invariance, PTL

(***************************************************************************)
(* With a LevelDB state DB an open ledger has the config history and the   *)
(* expiry entries of every block in its state DB.                          *)
(***************************************************************************)
THEOREM ConfigHistoryComplete ==
  ASSUME StateInLevelDB
  PROVE  Spec => []ConfigHistoryCoversState
<1>1. IInv => ConfigHistoryCoversState
  BY DEF IInv, CoverInv, ConfigHistoryCoversState
<1> QED BY <1>1, Invariance, PTL

(***************************************************************************)
(* addBlockCommitHash builds one unbroken chain of commit hashes.          *)
(***************************************************************************)
THEOREM HashesChained == Spec => []CommitHashChained
<1>1. IInv => CommitHashChained
  BY DEF IInv, HashInv
<1> QED BY <1>1, Invariance, PTL

\* What Outs returns.
LEMMA OutsFacts ==
  ASSUME NEW bs \in Seq(Block)
  PROVE  /\ Outs(bs) \in Seq(Outcome)
         /\ Len(Outs(bs)) = Len(bs)
         /\ \A i \in 1..Len(bs) : Outs(bs)[i] = bs[i].out
<1>1. Len(bs) \in Nat
  OBVIOUS
<1>2. \A i \in 1..Len(bs) : bs[i].out \in Outcome
  <2>1. \A i \in 1..Len(bs) : bs[i] \in Block
    BY ElementOfSeq
  <2> QED BY <2>1 DEF Block
<1> QED BY <1>1, <1>2 DEF Outs

\* A DB of full height that agrees with the block store is its replay.
LEMMA FullDBIsReplay ==
  ASSUME NEW bs \in Seq(Block), NEW db \in Seq(Outcome), Len(db) = Len(bs),
         \A i \in 1..Len(db) : i =< Len(bs) => db[i] = bs[i].out
  PROVE  db = Outs(bs)
<1>1. \A i \in 1..Len(db) : db[i] = Outs(bs)[i]
  BY OutsFacts
<1> QED BY <1>1, OutsFacts, SeqEqual

(***************************************************************************)
(* Between two blocks the state DB and the history DB are exactly what     *)
(* replaying the block store gives.                                        *)
(***************************************************************************)
THEOREM DBsAreReplays == Spec => []DBsReplayBlockStore
<1>1. ASSUME IInv PROVE DBsReplayBlockStore
  <2> SUFFICES ASSUME pc = "idle"
               PROVE  stateDB = Outs(blocks) /\ historyDB = Outs(blocks)
    BY DEF DBsReplayBlockStore
  <2>1. Len(stateDB) = Height /\ Len(historyDB) = Height
    BY <1>1 DEF IInv, HeightsInv
  <2> QED BY <1>1, <2>1, FullDBIsReplay DEF IInv, TypeOK, AgreesWithBlocks
<1> QED BY <1>1, Invariance, PTL

-----------------------------------------------------------------------------
(***************************************************************************)
(* KVLedger implements LedgerAPI: every step of the commit path, of a      *)
(* crash, of recovery and of the offline commands is a step of the         *)
(* interface or leaves it unchanged.                                       *)
(***************************************************************************)

\* What a state query sees, by program counter.
LEMMA ShownState ==
  ASSUME IInv
  PROVE  /\ pc \in {"idle", "pvtdata", "block", "history"} => stateDB = Outs(blocks)
         /\ pc \in {"expiry", "state"} => stateDB # Outs(blocks)
<1> USE DEF IInv
<1>1. ASSUME pc \in {"idle", "pvtdata", "block", "history"}
      PROVE  stateDB = Outs(blocks)
  <2>1. Len(stateDB) = Height
    BY <1>1 DEF HeightsInv
  <2> QED BY <2>1, FullDBIsReplay DEF TypeOK, AgreesWithBlocks
<1>2. ASSUME pc \in {"expiry", "state"} PROVE stateDB # Outs(blocks)
  <2>1. Len(stateDB) = Height - 1 /\ Len(blocks) \in Nat
    BY <1>2 DEF HeightsInv, TypeOK
  <2>2. Len(Outs(blocks)) = Len(blocks)
    BY OutsFacts DEF TypeOK
  <2> QED BY <2>1, <2>2
<1> QED BY <1>1, <1>2

\* The initial ledger is an initial ledger of the interface: closed, with its log.
LEMMA InitRefines == Init => API!Init
<1> SUFFICES ASSUME Init PROVE API!Init
  OBVIOUS
<1>1. Outs(blocks) \in Seq(Outcome)
  BY InitIInv, OutsFacts DEF IInv, TypeOK
<1>2. pc \notin Serving
  BY DEF Init
<1> QED BY <1>1, <1>2 DEF API!Init

\* A step of a closed ledger that leaves the block store alone shows nothing.
LEMMA ClosedStutters ==
  ASSUME pc \notin Serving, pc' \notin Serving, blocks' = blocks
  PROVE  UNCHANGED API!vars
  BY DEF API!vars, Outs

\* A step that opens the ledger.
LEMMA OpenRefines ==
  ASSUME IInv', pc \notin Serving, pc' = "idle", blocks' = blocks
  PROVE  API!Open
<1>1. stateDB' = Outs(blocks)
  <2>1. Len(stateDB') = Len(blocks')
    BY DEF IInv, HeightsInv
  <2>2. stateDB' \in Seq(Outcome) /\ blocks' \in Seq(Block)
    BY DEF IInv, TypeOK
  <2>3. \A i \in 1..Len(stateDB') : i =< Len(blocks') => stateDB'[i] = blocks'[i].out
    BY DEF IInv, AgreesWithBlocks
  <2> QED BY <2>1, <2>2, <2>3, FullDBIsReplay
<1>2. Outs(blocks)' = Outs(blocks)
  BY DEF Outs
<1>3. Len(Outs(blocks)) = Len(blocks')
  BY OutsFacts DEF IInv, TypeOK
<1> QED BY <1>1, <1>2, <1>3 DEF API!Open

\* A step that ends the process of an open ledger.
LEMMA StopRefines ==
  ASSUME pc \in Serving, pc' \notin Serving, blocks' = blocks
  PROVE  API!Stop
<1>1. Outs(blocks)' = Outs(blocks)
  BY DEF Outs
<1> QED BY <1>1 DEF API!Stop

\* A step of the commit that neither stores the block nor applies it.
LEMMA ServingStutters ==
  ASSUME pc \in Serving, pc' \in Serving, blocks' = blocks, stateDB' = stateDB,
         pc \in {"expiry", "state", "history"} <=> pc' \in {"expiry", "state", "history"}
  PROVE  UNCHANGED API!vars
  BY DEF API!vars, Outs

\* Storing the block is the step that appends to the log.
LEMMA AddBlockRefines == ASSUME IInv, AddBlock PROVE API!Append1(cur)
<1> DEFINE b == [out |-> cur, hash |-> commitHash]
<1>1. blocks \in Seq(Block) /\ b \in Block /\ cur \in Outcome
  BY DEF IInv, TypeOK, Block
<1>2. blocks' = Append(blocks, b) /\ pc = "block" /\ pc' = "expiry" /\ stateDB' = stateDB
  BY DEF AddBlock
<1>3. Outs(blocks') = Append(Outs(blocks), cur)
  <2> DEFINE s == Outs(blocks')
             t == Append(Outs(blocks), cur)
  <2>1. /\ blocks' \in Seq(Block)
        /\ Len(blocks') = Len(blocks) + 1
        /\ blocks'[Len(blocks) + 1] = b
        /\ \A i \in 1..Len(blocks) : blocks'[i] = blocks[i]
    <3> HIDE DEF b
    <3> QED BY <1>1, <1>2, AppendFacts
  <2>2. /\ s \in Seq(Outcome)
        /\ Len(s) = Len(blocks) + 1
        /\ \A i \in 1..(Len(blocks) + 1) : s[i] = blocks'[i].out
    BY <2>1, OutsFacts
  <2>3. /\ Outs(blocks) \in Seq(Outcome)
        /\ Len(Outs(blocks)) = Len(blocks)
        /\ \A i \in 1..Len(blocks) : Outs(blocks)[i] = blocks[i].out
    BY <1>1, OutsFacts
  <2>4. /\ t \in Seq(Outcome)
        /\ Len(t) = Len(blocks) + 1
        /\ t[Len(blocks) + 1] = cur
        /\ \A i \in 1..Len(blocks) : t[i] = blocks[i].out
    <3> DEFINE u == Outs(blocks)
    <3> HIDE DEF u
    <3>1. u \in Seq(Outcome) /\ Len(u) = Len(blocks)
          /\ \A i \in 1..Len(blocks) : u[i] = blocks[i].out
      BY <2>3 DEF u
    <3>2. t = Append(u, cur)
      BY DEF u
    <3> HIDE DEF t
    <3> QED BY <1>1, <3>1, <3>2, AppendFacts
  <2>5. Len(blocks) \in Nat /\ b.out = cur
    BY <1>1
  <2> HIDE DEF s, t, b
  <2>6. \A i \in 1..Len(s) : s[i] = t[i]
    BY <2>1, <2>2, <2>4, <2>5
  <2>7. s = t
    BY <2>2, <2>4, <2>6, SeqEqual
  <2> QED BY <2>7 DEF s, t
<1>4. stateDB = Outs(blocks)
  BY <1>2, ShownState
<1>5. Len(Outs(blocks)) = Len(blocks) /\ Len(blocks) \in Nat /\ Len(blocks') = Len(blocks) + 1
  BY <1>1, <1>2, OutsFacts
<1>6. Outs(blocks)' = Append(Outs(blocks), cur)
  BY <1>3
<1> HIDE DEF b
<1> QED BY <1>2, <1>4, <1>5, <1>6 DEF API!Append1

\* Committing the state is the step that makes the writes visible.
LEMMA CommitStateRefines == ASSUME IInv, IInv', CommitState PROVE API!ApplyState
<1>1. pc = "state" /\ pc' = "history" /\ blocks' = blocks
  BY DEF CommitState
<1>2. stateDB # Outs(blocks)
  BY <1>1, ShownState
<1>3. stateDB' = Outs(blocks)
  <2>1. Len(stateDB') = Len(blocks')
    BY <1>1 DEF IInv, HeightsInv
  <2>2. stateDB' \in Seq(Outcome) /\ blocks' \in Seq(Block)
    BY DEF IInv, TypeOK
  <2>3. \A i \in 1..Len(stateDB') : i =< Len(blocks') => stateDB'[i] = blocks'[i].out
    BY DEF IInv, AgreesWithBlocks
  <2> QED BY <1>1, <2>1, <2>2, <2>3, FullDBIsReplay
<1>4. Outs(blocks)' = Outs(blocks)
  BY <1>1 DEF Outs
<1> QED BY <1>1, <1>2, <1>3, <1>4 DEF API!ApplyState

\* The end of the commit is the step that exposes the new height.
LEMMA CommitHistoryRefines == ASSUME IInv, CommitHistory PROVE API!ExposeBlock
<1>1. pc = "history" /\ pc' = "idle" /\ blocks' = blocks /\ stateDB' = stateDB
  BY DEF CommitHistory
<1>2. stateDB = Outs(blocks)
  BY <1>1, ShownState
<1>3. Len(Outs(blocks)) = Len(blocks) /\ Len(blocks) \in Nat
  BY OutsFacts DEF IInv, TypeOK
<1>4. Outs(blocks)' = Outs(blocks)
  BY <1>1 DEF Outs
<1> QED BY <1>1, <1>2, <1>3, <1>4 DEF API!ExposeBlock

\* Truncating the block store is the truncation of the log, or nothing.
LEMMA TruncateRefines ==
  ASSUME IInv, TruncateBlockStore
  PROVE  (\E n \in 1..Len(Outs(blocks)) : API!Truncate(n)) \/ UNCHANGED API!vars
<1>1. /\ blocks \in Seq(Block) /\ target \in 0..Len(blocks)
      /\ (target = 0 => Len(blocks) = 0)
      /\ pc \notin Serving /\ pc' \notin Serving
      /\ blocks' = SubSeq(blocks, 1, target)
  BY DEF IInv, TypeOK, OfflineInv, TruncateBlockStore
<1>2. CASE target = 0
  <2>1. blocks = << >> /\ blocks' = << >>
    BY <1>1, <1>2, EmptySeq, SubSeqEmpty
  <2> QED BY <1>1, <2>1, ClosedStutters
<1>3. CASE target # 0
  <2> DEFINE s == Outs(blocks')
             u == Outs(blocks)
             t == SubSeq(u, 1, target)
  <2>1. /\ blocks' \in Seq(Block)
        /\ Len(blocks') = target
        /\ \A i \in 1..target : blocks'[i] = blocks[i]
    <3>1. \A i \in 1..target : blocks[i] \in Block
      BY <1>1, ElementOfSeq
    <3> QED BY <1>1, <1>3, <3>1, SubSeqProperties
  <2>2. /\ s \in Seq(Outcome) /\ Len(s) = target
        /\ \A i \in 1..target : s[i] = blocks'[i].out
    BY <2>1, OutsFacts
  <2>3. /\ u \in Seq(Outcome) /\ Len(u) = Len(blocks)
        /\ \A i \in 1..Len(blocks) : u[i] = blocks[i].out
    BY <1>1, OutsFacts
  <2> HIDE DEF s, u
  <2>4. /\ t \in Seq(Outcome) /\ Len(t) = target
        /\ \A i \in 1..target : t[i] = u[i]
    <3>1. \A i \in 1..target : u[i] \in Outcome
      BY <1>1, <2>3, ElementOfSeq
    <3> QED BY <1>1, <1>3, <3>1, SubSeqProperties
  <2> HIDE DEF t
  <2>5. s = t
    <3>1. ASSUME NEW i \in 1..target PROVE s[i] = t[i]
      <4>1. i \in 1..Len(blocks)
        BY <1>1
      <4>2. s[i] = blocks[i].out
        BY <2>1, <2>2
      <4>3. t[i] = blocks[i].out
        BY <4>1, <2>3, <2>4
      <4> QED BY <4>2, <4>3
    <3> QED BY <2>2, <2>4, <3>1, SeqEqual
  <2>6. Outs(blocks)' = SubSeq(Outs(blocks), 1, target)
    BY <2>5 DEF s, t, u
  <2>7. API!Truncate(target)
    BY <1>1, <2>6 DEF API!Truncate
  <2>8. target \in 1..Len(Outs(blocks))
    BY <1>1, <1>3, <2>3 DEF u
  <2> QED BY <2>7, <2>8
<1> QED BY <1>2, <1>3

\* Every step is a step of the interface or changes nothing that it shows.
LEMMA NextRefines ==
  ASSUME IInv, IInv', [Next]_vars
  PROVE  [API!Next]_(API!vars)
<1>1. CASE NewKVLedger
  BY <1>1, OpenRefines, ClosedStutters DEF NewKVLedger, API!Next
<1>2. CASE Recovery
  BY <1>2, OpenRefines, ClosedStutters
     DEF Recovery, RecommitHistory, RecommitPrepare, RecommitExpiry, RecommitState,
         RecoveredPC, API!Next
<1>3. ASSUME NEW o \in Outcome, ValidateAndPrepare(o)
      PROVE  UNCHANGED API!vars
  BY <1>3, ServingStutters DEF ValidateAndPrepare
<1>4. CASE CommitPvtData
  BY <1>4, ServingStutters, StopRefines DEF CommitPvtData, API!Next
<1>5. CASE AddBlock
  BY <1>5, AddBlockRefines DEF IInv, TypeOK, API!Next
<1>6. CASE UpdateExpiryInfo
  BY <1>6, ServingStutters DEF UpdateExpiryInfo
<1>7. CASE CommitState
  BY <1>7, CommitStateRefines DEF API!Next
<1>8. CASE CommitHistory
  BY <1>8, CommitHistoryRefines DEF API!Next
<1>9. CASE Crash
  BY <1>9, StopRefines, ClosedStutters DEF Crash, API!Next
<1>10. CASE TruncateBlockStore
  BY <1>10, TruncateRefines DEF API!Next
<1>11. CASE OfflineCommands /\ ~TruncateBlockStore
  BY <1>11, ClosedStutters
     DEF OfflineCommands, RollbackKVLedger, ResetAllKVLedgers, StartDropping, RebuildDBs,
         DropStateLevelDB, DropConfigHistoryDB, DropBookkeeperDB, DropHistoryDB,
         DropStateDB
<1>12. CASE UNCHANGED vars
  BY <1>12 DEF vars, API!vars, Outs
<1> QED BY <1>1, <1>2, <1>3, <1>4, <1>5, <1>6, <1>7, <1>8, <1>9, <1>10, <1>11, <1>12
       DEF Next, CommitSteps

(***************************************************************************)
(* The ledger implements its interface for every set of outcomes, every    *)
(* height and either kind of state DB: whatever crashes, recoveries and    *)
(* offline commands do to its six stores, an open ledger shows the whole   *)
(* log, grows it one block at a time, and lets a block be read only after  *)
(* its writes can be queried.                                              *)
(***************************************************************************)
THEOREM KVLedgerImplementsAPI == Spec => ImplementsAPI
<1>1. Spec => API!Spec
  BY Invariance, InitRefines, NextRefines, PTL DEF Spec, API!Spec
<1> QED BY <1>1 DEF ImplementsAPI
=============================================================================
