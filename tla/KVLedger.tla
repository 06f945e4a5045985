------------------------------- MODULE KVLedger -------------------------------
(***************************************************************************)
(* The commit path of a peer's ledger (core/ledger/kvledger) and what a    *)
(* crash, the recovery at the next start and the offline commands do to    *)
(* the stores it writes:                                                   *)
(*                                                                         *)
(*   private data store, block store, config history DB, bookkeeping DB,   *)
(*   state DB, history DB.                                                 *)
(*                                                                         *)
(* Each store is written atomically by itself; nothing makes the six       *)
(* writes of one block atomic.  A block is its outcome (the writes of its  *)
(* valid transactions, chosen when it is validated) and the commit hash    *)
(* recorded with it.  Block number n is element n+1 of a sequence.  A      *)
(* commit hash is modelled by the sequence of outcomes it digests, so that *)
(* equal hashes mean equal histories; << >> is the absent hash.            *)
(***************************************************************************)
EXTENDS Integers, Sequences

CONSTANTS
  Outcome,        \* possible outcomes of a block
  MaxHeight,      \* bound: no block is delivered beyond this height
  BootHeight,     \* height of the snapshot the ledger was created from; 0: none
  LegacyHeight,   \* blocks committed by a release that kept no commit hash
  StateInLevelDB  \* the state DB is LevelDB (TRUE) or CouchDB (FALSE)

ASSUME KVLedgerAssumption ==
  /\ MaxHeight \in Nat
  /\ BootHeight \in Nat
  /\ LegacyHeight \in Nat
  /\ BootHeight > 0 => LegacyHeight = 0
  /\ BootHeight + LegacyHeight =< MaxHeight
  /\ StateInLevelDB \in BOOLEAN

VARIABLES
  \* persistent
  pvtHt,         \* LastCommittedBlockHeight of the private data store
  blocks,        \* block store
  stateDB,       \* outcomes applied to the state DB; its savepoint is the length
  historyDB,     \* outcomes recorded in the history DB
  configHistory, \* block numbers recorded in the config history DB
  bookkeeper,    \* block numbers whose expiry info is in the bookkeeping DB
  \* in memory
  pc,            \* where the process is
  ahead,         \* isPvtstoreAheadOfBlkstore
  commitHash,    \* l.commitHash
  cur,           \* outcome of the block being committed
  pvtHtSeen,     \* pvtdataStoreHt, read on entry to commitToPvtAndBlockStore
  lagger,        \* recoverers[0]: the DB that recovery serves first
  target         \* height that a rollback or reset truncates the block store to

store == <<pvtHt, blocks, stateDB, historyDB, configHistory, bookkeeper>>
commitMem == <<ahead, commitHash, cur, pvtHtSeen>>
vars == <<store, commitMem, pc, lagger, target>>

Block == [out : Outcome, hash : Seq(Outcome)]

Opening == {"recover", "recoverExpiry", "recoverState"}
Committing == {"pvtdata", "block", "expiry", "state", "history"}
Serving == {"idle"} \cup Committing
Offline == {"dropState", "dropConfigHistory", "dropBookkeeper", "dropHistory",
            "truncate"}

Height == Len(blocks)
Outs(bs) == [i \in 1..Len(bs) |-> bs[i].out]
LastOf(s) == s[Len(s)]

(***************************************************************************)
(* A ledger just created, one created from a snapshot, or one that an      *)
(* older release committed blocks to; the peer is not running.             *)
(***************************************************************************)
Init ==
  /\ pvtHt = BootHeight + LegacyHeight
  /\ \E o \in Outcome :
       /\ stateDB = [i \in 1..(BootHeight + LegacyHeight) |-> o]
       /\ blocks = [i \in 1..(BootHeight + LegacyHeight) |->
                      [out |-> o,
                       hash |-> IF BootHeight = 0 THEN << >>
                                ELSE [j \in 1..(i - 1) |-> o]]]
  /\ historyDB = stateDB
  /\ configHistory = 0..(BootHeight + LegacyHeight - 1)
  /\ bookkeeper = configHistory
  /\ pc = "down"
  /\ ahead = FALSE
  /\ commitHash = << >>
  /\ cur \in Outcome
  /\ pvtHtSeen = 0
  /\ lagger = "state"
  /\ target = 0

-----------------------------------------------------------------------------
(* Opening the ledger: newKVLedger and the recovery of the two DBs. *)

\* Mutant: the hash is not reloaded when the ledger is opened.
M_NoReload == << >>

lastPersistedCommitHash == IF Height = 0 THEN << >> ELSE LastOf(blocks).hash

\* Mutants: the comparison is off by one, in either direction.
M_AheadByTwo == pvtHt > Height + 1
M_AheadOrEqual == pvtHt >= Height

isPvtDataStoreAheadOfBlockStore == pvtHt > Height

\* Mutant: a DB that is one block behind is taken to be up to date.
M_ShouldRecover(db) == Len(db) + 1 < Height

\* ShouldRecover of a DB (savepoint.BlockNum + 1 is the DB's height).
ShouldRecover(db) == Len(db) # Height

\* The two errors of syncStateAndHistoryDBWithBlockstore.
RecoveryRefused(db) ==
  \/ BootHeight > 0 /\ Len(db) < BootHeight
  \/ Len(db) > Height

NewKVLedger ==
  /\ pc = "down"
  /\ commitHash' = lastPersistedCommitHash
  /\ ahead' = isPvtDataStoreAheadOfBlockStore
  /\ lagger' = IF Len(stateDB) > Len(historyDB) THEN "history" ELSE "state"
  /\ pc' = IF Height = 0 THEN "idle"
           ELSE IF RecoveryRefused(stateDB) \/ RecoveryRefused(historyDB) THEN "failed"
           ELSE IF ShouldRecover(stateDB) \/ ShouldRecover(historyDB) THEN "recover"
           ELSE "idle"
  /\ UNCHANGED <<store, cur, pvtHtSeen, target>>

\* The DB that recommitLostBlocks feeds next: the shorter one until both have
\* the same height, then both block by block, the lagger first.
NextToRecover ==
  IF Len(stateDB) < Len(historyDB) THEN "state"
  ELSE IF Len(historyDB) < Len(stateDB) THEN "history"
  ELSE lagger

\* Mutant: recovery is over when either DB is.
M_RecoveredPC(stateHt, historyHt) ==
  IF stateHt = Height \/ historyHt = Height THEN "idle" ELSE "recover"

RecoveredPC(stateHt, historyHt) ==
  IF stateHt = Height /\ historyHt = Height THEN "idle" ELSE "recover"

\* history DB: CommitLostBlock
RecommitHistory ==
  /\ pc = "recover"
  /\ NextToRecover = "history"
  /\ historyDB' = Append(historyDB, blocks[Len(historyDB) + 1].out)
  /\ pc' = RecoveredPC(Len(stateDB), Len(historyDB) + 1)
  /\ UNCHANGED <<pvtHt, blocks, stateDB, configHistory, bookkeeper,
                 commitMem, lagger, target>>

\* state DB: CommitLostBlock is ValidateAndPrepare without MVCC, whose state
\* listener writes the config history, then Commit.
RecommitPrepare ==
  /\ pc = "recover"
  /\ NextToRecover = "state"
  /\ configHistory' = configHistory \cup {Len(stateDB)}
  /\ pc' = "recoverExpiry"
  /\ UNCHANGED <<pvtHt, blocks, stateDB, historyDB, bookkeeper,
                 commitMem, lagger, target>>

\* Mutant: recovery starts the block again instead of applying it.
M_RecommitExpiry ==
  /\ pc = "recoverExpiry"
  /\ bookkeeper' = bookkeeper \cup {Len(stateDB)}
  /\ pc' = "recover"
  /\ UNCHANGED <<pvtHt, blocks, stateDB, historyDB, configHistory,
                 commitMem, lagger, target>>

RecommitExpiry ==
  /\ pc = "recoverExpiry"
  /\ bookkeeper' = bookkeeper \cup {Len(stateDB)}
  /\ pc' = "recoverState"
  /\ UNCHANGED <<pvtHt, blocks, stateDB, historyDB, configHistory,
                 commitMem, lagger, target>>

RecommitState ==
  /\ pc = "recoverState"
  /\ stateDB' = Append(stateDB, blocks[Len(stateDB) + 1].out)
  /\ pc' = RecoveredPC(Len(stateDB) + 1, Len(historyDB))
  /\ UNCHANGED <<pvtHt, blocks, historyDB, configHistory, bookkeeper,
                 commitMem, lagger, target>>

-----------------------------------------------------------------------------
(* Committing the next block: CommitLegacy. The caller (gossip state       *)
(* transfer) delivers blocks in sequence, starting at the ledger's height. *)

\* addBlockCommitHash, which commit calls for block 1 or when a hash exists.
ExtendedHash(o) ==
  IF Height = 1 \/ commitHash # << >> THEN Append(commitHash, o) ELSE commitHash

ValidateAndPrepare(o) ==
  /\ pc = "idle"
  /\ Height < MaxHeight
  /\ configHistory' = configHistory \cup {Height}
  /\ commitHash' = ExtendedHash(o)
  /\ cur' = o
  /\ pc' = "pvtdata"
  /\ UNCHANGED <<pvtHt, blocks, stateDB, historyDB, bookkeeper,
                 ahead, pvtHtSeen, lagger, target>>

\* First half of commitToPvtAndBlockStore. pvtdataStore.Commit rejects a block
\* other than the one it expects next.
CommitPvtData ==
  /\ pc = "pvtdata"
  /\ pvtHtSeen' = pvtHt
  /\ IF ahead
       THEN pvtHt' = pvtHt /\ pc' = "block"
       ELSE IF pvtHt = Height
              THEN pvtHt' = pvtHt + 1 /\ pc' = "block"
              ELSE pvtHt' = pvtHt /\ pc' = "failed"
  /\ UNCHANGED <<blocks, stateDB, historyDB, configHistory, bookkeeper,
                 ahead, commitHash, cur, lagger, target>>

\* Second half: the block store, then the flag.
AddBlock ==
  /\ pc = "block"
  /\ blocks' = Append(blocks, [out |-> cur, hash |-> commitHash])
  /\ ahead' = (ahead /\ pvtHtSeen # Height + 1)
  /\ pc' = "expiry"
  /\ UNCHANGED <<pvtHt, stateDB, historyDB, configHistory, bookkeeper,
                 commitHash, cur, pvtHtSeen, lagger, target>>

\* txmgr.Commit: UpdateExpiryInfo writes the bookkeeping DB first.
UpdateExpiryInfo ==
  /\ pc = "expiry"
  /\ bookkeeper' = bookkeeper \cup {Height - 1}
  /\ pc' = "state"
  /\ UNCHANGED <<pvtHt, blocks, stateDB, historyDB, configHistory,
                 commitMem, lagger, target>>

\* txmgr.Commit: ApplyPrivacyAwareUpdates, under the write lock.
CommitState ==
  /\ pc = "state"
  /\ stateDB' = Append(stateDB, cur)
  /\ pc' = "history"
  /\ UNCHANGED <<pvtHt, blocks, historyDB, configHistory, bookkeeper,
                 commitMem, lagger, target>>

CommitHistory ==
  /\ pc = "history"
  /\ historyDB' = Append(historyDB, cur)
  /\ pc' = "idle"
  /\ UNCHANGED <<pvtHt, blocks, stateDB, configHistory, bookkeeper,
                 commitMem, lagger, target>>

-----------------------------------------------------------------------------
(* The process ends: a crash at any point, also of an offline command, or  *)
(* the panic that follows an error.                                        *)

Crash ==
  /\ pc # "down"
  /\ pc' = "down"
  /\ UNCHANGED <<store, commitMem, lagger, target>>

-----------------------------------------------------------------------------
(* Offline commands. All of them refuse a peer that has a ledger created   *)
(* from a snapshot, and hold the file lock that keeps the peer down.       *)

StartDropping(h) ==
  /\ pc = "down"
  /\ BootHeight = 0
  /\ target' = h
  /\ pc' = "dropState"
  /\ UNCHANGED <<store, commitMem, lagger>>

\* peer node rollback to block k: ValidateRollbackParams wants k below the last.
RollbackKVLedger == \E h \in 1..(Height - 1) : StartDropping(h)

\* peer node reset: back to the genesis block.
ResetAllKVLedgers == Height > 0 /\ StartDropping(1)

\* peer node rebuild-dbs (and upgrade-dbs): drops the DBs and keeps every block.
\* Unlike the other two commands it first drops a CouchDB state DB itself.
RebuildDBs ==
  /\ pc = "down"
  /\ BootHeight = 0
  /\ stateDB' = IF StateInLevelDB THEN stateDB ELSE << >>
  /\ target' = Height
  /\ pc' = "dropState"
  /\ UNCHANGED <<pvtHt, blocks, historyDB, configHistory, bookkeeper,
                 commitMem, lagger>>

\* Mutant: the state DB is not dropped first.
M_DropStateLevelDB ==
  /\ pc = "dropState"
  /\ stateDB' = stateDB
  /\ pc' = "dropConfigHistory"
  /\ UNCHANGED <<pvtHt, blocks, historyDB, configHistory, bookkeeper,
                 commitMem, lagger, target>>

\* dropStateLevelDB removes a LevelDB directory; CouchDB is not touched.
DropStateLevelDB ==
  /\ pc = "dropState"
  /\ stateDB' = IF StateInLevelDB THEN << >> ELSE stateDB
  /\ pc' = "dropConfigHistory"
  /\ UNCHANGED <<pvtHt, blocks, historyDB, configHistory, bookkeeper,
                 commitMem, lagger, target>>

DropConfigHistoryDB ==
  /\ pc = "dropConfigHistory"
  /\ configHistory' = {}
  /\ pc' = "dropBookkeeper"
  /\ UNCHANGED <<pvtHt, blocks, stateDB, historyDB, bookkeeper,
                 commitMem, lagger, target>>

DropBookkeeperDB ==
  /\ pc = "dropBookkeeper"
  /\ bookkeeper' = {}
  /\ pc' = "dropHistory"
  /\ UNCHANGED <<pvtHt, blocks, stateDB, historyDB, configHistory,
                 commitMem, lagger, target>>

DropHistoryDB ==
  /\ pc = "dropHistory"
  /\ historyDB' = << >>
  /\ pc' = "truncate"
  /\ UNCHANGED <<pvtHt, blocks, stateDB, configHistory, bookkeeper,
                 commitMem, lagger, target>>

\* blkstorage.Rollback or ResetBlockStore; the private data store keeps all.
TruncateBlockStore ==
  /\ pc = "truncate"
  /\ blocks' = SubSeq(blocks, 1, target)
  /\ pc' = "down"
  /\ UNCHANGED <<pvtHt, stateDB, historyDB, configHistory, bookkeeper,
                 commitMem, lagger, target>>

\* The operator drops the state DB, as the error message of
\* syncStateAndHistoryDBWithBlockstore says is safe. (A LevelDB of a ledger
\* bootstrapped from a snapshot could not be rebuilt.)
DropStateDB ==
  /\ StateInLevelDB => BootHeight = 0
  /\ pc = "down"
  /\ stateDB # << >>
  /\ stateDB' = << >>
  /\ UNCHANGED <<pvtHt, blocks, historyDB, configHistory, bookkeeper,
                 commitMem, pc, lagger, target>>

-----------------------------------------------------------------------------
Recovery ==
  \/ RecommitHistory
  \/ RecommitPrepare
  \/ RecommitExpiry
  \/ RecommitState

CommitSteps ==
  \/ CommitPvtData
  \/ AddBlock
  \/ UpdateExpiryInfo
  \/ CommitState
  \/ CommitHistory

OfflineCommands ==
  \/ RollbackKVLedger
  \/ ResetAllKVLedgers
  \/ RebuildDBs
  \/ DropStateLevelDB
  \/ DropConfigHistoryDB
  \/ DropBookkeeperDB
  \/ DropHistoryDB
  \/ TruncateBlockStore
  \/ DropStateDB

Next ==
  \/ NewKVLedger
  \/ Recovery
  \/ \E o \in Outcome : ValidateAndPrepare(o)
  \/ CommitSteps
  \/ Crash
  \/ OfflineCommands

Spec == Init /\ [][Next]_vars

\* Recovery and commit are straight-line code of a running process: they go on
\* unless the process ends. Nothing obliges a peer to be started, a block to
\* arrive or an operator to act.
FairSpec == Spec /\ WF_vars(Recovery) /\ WF_vars(CommitSteps)
-----------------------------------------------------------------------------
(* Properties. *)

\* Every variable has its type; the private data store never runs past the
\* blocks that exist.
TypeOK ==
  /\ pvtHt \in 0..MaxHeight
  /\ blocks \in Seq(Block) /\ Height =< MaxHeight
  /\ stateDB \in Seq(Outcome)
  /\ historyDB \in Seq(Outcome)
  /\ configHistory \subseteq 0..MaxHeight
  /\ bookkeeper \subseteq 0..MaxHeight
  /\ pc \in {"down", "failed"} \cup Opening \cup Serving \cup Offline
  /\ ahead \in BOOLEAN
  /\ commitHash \in Seq(Outcome)
  /\ cur \in Outcome
  /\ pvtHtSeen \in 0..MaxHeight
  /\ lagger \in {"state", "history"}
  /\ target \in 0..MaxHeight

\* No order of crashes, restarts and offline commands makes a start refuse to
\* recover, or makes the private data store reject the next block. (With
\* CouchDB a start after a rollback is meant to be refused.)
NeverRefused == pc # "failed"

\* A block is in the block store only if its private data was committed
\* before: the order of the two writes in commitToPvtAndBlockStore, kept by the
\* flag isPvtstoreAheadOfBlkstore across crashes, rollbacks and resets.
PvtDataBeforeBlock == Height =< pvtHt

\* Whenever the ledger is between two blocks, the state DB and the history DB
\* hold exactly the outcomes recorded in the block store, in order.
DBsReplayBlockStore ==
  pc = "idle" => stateDB = Outs(blocks) /\ historyDB = Outs(blocks)

\* On an open ledger each block applied to the state DB has its config history
\* and its expiry entries: what the comment in dropDBs calls consistent data.
ConfigHistoryCoversState ==
  pc \in Serving =>
    0..(Len(stateDB) - 1) \subseteq configHistory \cap bookkeeper

\* The commit hashes form one chain: the hash recorded with a block digests its
\* outcome and the hash of the block before, and the chain never breaks off.
CommitHashChained ==
  \A i \in 2..Height :
    \/ blocks[i].hash = Append(blocks[i - 1].hash, blocks[i].out)
    \/ blocks[i].hash = << >> /\ blocks[i - 1].hash = << >>

\* Recovery and the commit of a block come to an end unless the process does.
StepsTerminate ==
  (pc \in Opening \cup Committing) ~> (pc \in {"idle", "down"})

\* The ledger implements its interface: an open ledger shows the whole log.
API == INSTANCE LedgerAPI WITH
  log <- Outs(blocks),
  view <- IF pc \in Serving THEN stateDB ELSE << >>,
  height <- IF pc \in Serving
              THEN IF pc \in {"expiry", "state", "history"}
                     THEN Height - 1 ELSE Height
              ELSE 0,
  open <- pc \in Serving

\* KVLedger implements LedgerAPI: blocks are only appended, one at a time; a
\* block can be read only after its writes can be queried; opening always
\* shows the whole log, whatever stores the last crash had reached.
ImplementsAPI == API!Spec

-----------------------------------------------------------------------------
(* The inductive invariant behind the safety properties.                   *)

InMemory == pc \in Opening \cup Serving

\* The flag is exact, and commitToPvtAndBlockStore saw the height it relies on.
FlagInv ==
  /\ Height =< pvtHt
  /\ InMemory /\ pc # "block" => (ahead <=> pvtHt > Height)
  /\ pc = "block" => /\ pvtHt > Height
                     /\ IF ahead THEN pvtHtSeen = pvtHt
                        ELSE pvtHtSeen = Height /\ pvtHt = Height + 1

\* A DB agrees with the block store wherever both have a block.
AgreesWithBlocks(db) ==
  \A i \in 1..Len(db) : i =< Height => db[i] = blocks[i].out

\* How far each DB is, by program counter.
HeightsInv ==
  /\ Len(historyDB) =< Height
  /\ StateInLevelDB \/ Height = 0 => Len(stateDB) =< Height
  /\ pc \in {"idle", "pvtdata", "block"} =>
       Len(stateDB) = Height /\ Len(historyDB) = Height
  /\ pc \in {"expiry", "state"} =>
       Len(stateDB) = Height - 1 /\ Len(historyDB) = Height - 1
  /\ pc = "history" => Len(stateDB) = Height /\ Len(historyDB) = Height - 1
  /\ pc \in Opening => Len(stateDB) =< Height
  /\ pc = "recover" => Len(stateDB) < Height \/ Len(historyDB) < Height
  /\ pc \in {"recoverExpiry", "recoverState"} => Len(stateDB) < Height
  /\ pc \in {"expiry", "state", "history"} => Height > 0 /\ blocks[Height].out = cur
  /\ pc \in {"pvtdata", "block"} => Height < MaxHeight

\* The offline commands drop the DBs before they truncate the block store.
OfflineInv ==
  /\ pc \in Offline =>
       target =< Height /\ (target = 0 => Height = 0) /\ BootHeight = 0
  /\ pc \in Offline \ {"dropState"} /\ StateInLevelDB => stateDB = << >>
  /\ pc = "truncate" => historyDB = << >>
  /\ BootHeight > 0 =>
       /\ Height >= BootHeight
       /\ Len(historyDB) >= BootHeight
       /\ StateInLevelDB => Len(stateDB) >= BootHeight

\* The hash in memory continues the chain of the block store.
HashInv ==
  /\ CommitHashChained
  /\ Height > 0 => blocks[1].hash = << >>
  /\ pc \in Opening \cup {"idle", "expiry", "state", "history"} =>
       commitHash = lastPersistedCommitHash
  /\ pc \in {"pvtdata", "block"} =>
       commitHash = IF Height = 1 \/ lastPersistedCommitHash # << >>
                      THEN Append(lastPersistedCommitHash, cur)
                      ELSE lastPersistedCommitHash

\* The bookkeeping written ahead of the state DB.
CoverInv ==
  StateInLevelDB =>
    /\ \A n \in 0..(Len(stateDB) - 1) : n \in configHistory /\ n \in bookkeeper
    /\ pc \in {"pvtdata", "block"} => Height \in configHistory
    /\ pc \in {"expiry", "state"} => Height - 1 \in configHistory
    /\ pc = "state" => Height - 1 \in bookkeeper
    /\ pc \in {"recoverExpiry", "recoverState"} => Len(stateDB) \in configHistory
    /\ pc = "recoverState" => Len(stateDB) \in bookkeeper

IInv ==
  /\ TypeOK
  /\ FlagInv
  /\ AgreesWithBlocks(stateDB)
  /\ AgreesWithBlocks(historyDB)
  /\ HeightsInv
  /\ OfflineInv
  /\ HashInv
  /\ CoverInv
  /\ StateInLevelDB => NeverRefused
=============================================================================
