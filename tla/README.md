# Hyperledger Fabric 2.5.12: a TLA+ verification project

The modules in this directory model the parts of Hyperledger Fabric
(`fabric-2.5.12/`) on which the integrity of a channel depends: how the ordering
service turns messages into one chain of blocks, how a peer validates the
transactions of a block, how blocks and private data reach the peer, and how the
peer's ledger and its block store survive crashes. TLC
model-checks them on small instances; TLAPS proves all the safety properties of the
passing runs, and two refinements, for every value of the constants.

`PROJECT.json` has the machine-readable side: components, runs, mutants, the map
from definitions to source lines, hazards, findings and theorems. Paths below
are relative to `fabric-2.5.12/`.

## 1. Inventory

### The system and how its parts interact

    client --> endorser (simulation: TxMgr) --> client --> broadcast
    broadcast --> Raft chain (RaftChain) --> block cutter (BlockCutter)
    Raft chain <--> etcd Raft (vendored, abstracted) <--> other orderers
    Raft chain --> block writer --> orderer's ledger --> deliver
    deliver --> deliver client --> payloads buffer (GossipState) --> committer
    gossip, state transfer from other peers (GossipState) --> payloads buffer
    committer --> VSCC --> kvLedger.CommitLegacy
        CommitLegacy <--> snapshot event loop (SnapshotMgr)
        CommitLegacy --> MVCC validation and commit (TxMgr)
        CommitLegacy --> six stores, written in sequence (KVLedger)
            block store: files, summary, index (BlockStore)
            private data store and private state (PvtData)
    reconciler --> kvLedger.CommitPvtDataOfOldBlocks (PvtData)

| Component | State | Operations | What is hard | What makes it correct |
|---|---|---|---|---|
| Ledger commit and recovery (`core/ledger/kvledger/kv_ledger.go`) | private data store, block store, config history, bookkeeping, state DB, history DB; in memory the commit hash and `isPvtstoreAheadOfBlkstore` | `CommitLegacy`, `newKVLedger`, `recommitLostBlocks` | six writes without a transaction; crash anywhere, in recovery too | DBs are a replay of the block store; private data first; hash chain unbroken |
| Offline commands (`rollback.go`, `reset.go`, `rebuild_dbs.go`, `drop_dbs.go`) | the same stores | drop DBs, truncate | a command cut off halfway, then a normal start | the peer always comes up consistent |
| Snapshots (`snapshot_mgmt.go`, `snapshot.go`) | pending requests (DB and cached minimum), snapshot directories, status of the committer | submit, cancel, commitStart/Done, snapshotDone, generate | goroutines on unbuffered channels, shared response channel, shared loop variable, crash | snapshots of one height; nobody waits forever; every request processed |
| Simulation, MVCC, commit (`txmgmt/`) | state DB, read-write sets, update batch, `commitRWLock` | simulate, validate, apply | conflicts inside a block, phantoms, merged metadata, readers and writer | serializability in block order, no spurious invalidation |
| Block cutter (`orderer/common/blockcutter`) | pending batch and its size | `Ordered`, `Cut` | boundary sizes | limits respected |
| Raft chain (`orderer/consensus/etcdraft/chain.go`) | role as last told, block creator, channel to the proposer, in-flight counters, timer, ledger | submit, timer, apply, become leader or follower, restart | leadership changes seen late, a cancelled proposer that goes on, proposals dropped, blocks lost at a crash | one chain, no committed block lost, config barrier |
| Block store (`common/ledger/blkstorage`) | block files, summary of the files, index and its savepoint, pre-reset height; in memory summary and height | `addBlock`, `newBlockfileMgr`, `syncIndex`, iterators, rollback, reset, drop of the index | crash between file, summary and index, torn blocks, unsynced writes; readers beside the writer; commands cut off | the store opens, holds every reported block, reads it back |
| Private data (`pvtdatastorage/`, `pvtstatepurgemgmt/`, `hashcheck_pvtdata.go`, `gossip/privdata/reconcile.go`) | data, hashed index, purge markers, expiry entries, three lists of missing data, eligibility events; private state and its expiry schedule | commit, reconcile, purge, process eligibility, prepare expiry | five threads under three locks, crash, recovery by another path | missing data accounted for, purged and expired data gone, reconciled data current |
| Gossip state transfer and deliver client (`gossip/state`, `internal/pkg/peer/blocksprovider`) | payloads buffer, responses, heights of the others | push, pop, commit, request, respond, time out, retry | lost, late, duplicated, reordered messages; a popped payload discarded; everyone waiting for room | each block once, in order; the peer catches up |
| Ledger provider | ledger status | create, delete | crash in between | not modelled |
| Raft membership, catch-up, eviction; follower chain, registrar | ConfState, snapshots, block puller | ConfChange, catchUp, switch roles | proposals dropped, restart in between | not modelled |
| Gossip election, dissemination; private data coordinator (transient store, pull) | leadership, membership | propose, declare, yield | races between two goroutines | not modelled |
| Endorser, chaincode runtime, VSCC, lifecycle; gateway, discovery, deliver; configuration, policies, MSP, crypto | mostly stateless or caches | | | not modelled (section 7) |

### Hazards

`PROJECT.json` lists each hazard with the line where it bites and the properties
that would catch it. The main groups are: crashes between the writes of a block;
stale in-memory flags (`isPvtstoreAheadOfBlkstore`, the cached smallest snapshot
request, `configInflight`); variables read by another goroutine; conflicts inside
one block; leadership seen late; threads that work on the private data store under
different locks; full buffers and late answers in gossip.

## 2. Modules

| Module | Models | State and actions |
|---|---|---|
| `LedgerAPI` | what the ledger promises to its users (abstract) | the log, what a query sees, the height shown; append, apply, expose, stop, truncate |
| `KVLedger` | commit path, recovery, offline commands | one variable per store, `pc` for the point reached; one action per store write, recovery step and drop; `Crash` anywhere |
| `SnapshotMgr` | the snapshot event loop, committer, callers, generators | a send and its receive are one step; each case of the loop is an operator (`onCommitStart`, ...) used by the action of its sender |
| `TxMgr` | simulation, MVCC validation, batch, commit | clients with read-write sets; `ValidateTx` is one turn of the loop in `validateAndPrepareBatch`; ghost variables `serial` and `before` hold the serial execution |
| `BlockCutter` | `Ordered`, `Cut` | pure operators on a receiver; sizes modulo `UintSize` |
| `RaftChain` | the run loop of every orderer over an abstract Raft | one record per chain; each case of the `select` is an action, and each function (`propose`, `becomeFollower`, `writeBlock`, `apply`) an operator from chain state to chain state. `cancelled` holds the channels of proposing goroutines that `becomeFollower` cancelled and that have not quit (`ProposeLate`, `QuitProposing`). Raft, abstracted from the vendored `go.etcd.io/etcd/raft/v3`, is `term`, `log`, `commit` and `match`, the entries a leader knows to be stored |
| `BlockLog` | what a block store promises (abstract) | blocks on disk, height reported; open, store, report, take back, stop, truncate |
| `BlockStore` | files, summary, index, iterators, opening, rollback, reset | one variable per piece of disk state and of memory, `pc` for the point reached; one action per write to disk; `Crash` tears the block being appended and loses the unsynced summary; `SearchFile` is one turn of the binary search for the file of a rollback's target |
| `PvtData` | private data store, private state, committer, reconciler, purger, eligibility processor, expiry preparation | a program counter per thread (`cpc`, `rpc`, `upc`, `epc`, `prep`); the locks are predicates over them; one action per batch written |
| `GossipState` | payloads buffer, delivery, anti-entropy, deliver client, against other peers and a lossy network | a record per goroutine (`deliver`, `client`, `ae`); one action per step between two shared accesses; `DiscardPayload` is the three ways in which a popped payload is dropped; `StateEnabled` says whether the anti-entropy goroutine exists |
| `KVLedgerProofs`, `TxMgrProofs`, `BlockCutterProofs`, `SnapshotMgrProofs`, `GossipStateProofs`, `RaftChainProofs`, `BlockStoreProofs`, `PvtDataProofs` | proofs about the module of that name | inductive invariants, lemmas on operators, one lemma per action, theorems |
| `MCKVLedger`, `MCSnapshotMgr`, `MCTxMgr`, `MCRaftChain`, `MCBlockStore`, `MCPvtData`, `MCGossipState` | instances for TLC | |

`KVLedger` instantiates `LedgerAPI` with a refinement mapping (`API`), and
`RaftChain` extends `BlockCutter`. `SnapshotMgr` refines the one `commit` step of
`CommitLegacy` only as far as a snapshot can see it (block store, then state DB).
`BlockStore` instantiates `BlockLog` with a refinement mapping (`Log`): the block store
that `KVLedger` writes in one step is this sequence of blocks. `PvtData` opens up the
private data store and the private part of the state DB, of which `KVLedger` keeps the
heights. `GossipState` shows what `KVLedger` takes for granted of its caller, that
blocks come one at a time and in sequence.

Abstractions of data: a block outcome is a model value; a commit hash is the
sequence of outcomes it digests; a block of the orderer is the sequence of the
contents up to it, so that equal blocks mean equal hashes; a value written by a
chaincode is the id of the chaincode; versions are pairs of block and transaction
number, as in the code. In `BlockStore` a block is its number and an offset counts
blocks. In `PvtData` there is one collection, and at most one valid transaction of a
block writes to it, so that a version is a block number and a bitmap of transactions one
bit; a key stands for its hash as well. A block may write, make the peer a member of the
collection, or both. In `GossipState` a block is its number, and a message is of the
batch being asked for or stale, since nonces are random. Operators whose name starts with `M_` are mutants: each
is a plausible bug that the property it belongs to finds.

## 3. Runs

| Run | Instance | Shows |
|---|---|---|
| `kvledger` | LevelDB, 2 outcomes, 3 blocks, the first 2 without commit hash | all ledger properties and the refinement of `LedgerAPI`; recovery and commit terminate |
| `snapshot` | 2 callers, blocks 0..2, 1 crash | safety and liveness of the snapshot protocol |
| `snapshot_crash` | 1 caller, blocks 0..2, 1 crash | finding 1 |
| `txmgr` | 3 clients, 3 keys, 2 blocks, chaincodes that read, write, delete, scan, set metadata | serializability and its companions, phantoms between and inside blocks |
| `txmgr_metadata` | 2 keys | finding 2 |
| `chain` | 3 orderers, 2 terms, 2 blocks, limit 2, 1 fault | agreement, no committed block dropped, config barrier, timer, with cancelled proposers, restarts, panics and leadership transfers |
| `blockstore` | 5 blocks in files of size 2, one block as large as a file, any number of crashes | the store opens, reads back, iterates, endorses only when rebuilt, implements `BlockLog` |
| `pvtdata` | 2 keys, 4 chains of up to 3 blocks (put, delete, purge, upgrade, upgrade with a put), block-to-live 1, 1 crash or rollback | private data properties under all interleavings of the five threads |
| `pvtdata_purge_crash` | a put and a purge, 1 crash | finding 3 |
| `gossip_state` | 2 other peers of which one grows, 6 blocks, buffer 2, batch 2, 1 retry, 1 fault, `StateEnabled = TRUE` | order, wakeups, room, catching up |
| `gossip_gap` | 2 other peers, one started from a snapshot at block 2, no fault | finding 4 |
| `gossip_buffer` | 2 other peers with all blocks, 5 blocks, buffer 1, batch 1, no fault | finding 5 |

Why the bounds are enough to be interesting. Three blocks let a DB lag behind the
block store by two (recovery in two steps), a rollback go to a block in the
middle, and the private data store be ahead by two. One snapshot crash is enough to
meet each point of the protocol, since a crash forgets everything but the
requests and the directories. Three clients and two blocks give every conflict
between a read and a write in the same block or across blocks, and a phantom between
two others. Two terms give a deposed leader that goes on proposing and a new leader
with its predecessor's uncommitted blocks in its log; two blocks give an in-flight
config block with a request behind it. A fault there is a leader that steps down, the
start of a leadership transfer, or a restart, which may lose the block being written;
one is enough to depose a leader, elect it again and let its cancelled proposer go on. Five blocks of unequal size give files with
one and two blocks, an empty last file, and a rollback into a file in the middle;
crashes are not counted there, so recovery is itself cut off any number of times. In
`pvtdata` the chains are those in which the threads meet on a key: a purge with an
upgrade behind it, an overwrite and a delete of what is being reconciled, expiry while
the data is still missing. In `gossip_state` the buffer limit (5 blocks) can be
reached with the blocks there are, a batch is smaller than the gap, and one fault is a
lost or late message, a failed verification, a popped payload that is discarded, a VSCC
failure or a restart at every point. State transfer is enabled there; `core.yaml` ships it
disabled (`gossip.state.enabled: false`) and says that a peer may then never catch up
(`core.yaml:249-255`), so `CatchesUp` is stated for `StateEnabled`, and the safety properties
are proved for both settings. `SYMMETRY` is used only in runs without liveness.

Named bounds: `MaxHeight` (KVLedger), `MaxBlock` and `MaxCrashes` (SnapshotMgr),
`MaxBlock` (TxMgr), `MaxTerm`, `MaxBlock` and `MaxFaults` (RaftChain), `MaxBlock`
(BlockStore), `MaxBlock`, `Chains` and `MaxCrashes` (PvtData), `MaxBlock`, `Heights`
and `MaxFaults` (GossipState).

Fairness. `KVLedger`: recovery and commit are straight-line code and go on unless
the process ends; nobody has to start the peer or deliver a block. `SnapshotMgr`:
a goroutine that can run does; goroutines blocked on an unbuffered Go channel are
served in the order they came, which is strong fairness for each sender; a peer
that went down is started again; no block has to arrive. `GossipState`: the delivering
and the anti-entropy goroutine go on when they can, a message that is not lost
arrives, and the other peers advertise their last height, as gossip does periodically;
nothing is assumed of gossiped blocks, of the orderer or of the deliver client.
`FairSpec` (`gossip_gap`) adds that the random choice of `selectPeerToRequestFrom` falls
on each eligible peer again and again, so that the finding does not rest on bad luck.
`TxMgr`, `BlockStore`, `PvtData` and
`RaftChain` state safety only.

## 4. Findings

1. *Stale snapshot request* (`snapshot_mgmt.go`). A crash between the rename of the
   snapshot directory and the deletion of the request is not repaired: the request
   stays the smallest one and later requests are never processed.
2. *Metadata after a delete in one block* (`validation/tx_ops.go`). The delete marker
   of the batch is taken for a value; `PutValAndMetadata` panics, again after every
   restart.
3. *Purge lost in recovery* (`lockbased_txmgr.go`, `kv_ledger.go`). A crash between block
   store and state DB: recovery deletes the hash of the purged key from the state and
   leaves the raw key with its value, because only the commit path looks the raw
   keys up.
4. *Gap in a state response* (`gossip/state/state.go`). A peer that joined by snapshot
   answers without the blocks it does not have; the asking peer goes on behind the
   last block of the answer, fills its buffer with blocks it cannot commit, and then
   waits forever for room, anti-entropy and deliver client alike.
5. *One block more than documented* (`gossip/state/state.go:772`). The limit of the payloads
   buffer is checked before a block is added, so the buffer holds up to
   `2 * StateBlockBufferSize + 1` blocks; `core.yaml:266-267` says "bounded between 0 and
   2*blockBufferSize". `BufferBounded` is the bound the code keeps.

Met while modelling and reachable in the models, without a run of their own:

- With CouchDB (`StateInLevelDB = FALSE`) `ConfigHistoryCoversState` fails: `dropDBs`
  (`drop_dbs.go:16-20`) explains why the state DB must be dropped first, but drops only a
  LevelDB one, so a rollback or reset cut off before the block store is truncated
  leaves a peer that opens with a full state DB, no config history and no bookkeeping.
- `ConfigInflightExact` of `RaftChain` fails: `becomeFollower` does not reset
  `configInflight` (`etcdraft/chain.go:690`, comment at 175); elected again, the node
  waits for a config block that nobody will propose.
- A proposing goroutine that `becomeFollower` has cancelled may still take a block from its
  channel, and Raft's `Propose` may still accept it, as both selects have two ready cases
  (`chain.go:669-685`). `chain_test.go:3169-3186` says that "the created block should be
  discarded since there is a leadership change", and `chain_test.go:2736-2738` warns of an
  "uncle block which forks and panicks chain". If the node has been elected again, two blocks
  of one number get into the log: one is dropped as a duplicate, and a block created on it
  panics every node that applies it. The ghost `late` records such a proposal.
  `LedgersAgree` and `TimerIffPending` hold all the same; `ConfigBarrier` is stated up to it,
  and of `CommittedBlocksWritten` there remains that no running node skips a number.
- `propose` can find its channel full (two batches from one request while
  `limit - 1` blocks are still queued), and a proposal dropped during a leadership
  transfer that then times out leaves `blockInflight` too high for as long as the
  node leads.
- `InfoNamesLastBlock` and `OpenNeverFails` of `BlockStore` fail with `FirstBlock > 0`:
  when the peer stops between the append of the first block after a snapshot and the
  write of the summary, `syncBlockfilesInfoFromFS` takes the number of blocks in the file
  less one for the number of the last block (`blockfile_mgr.go:214-248`), and the store
  cannot be opened. With `FirstBlock = 0` both are proved (section 5).
- A rollback returns an error, after the summary is deleted, when the binary search
  for the target's file probes an empty last file (`SearchFile`); the store still opens.
- The file `__preResetHeight` is emptied before it is written. Cut off in between,
  neither the peer (`LoadHeader`) nor the command (`RecordHeight`) gets past it.
- Races between the threads of `PvtData` are recorded in the ghost variable `raced`, and
  the properties name the ones they except: a block reconciled before its state is
  committed (`early`), a marker that replaces one the purger is about to remove
  (`marker`), reconciling while a new preparation of expiring keys has started, because
  `RemoveStaleAndCommitPvtDataOfOldBlocks` waits before it takes the lock (`prep`),
  data reconciled between the look-up of a raw key and its purge marker (`raw`), and the
  eligibility event of a block handled before that block's own data is stored (`elg`). That
  `PurgedGone` has to except `prep` too came out of its proof: the value of a key that
  missed its expiry outlives the stored data, a purge then finds no raw key to delete, and
  the value stays. It takes four blocks (put, upgrade, upgrade, purge, with block-to-live 1),
  one more than the run `pvtdata` has. `ExpiredGone` excepts `prep` for private keys only:
  key hashes expire in every interleaving.
- The race `elg`: `ValidateAndPrepare` records the event and wakes the processor
  (`lockbased_txmgr.go:195`) before the private data store has the block. When that block also
  writes to the collection, its missing data is still entered as ineligible
  (`store.go:374-381`); if the processor has scanned up to the block (`store.go:1022`) and
  deleted the event (`store.go:1059`) by then, the entry stays ineligible and is not
  reconciled, unless another event follows. `ElgEventsHandled` excepts exactly that entry.
- A payload that was popped from the buffer is discarded when its block or its private data
  cannot be decoded (`gossip/state/state.go:549-568`; `verifyBlock` does not look at the
  private data). The buffer has moved past it, so the block is not asked for again; the next
  block reaches the ledger out of sequence and the peer panics. `CommitsInOrder` and
  `CatchesUp` name this exception (`skipped`), which ends with a restart.
- A stale response uses up a retry (`TakeResponse`), and `hasRequiredHeight` accepts a peer whose height equals the number of the last block
  asked for, which that peer does not have yet.

## 5. Proofs

All theorems hold for every value of the constants that satisfies the named
assumptions (`KVLedgerAssumption`, `TxMgrAssumption`, `BlockCutterAssumption`,
`SnapshotAssumption`, `GossipStateAssumption`, `RaftChainAssumption`,
`BlockStoreAssumption`, `PvtDataAssumption`), which TLC evaluates in each run. The bounds (`MaxBlock`,
`MaxTerm`, `MaxCrashes`, `MaxFaults`) are arbitrary natural numbers there. Each
inductive invariant was checked with TLC on a small instance before it was proved, but
`SerialInv` of `TxMgr`, which quantifies over all states of the DB: TLC checks the two
properties in it. Two
hypotheses go beyond the assumptions, `AllBlocksReadable` and `FirstBlock = 0`; each is
met by the instance that TLC checks, and needed, as said below.

*KVLedger.* The properties are not inductive: that the DBs replay the block store
between two blocks says nothing about the state a crash leaves. `IInv` adds how
far each store is at every `pc` (`HeightsInv`), that every DB agrees with the block
store wherever both have a block (`AgreesWithBlocks`), that the flag
`isPvtstoreAheadOfBlkstore` is exact and `pvtHtSeen` is what it relies on
(`FlagInv`), what an offline command has dropped at each of its points
(`OfflineInv`), that the hash in memory continues the stored chain (`HashInv`), and
that config history and bookkeeping run ahead of the state DB (`CoverInv`).
`KVLedgerProofs` shows `Init => IInv`, one lemma per action, and from
`Invariance` the theorems `TypeCorrect`, `PvtDataFirst`, `HashesChained`,
`DBsAreReplays`, and under the assumption `StateInLevelDB` the theorems `NoRefusal`
and `ConfigHistoryComplete` (both are false with CouchDB: the first by design, the
second see section 4).

*Refinement.* `KVLedgerProofs` also proves `Spec => ImplementsAPI`: initial states map
to initial states; opening (directly, or with the last step of recovery) maps to
`Open`; `AddBlock` to the append, `CommitState` to `ApplyState`, `CommitHistory` to
`ExposeBlock`, a crash of an open ledger to `Stop`, the truncation to `Truncate`,
and every other step to a stutter.

*TxMgr.* `IInv` consists of the types, of what holds of clients and of the block being
validated, and of four properties that are inductive together. `BatchSerial`: the
batch merged from the valid transactions equals their serial execution; the core is
`ApplyIsSerial`, which compares `KeyOp` with the reference `Serially` key by key.
That the reads of single keys are current in the serial state (`ReadsCurrent`) needs
`BatchIsSerial`: the validator compares with the batch and the state DB. `SimulatorConsistent` needs
the write lock (`NoReaders`).

`Serializable` and `NoSpuriousConflict` compare what a transaction recorded with its
chaincode run again on the serial state, so they need to know where a read-write set
comes from. `SerialInv` adds that to `IInv`: a read-write set is what `Run` gives for its
chaincode on one state, that of the DB while simulating and one of an earlier height
afterwards (`Recorded`), and a key that the batch deletes was written by a valid
transaction of the block (`DeletedByWrite`). The argument goes over the operators.
`Scan` is the increasing enumeration of the keys in a range; `CombinedIterator` and `Run`
are recursive functions, whose recursion is shown to be well founded, and what they
compute follows from the least counterexample (`Induction`, from the well-foundedness of
the naturals; no theorem with an operator parameter is used). The merge of batch and state DB lists exactly the keys of
the serial state in the range, in order and each once (`CombinedLists`, `ListsUnique`).
Hence a range query that the validator accepts has the result it would have in its place
in the block (`ValidRangeIsCurrent`: no phantoms), and one with that result is accepted
(`CurrentRangeIsValid`). By induction over the operations of the chaincode a valid
transaction runs the same on the serial state (`ValidIsSerial`), and one found invalid
does not, unless a write in its own block is why (`ConflictIsInBatch`).

*Block cutter.* `BlockCutterProofs` proves of the operator `Ordered` what the table in
its comment says, for every message and all limits with `2 * PreferredMaxBytes`
below `2^32` (so that the 32-bit sum does not wrap): the pending batch stays within both
limits, pending is reported exactly when the batch is not empty, no answer is empty
and not pending, and two batches are never cut with messages pending.

*Snapshots.* `CommitPausedForSnapshot` needs to know who waits for whom. `IInv` says
of each phase which goroutines exist (`DownOK`, `ClientsOK`), how the committer's
position, the status the event loop keeps of it, the last block and the two heights
fit together (`CommitterOK`), and that there is at most one generator, which runs for
the last block, whose request is still stored, and has read only what belongs to it
(`GeneratorOK`). The two properties `SnapshotsConsistent` and `SmallestIsCurrent` are
part of it: the cached minimum decides whether a second generator starts. That the
request is not removed under a running generator comes from the two refusals, of a
request for a past block and of a cancellation while it is served.

*Gossip state.* `IInv` relates the buffer's `next` to the ledger's height at each point
of the delivering goroutine (`NextOK`), which gives `InOrder` and `WakeupsKept` for
any peers, any network, and state transfer enabled or not. Once a popped payload was
discarded (`skipped`) only `next >= height` is left of that relation, until a restart
makes both equal again. The bound and the draining of the buffer are about both
goroutines that wait for room: `FillInv` says that each adds blocks without a gap
(`ClientFilled`, `TransferFilled`, answers under way included), that the buffer has
no gap beyond the window left to gossip (`BufferFilled`), and that the room found
before the push is still there (`RoomFound`). It needs `AllBlocksReadable`: every other
peer has all blocks but perhaps the genesis block (`First[p] =< 1`). `gossip_state`
satisfies it; `gossip_gap`, where a peer started from a snapshot, shows that without
it a full buffer need not drain (finding 4).

*Raft chain.* `IInv` is `RaftInv /\ AnyInv /\ (late \/ ChainInv)`. `RaftInv` is about the
abstract Raft: logs with ordered terms
(`TermsOrdered`, `LeaderLast`), one leader per term that has all entries of its term
(`OneLeader`, `LeaderHasAll`), log matching, a quorum behind each term (`Voted`), what
acknowledgements mean (`Acknowledged`), that later leaders have an entry or it can no
longer be committed (`Electable`), and that a committed entry is on a quorum and in
every log of a later term (`CommitsSafe`). From it follows `Kept`: no step takes back
a committed entry. `ChainInv` is about Fabric's code over it: the ledger holds exactly
the blocks of the log up to the applied index (`Ledger`), what each role implies
(`RoleOK`), where config blocks may be between creator, channel, log and ledger
(`BarrierOK`), and the order of what is in flight (`Pipeline`). It holds until a cancelled
goroutine proposes a block (`late`). `AnyInv` holds after that as well: block j of a ledger is
the first one in the log with number j or more, and a chain that runs has passed no block
with a number beyond its ledger (`First`). That is enough for `Agreement`, which has
no exception, since `Kept` makes that first block the same one on every node, and for the
part of `AllWritten` that is left when `late` is set; `Barrier` follows from `ChainInv`, and
`TimerExact` from what `Ordered` and `Cut` leave pending (`OrderedTypes`).
The attempt to prove `Electable` showed that an earlier form of the abstract Raft, in
which a leader counted equal logs in place of acknowledgements, allows more than Raft
does with seven orderers or more; `match` corrects that.

*Block store.* `IInv` is `\E L \in Nat : Inv(L)`, where `L` is the number of blocks in the
files. On disk, at any time (`DiskOK`): the files hold blocks 0 to L - 1 in order, and
only the last may be empty or torn; the summary is absent or at most one block behind;
the index is right up to its savepoint. To that come what opening has repaired
(`OpeningOK`), the lag of summary and index before and after the append
(`BeforeAppend`, `AfterAppend`), that in a rollback the index goes first and the binary
search keeps the file of the target between `beginFile` and `endFile` (`RollbackOK`),
the same for reset, that the highest height ever reported is in the files or recorded
(`RecordOK`), and where an iterator stands (`ItrOK`). The theorems are `AlwaysOpens`,
`AllReadable`, `InSequence`, `EndorsesRebuilt`, `NamesLastBlock`, and the refinement
`StoreImplementsLog`: `LoadHeader` maps to opening, `AppendBlock` to storing,
`UpdateBlockchainInfo` to reporting, `SaveInfoFails` to taking back, a crash to stopping,
the shortening of a file to truncation, all else to a stutter. They are stated for
`FirstBlock = 0`, a store that was not imported from a snapshot: otherwise the first of
them is false (section 4).

*Private data.* Five threads under different locks: no single invariant is readable, so
`PvtDataProofs` has layers, each inductive relative to the ones before.
`Base` says where each thread stands, how the three heights follow from the committer's
position, and that lists, scans and batches name committed blocks. `Accounted` says that a
block the purger has not reached yet is in one place and that batches in flight refer to
the lists they came from; `IndexOfData`, that the index by hashed key lists what is
stored. They give `AllAccounted`. `ElgInv` says which entries an event still has to
convert (`NoEventLost`), but for the entry of the block of the event itself after the race
`elg` (`Excused`). `Markers` and `Serving` say that a reconciled batch was trimmed with
the current purge markers and that a marker goes only with the keys it hides
(`PurgedHidden`). `Versions` ties key hash and private value of a key to its last put
(`NeverOlder`). `ExpiryInv` follows a key from the schedule (`Scheduled`) through the
preparation (`Preparing`, `Prepared`) to its removal; the difficult case is a batch of the
reconciler that replaces a value in the working set. It holds as long as no data was
reconciled during a preparation (`prep`); `HashInv` is the part about key hashes and holds
always, because the reconciler unschedules no key and takes no hash out of the working set.
Together they give `ExpiredAway`. `PurgeInv` says
that the raw key of every private value can be found again, stored, in the applied batch,
or at its end anyway (`ValueKnown`), and that the look-up before a purge found it
(`RawKnown`); hence `PurgedAway`. `CompleteInv` says that what the store serves is in the
state or with the committer (`StoredApplied`), also when a marker was replaced under the
purger (`MarkerBehind`); hence `StateHasStored`. The last layers hold as long as the races
that the properties except have not happened (`NoPurgeRace`, `NoReconcileRace`), and the
properties are stated with the same exceptions: no instance is excluded by assumption.
The proofs corrected the model twice: the exception of `PurgedGone` (section 4), and two
overlapping arms of a `CASE` in `UpdateExpiryInfoOfOld`, between which TLA+ leaves the choice
open while TLC takes the first.

## 6. Only model-checked

- Liveness (`StepsTerminate`, `CommitNotBlockedForever`, `RequestsProcessed`,
  `CatchesUp`), which is outside this prover's reach.
- The bound on `blockInflight` in `TypeOK` of `RaftChain`; the proofs use their own,
  weaker types (`RaftTyped`, `Chain`).

Covered by neither a proof nor a passing run: a block store imported from a snapshot
(`FirstBlock > 0`), where the properties fail. Ledgers created from a snapshot
(`BootHeight > 0` in `KVLedger`) are covered by the proofs and not by a run.

## 7. Not modelled

In the modelled components: a disabled history DB; `CreateFromSnapshot`; shutdown of the
snapshot manager; private collections in MVCC validation (hashed reads, private
batches), Merkle summaries of range queries, rich and paginated queries, writes made
while processing config transactions; the CouchDB cache. In the block store: block
content, the index by hash and transaction id, its export and import. In private data:
boot key hashes of snapshots, data in the format of v1.1 and the list that v1.4 left
for synchronisation, private data of invalid transactions, the transient store. In
gossip: the content of private data that travels with a block, and leader election, in which `leaderElection` decides on proposals and calls
`beLeader` without the lock that `handleMessage` takes, so that a declaration of a better
peer may fall between the two. In the orderer: ConfChange and
membership, Raft snapshots and `catchUp`, `errorC`, eviction, revalidation against a
newer config sequence (a rejected message changes nothing, see `Answer`), halt. Of
`writeConfigBlock` only the path without a change of membership is modelled; the one that
proposes a ConfChange and waits for it (`chain.go:1324-1347`) is not.

Limits of the inputs: a range query of `TxMgr` takes at least one step of its iterator, so an
iterator that is opened and never advanced (`query_executor.go:421`) is not covered; in
`BlockStore` a block is at most as large as a file (`BlockStoreAssumption`), while
`blockfile_mgr.go:313` also accepts a larger one (`configtx.yaml` recommends blocks of at
most 49 MB, and a file has 64 MB).

Elsewhere: signatures, policies and configuration rules are pure functions of
signed data; gossip dissemination is statistical; gateway, discovery and deliver
only read. The map covers a small share of the repository's lines: most of them are
tooling, tests' helpers, protocol buffers glue, cryptography and services without
state of their own.

## 8. Plan

Order: the most important behaviour first.

1. (done) `KVLedger` with `LedgerAPI`; `TxMgr`; `SnapshotMgr`; `RaftChain` with
   `BlockCutter`; proofs of the first two and of `Ordered`.
2. (done) Block store internals as a refinement of the append-only sequence that
   `KVLedger` uses; gossip state transfer with lossy, duplicating delivery, which
   discharges the assumption of `KVLedger` on its caller; private data store with
   purge and reconciliation.
3. (done) Proofs of `SnapshotMgr`, `GossipState`, `RaftChain` and `BlockStore`, the last
   with its refinement of `BlockLog`.
4. (done) Proofs of `PvtData`, one layer per concern, and of `Serializable` and
   `NoSpuriousConflict` of `TxMgr`.
5. Prove the flow control of `RaftChain` that bounds `blockInflight`.
6. (done) The behaviours that need exceptions: cancelled proposers in `RaftChain`, discarded
   payloads in `GossipState`, a block with an upgrade and private writes in `PvtData`.
7. Model, where the bounds on runs allow: membership changes in `RaftChain`; the ledger
   provider; leader election.
