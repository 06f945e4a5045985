--------------------------------- MODULE TxMgr ---------------------------------
(***************************************************************************)
(* Simulation, MVCC validation and commit of transactions on one channel   *)
(* of a peer (core/ledger/kvledger/txmgmt: txmgr, validation, rwsetutil,   *)
(* statedb), for the public state of one namespace.                        *)
(*                                                                         *)
(* Clients simulate concurrently under the read lock of commitRWLock and   *)
(* obtain a read-write set; the ordering service puts the read-write sets  *)
(* into blocks, in any order and at any later time; the committer          *)
(* validates the transactions of a block one after the other and applies   *)
(* the writes of the valid ones under the write lock.                      *)
(*                                                                         *)
(* A chaincode is a sequence of ledger operations.  Keys are 1..NumKeys    *)
(* and the open end of a range ("" in the code) is NumKeys + 1.  The value *)
(* and the metadata a chaincode writes are its id; None is nil.  The       *)
(* version of a key is the pair of block number and transaction index      *)
(* that wrote it last.                                                     *)
(***************************************************************************)
EXTENDS Integers, Sequences, FiniteSets

CONSTANTS
  NumKeys,    \* keys of the namespace
  Client,     \* concurrent clients; each has one transaction at a time
  Chaincode,  \* the chaincodes: records with an id and a sequence of ops
  MaxBlock    \* bound: number of the last block

Key == 1..NumKeys

\* The ledger operations of a chaincode. A range scan calls Next n times.
Op == [op : {"get", "put", "delete", "setMeta", "deleteMeta"}, key : Key]
      \cup [op : {"range"}, start : Key, end : 1..(NumKeys + 1), n : Nat \ {0}]

ASSUME TxMgrAssumption ==
  /\ NumKeys \in Nat \ {0}
  /\ MaxBlock \in Nat
  /\ \A cc \in Chaincode : cc.id \in Nat \ {0} /\ cc.ops \in Seq(Op)

VARIABLES
  db,       \* the state DB: versioned value of each key
  height,   \* number of committed blocks, the genesis block excluded
  client,   \* what each client is doing, and its read-write set
  pc,       \* the committer: "idle", "validate", "lock", "panicked"
  block,    \* the block being committed: a sequence of clients
  codes,    \* validation codes of the transactions validated so far
  updates,  \* publicUpdates: the batch of the block, a partial function
  serial,   \* ghost: the state after executing the valid transactions in order
  before    \* ghost: serial as it was before each transaction of the block

vars == <<db, height, client, pc, block, codes, updates, serial, before>>

None == 0
NoVersion == <<0, 0>>

VersionedValue(v, m, ver) == [val |-> v, meta |-> m, ver |-> ver]
Absent == VersionedValue(None, None, NoVersion)

\* f with its value at k set to v, k in its domain or not.
Put(f, k, v) == [x \in DOMAIN f \cup {k} |-> IF x = k THEN v ELSE f[x]]

\* The function with empty domain.
EmptyMap == [k \in {} |-> None]

EmptyRWSet == [reads |-> EmptyMap, ranges |-> {}, writes |-> EmptyMap, metas |-> EmptyMap]

Init ==
  /\ db = [k \in Key |-> Absent]
  /\ height = 0
  /\ client = [c \in Client |-> [st |-> "idle"]]
  /\ pc = "idle"
  /\ block = << >> /\ codes = << >> /\ updates = EmptyMap
  /\ serial = db /\ before = << >>

-----------------------------------------------------------------------------
(* Range scans. *)

\* Keys of the set S in [start, end), in order.
Scan(S, start, end) ==
  LET found == {k \in S : start =< k /\ k < end}
  IN CHOOSE s \in UNION {[1..n -> found] : n \in 0..NumKeys} :
       /\ \A i, j \in DOMAIN s : i < j => s[i] < s[j]
       /\ \A k \in found : \E i \in DOMAIN s : s[i] = k

Present(state) == {k \in Key : state[k].val # None}

\* What resultsItr records when the chaincode calls Next n times.
RangeQueryInfo(state, start, end, n) ==
  LET found == Scan(Present(state), start, end)
      exhausted == n > Len(found)
      seen == IF exhausted THEN found ELSE SubSeq(found, 1, n)
  IN [start |-> start,
      end |-> IF exhausted THEN end ELSE seen[n],
      exhausted |-> exhausted,
      results |-> [i \in 1..Len(seen) |-> <<seen[i], state[seen[i]].ver>>]]

-----------------------------------------------------------------------------
(* Simulation: tx_simulator.go, query_executor.go and the RWSetBuilder. *)

\* The read-write set after one more operation on the given state. A simulator
\* reads the committed state only, never its own writes, and a write records no
\* read.
Executed(rw, cc, op, state) ==
  CASE op.op = "get" -> [rw EXCEPT !.reads = Put(@, op.key, state[op.key].ver)]
    [] op.op = "range" ->
         [rw EXCEPT !.ranges = @ \cup {RangeQueryInfo(state, op.start, op.end, op.n)}]
    [] op.op = "put" -> [rw EXCEPT !.writes = Put(@, op.key, cc.id)]
    [] op.op = "delete" -> [rw EXCEPT !.writes = Put(@, op.key, None)]
    [] op.op = "setMeta" -> [rw EXCEPT !.metas = Put(@, op.key, cc.id)]
    [] op.op = "deleteMeta" -> [rw EXCEPT !.metas = Put(@, op.key, None)]

\* commitRWLock.RLock: a waiting writer holds off new readers.
RLock == pc # "lock"

NewTxSimulator(c, cc) ==
  /\ client[c].st = "idle"
  /\ RLock
  /\ client' = [client EXCEPT ![c] = [st |-> "simulating", cc |-> cc, ip |-> 1,
                                      rw |-> EmptyRWSet]]
  /\ UNCHANGED <<db, height, pc, block, codes, updates, serial, before>>

Simulate(c) ==
  /\ client[c].st = "simulating"
  /\ client[c].ip =< Len(client[c].cc.ops)
  /\ LET me == client[c] IN
     client' = [client EXCEPT ![c] =
       [st |-> "simulating", cc |-> me.cc, ip |-> me.ip + 1,
        rw |-> Executed(me.rw, me.cc, me.cc.ops[me.ip], db)]]
  /\ UNCHANGED <<db, height, pc, block, codes, updates, serial, before>>

\* GetTxSimulationResults and Done; the client sends the result for ordering.
Done(c) ==
  /\ client[c].st = "simulating"
  /\ client[c].ip > Len(client[c].cc.ops)
  /\ LET me == client[c] IN
     client' = [client EXCEPT ![c] =
       [st |-> "endorsed", cc |-> me.cc, ip |-> me.ip, rw |-> me.rw]]
  /\ UNCHANGED <<db, height, pc, block, codes, updates, serial, before>>

-----------------------------------------------------------------------------
(* External: the ordering service cuts a block of endorsed transactions; a *)
(* client may also give up on its transaction.                             *)

Abandon(c) ==
  /\ client[c].st = "endorsed"
  /\ \A i \in 1..Len(block) : block[i] # c
  /\ client' = [client EXCEPT ![c] = [st |-> "idle"]]
  /\ UNCHANGED <<db, height, pc, block, codes, updates, serial, before>>

Order(txs) ==
  /\ pc = "idle"
  /\ height < MaxBlock
  /\ txs # << >>
  /\ \A i \in 1..Len(txs) : client[txs[i]].st = "endorsed"
  /\ block' = txs
  /\ codes' = << >> /\ updates' = EmptyMap
  /\ before' = << >>
  /\ pc' = "validate"
  /\ UNCHANGED <<db, height, client, serial>>

Orders == {txs \in UNION {[1..n -> Client] : n \in 1..Cardinality(Client)} :
             \A i, j \in DOMAIN txs : txs[i] = txs[j] => i = j}

-----------------------------------------------------------------------------
(* Validation: validator.go, rangequery_validator.go, combined_iterator.go. *)

validateKVRead(k, ver) == k \notin DOMAIN updates /\ db[k].ver = ver

\* updates.Get, then the state DB. A key deleted in the batch is not nil here.
Latest(k) == IF k \in DOMAIN updates THEN updates[k] ELSE db[k]

serveEndKey(k) == IF Latest(k).val = None THEN << >> ELSE <<<<k, Latest(k).ver>>>>

\* Mutant: the keys that the batch adds to the range are not merged in.
M_CombinedIterator(start, end, includeEndKey) ==
  LET D == Scan({k \in Present(db) : Latest(k).val # None}, start, end)
  IN [i \in 1..Len(D) |-> <<D[i], Latest(D[i]).ver>>]
     \o (IF includeEndKey THEN serveEndKey(end) ELSE << >>)

\* All results of the combined iterator: the keys of the state DB and of the
\* batch merged, the batch first where both have a key, deleted keys skipped,
\* then the end key if it is to be included.
CombinedIterator(start, end, includeEndKey) ==
  LET D == Scan(Present(db), start, end)
      U == Scan(DOMAIN updates, start, end)
      rest[p \in (1..(Len(D) + 1)) \X (1..(Len(U) + 1))] ==
        LET i == p[1]
            j == p[2]
            useU == j =< Len(U) /\ (i =< Len(D) => U[j] =< D[i])
            useD == i =< Len(D) /\ (j =< Len(U) => D[i] =< U[j])
            k == IF useU THEN U[j] ELSE D[i]
            vv == IF useU THEN updates[k] ELSE db[k]
            tail == rest[<<IF useD THEN i + 1 ELSE i, IF useU THEN j + 1 ELSE j>>]
        IN IF ~useU /\ ~useD
             THEN IF includeEndKey THEN serveEndKey(end) ELSE << >>
             ELSE IF vv.val = None THEN tail ELSE <<<<k, vv.ver>>>> \o tail
  IN rest[<<1, 1>>]

\* Mutant: the last key seen is left out when the iterator was not exhausted.
M_validateRangeQuery(rqi) == CombinedIterator(rqi.start, rqi.end, FALSE) = rqi.results

validateRangeQuery(rqi) ==
  CombinedIterator(rqi.start, rqi.end, ~rqi.exhausted) = rqi.results

validateTx(rw) ==
  IF \E k \in DOMAIN rw.reads : ~validateKVRead(k, rw.reads[k]) THEN "MVCC_READ_CONFLICT"
  ELSE IF \E rqi \in rw.ranges : ~validateRangeQuery(rqi) THEN "PHANTOM_READ_CONFLICT"
  ELSE "VALID"

-----------------------------------------------------------------------------
(* The writes of a valid transaction: prepareTxOps and applyWriteSet. *)

isDelete(rw, k) == k \in DOMAIN rw.writes /\ rw.writes[k] = None
isOnlyMetadata(rw, k) == k \notin DOMAIN rw.writes
isOnlyUpsert(rw, k) == k \notin DOMAIN rw.metas /\ ~isDelete(rw, k)

\* Keys that stay in txops: a metadata write to a key without latest value goes.
TxOps(rw) ==
  DOMAIN rw.writes \cup {k \in DOMAIN rw.metas : Latest(k) # Absent}

\* Mutant: an upsert drops the metadata.
M_KeyOp(rw, k, ver) ==
  IF isDelete(rw, k) THEN VersionedValue(None, None, ver)
  ELSE IF isOnlyUpsert(rw, k) THEN VersionedValue(rw.writes[k], None, ver)
  ELSE IF isOnlyMetadata(rw, k) THEN VersionedValue(Latest(k).val, rw.metas[k], ver)
  ELSE VersionedValue(rw.writes[k], rw.metas[k], ver)

KeyOp(rw, k, ver) ==
  IF isDelete(rw, k) THEN VersionedValue(None, None, ver)
  ELSE IF isOnlyUpsert(rw, k) THEN VersionedValue(rw.writes[k], Latest(k).meta, ver)
  ELSE IF isOnlyMetadata(rw, k) THEN VersionedValue(Latest(k).val, rw.metas[k], ver)
  ELSE VersionedValue(rw.writes[k], rw.metas[k], ver)

\* PutValAndMetadata panics on a nil value.
Panics(rw) ==
  \E k \in TxOps(rw) : ~isDelete(rw, k) /\ KeyOp(rw, k, NoVersion).val = None

applyWriteSet(rw, ver) ==
  updates' = [k \in DOMAIN updates \cup TxOps(rw) |->
                IF k \in TxOps(rw) THEN KeyOp(rw, k, ver) ELSE updates[k]]

\* Reference for the ghost state: one transaction executed by itself on a state.
Serially(state, rw, ver) ==
  [k \in Key |->
     IF k \in DOMAIN rw.writes
       THEN IF rw.writes[k] = None THEN Absent
            ELSE VersionedValue(rw.writes[k],
                   IF k \in DOMAIN rw.metas THEN rw.metas[k] ELSE state[k].meta, ver)
       ELSE IF k \in DOMAIN rw.metas /\ state[k] # Absent
              THEN VersionedValue(state[k].val, rw.metas[k], ver)
              ELSE state[k]]

TxHeight(i) == <<height + 1, i - 1>>

\* One turn of the loop of validateAndPrepareBatch.
ValidateTx ==
  LET i == Len(codes) + 1
      rw == client[block[i]].rw
      code == validateTx(rw)
  IN
  /\ pc = "validate"
  /\ i =< Len(block)
  /\ before' = Append(before, serial)
  /\ IF code = "VALID" /\ Panics(rw)
       THEN pc' = "panicked" /\ UNCHANGED <<codes, updates, serial>>
       ELSE /\ pc' = pc
            /\ codes' = Append(codes, code)
            /\ IF code = "VALID"
                 THEN /\ applyWriteSet(rw, TxHeight(i))
                      /\ serial' = Serially(serial, rw, TxHeight(i))
                 ELSE UNCHANGED <<updates, serial>>
  /\ UNCHANGED <<db, height, client, block>>

-----------------------------------------------------------------------------
(* Commit: the committer asks for the write lock, waits for the simulators *)
(* that run, and applies the batch.                                        *)

RequestLock ==
  /\ pc = "validate"
  /\ Len(codes) = Len(block)
  /\ pc' = "lock"
  /\ UNCHANGED <<db, height, client, block, codes, updates, serial, before>>

\* Mutant: the batch is applied while simulators read.
M_NoReaders == TRUE

NoReaders == \A c \in Client : client[c].st # "simulating"

Applied(state, batch) ==
  [k \in Key |-> IF k \notin DOMAIN batch THEN state[k]
                 ELSE IF batch[k].val = None THEN Absent ELSE batch[k]]

Commit ==
  /\ pc = "lock"
  /\ NoReaders
  /\ db' = Applied(db, updates)
  /\ height' = height + 1
  /\ client' = [c \in Client |->
                  IF \E i \in 1..Len(block) : block[i] = c THEN [st |-> "idle"] ELSE client[c]]
  /\ pc' = "idle"
  /\ block' = << >> /\ codes' = << >> /\ updates' = EmptyMap /\ before' = << >>
  /\ UNCHANGED serial

\* The process was ended by the panic; it is started again and the same block,
\* which is not in the block store yet, is delivered again.
Restart ==
  /\ pc = "panicked"
  /\ client' = [c \in Client |->
                  IF client[c].st = "simulating" THEN [st |-> "idle"] ELSE client[c]]
  /\ codes' = << >> /\ updates' = EmptyMap /\ before' = << >>
  /\ serial' = db
  /\ pc' = "validate"
  /\ UNCHANGED <<db, height, block>>

-----------------------------------------------------------------------------
Next ==
  \/ \E c \in Client, cc \in Chaincode : NewTxSimulator(c, cc)
  \/ \E c \in Client : Simulate(c) \/ Done(c) \/ Abandon(c)
  \/ \E txs \in Orders : Order(txs)
  \/ ValidateTx
  \/ RequestLock
  \/ Commit
  \/ Restart

Spec == Init /\ [][Next]_vars

-----------------------------------------------------------------------------
(* Properties. *)

Version == Nat \X Nat
VV == [val : Nat, meta : Nat, ver : Version]

\* Every variable has its type, and no version in the state DB is of a block that
\* has not been committed.
TypeOK ==
  /\ db \in [Key -> VV]
  /\ \A k \in Key : db[k].ver[1] =< height
  /\ height \in 0..MaxBlock
  /\ \A c \in Client : client[c].st \in {"idle", "simulating", "endorsed"}
  /\ pc \in {"idle", "validate", "lock", "panicked"}
  /\ Len(codes) =< Len(block)
  /\ \A i \in DOMAIN codes :
       codes[i] \in {"VALID", "MVCC_READ_CONFLICT", "PHANTOM_READ_CONFLICT"}
  /\ DOMAIN updates \subseteq Key
  /\ \A k \in DOMAIN updates : updates[k] \in VV
  /\ serial \in [Key -> VV]

\* The read-write set after each number of operations of a chaincode that runs
\* alone on a given state, and the final one of a client's chaincode.
Run(cc, state) ==
  LET run[n \in 0..Len(cc.ops)] ==
        IF n = 0 THEN EmptyRWSet ELSE Executed(run[n - 1], cc, cc.ops[n], state)
  IN run

Rerun(c, state) == Run(client[c].cc, state)[Len(client[c].cc.ops)]

\* Valid transactions are serializable in block order: a transaction found valid
\* would read the same versions, and the same keys in each range, if it were
\* executed alone on the state its valid predecessors leave. (Phantoms, write
\* skew and updates of the same block included.)
Serializable ==
  \A i \in DOMAIN codes :
    codes[i] = "VALID" => Rerun(block[i], before[i]) = client[block[i]].rw

\* What it means for single keys, used in the proofs only: each version a valid
\* transaction has read is the one it would read in its place in the block.
ReadsCurrent ==
  \A i \in DOMAIN codes :
    codes[i] = "VALID" =>
      \A k \in DOMAIN client[block[i]].rw.reads :
        client[block[i]].rw.reads[k] = before[i][k].ver

\* The batch applied to the state DB is the serial execution of the valid
\* transactions: values, metadata and versions.
BatchIsSerial == pc \in {"idle", "validate", "lock"} => Applied(db, updates) = serial

\* A transaction is invalidated only for a reason: it would read something else,
\* or a valid transaction before it in the block wrote a key it read.
NoSpuriousConflict ==
  \A i \in DOMAIN codes :
    codes[i] # "VALID" =>
      \/ Rerun(block[i], before[i]) # client[block[i]].rw
      \/ \E j \in 1..(i - 1), k \in DOMAIN client[block[i]].rw.reads :
           codes[j] = "VALID" /\ k \in DOMAIN client[block[j]].rw.writes

\* Simulators read one committed height: nothing they have read changes while
\* they run.
SimulatorSeesOneState ==
  \A c \in Client :
    client[c].st = "simulating" =>
      \A k \in DOMAIN client[c].rw.reads : client[c].rw.reads[k] = db[k].ver

\* A metadata write to a key without latest value is a no-op, whatever a
\* transaction before it in the block did. (prepareTxOps: "If the key does not
\* exist in the last state, make this key as noop in current transaction")
MetadataOfMissingKeyIsNoop == pc # "panicked"

-----------------------------------------------------------------------------
(* The inductive invariant behind TypeOK, BatchIsSerial, ReadsCurrent and  *)
(* SimulatorSeesOneState.                                                  *)

RWSetOK(rw) ==
  /\ DOMAIN rw = {"reads", "ranges", "writes", "metas"}
  /\ DOMAIN rw.reads \subseteq Key
  /\ DOMAIN rw.writes \subseteq Key /\ \A k \in DOMAIN rw.writes : rw.writes[k] \in Nat
  /\ DOMAIN rw.metas \subseteq Key /\ \A k \in DOMAIN rw.metas : rw.metas[k] \in Nat

ClientsOK ==
  /\ DOMAIN client = Client
  /\ \A c \in Client :
       client[c].st # "idle" =>
         /\ client[c].cc \in Chaincode
         /\ client[c].ip \in Nat \ {0}
         /\ RWSetOK(client[c].rw)

\* The transactions of the block stay as endorsed until it is committed.
BlockOK ==
  /\ block \in Seq(Client)
  /\ codes \in Seq({"VALID", "MVCC_READ_CONFLICT", "PHANTOM_READ_CONFLICT"})
  /\ before \in Seq([Key -> VV])
  /\ \A i \in 1..Len(block) : client[block[i]].st = "endorsed"
  /\ Len(before) = IF pc = "panicked" THEN Len(codes) + 1 ELSE Len(codes)
  /\ pc # "idle" => height < MaxBlock
  /\ pc = "idle" => block = << >> /\ updates = EmptyMap

\* A batch entry is of the block being validated; a delete keeps no metadata.
UpdatesOK ==
  \A k \in DOMAIN updates :
    /\ updates[k].ver[1] = height + 1
    /\ updates[k].val = None => updates[k].meta = None

IInv ==
  /\ TypeOK
  /\ ClientsOK
  /\ BlockOK
  /\ UpdatesOK
  /\ BatchIsSerial
  /\ ReadsCurrent
  /\ SimulatorSeesOneState
=============================================================================
