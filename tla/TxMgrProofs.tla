------------------------------ MODULE TxMgrProofs ------------------------------
(***************************************************************************)
(* Proofs about TxMgr for every number of keys, set of clients and set of  *)
(* chaincodes: a block is applied to the state DB as the serial execution  *)
(* of its valid transactions, the versions a valid transaction read are    *)
(* current in its place in the block, a simulator reads one state, valid   *)
(* transactions are serializable in block order, range queries included,   *)
(* and no transaction is invalidated without a reason.                     *)
(***************************************************************************)
EXTENDS TxMgr, SequenceTheorems, WellFoundedInduction, TLAPS

ValidationCode == {"VALID", "MVCC_READ_CONFLICT", "PHANTOM_READ_CONFLICT"}

\* The versioned value of a key that is not in the state DB is one.
LEMMA AbsentVV == Absent \in VV
<1>1. NoVersion \in Version
  BY DEF NoVersion, Version
<1> QED
  BY <1>1 DEF Absent, VV, VersionedValue, None

\* The initial state of the transaction manager satisfies the invariant.
LEMMA InitIInv == Init => IInv
<1> SUFFICES ASSUME Init PROVE IInv
  OBVIOUS
<1> USE TxMgrAssumption DEF Init
<1>1. Absent \in VV
  BY AbsentVV
<1>2. TypeOK
  <2>1. db \in [Key -> VV] /\ serial \in [Key -> VV]
    BY <1>1
  <2>2. \A k \in Key : db[k].ver[1] =< height
    BY DEF Absent, VersionedValue, NoVersion
  <2>3. DOMAIN updates = {} /\ DOMAIN codes = {}
    BY DEF EmptyMap
  <2> QED
    BY <2>1, <2>2, <2>3 DEF TypeOK
<1>3. ClientsOK /\ SimulatorSeesOneState
  BY DEF ClientsOK, SimulatorSeesOneState
<1>4. BlockOK
  BY DEF BlockOK
<1>5. UpdatesOK /\ ReadsCurrent
  BY DEF UpdatesOK, ReadsCurrent, EmptyMap
<1>6. BatchIsSerial
  BY DEF BatchIsSerial, Applied, EmptyMap
<1> QED
  BY <1>2, <1>3, <1>4, <1>5, <1>6 DEF IInv

\* Executing one operation keeps a read-write set well formed.
LEMMA ExecutedOK ==
  ASSUME NEW rw, RWSetOK(rw), NEW cc \in Chaincode, NEW op \in Op, NEW state
  PROVE  RWSetOK(Executed(rw, cc, op, state))
<1> USE TxMgrAssumption DEF RWSetOK, Executed, Put
<1>1. cc.id \in Nat
  OBVIOUS
<1>2. CASE op.op = "get"
  BY <1>2 DEF Op
<1>3. CASE op.op = "range"
  BY <1>3
<1>4. CASE op.op = "put"
  BY <1>1, <1>4 DEF Op
<1>5. CASE op.op = "delete"
  BY <1>5 DEF Op, None
<1>6. CASE op.op = "setMeta"
  BY <1>1, <1>6 DEF Op
<1>7. CASE op.op = "deleteMeta"
  BY <1>7 DEF Op, None
<1> QED
  BY <1>2, <1>3, <1>4, <1>5, <1>6, <1>7 DEF Op

\* Executing one operation adds to the reads of a simulator at most the current
\* version of a key.
LEMMA ExecutedReads ==
  ASSUME NEW rw, RWSetOK(rw), NEW cc \in Chaincode, NEW op \in Op, NEW state,
         \A k \in DOMAIN rw.reads : rw.reads[k] = state[k].ver
  PROVE  \A k \in DOMAIN Executed(rw, cc, op, state).reads :
           Executed(rw, cc, op, state).reads[k] = state[k].ver
<1> USE DEF RWSetOK, Executed, Put
<1>1. CASE op.op = "get"
  BY <1>1
<1>2. CASE op.op = "range"
  BY <1>2
<1>3. CASE op.op \in {"put", "delete"}
  BY <1>3
<1>4. CASE op.op \in {"setMeta", "deleteMeta"}
  BY <1>4
<1> QED
  BY <1>1, <1>2, <1>3, <1>4 DEF Op

\* A step of one client whose transaction is not in the block being committed
\* keeps the invariant, when what the client becomes is well formed and, if it
\* simulates, has read current versions.
LEMMA ClientStep ==
  ASSUME IInv, NEW c \in Client, NEW s,
         client' = [client EXCEPT ![c] = s],
         UNCHANGED <<db, height, pc, block, codes, updates, serial, before>>,
         client[c].st # "endorsed" \/ \A i \in 1..Len(block) : block[i] # c,
         s.st \in {"idle", "simulating", "endorsed"},
         s.st # "idle" =>
           s.cc \in Chaincode /\ s.ip \in Nat \ {0} /\ RWSetOK(s.rw),
         s.st = "simulating" =>
           \A k \in DOMAIN s.rw.reads : s.rw.reads[k] = db[k].ver
  PROVE  IInv'
<1> USE DEF IInv
<1>1. /\ \A d \in Client : client'[d] = IF d = c THEN s ELSE client[d]
      /\ DOMAIN client' = Client
  BY DEF ClientsOK
<1>2. \A i \in 1..Len(block) : block[i] \in Client /\ client'[block[i]] = client[block[i]]
  BY <1>1 DEF BlockOK
<1>3. TypeOK'
  BY <1>1 DEF TypeOK
<1>4. ClientsOK'
  BY <1>1 DEF ClientsOK, RWSetOK
<1>5. BlockOK'
  BY <1>2 DEF BlockOK
<1>6. UpdatesOK' /\ BatchIsSerial'
  BY DEF UpdatesOK, BatchIsSerial, Applied
<1>7. ReadsCurrent'
  <2>1. DOMAIN codes \subseteq 1..Len(block)
    BY DEF TypeOK, BlockOK
  <2> QED
    BY <1>2, <2>1 DEF ReadsCurrent
<1>8. SimulatorSeesOneState'
  BY <1>1 DEF SimulatorSeesOneState
<1> QED
  BY <1>3, <1>4, <1>5, <1>6, <1>7, <1>8

\* Starting a simulator, executing one of its operations, ending it and giving
\* up an endorsed transaction keep the invariant.
LEMMA ClientActions ==
  ASSUME IInv, NEW c \in Client,
         \/ \E cc \in Chaincode : NewTxSimulator(c, cc)
         \/ Simulate(c) \/ Done(c) \/ Abandon(c)
  PROVE  IInv'
<1>1. CASE \E cc \in Chaincode : NewTxSimulator(c, cc)
  <2> PICK cc \in Chaincode : NewTxSimulator(c, cc)
    BY <1>1
  <2> DEFINE s == [st |-> "simulating", cc |-> cc, ip |-> 1, rw |-> EmptyRWSet]
  <2>1. RWSetOK(EmptyRWSet) /\ DOMAIN EmptyRWSet.reads = {}
    BY DEF RWSetOK, EmptyRWSet, EmptyMap
  <2>2. /\ s.st = "simulating" /\ s.cc \in Chaincode /\ s.ip \in Nat \ {0}
        /\ s.rw = EmptyRWSet
    OBVIOUS
  <2>3. /\ client[c].st = "idle" /\ client' = [client EXCEPT ![c] = s]
        /\ UNCHANGED <<db, height, pc, block, codes, updates, serial, before>>
    BY DEF NewTxSimulator
  <2> HIDE DEF s
  <2> QED
    BY <2>1, <2>2, <2>3, ClientStep
<1>2. CASE Simulate(c)
  <2> DEFINE me == client[c]
             op == me.cc.ops[me.ip]
             rw == Executed(me.rw, me.cc, op, db)
             s == [st |-> "simulating", cc |-> me.cc, ip |-> me.ip + 1, rw |-> rw]
  <2>1. me.cc \in Chaincode /\ me.ip \in Nat \ {0} /\ RWSetOK(me.rw)
    BY <1>2 DEF IInv, ClientsOK, Simulate
  <2>2. op \in Op
    <3>1. me.cc.ops \in Seq(Op) /\ me.ip \in 1..Len(me.cc.ops)
      BY <1>2, <2>1, TxMgrAssumption DEF Simulate
    <3> QED
      BY <3>1
  <2>3. \A k \in DOMAIN me.rw.reads : me.rw.reads[k] = db[k].ver
    BY <1>2 DEF IInv, SimulatorSeesOneState, Simulate
  <2>4. /\ client[c].st = "simulating" /\ client' = [client EXCEPT ![c] = s]
        /\ UNCHANGED <<db, height, pc, block, codes, updates, serial, before>>
    BY <1>2 DEF Simulate
  <2> HIDE DEF op
  <2>5. RWSetOK(rw) /\ \A k \in DOMAIN rw.reads : rw.reads[k] = db[k].ver
    BY <2>1, <2>2, <2>3, ExecutedOK, ExecutedReads
  <2> HIDE DEF rw
  <2>6. /\ s.st = "simulating" /\ s.cc \in Chaincode /\ s.ip \in Nat \ {0}
        /\ s.rw = rw
    BY <2>1
  <2> HIDE DEF s
  <2> QED
    BY <2>4, <2>5, <2>6, ClientStep
<1>3. CASE Done(c)
  <2> DEFINE me == client[c]
             s == [st |-> "endorsed", cc |-> me.cc, ip |-> me.ip, rw |-> me.rw]
  <2>1. me.cc \in Chaincode /\ me.ip \in Nat \ {0} /\ RWSetOK(me.rw)
    BY <1>3 DEF IInv, ClientsOK, Done
  <2>2. /\ s.st = "endorsed" /\ s.cc \in Chaincode /\ s.ip \in Nat \ {0}
        /\ RWSetOK(s.rw)
    BY <2>1
  <2>3. /\ client[c].st = "simulating" /\ client' = [client EXCEPT ![c] = s]
        /\ UNCHANGED <<db, height, pc, block, codes, updates, serial, before>>
    BY <1>3 DEF Done
  <2> HIDE DEF s
  <2> QED
    BY <2>2, <2>3, ClientStep
<1>4. CASE Abandon(c)
  <2> DEFINE s == [st |-> "idle"]
  <2>1. s.st = "idle"
    OBVIOUS
  <2>2. /\ \A i \in 1..Len(block) : block[i] # c
        /\ client' = [client EXCEPT ![c] = s]
        /\ UNCHANGED <<db, height, pc, block, codes, updates, serial, before>>
    BY <1>4 DEF Abandon
  <2> HIDE DEF s
  <2> QED
    BY <2>1, <2>2, ClientStep
<1> QED
  BY <1>1, <1>2, <1>3, <1>4

\* What the batch holds for a key after applying a valid transaction's writes is
\* typed, belongs to the block, and keeps no metadata of a deleted key.
LEMMA KeyOpOK ==
  ASSUME IInv, NEW rw, RWSetOK(rw), ~Panics(rw), NEW k \in TxOps(rw), NEW i \in Nat \ {0}
  PROVE  /\ k \in Key
         /\ KeyOp(rw, k, TxHeight(i)) \in VV
         /\ KeyOp(rw, k, TxHeight(i)).ver[1] = height + 1
         /\ KeyOp(rw, k, TxHeight(i)).val = None =>
              isDelete(rw, k) /\ KeyOp(rw, k, TxHeight(i)).meta = None
<1> DEFINE ver == TxHeight(i)
<1>1. k \in Key /\ (k \in DOMAIN rw.writes \/ k \in DOMAIN rw.metas)
  BY DEF RWSetOK, TxOps
<1>2. ver \in Version /\ ver[1] = height + 1
  BY DEF IInv, TypeOK, TxHeight, Version
<1>3. Latest(k) \in VV
  BY <1>1 DEF IInv, TypeOK, Latest
<1> HIDE DEF ver
<1>4. KeyOp(rw, k, ver) \in VV /\ KeyOp(rw, k, ver).ver = ver
  <2>1. CASE isDelete(rw, k)
    BY <1>2, <2>1 DEF KeyOp, VersionedValue, VV, None
  <2>2. CASE ~isDelete(rw, k) /\ isOnlyUpsert(rw, k)
    <3>1. rw.writes[k] \in Nat /\ Latest(k).meta \in Nat
      BY <1>1, <1>3, <2>2 DEF isOnlyUpsert, RWSetOK, VV
    <3> QED
      BY <1>2, <2>2, <3>1 DEF KeyOp, VersionedValue, VV
  <2>3. CASE ~isDelete(rw, k) /\ ~isOnlyUpsert(rw, k) /\ isOnlyMetadata(rw, k)
    <3>1. rw.metas[k] \in Nat /\ Latest(k).val \in Nat
      BY <1>1, <1>3, <2>3 DEF isOnlyMetadata, RWSetOK, VV
    <3> QED
      BY <1>2, <2>3, <3>1 DEF KeyOp, VersionedValue, VV
  <2>4. CASE ~isDelete(rw, k) /\ ~isOnlyUpsert(rw, k) /\ ~isOnlyMetadata(rw, k)
    <3>1. rw.metas[k] \in Nat /\ rw.writes[k] \in Nat
      BY <1>1, <2>4 DEF isOnlyMetadata, isOnlyUpsert, RWSetOK
    <3> QED
      BY <1>2, <2>4, <3>1 DEF KeyOp, VersionedValue, VV
  <2> QED
    BY <2>1, <2>2, <2>3, <2>4
<1>5. KeyOp(rw, k, ver).val = KeyOp(rw, k, NoVersion).val
  BY DEF KeyOp, VersionedValue
<1>6. KeyOp(rw, k, ver).val = None => isDelete(rw, k)
  BY <1>5 DEF Panics
<1>7. isDelete(rw, k) => KeyOp(rw, k, ver).meta = None
  BY DEF KeyOp, VersionedValue
<1> QED
  BY <1>1, <1>2, <1>4, <1>6, <1>7 DEF ver

\* Applying the batch after one more valid transaction is executing that
\* transaction on the state the batch gave before: the heart of BatchIsSerial.
LEMMA ApplyIsSerial ==
  ASSUME IInv, NEW rw, RWSetOK(rw), ~Panics(rw), NEW ver,
         NEW batch,
         batch = [k \in DOMAIN updates \cup TxOps(rw) |->
                    IF k \in TxOps(rw) THEN KeyOp(rw, k, ver) ELSE updates[k]],
         \A k \in TxOps(rw) : KeyOp(rw, k, ver).val = None => isDelete(rw, k),
         serial = Applied(db, updates)
  PROVE  Applied(db, batch) = Serially(serial, rw, ver)
<1> SUFFICES ASSUME NEW k \in Key
             PROVE  Applied(db, batch)[k] = Serially(serial, rw, ver)[k]
  BY DEF Applied, Serially
<1>1. serial[k] = IF k \notin DOMAIN updates THEN db[k]
                  ELSE IF updates[k].val = None THEN Absent ELSE updates[k]
  BY DEF Applied
<1>2. Applied(db, batch)[k] =
        IF k \in TxOps(rw)
          THEN IF KeyOp(rw, k, ver).val = None THEN Absent ELSE KeyOp(rw, k, ver)
          ELSE serial[k]
  BY <1>1 DEF Applied
<1>3. k \in DOMAIN updates => (updates[k].val = None => updates[k].meta = None)
  BY DEF IInv, UpdatesOK
<1>4. Latest(k).meta = serial[k].meta
  BY <1>1, <1>3 DEF Latest, Absent, VersionedValue, None
<1>5. Latest(k).val # None => Latest(k) = serial[k]
  BY <1>1 DEF Latest
<1>6. CASE k \in DOMAIN rw.writes /\ rw.writes[k] = None
  <2>1. k \in TxOps(rw) /\ isDelete(rw, k) /\ KeyOp(rw, k, ver).val = None
    BY <1>6 DEF TxOps, isDelete, KeyOp, VersionedValue
  <2>2. Serially(serial, rw, ver)[k] = Absent
    BY <1>6 DEF Serially
  <2> QED
    BY <1>2, <2>1, <2>2
<1>7. CASE k \in DOMAIN rw.writes /\ rw.writes[k] # None
  <2>1. k \in TxOps(rw) /\ ~isDelete(rw, k) /\ ~isOnlyMetadata(rw, k)
    BY <1>7 DEF TxOps, isDelete, isOnlyMetadata
  <2>2. KeyOp(rw, k, ver) =
          VersionedValue(rw.writes[k],
            IF k \in DOMAIN rw.metas THEN rw.metas[k] ELSE serial[k].meta, ver)
    BY <1>4, <2>1 DEF KeyOp, isOnlyUpsert
  <2>3. Serially(serial, rw, ver)[k] = KeyOp(rw, k, ver)
    BY <1>7, <2>2 DEF Serially
  <2>4. KeyOp(rw, k, ver).val # None
    BY <2>1
  <2> QED
    BY <1>2, <2>1, <2>3, <2>4
<1>8. CASE k \notin DOMAIN rw.writes /\ k \in DOMAIN rw.metas /\ k \in TxOps(rw)
  <2>1. ~isDelete(rw, k) /\ ~isOnlyUpsert(rw, k) /\ isOnlyMetadata(rw, k)
    BY <1>8 DEF isDelete, isOnlyUpsert, isOnlyMetadata
  <2>2. KeyOp(rw, k, ver) = VersionedValue(Latest(k).val, rw.metas[k], ver)
    BY <2>1 DEF KeyOp
  <2>3. KeyOp(rw, k, ver).val # None
    BY <1>8, <2>1
  <2>4. Latest(k).val # None
    BY <2>2, <2>3 DEF VersionedValue
  <2>5. Latest(k) = serial[k] /\ serial[k] # Absent
    BY <1>5, <2>4 DEF Absent, VersionedValue
  <2>6. Serially(serial, rw, ver)[k] = KeyOp(rw, k, ver)
    BY <1>8, <2>2, <2>5 DEF Serially
  <2> QED
    BY <1>2, <1>8, <2>3, <2>6
<1>9. CASE k \notin DOMAIN rw.writes /\ k \in DOMAIN rw.metas /\ k \notin TxOps(rw)
  <2>1. Latest(k) = Absent
    BY <1>9 DEF TxOps
  <2>2. serial[k] = Absent
    BY <1>1, <2>1 DEF Latest
  <2>3. Serially(serial, rw, ver)[k] = serial[k]
    BY <1>9, <2>2 DEF Serially
  <2> QED
    BY <1>2, <1>9, <2>3
<1>10. CASE k \notin DOMAIN rw.writes /\ k \notin DOMAIN rw.metas
  <2>1. k \notin TxOps(rw) /\ Serially(serial, rw, ver)[k] = serial[k]
    BY <1>10 DEF TxOps, Serially
  <2> QED
    BY <1>2, <2>1
<1> QED
  BY <1>6, <1>7, <1>8, <1>9, <1>10

\* Serial execution and application of a batch give typed states.
LEMMA AppliedType ==
  ASSUME IInv PROVE Applied(db, updates) \in [Key -> VV]
BY AbsentVV DEF Applied, IInv, TypeOK

\* Validating one transaction of the block keeps the invariant: the code appended,
\* the batch extended, or the panic of PutValAndMetadata.
LEMMA ValidateTxIInv ==
  ASSUME IInv, ValidateTx PROVE IInv'
<1> DEFINE i == Len(codes) + 1
           rw == client[block[i]].rw
           code == validateTx(rw)
           ver == TxHeight(i)
<1>1. /\ pc = "validate" /\ i =< Len(block)
      /\ before' = Append(before, serial)
      /\ UNCHANGED <<db, height, client, block>>
  BY DEF ValidateTx
<1>2. /\ block \in Seq(Client) /\ codes \in Seq(ValidationCode)
      /\ before \in Seq([Key -> VV]) /\ Len(before) = Len(codes)
      /\ height < MaxBlock
  BY <1>1 DEF IInv, BlockOK, ValidationCode
<1>3. i \in 1..Len(block) /\ i \in Nat \ {0}
  BY <1>1, <1>2
<1>4. block[i] \in Client /\ client[block[i]].st = "endorsed" /\ RWSetOK(rw)
  BY <1>2, <1>3 DEF IInv, BlockOK, ClientsOK
<1>5. serial = Applied(db, updates) /\ serial \in [Key -> VV]
  BY <1>1, AppliedType DEF IInv, BatchIsSerial
<1>6. /\ before' \in Seq([Key -> VV]) /\ Len(before') = Len(codes) + 1
      /\ before'[i] = serial /\ \A j \in DOMAIN codes : before'[j] = before[j]
  BY <1>1, <1>2, <1>5
<1>7. ClientsOK' /\ SimulatorSeesOneState'
  BY <1>1 DEF IInv, ClientsOK, RWSetOK, SimulatorSeesOneState
<1>8. CASE code = "VALID" /\ Panics(rw)
  <2>1. pc' = "panicked" /\ UNCHANGED <<codes, updates, serial>>
    BY <1>8 DEF ValidateTx
  <2>2. TypeOK' /\ UpdatesOK'
    BY <1>1, <2>1 DEF IInv, TypeOK, UpdatesOK
  <2>3. BlockOK'
    BY <1>1, <1>2, <1>6, <2>1 DEF IInv, BlockOK
  <2>4. BatchIsSerial'
    BY <2>1 DEF BatchIsSerial
  <2>5. ReadsCurrent'
    BY <1>1, <1>6, <2>1 DEF IInv, ReadsCurrent
  <2> QED
    BY <1>7, <2>2, <2>3, <2>4, <2>5 DEF IInv
<1>9. CASE ~(code = "VALID" /\ Panics(rw))
  <2>1. /\ pc' = pc /\ codes' = Append(codes, code)
        /\ IF code = "VALID" THEN applyWriteSet(rw, ver) /\ serial' = Serially(serial, rw, ver)
                            ELSE UNCHANGED <<updates, serial>>
    BY <1>9 DEF ValidateTx
  <2>2. code \in ValidationCode
    BY DEF validateTx, ValidationCode
  <2> HIDE DEF code
  <2>3. /\ codes' \in Seq(ValidationCode) /\ Len(codes') = i
        /\ codes'[i] = code /\ \A j \in DOMAIN codes : codes'[j] = codes[j]
        /\ DOMAIN codes' = DOMAIN codes \cup {i}
    BY <1>2, <2>1, <2>2
  <2>4. BlockOK'
    BY <1>1, <1>2, <1>6, <2>1, <2>3 DEF IInv, BlockOK, ValidationCode
  <2>5. UpdatesOK' /\ BatchIsSerial' /\ DOMAIN updates' \subseteq Key
        /\ (\A k \in DOMAIN updates' : updates'[k] \in VV) /\ serial' \in [Key -> VV]
    <3>1. CASE code = "VALID"
      <4>1. ~Panics(rw)
        BY <1>9, <3>1
      <4>2. \A k \in TxOps(rw) :
              /\ k \in Key /\ KeyOp(rw, k, ver) \in VV
              /\ KeyOp(rw, k, ver).ver[1] = height + 1
              /\ KeyOp(rw, k, ver).val = None =>
                   isDelete(rw, k) /\ KeyOp(rw, k, ver).meta = None
        BY <1>3, <1>4, <4>1, KeyOpOK
      <4>3. updates' = [k \in DOMAIN updates \cup TxOps(rw) |->
                          IF k \in TxOps(rw) THEN KeyOp(rw, k, ver) ELSE updates[k]]
        BY <2>1, <3>1 DEF applyWriteSet
      <4>4. serial' = Serially(serial, rw, ver)
        BY <2>1, <3>1
      <4> HIDE DEF ver, rw, i
      <4>5. Applied(db, updates') = serial'
        BY <1>4, <1>5, <4>1, <4>2, <4>3, <4>4, ApplyIsSerial
      <4>6. DOMAIN updates' \subseteq Key /\ \A k \in DOMAIN updates' : updates'[k] \in VV
        BY <4>2, <4>3 DEF IInv, TypeOK
      <4>7. UpdatesOK'
        BY <1>1, <4>2, <4>3 DEF IInv, UpdatesOK
      <4>8. Applied(db, updates') \in [Key -> VV]
        BY <4>6, AbsentVV DEF Applied, IInv, TypeOK
      <4>9. BatchIsSerial'
        BY <1>1, <4>5 DEF BatchIsSerial, Applied
      <4> QED
        BY <4>5, <4>6, <4>7, <4>8, <4>9
    <3>2. CASE code # "VALID"
      BY <1>1, <1>5, <2>1, <3>2 DEF IInv, TypeOK, UpdatesOK, BatchIsSerial, Applied
    <3> QED
      BY <3>1, <3>2
  <2>6. TypeOK'
    BY <1>1, <1>3, <2>1, <2>3, <2>5 DEF IInv, TypeOK, ValidationCode
  <2>7. ReadsCurrent'
    <3>1. ASSUME code = "VALID", NEW k \in DOMAIN rw.reads
          PROVE  rw.reads[k] = serial[k].ver
      <4>1. k \in Key
        BY <1>4 DEF RWSetOK
      <4>2. k \notin DOMAIN updates /\ db[k].ver = rw.reads[k]
        BY <3>1 DEF code, validateTx, validateKVRead
      <4> QED
        BY <1>5, <4>1, <4>2 DEF Applied
    <3>2. SUFFICES ASSUME NEW j \in DOMAIN codes', codes'[j] = "VALID",
                          NEW k \in DOMAIN client[block[j]].rw.reads
                   PROVE  client[block[j]].rw.reads[k] = before'[j][k].ver
      BY <1>1 DEF ReadsCurrent
    <3>3. CASE j = i
      BY <1>6, <2>3, <3>1, <3>2, <3>3
    <3>4. CASE j \in DOMAIN codes
      BY <1>6, <2>3, <3>2, <3>4 DEF IInv, ReadsCurrent
    <3> QED
      BY <2>3, <3>3, <3>4
  <2> QED
    BY <1>7, <2>4, <2>5, <2>6, <2>7 DEF IInv
<1> QED
  BY <1>8, <1>9

\* Receiving a block keeps the invariant.
LEMMA OrderIInv ==
  ASSUME IInv, NEW txs \in Orders, Order(txs) PROVE IInv'
<1>1. txs \in Seq(Client)
  BY DEF Orders
<1>2. /\ pc = "idle" /\ pc' = "validate" /\ height < MaxBlock
      /\ \A i \in 1..Len(txs) : client[txs[i]].st = "endorsed"
      /\ block' = txs /\ codes' = << >> /\ updates' = EmptyMap /\ before' = << >>
      /\ UNCHANGED <<db, height, client, serial>>
  BY DEF Order
<1>3. DOMAIN updates' = {} /\ DOMAIN codes' = {} /\ updates = EmptyMap
  BY <1>2 DEF EmptyMap, IInv, BlockOK
<1>4. ClientsOK' /\ SimulatorSeesOneState' /\ UpdatesOK' /\ ReadsCurrent'
  BY <1>2, <1>3 DEF IInv, ClientsOK, RWSetOK, SimulatorSeesOneState, UpdatesOK, ReadsCurrent
<1>5. BatchIsSerial'
  BY <1>2, <1>3 DEF IInv, BatchIsSerial, Applied
<1>6. BlockOK'
  BY <1>1, <1>2 DEF BlockOK
<1>7. TypeOK'
  BY <1>1, <1>2, <1>3 DEF IInv, TypeOK
<1> QED
  BY <1>4, <1>5, <1>6, <1>7 DEF IInv

\* Asking for the write lock keeps the invariant.
LEMMA RequestLockIInv ==
  ASSUME IInv, RequestLock PROVE IInv'
<1>1. TypeOK' /\ ClientsOK' /\ BlockOK'
  BY DEF IInv, RequestLock, TypeOK, ClientsOK, RWSetOK, BlockOK
<1>2. UpdatesOK' /\ BatchIsSerial' /\ ReadsCurrent' /\ SimulatorSeesOneState'
  BY DEF IInv, RequestLock, UpdatesOK, BatchIsSerial, Applied, ReadsCurrent,
         SimulatorSeesOneState
<1> QED
  BY <1>1, <1>2 DEF IInv

\* Applying the batch under the write lock keeps the invariant.
LEMMA CommitIInv ==
  ASSUME IInv, Commit PROVE IInv'
<1>1. /\ pc = "lock" /\ pc' = "idle" /\ NoReaders
      /\ db' = Applied(db, updates) /\ height' = height + 1 /\ serial' = serial
      /\ block' = << >> /\ codes' = << >> /\ updates' = EmptyMap /\ before' = << >>
  BY DEF Commit
<1>2. /\ DOMAIN client' = Client
      /\ \A c \in Client : client'[c] = [st |-> "idle"] \/ client'[c] = client[c]
  BY DEF Commit
<1>3. DOMAIN updates' = {} /\ DOMAIN codes' = {}
  BY <1>1 DEF EmptyMap
<1>4. db' \in [Key -> VV] /\ serial' = db'
  BY <1>1, AppliedType DEF IInv, BatchIsSerial
<1>5. height' \in 0..MaxBlock /\ height \in Nat
  BY <1>1, TxMgrAssumption DEF IInv, BlockOK, TypeOK
<1>6. \A k \in Key : db'[k].ver[1] =< height'
  <2> SUFFICES ASSUME NEW k \in Key PROVE db'[k].ver[1] =< height'
    OBVIOUS
  <2>1. CASE k \notin DOMAIN updates
    <3>1. db'[k] = db[k]
      BY <1>1, <2>1 DEF Applied
    <3>2. db[k] \in VV /\ db[k].ver[1] =< height /\ db[k].ver[1] \in Nat
      BY DEF IInv, TypeOK, VV, Version
    <3> QED
      BY <1>1, <1>5, <3>1, <3>2
  <2>2. CASE k \in DOMAIN updates /\ updates[k].val = None
    BY <1>1, <1>5, <2>2 DEF Applied, Absent, VersionedValue, NoVersion
  <2>3. CASE k \in DOMAIN updates /\ updates[k].val # None
    BY <1>1, <1>5, <2>3 DEF Applied, IInv, UpdatesOK
  <2> QED
    BY <2>1, <2>2, <2>3
<1>7. TypeOK'
  BY <1>1, <1>2, <1>3, <1>4, <1>5, <1>6 DEF IInv, TypeOK
<1>8. ClientsOK'
  BY <1>2 DEF IInv, ClientsOK, RWSetOK
<1>9. BlockOK' /\ UpdatesOK' /\ ReadsCurrent'
  BY <1>1, <1>3 DEF BlockOK, UpdatesOK, ReadsCurrent
<1>10. BatchIsSerial'
  BY <1>3, <1>4 DEF BatchIsSerial, Applied
<1>11. SimulatorSeesOneState'
  BY <1>1, <1>2 DEF SimulatorSeesOneState, NoReaders
<1> QED
  BY <1>7, <1>8, <1>9, <1>10, <1>11 DEF IInv

\* The restart after a panic keeps the invariant.
LEMMA RestartIInv ==
  ASSUME IInv, Restart PROVE IInv'
<1>1. /\ pc = "panicked" /\ pc' = "validate"
      /\ codes' = << >> /\ updates' = EmptyMap /\ before' = << >> /\ serial' = db
      /\ UNCHANGED <<db, height, block>>
  BY DEF Restart
<1>2. /\ DOMAIN client' = Client
      /\ \A c \in Client : client'[c] = IF client[c].st = "simulating" THEN [st |-> "idle"]
                                       ELSE client[c]
  BY DEF Restart
<1>3. DOMAIN updates' = {} /\ DOMAIN codes' = {}
  BY <1>1 DEF EmptyMap
<1>4. TypeOK'
  BY <1>1, <1>2, <1>3 DEF IInv, TypeOK, BlockOK
<1>5. ClientsOK'
  BY <1>2 DEF IInv, ClientsOK, RWSetOK
<1>6. BlockOK'
  BY <1>1, <1>2 DEF IInv, BlockOK
<1>7. UpdatesOK' /\ ReadsCurrent' /\ SimulatorSeesOneState'
  BY <1>1, <1>2, <1>3 DEF IInv, UpdatesOK, ReadsCurrent, SimulatorSeesOneState
<1>8. BatchIsSerial'
  BY <1>1, <1>3 DEF IInv, TypeOK, BatchIsSerial, Applied
<1> QED
  BY <1>4, <1>5, <1>6, <1>7, <1>8 DEF IInv

\* The inductive invariant holds in every state of the transaction manager.
THEOREM Invariance == Spec => []IInv
<1>1. IInv /\ [Next]_vars => IInv'
  <2> SUFFICES ASSUME IInv, [Next]_vars PROVE IInv'
    OBVIOUS
  <2>1. ASSUME NEW c \in Client, NEW cc \in Chaincode, NewTxSimulator(c, cc) PROVE IInv'
    BY <2>1, ClientActions
  <2>2. ASSUME NEW c \in Client, Simulate(c) \/ Done(c) \/ Abandon(c) PROVE IInv'
    BY <2>2, ClientActions
  <2>3. ASSUME NEW txs \in Orders, Order(txs) PROVE IInv'
    BY <2>3, OrderIInv
  <2>4. CASE ValidateTx
    BY <2>4, ValidateTxIInv
  <2>5. CASE RequestLock
    BY <2>5, RequestLockIInv
  <2>6. CASE Commit
    BY <2>6, CommitIInv
  <2>7. CASE Restart
    BY <2>7, RestartIInv
  <2>8. CASE UNCHANGED vars
    BY <2>8 DEF vars, IInv, TypeOK, ClientsOK, RWSetOK, BlockOK, UpdatesOK,
       BatchIsSerial, Applied, ReadsCurrent, SimulatorSeesOneState
  <2> QED
    BY <2>1, <2>2, <2>3, <2>4, <2>5, <2>6, <2>7, <2>8 DEF Next
<1> QED
  BY <1>1, InitIInv, PTL DEF Spec

\* Every variable of the transaction manager keeps its type, and no version in
\* the state DB is of a block that has not been committed.
THEOREM TypeCorrect == Spec => []TypeOK
BY Invariance, PTL DEF IInv

\* The batch of a block is the serial execution of its valid transactions.
THEOREM BatchSerial == Spec => []BatchIsSerial
BY Invariance, PTL DEF IInv

\* A simulator reads the state of one height.
THEOREM SimulatorConsistent == Spec => []SimulatorSeesOneState
BY Invariance, PTL DEF IInv

-----------------------------------------------------------------------------
(* Induction over an interval, and the order of the keys that a scan returns. *)

\* A set that holds 0 and, with each number below N, the next one, holds 0..N.
LEMMA Induction ==
  ASSUME NEW N \in Nat, NEW S, 0 \in S, \A n \in 1..N : n - 1 \in S => n \in S
  PROVE  \A n \in 0..N : n \in S
<1> DEFINE T == {n \in 0..N : n \notin S}
           R == {ss \in Nat \X Nat : ss[1] < ss[2]}
<1> SUFFICES ASSUME T # {} PROVE FALSE
  OBVIOUS
<1>1. IsWellFoundedOn(R, Nat)
  BY NatLessThanWellFounded DEF OpToRel
<1>2. T \subseteq Nat
  OBVIOUS
<1> HIDE DEF R, T
<1>3. PICK m \in T : \A n \in T : ~ (<<n, m>> \in R)
  BY <1>1, <1>2, WFMin, Zenon
<1>4. m \in 1..N /\ m \in Nat
  BY DEF T
<1>5. <<m - 1, m>> \in R
  BY <1>4 DEF R
<1>6. m - 1 \in S
  BY <1>3, <1>4, <1>5 DEF T
<1> QED
  BY <1>4, <1>6 DEF T

\* Every set of keys has an increasing enumeration.
LEMMA EnumerationExists ==
  ASSUME NEW A \in SUBSET Key
  PROVE  \E n \in 0..NumKeys, s \in [1..NumKeys -> Nat] : 
            /\ \A i \in 1..n : s[i] \in A
            /\ \A i, j \in 1..n : i < j => s[i] < s[j]
            /\ \A k \in A : \E i \in 1..n : s[i] = k
<1> USE TxMgrAssumption DEF Key
<1> DEFINE Good(m, n, s) ==
             /\ n \in 0..m /\ s \in [1..NumKeys -> Nat]
             /\ \A i \in 1..n : s[i] \in A /\ s[i] =< m
             /\ \A i, j \in 1..n : i < j => s[i] < s[j]
             /\ \A k \in A : k =< m => \E i \in 1..n : s[i] = k
           S == {m \in 0..NumKeys : \E n, s : Good(m, n, s)}
<1>1. 0 \in S
  <2>1. Good(0, 0, [i \in 1..NumKeys |-> 0])
    OBVIOUS
  <2> HIDE DEF Good
  <2> QED
    BY <2>1
<1>2. ASSUME NEW m \in 1..NumKeys, m - 1 \in S PROVE m \in S
  <2>1. PICK n, s : Good(m - 1, n, s)
    BY <1>2
  <2>2. CASE m \in A
    <3> DEFINE t == [s EXCEPT ![n + 1] = m]
    <3>1. n + 1 \in 0..m /\ n + 1 \in 1..NumKeys /\ t \in [1..NumKeys -> Nat]
      BY <2>1
    <3>2. \A i \in 1..(n + 1) : t[i] = IF i = n + 1 THEN m ELSE s[i]
      BY <2>1, <3>1
    <3> HIDE DEF t
    <3>3. \A i \in 1..(n + 1) : t[i] \in A /\ t[i] =< m
      BY <2>1, <2>2, <3>2
    <3>4. \A i, j \in 1..(n + 1) : i < j => t[i] < t[j]
      BY <2>1, <3>1, <3>2, SMTT(30)
    <3>5. \A k \in A : k =< m => \E i \in 1..(n + 1) : t[i] = k
      <4> SUFFICES ASSUME NEW k \in A, k =< m PROVE \E i \in 1..(n + 1) : t[i] = k
        OBVIOUS
      <4>1. CASE k = m
        <5>1. n + 1 \in 1..(n + 1) /\ t[n + 1] = k
          BY <2>1, <3>1, <3>2, <4>1
        <5> QED
          BY <5>1
      <4>2. CASE k =< m - 1
        <5>1. PICK i \in 1..n : s[i] = k
          BY <2>1, <4>2
        <5>2. i \in 1..(n + 1) /\ t[i] = k
          BY <2>1, <3>2, <5>1
        <5> QED
          BY <5>2
      <4> QED
        BY <4>1, <4>2
    <3>6. Good(m, n + 1, t)
      BY <3>1, <3>3, <3>4, <3>5
    <3> HIDE DEF Good
    <3> QED
      BY <3>6
  <2>3. CASE m \notin A
    <3>1. Good(m, n, s)
      BY <2>1, <2>3
    <3> HIDE DEF Good
    <3> QED
      BY <3>1
  <2> QED
    BY <2>2, <2>3
<1> HIDE DEF S
<1>3. NumKeys \in S
  BY <1>1, <1>2, Induction
<1>4. PICK n, s : Good(NumKeys, n, s)
  BY <1>3 DEF S
<1>5. n \in 0..NumKeys /\ s \in [1..NumKeys -> Nat]
  BY <1>4
<1>6. \A k \in A : k =< NumKeys
  OBVIOUS
<1> QED
  BY <1>4, <1>5, <1>6

\* The keys of a set in a range.
InRange(S, start, end) == {k \in S : start =< k /\ k < end}

\* s lists the keys of A in increasing order.
Enumerates(s, A) ==
  /\ s \in Seq(Key) /\ Len(s) \in Nat
  /\ \A i \in 1..Len(s) : s[i] \in A
  /\ \A i, j \in 1..Len(s) : i < j => s[i] < s[j]
  /\ \A k \in A : \E i \in 1..Len(s) : s[i] = k

\* A scan returns the keys of the set in the range, in increasing order.
LEMMA ScanFacts ==
  ASSUME NEW S \in SUBSET Key, NEW start, NEW end
  PROVE  Enumerates(Scan(S, start, end), InRange(S, start, end))
<1> SUFFICES ASSUME NEW s, s = Scan(S, start, end),
                    NEW found, found = InRange(S, start, end)
             PROVE  Enumerates(s, found)
  OBVIOUS
<1> DEFINE C == UNION {[1..n -> found] : n \in 0..NumKeys}
           P(t) == /\ \A i, j \in DOMAIN t : i < j => t[i] < t[j]
                   /\ \A k \in found : \E i \in DOMAIN t : t[i] = k
<1>1. found \in SUBSET Key
  BY DEF InRange
<1>2. \E t \in C : P(t)
  <2>1. PICK n \in 0..NumKeys, t \in [1..NumKeys -> Nat] :
            /\ \A i \in 1..n : t[i] \in found
            /\ \A i, j \in 1..n : i < j => t[i] < t[j]
            /\ \A k \in found : \E i \in 1..n : t[i] = k
    BY <1>1, EnumerationExists
  <2> DEFINE u == [i \in 1..n |-> t[i]]
  <2>2. u \in [1..n -> found]
    BY <2>1
  <2>3. u \in C
    BY <2>2
  <2>4. P(u)
    BY <2>1
  <2> QED
    BY <2>3, <2>4
<1>3. s = CHOOSE t \in C : P(t)
  BY DEF Scan, InRange
<1>4. s \in C /\ P(s)
  <2> HIDE DEF C, P
  <2> QED
    BY <1>2, <1>3
<1>5. PICK n \in 0..NumKeys : s \in [1..n -> found]
  BY <1>4
<1>6. s \in Seq(Key) /\ Len(s) = n /\ DOMAIN s = 1..n
  BY <1>1, <1>5, TxMgrAssumption
<1> QED
  BY <1>4, <1>5, <1>6, TxMgrAssumption DEF Enumerates

-----------------------------------------------------------------------------
(* Results of a scan. *)

\* r lists the keys of A in increasing order, each with its version in the state.
Lists(r, A, state) ==
  /\ r \in Seq(Key \X Version)
  /\ \A i, j \in 1..Len(r) : i < j => r[i][1] < r[j][1]
  /\ \A i \in 1..Len(r) : r[i][1] \in A /\ r[i][2] = state[r[i][1]].ver
  /\ \A k \in A : \E i \in 1..Len(r) : r[i][1] = k

\* Two lists of the same keys agree where both have an entry.
LEMMA ListsAgree ==
  ASSUME NEW A, NEW state, NEW r, NEW q, Lists(r, A, state), Lists(q, A, state)
  PROVE  \A i \in 1..Len(r) : i =< Len(q) => r[i] = q[i]
<1> USE TxMgrAssumption DEF Key
<1>1. r \in Seq(Key \X Version) /\ q \in Seq(Key \X Version) /\ Len(r) \in Nat /\ Len(q) \in Nat
  BY DEF Lists
<1> DEFINE N == IF Len(r) =< Len(q) THEN Len(r) ELSE Len(q)
           S == {n \in 0..N : \A i \in 1..n : r[i] = q[i]}
<1>2. N \in Nat /\ N =< Len(r) /\ N =< Len(q)
  BY <1>1
<1> HIDE DEF N
<1>3. \A i \in 1..N : /\ r[i] \in Key \X Version /\ q[i] \in Key \X Version
                      /\ r[i][1] \in Nat /\ q[i][1] \in Nat
  BY <1>1, <1>2
<1>4. 0 \in S
  BY <1>2
<1>5. /\ \A i, j \in 1..Len(r) : i < j => r[i][1] < r[j][1]
      /\ \A i, j \in 1..Len(q) : i < j => q[i][1] < q[j][1]
  BY DEF Lists
<1>6. ASSUME NEW n \in 1..N, n - 1 \in S PROVE n \in S
  <2>1. \A i \in 1..(n - 1) : r[i] = q[i]
    BY <1>6
  <2>2. n \in Nat /\ n \in 1..Len(r) /\ n \in 1..Len(q) /\ Len(r) \in Nat /\ Len(q) \in Nat
    BY <1>1, <1>2
  <2>3. ~ (r[n][1] < q[n][1])
    <3> SUFFICES ASSUME r[n][1] < q[n][1] PROVE FALSE
      OBVIOUS
    <3>1. r[n][1] \in A
      BY <1>2 DEF Lists
    <3>2. PICK j \in 1..Len(q) : q[j][1] = r[n][1]
      BY <3>1 DEF Lists
    <3>3. r[n][1] \in Nat /\ q[n][1] \in Nat
      BY <1>3
    <3>4. j \in Nat
      BY <2>2
    <3>5. j < n
      BY <1>5, <2>2, <3>2, <3>3, <3>4
    <3>6. j \in 1..Len(r)
      BY <2>2, <3>4, <3>5
    <3>7. r[j][1] < r[n][1]
      BY <1>5, <2>2, <3>5, <3>6
    <3>8. r[j] = q[j] /\ j \in 1..N
      BY <1>2, <2>1, <3>5
    <3> QED
      BY <1>3, <3>2, <3>7, <3>8
  <2>4. ~ (q[n][1] < r[n][1])
    <3> SUFFICES ASSUME q[n][1] < r[n][1] PROVE FALSE
      OBVIOUS
    <3>1. q[n][1] \in A
      BY <1>2 DEF Lists
    <3>2. PICK j \in 1..Len(r) : r[j][1] = q[n][1]
      BY <3>1 DEF Lists
    <3>3. q[n][1] \in Nat /\ r[n][1] \in Nat
      BY <1>3
    <3>4. j \in Nat
      BY <2>2
    <3>5. j < n
      BY <1>5, <2>2, <3>2, <3>3, <3>4
    <3>6. j \in 1..Len(q)
      BY <2>2, <3>4, <3>5
    <3>7. q[j][1] < q[n][1]
      BY <1>5, <2>2, <3>5, <3>6
    <3>8. r[j] = q[j] /\ j \in 1..N
      BY <1>2, <2>1, <3>5
    <3> QED
      BY <1>3, <3>2, <3>7, <3>8
  <2>5. r[n][1] = q[n][1]
    BY <1>3, <2>3, <2>4
  <2>6. r[n][2] = q[n][2]
    <3>1. r[n][2] = state[r[n][1]].ver /\ q[n][2] = state[q[n][1]].ver
      BY <2>2 DEF Lists
    <3> QED
      BY <2>5, <3>1
  <2>7. r[n] = q[n]
    BY <1>3, <2>5, <2>6
  <2> QED
    BY <1>2, <2>1, <2>7
<1> HIDE DEF S
<1>7. N \in S
  BY <1>2, <1>4, <1>6, Induction
<1>8. \A i \in 1..N : r[i] = q[i]
  BY <1>7 DEF S
<1> QED
  BY <1>1, <1>8 DEF N

\* There is one list of a set of keys.
LEMMA ListsUnique ==
  ASSUME NEW A, NEW state, NEW r, NEW q, Lists(r, A, state), Lists(q, A, state)
  PROVE  r = q
<1>1. r \in Seq(Key \X Version) /\ q \in Seq(Key \X Version) /\ Len(r) \in Nat /\ Len(q) \in Nat
  BY DEF Lists
<1>2. \A i \in 1..Len(r) : i =< Len(q) => r[i] = q[i]
  BY ListsAgree
<1>3. ~ (Len(r) < Len(q))
  <2> SUFFICES ASSUME Len(r) < Len(q) PROVE FALSE
    OBVIOUS
  <2>1. Len(r) + 1 \in 1..Len(q)
    BY <1>1
  <2>2. PICK j \in 1..Len(r) : r[j][1] = q[Len(r) + 1][1]
    BY <2>1 DEF Lists
  <2>3. q[j][1] < q[Len(r) + 1][1] /\ q[j] = r[j]
    BY <1>1, <1>2, <2>1 DEF Lists
  <2>4. q[Len(r) + 1][1] \in Nat
    BY <1>1, <2>1, TxMgrAssumption DEF Key
  <2> QED
    BY <2>2, <2>3, <2>4
<1>4. ~ (Len(q) < Len(r))
  <2> SUFFICES ASSUME Len(q) < Len(r) PROVE FALSE
    OBVIOUS
  <2>1. Len(q) + 1 \in 1..Len(r)
    BY <1>1
  <2>2. PICK j \in 1..Len(q) : q[j][1] = r[Len(q) + 1][1]
    BY <2>1 DEF Lists
  <2>3. r[j][1] < r[Len(q) + 1][1] /\ q[j] = r[j]
    BY <1>1, <1>2, <2>1 DEF Lists
  <2>4. r[Len(q) + 1][1] \in Nat
    BY <1>1, <2>1, TxMgrAssumption DEF Key
  <2> QED
    BY <2>2, <2>3, <2>4
<1>5. Len(r) = Len(q) /\ \A i \in 1..Len(r) : r[i] = q[i]
  BY <1>1, <1>2, <1>3, <1>4
<1> QED
  BY <1>1, <1>5, SeqEqual

\* The first p keys of a scan, each with its version.
Listed(f, p, state) == [i \in 1..p |-> <<f[i], state[f[i]].ver>>]

\* The keys that a scan of a range finds.
Found(state, start, end) == InRange(Present(state), start, end)

\* The keys of a range up to a given one.
FoundUpTo(state, start, last) == {k \in Present(state) : start =< k /\ k =< last}

\* A whole scan lists the keys it finds, and a prefix of it the ones up to its last key.
ScanOf(f, state, start, end) ==
  /\ f \in Seq(Key) /\ Len(f) \in Nat
  /\ \A i \in 1..Len(f) : f[i] \in Found(state, start, end)
  /\ \A k \in Found(state, start, end) : \E i \in 1..Len(f) : f[i] = k
  /\ Lists(Listed(f, Len(f), state), Found(state, start, end), state)
  /\ \A p \in 1..Len(f) : Lists(Listed(f, p, state), FoundUpTo(state, start, f[p]), state)

\* The scan of the keys that exist is such a list.
LEMMA ScanLists ==
  ASSUME NEW state \in [Key -> VV], NEW start \in Nat, NEW end \in Nat,
         NEW f, f = Scan(Present(state), start, end)
  PROVE  ScanOf(f, state, start, end)
<1> USE TxMgrAssumption
<1> DEFINE A == Found(state, start, end)
<1>1. Present(state) \in SUBSET Key
  BY DEF Present
<1>2. /\ f \in Seq(Key) /\ Len(f) \in Nat
      /\ \A i \in 1..Len(f) : f[i] \in A
      /\ \A i, j \in 1..Len(f) : i < j => f[i] < f[j]
      /\ \A k \in A : \E i \in 1..Len(f) : f[i] = k
  <2>1. Enumerates(f, A)
    BY <1>1, ScanFacts DEF Found
  <2> QED
    BY <2>1 DEF Enumerates
<1>3. \A i \in 1..Len(f) : f[i] \in Key /\ f[i] \in Nat /\ state[f[i]].ver \in Version
  <2>1. \A k \in Key : k \in Nat /\ state[k].ver \in Version
    BY DEF VV, Key
  <2>2. \A i \in 1..Len(f) : f[i] \in Key
    BY <1>2
  <2> QED
    BY <2>1, <2>2
<1>4. ASSUME NEW p \in 0..Len(f)
      PROVE  LET r == Listed(f, p, state) IN
             /\ r \in Seq(Key \X Version) /\ Len(r) = p
             /\ \A i, j \in 1..p : i < j => r[i][1] < r[j][1]
             /\ \A i \in 1..p : r[i][1] = f[i] /\ r[i][2] = state[r[i][1]].ver
  <2> DEFINE r == Listed(f, p, state)
  <2>1. p \in Nat /\ \A i \in 1..p : i \in 1..Len(f)
    BY <1>2
  <2>2. r \in [1..p -> Key \X Version]
    BY <1>3, <2>1 DEF Listed
  <2>3. \A i \in 1..p : r[i] = <<f[i], state[f[i]].ver>>
    BY DEF Listed
  <2> HIDE DEF r
  <2>4. r \in Seq(Key \X Version) /\ Len(r) = p
    BY <2>1, <2>2
  <2>5. \A i \in 1..p : r[i][1] = f[i] /\ r[i][2] = state[f[i]].ver
    BY <2>3
  <2>6. /\ \A i, j \in 1..p : i < j => r[i][1] < r[j][1]
        /\ \A i \in 1..p : r[i][1] = f[i] /\ r[i][2] = state[r[i][1]].ver
    BY <1>2, <2>1, <2>5
  <2> QED
    BY <2>4, <2>6 DEF r
<1>5. Lists(Listed(f, Len(f), state), A, state)
  <2> DEFINE r == Listed(f, Len(f), state)
  <2>1. Len(f) \in 0..Len(f)
    BY <1>2
  <2>2. /\ r \in Seq(Key \X Version) /\ Len(r) = Len(f)
        /\ \A i, j \in 1..Len(f) : i < j => r[i][1] < r[j][1]
        /\ \A i \in 1..Len(f) : r[i][1] = f[i] /\ r[i][2] = state[r[i][1]].ver
    BY <1>4, <2>1
  <2> HIDE DEF r, A
  <2> QED
    BY <1>2, <2>2 DEF Lists, r
<1>6. ASSUME NEW p \in 1..Len(f)
      PROVE  Lists(Listed(f, p, state), FoundUpTo(state, start, f[p]), state)
  <2> DEFINE r == Listed(f, p, state)
             B == FoundUpTo(state, start, f[p])
  <2>1. p \in 0..Len(f) /\ p \in 1..p
    BY <1>2
  <2>2. /\ r \in Seq(Key \X Version) /\ Len(r) = p
        /\ \A i, j \in 1..p : i < j => r[i][1] < r[j][1]
        /\ \A i \in 1..p : r[i][1] = f[i] /\ r[i][2] = state[r[i][1]].ver
    BY <1>4, <2>1
  <2>3. ASSUME NEW i \in 1..p PROVE f[i] \in B
    <3>1. i \in 1..Len(f) /\ p \in 1..Len(f) /\ i \in Nat /\ p \in Nat
      BY <1>2
    <3>2. f[i] \in A /\ f[i] =< f[p]
      BY <1>2, <1>3, <3>1
    <3> QED
      BY <3>2 DEF Found, FoundUpTo, InRange
  <2>4. ASSUME NEW k \in B PROVE \E i \in 1..p : f[i] = k
    <3>1. k \in A
      <4>1. f[p] \in A /\ k \in Nat /\ f[p] \in Nat
        BY <1>1, <1>2, <1>3 DEF Key, FoundUpTo
      <4> QED
        BY <4>1 DEF Found, FoundUpTo, InRange
    <3>2. PICK i \in 1..Len(f) : f[i] = k
      BY <1>2, <3>1
    <3>3. i \in Nat /\ p \in Nat /\ f[i] =< f[p] /\ f[i] \in Nat /\ f[p] \in Nat
      BY <1>2, <1>3, <3>2 DEF FoundUpTo
    <3>4. ~ (p < i)
      BY <1>2, <3>3
    <3> QED
      BY <3>2, <3>3, <3>4
  <2> HIDE DEF r, B
  <2>5. \A i \in 1..Len(r) : r[i][1] \in B /\ r[i][2] = state[r[i][1]].ver
    BY <2>2, <2>3
  <2>6. \A k \in B : \E i \in 1..Len(r) : r[i][1] = k
    BY <2>2, <2>4
  <2>7. Lists(r, B, state)
    BY <2>2, <2>5, <2>6 DEF Lists
  <2> QED
    BY <2>7 DEF r, B
<1> QED
  BY <1>2, <1>5, <1>6 DEF ScanOf

\* What a scan records in the read-write set, by whether it came to the end of the range.
LEMMA RangeQueryInfoIs ==
  ASSUME NEW state \in [Key -> VV], NEW start \in Nat, NEW end \in Nat, NEW n \in Nat \ {0},
         NEW f, f = Scan(Present(state), start, end)
  PROVE  RangeQueryInfo(state, start, end, n) =
           IF n > Len(f)
             THEN [start |-> start, end |-> end, exhausted |-> TRUE,
                   results |-> Listed(f, Len(f), state)]
             ELSE [start |-> start, end |-> f[n], exhausted |-> FALSE,
                   results |-> Listed(f, n, state)]
<1>1. f \in Seq(Key) /\ Len(f) \in Nat
  BY ScanLists DEF ScanOf
<1>2. CASE n > Len(f)
  BY <1>2 DEF RangeQueryInfo, Listed
<1>3. CASE ~ (n > Len(f))
  <2> DEFINE seen == SubSeq(f, 1, n)
  <2>1. Len(seen) = n /\ \A i \in 1..n : seen[i] = f[i]
    BY <1>1, <1>3
  <2>2. RangeQueryInfo(state, start, end, n) =
          [start |-> start, end |-> seen[n], exhausted |-> FALSE,
           results |-> [i \in 1..Len(seen) |-> <<seen[i], state[seen[i]].ver>>]]
    <3>1. (n > Len(f)) = FALSE
      BY <1>1, <1>3
    <3> QED
      BY <3>1 DEF RangeQueryInfo
  <2>3. [i \in 1..Len(seen) |-> <<seen[i], state[seen[i]].ver>>] = Listed(f, n, state)
    <3> HIDE DEF seen
    <3> QED
      BY <2>1 DEF Listed
  <2>4. seen[n] = f[n]
    BY <2>1
  <2> HIDE DEF seen
  <2> QED
    BY <1>3, <2>2, <2>3, <2>4, Zenon
<1> QED
  BY <1>2, <1>3

-----------------------------------------------------------------------------
(* The combined iterator. A position p = <<i, j>> says that D[i] and U[j] are the next keys  *)
(* of the state DB and of the batch.                                                         *)

Positions(D, U) == (1..(Len(D) + 1)) \X (1..(Len(U) + 1))
UseU(D, U, p) == p[2] =< Len(U) /\ (p[1] =< Len(D) => U[p[2]] =< D[p[1]])
UseD(D, U, p) == p[1] =< Len(D) /\ (p[2] =< Len(U) => D[p[1]] =< U[p[2]])
Following(D, U, p) == <<IF UseD(D, U, p) THEN p[1] + 1 ELSE p[1],
                        IF UseU(D, U, p) THEN p[2] + 1 ELSE p[2]>>
KeyAt(D, U, p) == IF UseU(D, U, p) THEN U[p[2]] ELSE D[p[1]]
ValueAt(D, U, p) == IF UseU(D, U, p) THEN updates[KeyAt(D, U, p)] ELSE db[KeyAt(D, U, p)]
EndKey(end, inc) == IF inc THEN serveEndKey(end) ELSE << >>
Merge(D, U, end, inc, g, p) ==
  IF ~UseU(D, U, p) /\ ~UseD(D, U, p) THEN EndKey(end, inc)
  ELSE IF ValueAt(D, U, p).val = None THEN g[Following(D, U, p)]
  ELSE <<<<KeyAt(D, U, p), ValueAt(D, U, p).ver>>>> \o g[Following(D, U, p)]
Merged(D, U, end, inc) ==
  CHOOSE g : g = [p \in Positions(D, U) |-> Merge(D, U, end, inc, g, p)]
Left(D, U, p) == (Len(D) + 1 - p[1]) + (Len(U) + 1 - p[2])

\* The combined iterator merges the scans of the state DB and of the batch.
LEMMA CombinedIteratorIs ==
  ASSUME NEW start, NEW end, NEW inc
  PROVE  CombinedIterator(start, end, inc) =
           Merged(Scan(Present(db), start, end), Scan(DOMAIN updates, start, end),
                  end, inc)[<<1, 1>>]
BY DEF CombinedIterator, Merged, Merge, EndKey, ValueAt, KeyAt, Following, UseD, UseU, Positions

\* Every turn of the iterator moves forward.
LEMMA MergeMoves ==
  ASSUME NEW D \in Seq(Key), NEW U \in Seq(Key), NEW p \in Positions(D, U)
  PROVE  /\ Left(D, U, p) \in 0..(Len(D) + Len(U))
         /\ UseU(D, U, p) \/ UseD(D, U, p) =>
              /\ Following(D, U, p) \in Positions(D, U)
              /\ Left(D, U, Following(D, U, p)) < Left(D, U, p)
         /\ ~UseU(D, U, p) /\ ~UseD(D, U, p) => p[1] = Len(D) + 1 /\ p[2] = Len(U) + 1
<1>1. Len(D) \in Nat /\ Len(U) \in Nat /\ p[1] \in 1..(Len(D) + 1) /\ p[2] \in 1..(Len(U) + 1)
  BY DEF Positions
<1>2. Left(D, U, p) \in 0..(Len(D) + Len(U))
  BY <1>1, SMTT(30) DEF Left
<1>3. ASSUME UseU(D, U, p) \/ UseD(D, U, p)
      PROVE  /\ Following(D, U, p) \in Positions(D, U)
             /\ Left(D, U, Following(D, U, p)) < Left(D, U, p)
  <2> DEFINE a == IF UseD(D, U, p) THEN p[1] + 1 ELSE p[1]
             b == IF UseU(D, U, p) THEN p[2] + 1 ELSE p[2]
  <2>1. a \in 1..(Len(D) + 1) /\ b \in 1..(Len(U) + 1) /\ p[1] + p[2] < a + b
    <3>1. (UseU(D, U, p) => p[2] =< Len(U)) /\ (UseD(D, U, p) => p[1] =< Len(D))
      BY DEF UseU, UseD
    <3> QED
      BY <1>1, <1>3, <3>1, SMTT(30)
  <2>2. Following(D, U, p) = <<a, b>>
    BY DEF Following
  <2> HIDE DEF a, b
  <2> QED
    BY <1>1, <2>1, <2>2, SMTT(30) DEF Left, Positions
<1>4. ASSUME ~UseU(D, U, p), ~UseD(D, U, p) PROVE p[1] = Len(D) + 1 /\ p[2] = Len(U) + 1
  <2>1. \A x \in 1..Len(D), y \in 1..Len(U) : D[x] \in Nat /\ U[y] \in Nat
    BY TxMgrAssumption DEF Key
  <2>2. CASE p[1] =< Len(D) /\ p[2] =< Len(U)
    <3>1. D[p[1]] \in Nat /\ U[p[2]] \in Nat
      BY <1>1, <2>1, <2>2
    <3> QED
      BY <1>4, <2>2, <3>1 DEF UseU, UseD
  <2>3. CASE ~ (p[1] =< Len(D) /\ p[2] =< Len(U))
    BY <1>1, <1>4, <2>3 DEF UseU, UseD
  <2> QED
    BY <2>2, <2>3
<1> QED
  BY <1>2, <1>3, <1>4

\* The results from a position depend only on those from the position that follows.
LEMMA MergeLocal ==
  ASSUME NEW D, NEW U, NEW end, NEW inc, NEW p, NEW g, NEW h,
         UseU(D, U, p) \/ UseD(D, U, p) => g[Following(D, U, p)] = h[Following(D, U, p)]
  PROVE  Merge(D, U, end, inc, g, p) = Merge(D, U, end, inc, h, p)
BY DEF Merge

\* The recursion of the iterator is well founded, so that its results from each position are
\* the ones it defines.
LEMMA MergedIs ==
  ASSUME NEW D \in Seq(Key), NEW U \in Seq(Key), NEW end, NEW inc
  PROVE  \A p \in Positions(D, U) :
           Merged(D, U, end, inc)[p] = Merge(D, U, end, inc, Merged(D, U, end, inc), p)
<1> DEFINE N == Len(D) + Len(U)
           P == Positions(D, U)
           F(g) == [p \in P |-> Merge(D, U, end, inc, g, p)]
           Upto(n, g) == /\ g = [p \in P |-> g[p]]
                         /\ \A p \in P : Left(D, U, p) =< n => g[p] = F(g)[p]
           S == {n \in 0..N : \E g : Upto(n, g)}
<1>1. N \in Nat
  OBVIOUS
<1>2. \A p \in P : Left(D, U, p) \in 0..N
  BY MergeMoves
<1>3. \A p \in P : UseU(D, U, p) \/ UseD(D, U, p) =>
        /\ Following(D, U, p) \in P
        /\ Left(D, U, Following(D, U, p)) < Left(D, U, p)
  BY MergeMoves
<1>4. \A g, h : \A p \in P :
        (UseU(D, U, p) \/ UseD(D, U, p) => g[Following(D, U, p)] = h[Following(D, U, p)])
          => F(g)[p] = F(h)[p]
  BY MergeLocal
<1> HIDE DEF N, P
<1>5. 0 \in S
  <2> DEFINE g == F(<< >>)
  <2>1. g = [p \in P |-> g[p]] /\ \A p \in P : g[p] = F(<< >>)[p]
    OBVIOUS
  <2> HIDE DEF g, F
  <2>2. \A p \in P : Left(D, U, p) =< 0 => ~ (UseU(D, U, p) \/ UseD(D, U, p))
    <3> SUFFICES ASSUME NEW p \in P, Left(D, U, p) =< 0, UseU(D, U, p) \/ UseD(D, U, p)
                 PROVE  FALSE
      OBVIOUS
    <3>1. /\ Following(D, U, p) \in P
          /\ Left(D, U, Following(D, U, p)) < Left(D, U, p)
      BY <1>3
    <3>2. Left(D, U, Following(D, U, p)) \in 0..N /\ Left(D, U, p) \in 0..N
      BY <1>2, <3>1
    <3> QED
      BY <1>1, <3>1, <3>2
  <2>3. Upto(0, g)
    BY <1>4, <2>1, <2>2
  <2> HIDE DEF Upto
  <2> QED
    BY <1>1, <2>3
<1>6. ASSUME NEW n \in 1..N, n - 1 \in S PROVE n \in S
  <2>1. PICK g : Upto(n - 1, g)
    BY <1>6
  <2> DEFINE h == [p \in P |-> IF Left(D, U, p) =< n - 1 THEN g[p] ELSE F(g)[p]]
  <2>2. h = [p \in P |-> h[p]]
        /\ \A p \in P : h[p] = IF Left(D, U, p) =< n - 1 THEN g[p] ELSE F(g)[p]
    OBVIOUS
  <2> HIDE DEF h, F
  <2>3. \A p \in P : Left(D, U, p) =< n => h[p] = F(g)[p]
    BY <2>1, <2>2
  <2>4. ASSUME NEW p \in P, Left(D, U, p) =< n PROVE F(g)[p] = F(h)[p]
    <3>1. ASSUME UseU(D, U, p) \/ UseD(D, U, p)
          PROVE  g[Following(D, U, p)] = h[Following(D, U, p)]
      <4>1. /\ Following(D, U, p) \in P
            /\ Left(D, U, Following(D, U, p)) < Left(D, U, p)
        BY <1>3, <3>1
      <4>2. Left(D, U, Following(D, U, p)) \in 0..N /\ Left(D, U, p) \in 0..N
        BY <1>2, <4>1
      <4>3. Left(D, U, Following(D, U, p)) =< n - 1
        BY <1>1, <2>4, <4>1, <4>2
      <4> QED
        BY <2>2, <4>1, <4>3
    <3> QED
      BY <1>4, <3>1
  <2>5. Upto(n, h)
    BY <2>2, <2>3, <2>4
  <2> HIDE DEF Upto
  <2> QED
    BY <1>1, <2>5
<1> HIDE DEF S
<1>7. N \in S
  <2>1. \A n \in 0..N : n \in S
    BY <1>1, <1>5, <1>6, Induction
  <2> QED
    BY <1>1, <2>1
<1>8. PICK g : Upto(N, g)
  BY <1>7 DEF S
<1>9. g = F(g)
  <2>1. \A p \in P : Left(D, U, p) =< N
    BY <1>1, <1>2
  <2>2. g = [p \in P |-> g[p]] /\ \A p \in P : g[p] = F(g)[p]
    BY <1>8, <2>1
  <2>3. [p \in P |-> g[p]] = [p \in P |-> F(g)[p]]
    <3> HIDE DEF F
    <3> QED
      BY <2>2
  <2>4. [p \in P |-> F(g)[p]] = F(g)
    OBVIOUS
  <2> HIDE DEF F
  <2> QED
    BY <2>2, <2>3, <2>4
<1>10. Merged(D, U, end, inc) = CHOOSE f : f = F(f)
  BY DEF Merged, P
<1>11. Merged(D, U, end, inc) = F(Merged(D, U, end, inc))
  <2> HIDE DEF F
  <2> QED
    BY <1>9, <1>10
<1>12. \A f : \A p \in P : F(f)[p] = Merge(D, U, end, inc, f, p)
  OBVIOUS
<1>13. \A p \in P : Merged(D, U, end, inc)[p] = F(Merged(D, U, end, inc))[p]
  <2> HIDE DEF F
  <2> QED
    BY <1>11
<1> HIDE DEF F
<1> QED
  BY <1>12, <1>13 DEF P

\* A key before those of a list, put in front of it.
LEMMA ListsCons ==
  ASSUME NEW A, NEW state, NEW r, Lists(r, A, state), NEW k \in Key, NEW v \in Version,
         v = state[k].ver, \A x \in A : x \in Nat /\ k < x
  PROVE  Lists(<<<<k, v>>>> \o r, A \cup {k}, state)
<1> DEFINE q == <<<<k, v>>>> \o r
<1>1. r \in Seq(Key \X Version) /\ Len(r) \in Nat
  BY DEF Lists
<1>2. /\ q \in Seq(Key \X Version) /\ Len(q) = Len(r) + 1 /\ q[1] = <<k, v>>
      /\ \A i \in 1..Len(r) : q[i + 1] = r[i]
  <2>1. <<<<k, v>>>> \in Seq(Key \X Version) /\ Len(<<<<k, v>>>>) = 1
    OBVIOUS
  <2> QED
    BY <1>1, <2>1
<1>3. \A i \in 1..Len(q) : i = 1 \/ (i - 1 \in 1..Len(r) /\ q[i] = r[i - 1])
  <2> SUFFICES ASSUME NEW i \in 1..Len(q), i # 1 PROVE i - 1 \in 1..Len(r) /\ q[i] = r[i - 1]
    OBVIOUS
  <2>1. i - 1 \in 1..Len(r) /\ (i - 1) + 1 = i
    BY <1>1, <1>2
  <2> QED
    BY <1>2, <2>1
<1> HIDE DEF q
<1>4. /\ \A i \in 1..Len(r) : r[i][1] \in A /\ r[i][2] = state[r[i][1]].ver
      /\ \A i, j \in 1..Len(r) : i < j => r[i][1] < r[j][1]
      /\ \A x \in A : \E i \in 1..Len(r) : r[i][1] = x
  BY DEF Lists
<1>5. \A i \in 1..Len(q) : q[i][1] \in A \cup {k} /\ q[i][2] = state[q[i][1]].ver
  <2> SUFFICES ASSUME NEW i \in 1..Len(q)
               PROVE  q[i][1] \in A \cup {k} /\ q[i][2] = state[q[i][1]].ver
    OBVIOUS
  <2>1. CASE i = 1
    BY <1>2, <2>1
  <2>2. CASE i # 1
    BY <1>3, <1>4, <2>2
  <2> QED
    BY <2>1, <2>2
<1>6. \A i, j \in 1..Len(q) : i < j => q[i][1] < q[j][1]
  <2> SUFFICES ASSUME NEW i \in 1..Len(q), NEW j \in 1..Len(q), i < j PROVE q[i][1] < q[j][1]
    OBVIOUS
  <2>1. j # 1 /\ j \in Nat /\ i \in Nat
    BY <1>1, <1>2
  <2>2. j - 1 \in 1..Len(r) /\ q[j] = r[j - 1]
    BY <1>3, <2>1
  <2>3. CASE i = 1
    BY <1>2, <1>4, <2>2, <2>3
  <2>4. CASE i # 1
    <3>1. i - 1 \in 1..Len(r) /\ q[i] = r[i - 1] /\ i - 1 < j - 1
      BY <1>3, <2>1, <2>4
    <3> QED
      BY <1>4, <2>2, <3>1
  <2> QED
    BY <2>3, <2>4
<1>7. \A x \in A \cup {k} : \E i \in 1..Len(q) : q[i][1] = x
  <2> SUFFICES ASSUME NEW x \in A \cup {k} PROVE \E i \in 1..Len(q) : q[i][1] = x
    OBVIOUS
  <2>1. CASE x = k
    <3>1. 1 \in 1..Len(q) /\ q[1][1] = x
      BY <1>1, <1>2, <2>1
    <3> QED
      BY <3>1
  <2>2. CASE x \in A
    <3>1. PICK i \in 1..Len(r) : r[i][1] = x
      BY <1>4, <2>2
    <3>2. i + 1 \in 1..Len(q) /\ q[i + 1][1] = x
      BY <1>1, <1>2, <3>1
    <3> QED
      BY <3>2
  <2> QED
    BY <2>1, <2>2
<1>8. Lists(q, A \cup {k}, state)
  BY <1>2, <1>5, <1>6, <1>7 DEF Lists
<1> QED
  BY <1>8 DEF q

\* The empty list.
LEMMA ListsNone == \A state : Lists(<< >>, {}, state)
BY DEF Lists

\* What the iterator needs of the state: the batch applied to the state DB is the serial state.
Validating ==
  /\ db \in [Key -> VV] /\ serial \in [Key -> VV]
  /\ DOMAIN updates \in SUBSET Key /\ \A k \in DOMAIN updates : updates[k] \in VV
  /\ serial = Applied(db, updates)

\* The value that the batch or else the state DB has is the serial one, or both are deleted.
LEMMA LatestIsSerial ==
  ASSUME Validating, NEW k \in Key
  PROVE  /\ Latest(k) \in VV
         /\ Latest(k).val = None <=> serial[k].val = None
         /\ Latest(k).val # None => Latest(k) = serial[k]
<1>1. serial[k] = IF k \notin DOMAIN updates THEN db[k]
                  ELSE IF updates[k].val = None THEN Absent ELSE updates[k]
  BY DEF Validating, Applied
<1>2. Absent.val = None
  BY DEF Absent, VersionedValue
<1> QED
  BY <1>1, <1>2 DEF Latest, Validating

\* The keys that the iterator has still to return: the ones that exist among the keys ahead
\* of it, and the end key.
EndKeys(end, inc) == IF inc /\ serial[end].val # None THEN {end} ELSE {}
Ahead(D, U, p) == {k \in Present(serial) : \/ \E x \in p[1]..Len(D) : D[x] = k
                                           \/ \E y \in p[2]..Len(U) : U[y] = k}

\* The keys behind a position are before the ones ahead.
Apart(D, U, p) ==
  /\ \A x \in p[1]..Len(D), y \in 1..(p[2] - 1) : U[y] < D[x]
  /\ \A x \in 1..(p[1] - 1), y \in p[2]..Len(U) : D[x] < U[y]

\* At its end the iterator serves the end key.
LEMMA EndKeyLists ==
  ASSUME Validating, NEW end, NEW inc \in BOOLEAN, inc => end \in Key
  PROVE  Lists(EndKey(end, inc), EndKeys(end, inc), serial)
<1>1. CASE ~inc
  BY <1>1, ListsNone DEF EndKey, EndKeys
<1>2. CASE inc /\ serial[end].val = None
  <2>1. EndKey(end, inc) = << >>
    BY <1>2, LatestIsSerial DEF EndKey, serveEndKey
  <2>2. EndKeys(end, inc) = {}
    BY <1>2 DEF EndKeys
  <2> QED
    BY <2>1, <2>2, ListsNone
<1>3. CASE inc /\ serial[end].val # None
  <2>1. end \in Key /\ Latest(end) \in VV /\ Latest(end).val # None /\ Latest(end) = serial[end]
    BY <1>3, LatestIsSerial
  <2>2. EndKey(end, inc) = <<<<end, Latest(end).ver>>>>
    BY <1>3, <2>1 DEF EndKey, serveEndKey
  <2>3. EndKeys(end, inc) = {end}
    BY <1>3 DEF EndKeys
  <2>4. Latest(end).ver \in Version /\ Latest(end).ver = serial[end].ver
    BY <2>1 DEF VV
  <2> DEFINE v == Latest(end).ver
  <2> HIDE DEF v
  <2>5. Lists(<<<<end, v>>>>, {end}, serial)
    BY <2>1, <2>4 DEF Lists, v
  <2> QED
    BY <2>2, <2>3, <2>5 DEF v
<1> QED
  BY <1>1, <1>2, <1>3

\* D and U are the scans of the state DB and of the batch.
Scans(D, U, start, end) ==
  /\ start \in Nat /\ end \in Nat
  /\ Enumerates(D, InRange(Present(db), start, end))
  /\ Enumerates(U, InRange(DOMAIN updates, start, end))

\* The keys of the two scans are numbers in the range, in increasing order.
LEMMA ScansFacts ==
  ASSUME NEW D, NEW U, NEW start, NEW end, Scans(D, U, start, end), Validating
  PROVE  /\ D \in Seq(Key) /\ U \in Seq(Key) /\ Len(D) \in Nat /\ Len(U) \in Nat
         /\ \A x \in 1..Len(D) : D[x] \in Key /\ D[x] \in Nat /\ D[x] \in Present(db) /\ D[x] < end
         /\ \A y \in 1..Len(U) : U[y] \in Key /\ U[y] \in Nat /\ U[y] \in DOMAIN updates /\ U[y] < end
         /\ \A x, z \in 1..Len(D) : x < z => D[x] < D[z]
         /\ \A y, z \in 1..Len(U) : y < z => U[y] < U[z]
<1>1. /\ D \in Seq(Key) /\ U \in Seq(Key) /\ Len(D) \in Nat /\ Len(U) \in Nat
      /\ \A x, z \in 1..Len(D) : x < z => D[x] < D[z]
      /\ \A y, z \in 1..Len(U) : y < z => U[y] < U[z]
      /\ \A x \in 1..Len(D) : D[x] \in InRange(Present(db), start, end)
      /\ \A y \in 1..Len(U) : U[y] \in InRange(DOMAIN updates, start, end)
  BY DEF Scans, Enumerates
<1>2. \A k \in Key : k \in Nat
  BY TxMgrAssumption DEF Key
<1> QED
  BY <1>1, <1>2 DEF InRange, Present, Validating

\* A turn of the iterator returns the smaller of the two keys ahead; the keys ahead of the
\* next position are greater, and those behind it still smaller than those ahead.
LEMMA MergeOrder ==
  ASSUME NEW D, NEW U, NEW start, NEW end, Scans(D, U, start, end), Validating,
         NEW p \in Positions(D, U), Apart(D, U, p), UseU(D, U, p) \/ UseD(D, U, p),
         NEW k, k = KeyAt(D, U, p), NEW q, q = Following(D, U, p)
  PROVE  /\ q[1] \in 1..(Len(D) + 1) /\ q[2] \in 1..(Len(U) + 1)
         /\ \A x \in q[1]..Len(D) : x \in p[1]..Len(D) /\ k < D[x]
         /\ \A y \in q[2]..Len(U) : y \in p[2]..Len(U) /\ k < U[y]
         /\ \A x \in p[1]..Len(D) : x \in q[1]..Len(D) \/ D[x] = k
         /\ \A y \in p[2]..Len(U) : y \in q[2]..Len(U) \/ U[y] = k
         /\ \/ \E x \in p[1]..Len(D) : D[x] = k
            \/ \E y \in p[2]..Len(U) : U[y] = k
         /\ k \in Key /\ k \in Nat /\ k < end
         /\ UseU(D, U, p) => k \in DOMAIN updates
         /\ ~UseU(D, U, p) => k \notin DOMAIN updates
         /\ Apart(D, U, q)
<1> DEFINE a == p[1]
           b == p[2]
           l == Len(D)
           m == Len(U)
<1>1. a \in 1..(l + 1) /\ b \in 1..(m + 1) /\ a \in Nat /\ b \in Nat /\ l \in Nat /\ m \in Nat
  BY ScansFacts DEF Positions
<1>2. /\ \A x \in 1..l : D[x] \in Key /\ D[x] \in Nat /\ D[x] < end
      /\ \A y \in 1..m : U[y] \in Key /\ U[y] \in Nat /\ U[y] \in DOMAIN updates /\ U[y] < end
      /\ \A x, z \in 1..l : x < z => D[x] < D[z]
      /\ \A y, z \in 1..m : y < z => U[y] < U[z]
  BY ScansFacts
<1>3. /\ \A x \in a..l, y \in 1..(b - 1) : U[y] < D[x]
      /\ \A x \in 1..(a - 1), y \in b..m : D[x] < U[y]
  BY DEF Apart
<1>4. /\ UseU(D, U, p) <=> b =< m /\ (a =< l => U[b] =< D[a])
      /\ UseD(D, U, p) <=> a =< l /\ (b =< m => D[a] =< U[b])
  BY DEF UseU, UseD
<1>5. q = <<IF UseD(D, U, p) THEN a + 1 ELSE a, IF UseU(D, U, p) THEN b + 1 ELSE b>>
  BY DEF Following
<1>6. k = IF UseU(D, U, p) THEN U[b] ELSE D[a]
  BY DEF KeyAt
<1>7. \A y \in 1..m : y \in Nat
  OBVIOUS
<1> HIDE DEF a, b, l, m
<1>8. q[1] = (IF UseD(D, U, p) THEN a + 1 ELSE a) /\ q[2] = (IF UseU(D, U, p) THEN b + 1 ELSE b)
  BY <1>5
<1>9. /\ q[1] \in 1..(l + 1) /\ q[2] \in 1..(m + 1)
      /\ k \in Key /\ k \in Nat /\ k < end
      /\ UseU(D, U, p) => b \in 1..m /\ k = U[b]
      /\ UseD(D, U, p) => a \in 1..l /\ k = D[a]
  <2>1. CASE UseU(D, U, p) /\ UseD(D, U, p)
    <3>1. a \in 1..l /\ b \in 1..m
      BY <1>1, <1>4, <2>1
    <3>2. U[b] = D[a]
      BY <1>2, <1>4, <2>1, <3>1
    <3> QED
      BY <1>1, <1>2, <1>6, <1>8, <2>1, <3>1, <3>2
  <2>2. CASE UseU(D, U, p) /\ ~UseD(D, U, p)
    <3>1. b \in 1..m
      BY <1>1, <1>4, <2>2
    <3> QED
      BY <1>1, <1>2, <1>6, <1>8, <2>2, <3>1
  <2>3. CASE ~UseU(D, U, p) /\ UseD(D, U, p)
    <3>1. a \in 1..l
      BY <1>1, <1>4, <2>3
    <3> QED
      BY <1>1, <1>2, <1>6, <1>8, <2>3, <3>1
  <2> QED
    BY <2>1, <2>2, <2>3
<1>10. ~UseD(D, U, p) => \A x \in a..l : k < D[x]
  <2> SUFFICES ASSUME ~UseD(D, U, p), NEW x \in a..l PROVE k < D[x]
    OBVIOUS
  <2>1. a \in 1..l /\ b \in 1..m /\ k = U[b] /\ x \in 1..l /\ x \in Nat
    BY <1>1, <1>9
  <2>2. U[b] < D[a]
    BY <1>2, <1>4, <2>1
  <2>3. D[a] =< D[x]
    BY <1>1, <1>2, <2>1
  <2> QED
    BY <1>2, <2>1, <2>2, <2>3
<1>11. ~UseU(D, U, p) => \A y \in b..m : k < U[y]
  <2> SUFFICES ASSUME ~UseU(D, U, p), NEW y \in b..m PROVE k < U[y]
    OBVIOUS
  <2>1. a \in 1..l /\ b \in 1..m /\ k = D[a] /\ y \in 1..m /\ y \in Nat
    BY <1>1, <1>9
  <2>2. D[a] < U[b]
    BY <1>2, <1>4, <2>1
  <2>3. U[b] =< U[y]
    BY <1>1, <1>2, <2>1
  <2> QED
    BY <1>2, <2>1, <2>2, <2>3
<1>12. \A x \in q[1]..l : x \in a..l /\ k < D[x]
  <2> SUFFICES ASSUME NEW x \in q[1]..l PROVE x \in a..l /\ k < D[x]
    OBVIOUS
  <2>1. CASE UseD(D, U, p)
    <3>1. x \in a..l /\ a < x /\ x \in 1..l /\ a \in 1..l /\ k = D[a]
      BY <1>1, <1>8, <1>9, <2>1
    <3> QED
      BY <1>2, <3>1
  <2>2. CASE ~UseD(D, U, p)
    BY <1>8, <1>10, <2>2
  <2> QED
    BY <2>1, <2>2
<1>13. \A y \in q[2]..m : y \in b..m /\ k < U[y]
  <2> SUFFICES ASSUME NEW y \in q[2]..m PROVE y \in b..m /\ k < U[y]
    OBVIOUS
  <2>1. CASE UseU(D, U, p)
    <3>1. y \in b..m /\ b < y /\ y \in 1..m /\ b \in 1..m /\ k = U[b]
      BY <1>1, <1>8, <1>9, <2>1
    <3> QED
      BY <1>2, <3>1
  <2>2. CASE ~UseU(D, U, p)
    BY <1>8, <1>11, <2>2
  <2> QED
    BY <2>1, <2>2
<1>14. /\ \A x \in a..l : x \in q[1]..l \/ D[x] = k
       /\ \A y \in b..m : y \in q[2]..m \/ U[y] = k
  BY <1>1, <1>8, <1>9
<1>15. \/ \E x \in a..l : D[x] = k
       \/ \E y \in b..m : U[y] = k
  <2>1. CASE UseU(D, U, p)
    <3>1. b \in b..m /\ U[b] = k
      BY <1>1, <1>9, <2>1
    <3> QED
      BY <3>1
  <2>2. CASE ~UseU(D, U, p)
    <3>1. a \in a..l /\ D[a] = k
      BY <1>1, <1>9, <2>2
    <3> QED
      BY <3>1
  <2> QED
    BY <2>1, <2>2
<1>16. UseU(D, U, p) => k \in DOMAIN updates
  BY <1>2, <1>9
<1>17. ~UseU(D, U, p) => k \notin DOMAIN updates
  <2> SUFFICES ASSUME ~UseU(D, U, p), k \in DOMAIN updates PROVE FALSE
    OBVIOUS
  <2>1. a \in 1..l /\ k = D[a]
    BY <1>9
  <2>2. start =< k
    BY <2>1 DEF Scans, Enumerates, InRange, l
  <2>3. k \in InRange(DOMAIN updates, start, end)
    BY <1>9, <2>2 DEF InRange
  <2>4. PICK y \in 1..m : U[y] = k
    BY <2>3 DEF Scans, Enumerates, m
  <2>5. CASE y < b
    <3>1. y \in 1..(b - 1) /\ a \in a..l
      BY <1>1, <2>1, <2>5
    <3>2. U[y] < D[a]
      BY <1>3, <3>1
    <3> QED
      BY <1>9, <2>1, <2>4, <3>2
  <2>6. CASE ~ (y < b)
    <3>1. y \in b..m
      BY <1>1, <2>6
    <3> QED
      BY <1>9, <1>11, <2>4, <3>1
  <2> QED
    BY <2>5, <2>6
<1>18. \A x \in q[1]..l, y \in 1..(q[2] - 1) : U[y] < D[x]
  <2> SUFFICES ASSUME NEW x \in q[1]..l, NEW y \in 1..(q[2] - 1) PROVE U[y] < D[x]
    OBVIOUS
  <2>1. x \in a..l /\ k < D[x]
    BY <1>12
  <2>2. CASE y \in 1..(b - 1)
    BY <1>3, <2>1, <2>2
  <2>3. CASE y \notin 1..(b - 1)
    <3>1. y = b /\ UseU(D, U, p)
      BY <1>1, <1>8, <2>3
    <3> QED
      BY <1>9, <2>1, <3>1
  <2> QED
    BY <2>2, <2>3
<1>19. \A x \in 1..(q[1] - 1), y \in q[2]..m : D[x] < U[y]
  <2> SUFFICES ASSUME NEW x \in 1..(q[1] - 1), NEW y \in q[2]..m PROVE D[x] < U[y]
    OBVIOUS
  <2>1. y \in b..m /\ k < U[y]
    BY <1>13
  <2>2. CASE x \in 1..(a - 1)
    BY <1>3, <2>1, <2>2
  <2>3. CASE x \notin 1..(a - 1)
    <3>1. x = a /\ UseD(D, U, p)
      BY <1>1, <1>8, <2>3
    <3> QED
      BY <1>9, <2>1, <3>1
  <2> QED
    BY <2>2, <2>3
<1>20. Apart(D, U, q)
  BY <1>18, <1>19 DEF Apart, l, m
<1> QED
  BY <1>9, <1>12, <1>13, <1>14, <1>15, <1>16, <1>17, <1>20 DEF a, b, l, m

\* One turn: when the results from the next position list what is ahead of it, the results
\* from this position list what is ahead of this one.
LEMMA MergeLists ==
  ASSUME NEW D, NEW U, NEW start, NEW end, Scans(D, U, start, end), Validating,
         NEW inc \in BOOLEAN, inc => end \in Key,
         NEW p \in Positions(D, U), Apart(D, U, p), UseU(D, U, p) \/ UseD(D, U, p),
         NEW g, Lists(g[Following(D, U, p)],
                      Ahead(D, U, Following(D, U, p)) \cup EndKeys(end, inc), serial)
  PROVE  Lists(Merge(D, U, end, inc, g, p), Ahead(D, U, p) \cup EndKeys(end, inc), serial)
<1> DEFINE k == KeyAt(D, U, p)
           q == Following(D, U, p)
           E == EndKeys(end, inc)
<1>1. /\ \A x \in q[1]..Len(D) : x \in p[1]..Len(D) /\ k < D[x]
      /\ \A y \in q[2]..Len(U) : y \in p[2]..Len(U) /\ k < U[y]
      /\ \A x \in p[1]..Len(D) : x \in q[1]..Len(D) \/ D[x] = k
      /\ \A y \in p[2]..Len(U) : y \in q[2]..Len(U) \/ U[y] = k
      /\ \/ \E x \in p[1]..Len(D) : D[x] = k
         \/ \E y \in p[2]..Len(U) : U[y] = k
      /\ k \in Key /\ k \in Nat /\ k < end
      /\ UseU(D, U, p) => k \in DOMAIN updates
      /\ ~UseU(D, U, p) => k \notin DOMAIN updates
  BY MergeOrder
<1>2. ValueAt(D, U, p) = Latest(k)
  BY <1>1 DEF ValueAt, Latest
<1>3. /\ Latest(k) \in VV
      /\ Latest(k).val = None <=> serial[k].val = None
      /\ Latest(k).val # None => Latest(k) = serial[k]
  BY <1>1, LatestIsSerial
<1>4. k \in Present(serial) <=> Latest(k).val # None
  BY <1>1, <1>3 DEF Present
<1>5. Merge(D, U, end, inc, g, p) =
        IF Latest(k).val = None THEN g[q] ELSE <<<<k, Latest(k).ver>>>> \o g[q]
  BY <1>2 DEF Merge
<1> HIDE DEF k, q
<1>6. Ahead(D, U, p) = Ahead(D, U, q) \cup (IF k \in Present(serial) THEN {k} ELSE {})
  BY <1>1 DEF Ahead
<1>7. \A z \in Ahead(D, U, q) \cup E : z \in Nat /\ k < z
  <2>1. \A z \in E : z \in Nat /\ k < z
    BY <1>1 DEF EndKeys, Scans
  <2>2. \A z \in Ahead(D, U, q) : z \in Nat /\ k < z
    <3>1. \A z \in Key : z \in Nat
      BY TxMgrAssumption DEF Key
    <3> QED
      BY <1>1, <3>1 DEF Ahead, Present
  <2> QED
    BY <2>1, <2>2
<1>8. Lists(g[q], Ahead(D, U, q) \cup E, serial)
  BY DEF q
<1> HIDE DEF E
<1>9. CASE Latest(k).val = None
  <2>1. Ahead(D, U, p) = Ahead(D, U, q)
    BY <1>4, <1>6, <1>9
  <2>2. Merge(D, U, end, inc, g, p) = g[q]
    BY <1>5, <1>9
  <2> QED
    BY <1>8, <2>1, <2>2 DEF E
<1>10. CASE Latest(k).val # None
  <2>1. Ahead(D, U, p) \cup E = (Ahead(D, U, q) \cup E) \cup {k}
    BY <1>4, <1>6, <1>10
  <2>2. Merge(D, U, end, inc, g, p) = <<<<k, Latest(k).ver>>>> \o g[q]
    BY <1>5, <1>10
  <2>3. Latest(k).ver \in Version /\ Latest(k).ver = serial[k].ver
    BY <1>3, <1>10 DEF VV
  <2>4. Lists(<<<<k, Latest(k).ver>>>> \o g[q], (Ahead(D, U, q) \cup E) \cup {k}, serial)
    BY <1>1, <1>7, <1>8, <2>3, ListsCons
  <2> QED
    BY <2>1, <2>2, <2>4 DEF E
<1> QED
  BY <1>9, <1>10

\* From each position the iterator returns the keys ahead that exist in the serial state.
LEMMA MergedLists ==
  ASSUME NEW D, NEW U, NEW start, NEW end, Scans(D, U, start, end), Validating,
         NEW inc \in BOOLEAN, inc => end \in Key
  PROVE  Lists(Merged(D, U, end, inc)[<<1, 1>>],
               Ahead(D, U, <<1, 1>>) \cup EndKeys(end, inc), serial)
<1> DEFINE N == Len(D) + Len(U)
           P == Positions(D, U)
           G == Merged(D, U, end, inc)
           Right(p) == Lists(G[p], Ahead(D, U, p) \cup EndKeys(end, inc), serial)
           S == {n \in 0..N : \A p \in P : Left(D, U, p) =< n /\ Apart(D, U, p) => Right(p)}
<1>1. D \in Seq(Key) /\ U \in Seq(Key) /\ Len(D) \in Nat /\ Len(U) \in Nat
  BY ScansFacts
<1>2. N \in Nat
  BY <1>1
<1>3. \A p \in P : G[p] = Merge(D, U, end, inc, G, p)
  BY <1>1, MergedIs
<1>4. \A p \in P : /\ Left(D, U, p) \in 0..N
                   /\ UseU(D, U, p) \/ UseD(D, U, p) =>
                        Following(D, U, p) \in P /\ Left(D, U, Following(D, U, p)) < Left(D, U, p)
                   /\ ~UseU(D, U, p) /\ ~UseD(D, U, p) => p[1] = Len(D) + 1 /\ p[2] = Len(U) + 1
  BY <1>1, MergeMoves
<1> HIDE DEF N, G
<1>5. ASSUME NEW p \in P, ~UseU(D, U, p), ~UseD(D, U, p) PROVE Right(p)
  <2>1. p[1] = Len(D) + 1 /\ p[2] = Len(U) + 1
    BY <1>4, <1>5
  <2>2. Ahead(D, U, p) = {}
    BY <1>1, <2>1 DEF Ahead
  <2>3. G[p] = EndKey(end, inc)
    BY <1>3, <1>5 DEF Merge
  <2>4. Ahead(D, U, p) \cup EndKeys(end, inc) = EndKeys(end, inc)
    BY <2>2
  <2> QED
    BY <2>3, <2>4, EndKeyLists
<1>6. ASSUME NEW p \in P, Apart(D, U, p), UseU(D, U, p) \/ UseD(D, U, p),
             Right(Following(D, U, p))
      PROVE  Right(p)
  <2>1. Lists(Merge(D, U, end, inc, G, p), Ahead(D, U, p) \cup EndKeys(end, inc), serial)
    BY <1>6, MergeLists
  <2> QED
    BY <1>3, <2>1
<1>7. \A p \in P : Apart(D, U, p) /\ (UseU(D, U, p) \/ UseD(D, U, p))
                     => Apart(D, U, Following(D, U, p))
  BY MergeOrder
<1> HIDE DEF Right, P
<1>8. 0 \in S
  <2> SUFFICES ASSUME NEW p \in P, Left(D, U, p) =< 0 PROVE Right(p)
    BY <1>2
  <2>1. ~UseU(D, U, p) /\ ~UseD(D, U, p)
    <3> SUFFICES ASSUME UseU(D, U, p) \/ UseD(D, U, p) PROVE FALSE
      OBVIOUS
    <3>1. Following(D, U, p) \in P /\ Left(D, U, Following(D, U, p)) < Left(D, U, p)
      BY <1>4
    <3>2. Left(D, U, Following(D, U, p)) \in 0..N /\ Left(D, U, p) \in 0..N
      BY <1>4, <3>1
    <3> QED
      BY <1>2, <3>1, <3>2
  <2> QED
    BY <1>5, <2>1
<1>9. ASSUME NEW n \in 1..N, n - 1 \in S PROVE n \in S
  <2> SUFFICES ASSUME NEW p \in P, Left(D, U, p) =< n, Apart(D, U, p) PROVE Right(p)
    BY <1>2
  <2>1. CASE UseU(D, U, p) \/ UseD(D, U, p)
    <3>1. Following(D, U, p) \in P /\ Left(D, U, Following(D, U, p)) < Left(D, U, p)
      BY <1>4, <2>1
    <3>2. Left(D, U, Following(D, U, p)) \in 0..N /\ Left(D, U, p) \in 0..N
      BY <1>4, <3>1
    <3>3. Left(D, U, Following(D, U, p)) =< n - 1
      BY <1>2, <3>1, <3>2
    <3>4. Apart(D, U, Following(D, U, p))
      BY <1>7, <2>1
    <3>5. Right(Following(D, U, p))
      BY <1>9, <3>1, <3>3, <3>4
    <3> QED
      BY <1>6, <2>1, <3>5
  <2>2. CASE ~UseU(D, U, p) /\ ~UseD(D, U, p)
    BY <1>5, <2>2
  <2> QED
    BY <2>1, <2>2
<1> HIDE DEF S
<1>10. N \in S
  <2>1. \A n \in 0..N : n \in S
    BY <1>2, <1>8, <1>9, Induction
  <2> QED
    BY <1>2, <2>1
<1>11. <<1, 1>> \in P /\ Apart(D, U, <<1, 1>>)
  BY <1>1 DEF P, Positions, Apart
<1>12. Left(D, U, <<1, 1>>) =< N
  BY <1>2, <1>4, <1>11
<1>13. Right(<<1, 1>>)
  BY <1>10, <1>11, <1>12 DEF S
<1> QED
  BY <1>13 DEF Right, G

\* The combined iterator lists the keys of the range that exist in the serial state, and the
\* end key if it is asked for.
LEMMA CombinedLists ==
  ASSUME Validating, NEW start \in Nat, NEW end \in Nat, NEW inc \in BOOLEAN, inc => end \in Key
  PROVE  Lists(CombinedIterator(start, end, inc),
               Found(serial, start, end) \cup EndKeys(end, inc), serial)
<1> DEFINE D == Scan(Present(db), start, end)
           U == Scan(DOMAIN updates, start, end)
<1>1. Present(db) \in SUBSET Key /\ DOMAIN updates \in SUBSET Key
  BY DEF Present, Validating
<1>2. Scans(D, U, start, end)
  BY <1>1, ScanFacts DEF Scans
<1>3. CombinedIterator(start, end, inc) = Merged(D, U, end, inc)[<<1, 1>>]
  BY CombinedIteratorIs
<1> HIDE DEF D, U
<1>4. Lists(Merged(D, U, end, inc)[<<1, 1>>],
            Ahead(D, U, <<1, 1>>) \cup EndKeys(end, inc), serial)
  BY <1>2, MergedLists
<1>5. Ahead(D, U, <<1, 1>>) = Found(serial, start, end)
  <2>1. /\ \A x \in 1..Len(D) : D[x] \in InRange(Present(db), start, end)
        /\ \A y \in 1..Len(U) : U[y] \in InRange(DOMAIN updates, start, end)
        /\ \A k \in InRange(Present(db), start, end) : \E x \in 1..Len(D) : D[x] = k
        /\ \A k \in InRange(DOMAIN updates, start, end) : \E y \in 1..Len(U) : U[y] = k
    BY <1>2 DEF Scans, Enumerates
  <2>2. \A k \in Present(serial) : k \in Present(db) \/ k \in DOMAIN updates
    <3> SUFFICES ASSUME NEW k \in Present(serial), k \notin DOMAIN updates PROVE k \in Present(db)
      OBVIOUS
    <3>1. k \in Key /\ serial[k].val # None /\ serial[k] = db[k]
      BY DEF Present, Validating, Applied
    <3> QED
      BY <3>1 DEF Present
  <2>3. Ahead(D, U, <<1, 1>>) = {k \in Present(serial) : \/ \E x \in 1..Len(D) : D[x] = k
                                                         \/ \E y \in 1..Len(U) : U[y] = k}
    BY DEF Ahead
  <2>4. ASSUME NEW k \in Present(serial), start =< k, k < end
        PROVE  \/ \E x \in 1..Len(D) : D[x] = k
               \/ \E y \in 1..Len(U) : U[y] = k
    BY <2>1, <2>2, <2>4 DEF InRange
  <2>5. ASSUME NEW k \in Present(serial),
               \/ \E x \in 1..Len(D) : D[x] = k
               \/ \E y \in 1..Len(U) : U[y] = k
        PROVE  start =< k /\ k < end
    BY <2>1, <2>5 DEF InRange
  <2> QED
    BY <2>3, <2>4, <2>5 DEF Found, InRange
<1> QED
  BY <1>3, <1>4, <1>5

\* A range query that would give the same result in the serial state passes validation.
LEMMA CurrentRangeIsValid ==
  ASSUME Validating, NEW start \in Nat, NEW end \in Nat, NEW n \in Nat \ {0}
  PROVE  validateRangeQuery(RangeQueryInfo(serial, start, end, n))
<1> DEFINE f == Scan(Present(serial), start, end)
           rqi == RangeQueryInfo(serial, start, end, n)
<1>1. serial \in [Key -> VV]
  BY DEF Validating
<1>2. rqi = IF n > Len(f)
              THEN [start |-> start, end |-> end, exhausted |-> TRUE,
                    results |-> Listed(f, Len(f), serial)]
              ELSE [start |-> start, end |-> f[n], exhausted |-> FALSE,
                    results |-> Listed(f, n, serial)]
  BY <1>1, RangeQueryInfoIs
<1>3. /\ f \in Seq(Key) /\ Len(f) \in Nat
      /\ \A i \in 1..Len(f) : f[i] \in Found(serial, start, end)
      /\ Lists(Listed(f, Len(f), serial), Found(serial, start, end), serial)
      /\ \A p \in 1..Len(f) :
           Lists(Listed(f, p, serial), FoundUpTo(serial, start, f[p]), serial)
  <2>1. ScanOf(f, serial, start, end)
    BY <1>1, ScanLists
  <2> HIDE DEF f
  <2> QED
    BY <2>1 DEF ScanOf
<1> HIDE DEF f, rqi
<1> SUFFICES CombinedIterator(rqi.start, rqi.end, ~rqi.exhausted) = rqi.results
  BY DEF validateRangeQuery, rqi
<1>4. CASE n > Len(f)
  <2>1. rqi.start = start /\ rqi.end = end /\ (~rqi.exhausted) = FALSE
        /\ rqi.results = Listed(f, Len(f), serial)
    BY <1>2, <1>4
  <2>2. Lists(CombinedIterator(start, end, FALSE), Found(serial, start, end) \cup EndKeys(end, FALSE),
              serial)
    BY CombinedLists
  <2>3. Found(serial, start, end) \cup EndKeys(end, FALSE) = Found(serial, start, end)
    BY DEF EndKeys
  <2>4. CombinedIterator(start, end, FALSE) = Listed(f, Len(f), serial)
    BY <1>3, <2>2, <2>3, ListsUnique
  <2> QED
    BY <2>1, <2>4
<1>5. CASE ~ (n > Len(f))
  <2>1. rqi.start = start /\ rqi.end = f[n] /\ (~rqi.exhausted) = TRUE
        /\ rqi.results = Listed(f, n, serial)
    BY <1>2, <1>5
  <2>2. n \in 1..Len(f)
    BY <1>3, <1>5
  <2>3. f[n] \in Key /\ f[n] \in Nat /\ f[n] \in Present(serial) /\ start =< f[n]
    BY <1>3, <2>2, TxMgrAssumption DEF Found, InRange, Key
  <2> DEFINE B == FoundUpTo(serial, start, f[n])
  <2>4. Lists(CombinedIterator(start, f[n], TRUE), Found(serial, start, f[n]) \cup EndKeys(f[n], TRUE),
              serial)
    BY <2>3, CombinedLists
  <2>5. EndKeys(f[n], TRUE) = {f[n]}
    BY <2>3 DEF EndKeys, Present
  <2>6. Found(serial, start, f[n]) \cup {f[n]} = B
    <3>1. \A k \in Present(serial) : k \in Nat
      BY TxMgrAssumption DEF Present, Key
    <3> QED
      BY <2>3, <3>1 DEF Found, FoundUpTo, InRange
  <2>7. Lists(Listed(f, n, serial), B, serial)
    BY <1>3, <2>2
  <2> HIDE DEF B
  <2>8. CombinedIterator(start, f[n], TRUE) = Listed(f, n, serial)
    BY <2>4, <2>5, <2>6, <2>7, ListsUnique
  <2> QED
    BY <2>1, <2>8
<1> QED
  BY <1>4, <1>5

\* A range query recorded in another state that passes validation would give the same result
\* in the serial state: no phantoms.
LEMMA ValidRangeIsCurrent ==
  ASSUME Validating, NEW state \in [Key -> VV],
         NEW start \in Nat, NEW end \in Nat, NEW n \in Nat \ {0},
         validateRangeQuery(RangeQueryInfo(state, start, end, n))
  PROVE  RangeQueryInfo(serial, start, end, n) = RangeQueryInfo(state, start, end, n)
<1> DEFINE e == Scan(Present(state), start, end)
           f == Scan(Present(serial), start, end)
           rqi == RangeQueryInfo(state, start, end, n)
<1>1. serial \in [Key -> VV]
  BY DEF Validating
<1>2. rqi = IF n > Len(e)
              THEN [start |-> start, end |-> end, exhausted |-> TRUE,
                    results |-> Listed(e, Len(e), state)]
              ELSE [start |-> start, end |-> e[n], exhausted |-> FALSE,
                    results |-> Listed(e, n, state)]
  BY RangeQueryInfoIs
<1>3. RangeQueryInfo(serial, start, end, n) =
        IF n > Len(f)
          THEN [start |-> start, end |-> end, exhausted |-> TRUE,
                results |-> Listed(f, Len(f), serial)]
          ELSE [start |-> start, end |-> f[n], exhausted |-> FALSE,
                results |-> Listed(f, n, serial)]
  BY <1>1, RangeQueryInfoIs
<1>4. /\ e \in Seq(Key) /\ Len(e) \in Nat
      /\ \A i \in 1..Len(e) : e[i] \in Found(state, start, end)
  <2>1. ScanOf(e, state, start, end)
    BY ScanLists
  <2> HIDE DEF e
  <2> QED
    BY <2>1 DEF ScanOf
<1>5. /\ f \in Seq(Key) /\ Len(f) \in Nat
      /\ \A k \in Found(serial, start, end) : \E i \in 1..Len(f) : f[i] = k
      /\ Lists(Listed(f, Len(f), serial), Found(serial, start, end), serial)
      /\ \A p \in 1..Len(f) :
           Lists(Listed(f, p, serial), FoundUpTo(serial, start, f[p]), serial)
  <2>1. ScanOf(f, serial, start, end)
    BY <1>1, ScanLists
  <2> HIDE DEF f
  <2> QED
    BY <2>1 DEF ScanOf
<1>6. CombinedIterator(rqi.start, rqi.end, ~rqi.exhausted) = rqi.results
  BY DEF validateRangeQuery
<1> HIDE DEF e, f
<1>7. \A s, st : \A m \in Nat : Len(Listed(s, m, st)) = m
             /\ \A i \in 1..m : Listed(s, m, st)[i] = <<s[i], st[s[i]].ver>>
  BY DEF Listed
<1>8. CASE n > Len(e)
  <2>1. rqi.start = start /\ rqi.end = end /\ (~rqi.exhausted) = FALSE
        /\ rqi.results = Listed(e, Len(e), state)
    BY <1>2, <1>8
  <2> HIDE DEF rqi
  <2>2. Lists(CombinedIterator(start, end, FALSE), Found(serial, start, end) \cup EndKeys(end, FALSE),
              serial)
    BY CombinedLists
  <2>3. Found(serial, start, end) \cup EndKeys(end, FALSE) = Found(serial, start, end)
    BY DEF EndKeys
  <2>4. CombinedIterator(start, end, FALSE) = Listed(f, Len(f), serial)
    BY <1>5, <2>2, <2>3, ListsUnique
  <2>5. Listed(e, Len(e), state) = Listed(f, Len(f), serial)
    BY <1>6, <2>1, <2>4
  <2>6. Len(e) = Len(f)
    <3>1. Len(Listed(e, Len(e), state)) = Len(e) /\ Len(Listed(f, Len(f), serial)) = Len(f)
      BY <1>4, <1>5, <1>7
    <3> QED
      BY <2>5, <3>1
  <2> QED
    BY <1>2, <1>3, <1>8, <2>5, <2>6 DEF rqi
<1>9. CASE ~ (n > Len(e))
  <2>1. rqi.start = start /\ rqi.end = e[n] /\ (~rqi.exhausted) = TRUE
        /\ rqi.results = Listed(e, n, state)
    BY <1>2, <1>9
  <2> HIDE DEF rqi
  <2>2. n \in 1..Len(e)
    BY <1>4, <1>9
  <2>3. e[n] \in Key /\ e[n] \in Nat /\ start =< e[n] /\ e[n] < end
    BY <1>4, <2>2, TxMgrAssumption DEF Found, InRange, Key
  <2> DEFINE A == Found(serial, start, e[n]) \cup EndKeys(e[n], TRUE)
             r == Listed(e, n, state)
             B == FoundUpTo(serial, start, e[n])
  <2>4. Lists(r, A, serial)
    <3>1. Lists(CombinedIterator(start, e[n], TRUE), A, serial)
      BY <2>3, CombinedLists
    <3>2. CombinedIterator(start, e[n], TRUE) = r
      BY <1>6, <2>1
    <3> QED
      BY <3>1, <3>2
  <2>5. Len(r) = n /\ r[n][1] = e[n]
    BY <1>7
  <2>6. e[n] \in A
    <3>1. r[n][1] \in A
      <4> HIDE DEF A, r
      <4> QED
        BY <2>4, <2>5 DEF Lists
    <3> QED
      BY <2>5, <3>1
  <2>7. e[n] \in Present(serial)
    <3>1. e[n] \notin Found(serial, start, e[n])
      BY <2>3 DEF Found, InRange
    <3>2. e[n] \in EndKeys(e[n], TRUE)
      BY <2>6, <3>1
    <3> QED
      BY <2>3, <3>2 DEF EndKeys, Present
  <2>8. A = B
    <3>1. \A k \in Present(serial) : k \in Nat
      BY TxMgrAssumption DEF Present, Key
    <3>2. EndKeys(e[n], TRUE) = {e[n]}
      BY <2>7 DEF EndKeys, Present
    <3>3. Found(serial, start, e[n]) \cup {e[n]} = B
      BY <2>3, <2>7, <3>1 DEF Found, FoundUpTo, InRange
    <3> QED
      BY <3>2, <3>3
  <2>9. PICK m \in 1..Len(f) : f[m] = e[n]
    <3>1. e[n] \in Found(serial, start, end)
      BY <2>3, <2>7 DEF Found, InRange
    <3> QED
      BY <1>5, <3>1
  <2>10. Lists(Listed(f, m, serial), B, serial)
    BY <1>5, <2>9
  <2> HIDE DEF A, B
  <2>11. r = Listed(f, m, serial)
    BY <2>4, <2>8, <2>10, ListsUnique
  <2>12. m = n
    <3>1. m \in Nat /\ Len(Listed(f, m, serial)) = m
      BY <1>5, <1>7
    <3> QED
      BY <2>5, <2>11, <3>1
  <2>13. ~ (n > Len(f))
    BY <1>5, <2>12
  <2> QED
    BY <1>2, <1>3, <1>9, <2>9, <2>11, <2>12, <2>13 DEF rqi
<1> QED
  BY <1>8, <1>9

-----------------------------------------------------------------------------
(* Running a chaincode alone. *)

\* The operations of a chaincode.
LEMMA OpsFacts ==
  ASSUME NEW cc \in Chaincode
  PROVE  /\ cc.ops \in Seq(Op) /\ Len(cc.ops) \in Nat
         /\ \A m \in 1..Len(cc.ops) : cc.ops[m] \in Op
BY TxMgrAssumption

\* The read-write set after n operations is that after n - 1 operations and the n-th executed.
LEMMA RunIs ==
  ASSUME NEW cc \in Chaincode, NEW state
  PROVE  /\ Run(cc, state)[0] = EmptyRWSet
         /\ \A n \in 1..Len(cc.ops) :
              Run(cc, state)[n] = Executed(Run(cc, state)[n - 1], cc, cc.ops[n], state)
<1> DEFINE N == Len(cc.ops)
           X(g, n) == IF n = 0 THEN EmptyRWSet ELSE Executed(g[n - 1], cc, cc.ops[n], state)
           F(g) == [n \in 0..N |-> X(g, n)]
           Upto(m, g) == /\ g = [n \in 0..N |-> g[n]]
                         /\ \A n \in 0..m : g[n] = X(g, n)
           S == {m \in 0..N : \E g : Upto(m, g)}
<1>1. N \in Nat
  BY OpsFacts
<1>2. \A g, h : \A n \in 0..N : (n # 0 => g[n - 1] = h[n - 1]) => X(g, n) = X(h, n)
  OBVIOUS
<1>3. \A g : X(g, 0) = EmptyRWSet
  OBVIOUS
<1> HIDE DEF N, X
<1>4. 0 \in S
  <2> DEFINE g == [n \in 0..N |-> EmptyRWSet]
  <2>1. Upto(0, g)
    BY <1>1, <1>3
  <2> HIDE DEF Upto
  <2> QED
    BY <1>1, <2>1
<1>5. ASSUME NEW m \in 1..N, m - 1 \in S PROVE m \in S
  <2>1. PICK g : Upto(m - 1, g)
    BY <1>5
  <2> DEFINE h == [n \in 0..N |-> IF n =< m - 1 THEN g[n] ELSE X(g, n)]
  <2>2. h = [n \in 0..N |-> h[n]]
        /\ \A n \in 0..N : h[n] = IF n =< m - 1 THEN g[n] ELSE X(g, n)
    OBVIOUS
  <2> HIDE DEF h
  <2>3. ASSUME NEW n \in 0..m PROVE h[n] = X(h, n)
    <3>1. n \in 0..N /\ n \in Nat
      BY <1>1
    <3>2. h[n] = X(g, n)
      BY <2>1, <2>2, <3>1
    <3>3. n # 0 => g[n - 1] = h[n - 1]
      BY <1>1, <2>2, <3>1
    <3>4. X(g, n) = X(h, n)
      BY <1>2, <3>1, <3>3
    <3> QED
      BY <3>2, <3>4
  <2>4. Upto(m, h)
    BY <2>2, <2>3
  <2> HIDE DEF Upto
  <2> QED
    BY <1>1, <2>4
<1> HIDE DEF S
<1>6. N \in S
  <2>1. \A n \in 0..N : n \in S
    BY <1>1, <1>4, <1>5, Induction
  <2> QED
    BY <1>1, <2>1
<1>7. PICK g : Upto(N, g)
  BY <1>6 DEF S
<1>8. g = F(g)
  <2>1. g = [n \in 0..N |-> g[n]] /\ \A n \in 0..N : g[n] = X(g, n)
    BY <1>7
  <2>2. [n \in 0..N |-> g[n]] = [n \in 0..N |-> X(g, n)]
    BY <2>1
  <2> QED
    BY <2>1, <2>2
<1>9. Run(cc, state) = CHOOSE f : f = F(f)
  BY DEF Run, X, N
<1>10. Run(cc, state) = F(Run(cc, state))
  <2> HIDE DEF F
  <2> QED
    BY <1>8, <1>9
<1>11. \A f : \A n \in 0..N : F(f)[n] = X(f, n)
  OBVIOUS
<1>12. \A n \in 0..N : Run(cc, state)[n] = X(Run(cc, state), n)
  <2> HIDE DEF F
  <2> QED
    BY <1>10, <1>11
<1>13. Run(cc, state)[0] = EmptyRWSet
  BY <1>1, <1>3, <1>12
<1>14. ASSUME NEW n \in 1..N
       PROVE  Run(cc, state)[n] = Executed(Run(cc, state)[n - 1], cc, cc.ops[n], state)
  <2>1. n \in 0..N /\ n # 0
    BY <1>1
  <2> QED
    BY <1>12, <2>1 DEF X
<1> QED
  BY <1>13, <1>14 DEF N

\* What a read-write set records of a state: versions of keys and results of scans.
RecordOf(rw, state) ==
  /\ RWSetOK(rw)
  /\ \A k \in DOMAIN rw.reads : rw.reads[k] = state[k].ver
  /\ \A rqi \in rw.ranges :
       \E start \in Nat, end \in Nat, n \in Nat \ {0} : rqi = RangeQueryInfo(state, start, end, n)

\* Executing an operation adds to the scans at most one of the state.
LEMMA ExecutedRanges ==
  ASSUME NEW rw, RWSetOK(rw), NEW cc \in Chaincode, NEW op \in Op, NEW state
  PROVE  LET ex == Executed(rw, cc, op, state) IN
         /\ rw.ranges \subseteq ex.ranges /\ DOMAIN rw.reads \subseteq DOMAIN ex.reads
         /\ op.op # "range" => ex.ranges = rw.ranges
         /\ op.op = "range" =>
              /\ ex.ranges = rw.ranges \cup {RangeQueryInfo(state, op.start, op.end, op.n)}
              /\ op.start \in Nat /\ op.end \in Nat /\ op.n \in Nat \ {0}
         /\ op.op = "get" => op.key \in DOMAIN ex.reads
<1> USE DEF RWSetOK, Executed, Put
<1>1. CASE op.op = "get"
  BY <1>1
<1>2. CASE op.op = "range"
  <2>1. op.start \in Nat /\ op.end \in Nat /\ op.n \in Nat \ {0}
    BY <1>2, TxMgrAssumption DEF Op, Key
  <2> QED
    BY <1>2, <2>1
<1>3. CASE op.op \in {"put", "delete"}
  BY <1>3
<1>4. CASE op.op \in {"setMeta", "deleteMeta"}
  BY <1>4
<1> QED
  BY <1>1, <1>2, <1>3, <1>4 DEF Op

\* Executing an operation on the state keeps a record of it one.
LEMMA ExecutedRecord ==
  ASSUME NEW rw, NEW state, RecordOf(rw, state), NEW cc \in Chaincode, NEW op \in Op
  PROVE  RecordOf(Executed(rw, cc, op, state), state)
<1> DEFINE ex == Executed(rw, cc, op, state)
<1>1. RWSetOK(rw) /\ \A k \in DOMAIN rw.reads : rw.reads[k] = state[k].ver
  BY DEF RecordOf
<1>2. RWSetOK(ex) /\ \A k \in DOMAIN ex.reads : ex.reads[k] = state[k].ver
  BY <1>1, ExecutedOK, ExecutedReads
<1>3. /\ op.op # "range" => ex.ranges = rw.ranges
      /\ op.op = "range" =>
           /\ ex.ranges = rw.ranges \cup {RangeQueryInfo(state, op.start, op.end, op.n)}
           /\ op.start \in Nat /\ op.end \in Nat /\ op.n \in Nat \ {0}
  BY <1>1, ExecutedRanges
<1> HIDE DEF ex
<1>4. ASSUME NEW rqi \in ex.ranges
      PROVE  \E start \in Nat, end \in Nat, n \in Nat \ {0} :
               rqi = RangeQueryInfo(state, start, end, n)
  <2>1. CASE rqi \in rw.ranges
    BY <2>1 DEF RecordOf
  <2>2. CASE rqi \notin rw.ranges
    BY <1>3, <1>4, <2>2
  <2> QED
    BY <2>1, <2>2
<1> QED
  BY <1>2, <1>4 DEF RecordOf, ex

\* A run records the state it runs on, and every read and scan it makes.
LEMMA RunRecords ==
  ASSUME NEW cc \in Chaincode, NEW state
  PROVE  \A n \in 0..Len(cc.ops) :
           /\ RecordOf(Run(cc, state)[n], state)
           /\ \A m \in 1..n :
                /\ cc.ops[m].op = "get" => cc.ops[m].key \in DOMAIN Run(cc, state)[n].reads
                /\ cc.ops[m].op = "range" =>
                     RangeQueryInfo(state, cc.ops[m].start, cc.ops[m].end, cc.ops[m].n)
                       \in Run(cc, state)[n].ranges
<1> DEFINE N == Len(cc.ops)
           R == Run(cc, state)
           Made(m, rw) ==
             /\ cc.ops[m].op = "get" => cc.ops[m].key \in DOMAIN rw.reads
             /\ cc.ops[m].op = "range" =>
                  RangeQueryInfo(state, cc.ops[m].start, cc.ops[m].end, cc.ops[m].n) \in rw.ranges
           S == {n \in 0..N : RecordOf(R[n], state) /\ \A m \in 1..n : Made(m, R[n])}
<1>1. N \in Nat /\ \A m \in 1..N : cc.ops[m] \in Op
  BY OpsFacts
<1>2. R[0] = EmptyRWSet /\ \A n \in 1..N : R[n] = Executed(R[n - 1], cc, cc.ops[n], state)
  BY RunIs
<1> HIDE DEF R, N
<1>3. 0 \in S
  <2>1. RecordOf(EmptyRWSet, state)
    BY DEF RecordOf, RWSetOK, EmptyRWSet, EmptyMap
  <2> QED
    BY <1>1, <1>2, <2>1
<1>4. ASSUME NEW n \in 1..N, n - 1 \in S PROVE n \in S
  <2>1. RecordOf(R[n - 1], state) /\ \A m \in 1..(n - 1) : Made(m, R[n - 1])
    BY <1>4
  <2>2. RWSetOK(R[n - 1]) /\ cc.ops[n] \in Op /\ R[n] = Executed(R[n - 1], cc, cc.ops[n], state)
    BY <1>1, <1>2, <2>1 DEF RecordOf
  <2>3. RecordOf(R[n], state)
    BY <2>1, <2>2, ExecutedRecord
  <2>4. /\ R[n - 1].ranges \subseteq R[n].ranges /\ DOMAIN R[n - 1].reads \subseteq DOMAIN R[n].reads
        /\ Made(n, R[n])
    <3> DEFINE op == cc.ops[n]
    <3>1. /\ R[n - 1].ranges \subseteq R[n].ranges
          /\ DOMAIN R[n - 1].reads \subseteq DOMAIN R[n].reads
          /\ op.op = "range" =>
               R[n].ranges = R[n - 1].ranges \cup {RangeQueryInfo(state, op.start, op.end, op.n)}
          /\ op.op = "get" => op.key \in DOMAIN R[n].reads
      BY <2>2, ExecutedRanges
    <3> QED
      BY <3>1
  <2>5. ASSUME NEW m \in 1..n PROVE Made(m, R[n])
    <3>1. CASE m = n
      BY <2>4, <3>1
    <3>2. CASE m # n
      <4>1. m \in 1..(n - 1)
        BY <1>1, <3>2
      <4>2. Made(m, R[n - 1])
        BY <2>1, <4>1
      <4> QED
        BY <2>4, <4>2
    <3> QED
      BY <3>1, <3>2
  <2> HIDE DEF Made
  <2> QED
    BY <1>1, <2>3, <2>5
<1> HIDE DEF S
<1>5. \A n \in 0..N : n \in S
  BY <1>1, <1>3, <1>4, Induction
<1> QED
  BY <1>5 DEF S, R, N

\* A run on a state that has the same versions and the same scans has the same result.
LEMMA RunSame ==
  ASSUME NEW cc \in Chaincode, NEW state, NEW other,
         \A m \in 1..Len(cc.ops) :
           /\ cc.ops[m].op = "get" => other[cc.ops[m].key].ver = state[cc.ops[m].key].ver
           /\ cc.ops[m].op = "range" =>
                RangeQueryInfo(other, cc.ops[m].start, cc.ops[m].end, cc.ops[m].n)
                  = RangeQueryInfo(state, cc.ops[m].start, cc.ops[m].end, cc.ops[m].n)
  PROVE  Run(cc, other)[Len(cc.ops)] = Run(cc, state)[Len(cc.ops)]
<1> DEFINE N == Len(cc.ops)
           Q == Run(cc, other)
           R == Run(cc, state)
           S == {n \in 0..N : Q[n] = R[n]}
<1>1. N \in Nat /\ \A m \in 1..N : cc.ops[m] \in Op
  BY OpsFacts
<1>2. /\ R[0] = EmptyRWSet /\ \A n \in 1..N : R[n] = Executed(R[n - 1], cc, cc.ops[n], state)
      /\ Q[0] = EmptyRWSet /\ \A n \in 1..N : Q[n] = Executed(Q[n - 1], cc, cc.ops[n], other)
  BY RunIs
<1>3. ASSUME NEW n \in 1..N, NEW rw
      PROVE  Executed(rw, cc, cc.ops[n], other) = Executed(rw, cc, cc.ops[n], state)
  <2> DEFINE op == cc.ops[n]
  <2>1. /\ op \in Op
        /\ op.op = "get" => other[op.key].ver = state[op.key].ver
        /\ op.op = "range" => RangeQueryInfo(other, op.start, op.end, op.n)
                                = RangeQueryInfo(state, op.start, op.end, op.n)
    BY <1>1
  <2> HIDE DEF op
  <2>2. op.op \in {"get", "range", "put", "delete", "setMeta", "deleteMeta"}
    BY <2>1 DEF Op
  <2>3. Executed(rw, cc, op, other) = Executed(rw, cc, op, state)
    BY <2>1, <2>2 DEF Executed
  <2> QED
    BY <2>3 DEF op
<1> HIDE DEF N, Q, R
<1>4. 0 \in S
  BY <1>1, <1>2
<1>5. ASSUME NEW n \in 1..N, n - 1 \in S PROVE n \in S
  <2>1. Q[n - 1] = R[n - 1]
    BY <1>5
  <2>2. Q[n] = R[n]
    BY <1>2, <1>3, <2>1
  <2> QED
    BY <1>1, <2>2
<1> HIDE DEF S
<1>6. N \in S
  <2>1. \A n \in 0..N : n \in S
    BY <1>1, <1>4, <1>5, Induction
  <2> QED
    BY <1>1, <2>1
<1> QED
  BY <1>6 DEF S, N, Q, R

-----------------------------------------------------------------------------
(* Serializability. *)

\* A read-write set is what its chaincode gives alone on one state: the state DB of the
\* simulator, as of a height that is committed.
Recorded ==
  \A c \in Client :
    /\ client[c].st = "simulating" =>
         /\ client[c].ip =< Len(client[c].cc.ops) + 1
         /\ client[c].rw = Run(client[c].cc, db)[client[c].ip - 1]
    /\ client[c].st = "endorsed" =>
         \E state \in [Key -> VV] :
           /\ \A k \in Key : state[k].ver[1] =< height
           /\ client[c].rw = Run(client[c].cc, state)[Len(client[c].cc.ops)]

\* A key that the batch deletes was written by a valid transaction of the block.
DeletedByWrite ==
  \A k \in DOMAIN updates :
    updates[k].val = None =>
      \E j \in DOMAIN codes : codes[j] = "VALID" /\ k \in DOMAIN client[block[j]].rw.writes

SerialInv == Recorded /\ DeletedByWrite /\ Serializable /\ NoSpuriousConflict

\* A valid transaction would have the same read-write set alone on the serial state.
LEMMA ValidIsSerial ==
  ASSUME Validating, NEW cc \in Chaincode, NEW state \in [Key -> VV],
         NEW rw, rw = Run(cc, state)[Len(cc.ops)], validateTx(rw) = "VALID"
  PROVE  Run(cc, serial)[Len(cc.ops)] = rw
<1> DEFINE N == Len(cc.ops)
<1>1. N \in Nat /\ \A m \in 1..N : cc.ops[m] \in Op
  BY OpsFacts
<1>2. N \in 0..N
  BY <1>1
<1>3. /\ RecordOf(rw, state)
      /\ \A m \in 1..N :
           /\ cc.ops[m].op = "get" => cc.ops[m].key \in DOMAIN rw.reads
           /\ cc.ops[m].op = "range" =>
                RangeQueryInfo(state, cc.ops[m].start, cc.ops[m].end, cc.ops[m].n) \in rw.ranges
  BY <1>2, RunRecords
<1>4. /\ \A k \in DOMAIN rw.reads : validateKVRead(k, rw.reads[k])
      /\ \A rqi \in rw.ranges : validateRangeQuery(rqi)
  BY DEF validateTx
<1> HIDE DEF N
<1>5. ASSUME NEW m \in 1..N
      PROVE  /\ cc.ops[m].op = "get" => serial[cc.ops[m].key].ver = state[cc.ops[m].key].ver
             /\ cc.ops[m].op = "range" =>
                  RangeQueryInfo(serial, cc.ops[m].start, cc.ops[m].end, cc.ops[m].n)
                    = RangeQueryInfo(state, cc.ops[m].start, cc.ops[m].end, cc.ops[m].n)
  <2> DEFINE op == cc.ops[m]
  <2>1. op \in Op
    BY <1>1
  <2>2. ASSUME op.op = "get" PROVE serial[op.key].ver = state[op.key].ver
    <3> DEFINE k == op.key
    <3>1. k \in DOMAIN rw.reads
      BY <1>3, <2>2
    <3>2. rw.reads[k] = state[k].ver /\ k \in Key
      BY <1>3, <3>1 DEF RecordOf, RWSetOK
    <3>3. k \notin DOMAIN updates /\ db[k].ver = rw.reads[k]
      BY <1>4, <3>1 DEF validateKVRead
    <3> HIDE DEF k
    <3>4. serial[k] = db[k]
      BY <3>2, <3>3 DEF Validating, Applied
    <3> QED
      BY <3>2, <3>3, <3>4 DEF k
  <2>3. ASSUME op.op = "range"
        PROVE  RangeQueryInfo(serial, op.start, op.end, op.n)
                 = RangeQueryInfo(state, op.start, op.end, op.n)
    <3>1. op.start \in Nat /\ op.end \in Nat /\ op.n \in Nat \ {0}
      BY <2>1, <2>3, TxMgrAssumption DEF Op, Key
    <3>2. validateRangeQuery(RangeQueryInfo(state, op.start, op.end, op.n))
      BY <1>3, <1>4, <2>3
    <3> HIDE DEF op
    <3> QED
      BY <3>1, <3>2, ValidRangeIsCurrent
  <2> QED
    BY <2>2, <2>3
<1> QED
  BY <1>5, RunSame DEF N

\* An invalid transaction that would have the same read-write set alone on the serial state
\* read a key that is in the batch, at its serial version.
LEMMA ConflictIsInBatch ==
  ASSUME Validating, NEW cc \in Chaincode,
         NEW rw, rw = Run(cc, serial)[Len(cc.ops)], validateTx(rw) # "VALID"
  PROVE  \E k \in DOMAIN rw.reads : /\ k \in DOMAIN updates /\ k \in Key
                                    /\ rw.reads[k] = serial[k].ver
<1>1. Len(cc.ops) \in 0..Len(cc.ops)
  BY OpsFacts
<1>2. RecordOf(rw, serial)
  BY <1>1, RunRecords
<1>3. \A rqi \in rw.ranges : validateRangeQuery(rqi)
  BY <1>2, CurrentRangeIsValid DEF RecordOf
<1>4. PICK k \in DOMAIN rw.reads : ~validateKVRead(k, rw.reads[k])
  BY <1>3 DEF validateTx
<1>5. k \in Key /\ rw.reads[k] = serial[k].ver
  BY <1>2 DEF RecordOf, RWSetOK
<1>6. k \in DOMAIN updates
  <2> SUFFICES ASSUME k \notin DOMAIN updates PROVE FALSE
    OBVIOUS
  <2>1. serial[k] = db[k]
    BY <1>5 DEF Validating, Applied
  <2> QED
    BY <1>4, <1>5, <2>1 DEF validateKVRead
<1> QED
  BY <1>5, <1>6

\* The initial state.
LEMMA InitSerial == Init => SerialInv
<1> SUFFICES ASSUME Init PROVE SerialInv
  OBVIOUS
<1>1. DOMAIN codes = {} /\ DOMAIN updates = {}
  BY DEF Init, EmptyMap
<1>2. \A c \in Client : client[c].st = "idle"
  BY DEF Init
<1> QED
  BY <1>1, <1>2 DEF SerialInv, Recorded, DeletedByWrite, Serializable, NoSpuriousConflict

\* Every step keeps the origin of the read-write sets.
LEMMA RecordedStep ==
  ASSUME IInv, Recorded, [Next]_vars PROVE Recorded'
<1> DEFINE Sim(c) == /\ client[c].ip =< Len(client[c].cc.ops) + 1
                     /\ client[c].rw = Run(client[c].cc, db)[client[c].ip - 1]
           End(c) == \E state \in [Key -> VV] :
                       /\ \A k \in Key : state[k].ver[1] =< height
                       /\ client[c].rw = Run(client[c].cc, state)[Len(client[c].cc.ops)]
<1>1. \A c \in Client : /\ client[c].st = "simulating" => Sim(c)
                        /\ client[c].st = "endorsed" => End(c)
  BY DEF Recorded
<1>2. ASSUME \A c \in Client : /\ client'[c].st = "simulating" => Sim(c)'
                               /\ client'[c].st = "endorsed" => End(c)'
      PROVE  Recorded'
  BY <1>2 DEF Recorded
<1>3. /\ DOMAIN client = Client /\ db \in [Key -> VV] /\ \A k \in Key : db[k].ver[1] =< height
      /\ height \in Nat
      /\ \A c \in Client : client[c].st # "idle" =>
                             client[c].cc \in Chaincode /\ client[c].ip \in Nat \ {0}
  BY DEF IInv, ClientsOK, TypeOK
<1>4. ASSUME UNCHANGED <<db, height>>, NEW c \in Client, client'[c] = client[c]
      PROVE  /\ client'[c].st = "simulating" => Sim(c)'
             /\ client'[c].st = "endorsed" => End(c)'
  BY <1>1, <1>4
<1>5. ASSUME NEW c \in Client, NEW cc \in Chaincode, NewTxSimulator(c, cc) PROVE Recorded'
  <2>1. /\ UNCHANGED <<db, height>> /\ \A d \in Client \ {c} : client'[d] = client[d]
        /\ client'[c] = [st |-> "simulating", cc |-> cc, ip |-> 1, rw |-> EmptyRWSet]
    BY <1>3, <1>5 DEF NewTxSimulator
  <2>2. Run(cc, db)[0] = EmptyRWSet /\ Len(cc.ops) \in Nat
    BY RunIs, OpsFacts
  <2>3. Sim(c)' /\ client'[c].st # "endorsed"
    BY <2>1, <2>2
  <2> QED
    BY <1>2, <1>4, <2>1, <2>3
<1>6. ASSUME NEW c \in Client, Simulate(c) PROVE Recorded'
  <2> DEFINE me == client[c]
  <2>1. /\ UNCHANGED <<db, height>> /\ \A d \in Client \ {c} : client'[d] = client[d]
        /\ me.st = "simulating" /\ me.ip =< Len(me.cc.ops)
        /\ client'[c] = [st |-> "simulating", cc |-> me.cc, ip |-> me.ip + 1,
                         rw |-> Executed(me.rw, me.cc, me.cc.ops[me.ip], db)]
    BY <1>3, <1>6 DEF Simulate
  <2>2. me.cc \in Chaincode /\ me.ip \in Nat \ {0} /\ Len(me.cc.ops) \in Nat
        /\ me.rw = Run(me.cc, db)[me.ip - 1]
    BY <1>1, <1>3, <2>1, OpsFacts
  <2>3. me.ip \in 1..Len(me.cc.ops)
    BY <2>1, <2>2
  <2>4. Run(me.cc, db)[me.ip] = Executed(me.rw, me.cc, me.cc.ops[me.ip], db)
    BY <2>2, <2>3, RunIs
  <2>5. /\ client'[c].st = "simulating" /\ client'[c].cc = me.cc /\ client'[c].ip = me.ip + 1
        /\ client'[c].rw = Executed(me.rw, me.cc, me.cc.ops[me.ip], db)
    BY <2>1
  <2>6. client'[c].ip - 1 = me.ip /\ client'[c].ip =< Len(me.cc.ops) + 1
    <3> SUFFICES ASSUME NEW i \in Nat, i = me.ip
                 PROVE  client'[c].ip - 1 = i /\ client'[c].ip =< Len(me.cc.ops) + 1
      BY <2>2
    <3>1. client'[c].ip = i + 1 /\ i =< Len(me.cc.ops) /\ Len(me.cc.ops) \in Nat
      BY <2>2, <2>3, <2>5
    <3> QED
      BY <3>1
  <2>7. Sim(c)' /\ client'[c].st # "endorsed"
    BY <2>1, <2>4, <2>5, <2>6
  <2> QED
    BY <1>2, <1>4, <2>1, <2>7
<1>7. ASSUME NEW c \in Client, Done(c) PROVE Recorded'
  <2> DEFINE me == client[c]
  <2>1. /\ UNCHANGED <<db, height>> /\ \A d \in Client \ {c} : client'[d] = client[d]
        /\ me.st = "simulating" /\ me.ip > Len(me.cc.ops)
        /\ client'[c] = [st |-> "endorsed", cc |-> me.cc, ip |-> me.ip, rw |-> me.rw]
    BY <1>3, <1>7 DEF Done
  <2>2. me.cc \in Chaincode /\ me.ip \in Nat \ {0} /\ Len(me.cc.ops) \in Nat
        /\ me.ip =< Len(me.cc.ops) + 1 /\ me.rw = Run(me.cc, db)[me.ip - 1]
    BY <1>1, <1>3, <2>1, OpsFacts
  <2>3. me.ip - 1 = Len(me.cc.ops)
    BY <2>1, <2>2
  <2>4. client'[c].st = "endorsed" /\ client'[c].cc = me.cc /\ client'[c].rw = me.rw
    BY <2>1
  <2>5. End(c)'
    BY <1>3, <2>1, <2>2, <2>3, <2>4
  <2> QED
    BY <1>2, <1>4, <2>1, <2>4, <2>5
<1>8. ASSUME NEW c \in Client, Abandon(c) PROVE Recorded'
  <2>1. /\ UNCHANGED <<db, height>> /\ \A d \in Client \ {c} : client'[d] = client[d]
        /\ client'[c] = [st |-> "idle"]
    BY <1>3, <1>8 DEF Abandon
  <2>2. client'[c].st = "idle"
    BY <2>1
  <2> QED
    BY <1>2, <1>4, <2>1, <2>2
<1>9. CASE (\E txs \in Orders : Order(txs)) \/ ValidateTx \/ RequestLock \/ UNCHANGED vars
  <2>1. UNCHANGED <<db, height, client>>
    BY <1>9 DEF Order, ValidateTx, RequestLock, vars
  <2> QED
    BY <1>2, <1>4, <2>1
<1>10. CASE Commit
  <2>1. /\ height' = height + 1 /\ \A c \in Client : client[c].st # "simulating"
        /\ \A c \in Client : client'[c] = [st |-> "idle"] \/ client'[c] = client[c]
    BY <1>10 DEF Commit, NoReaders
  <2>2. ASSUME NEW c \in Client, client'[c].st = "endorsed" PROVE End(c)'
    <3>1. client'[c] = client[c]
      BY <2>1, <2>2
    <3>2. PICK state \in [Key -> VV] :
            /\ \A k \in Key : state[k].ver[1] =< height
            /\ client[c].rw = Run(client[c].cc, state)[Len(client[c].cc.ops)]
      BY <1>1, <2>2, <3>1
    <3>3. \A k \in Key : state[k].ver[1] =< height'
      <4> SUFFICES ASSUME NEW k \in Key PROVE state[k].ver[1] =< height'
        OBVIOUS
      <4>1. state[k].ver[1] \in Nat
        BY DEF VV, Version
      <4> QED
        BY <1>3, <2>1, <3>2, <4>1
    <3> QED
      BY <3>1, <3>2, <3>3
  <2>3. \A c \in Client : client'[c].st # "simulating"
    BY <2>1
  <2> QED
    BY <1>2, <2>2, <2>3
<1>11. CASE Restart
  <2>1. /\ UNCHANGED <<db, height>>
        /\ \A c \in Client : client'[c] = [st |-> "idle"] \/ client'[c] = client[c]
    BY <1>11 DEF Restart
  <2> QED
    BY <1>2, <1>4, <2>1
<1> QED
  BY <1>5, <1>6, <1>7, <1>8, <1>9, <1>10, <1>11 DEF Next

\* Steps that leave the transactions of the block as they are keep what is said of them.
LEMMA BlockSame ==
  ASSUME IInv, UNCHANGED <<block, codes, updates, before>>,
         \A i \in 1..Len(block) : client'[block[i]] = client[block[i]],
         DeletedByWrite, Serializable, NoSpuriousConflict
  PROVE  DeletedByWrite' /\ Serializable' /\ NoSpuriousConflict'
<1>1. DOMAIN codes \subseteq 1..Len(block) /\ DOMAIN codes = 1..Len(codes) /\ Len(codes) \in Nat
  BY DEF IInv, BlockOK, TypeOK
<1>2. \A i \in DOMAIN codes : client'[block[i]] = client[block[i]]
  BY <1>1
<1>3. \A i \in DOMAIN codes : \A j \in 1..(i - 1) : j \in DOMAIN codes
  BY <1>1
<1>4. DeletedByWrite'
  BY <1>2 DEF DeletedByWrite
<1>5. Serializable'
  BY <1>2 DEF Serializable, Rerun
<1>6. NoSpuriousConflict'
  BY <1>2, <1>3 DEF NoSpuriousConflict, Rerun
<1> QED
  BY <1>4, <1>5, <1>6

\* So does a step that begins the block again or ends it.
LEMMA BlockEmpty ==
  ASSUME codes' = << >>, updates' = EmptyMap
  PROVE  DeletedByWrite' /\ Serializable' /\ NoSpuriousConflict'
<1>1. DOMAIN codes' = {} /\ DOMAIN updates' = {}
  BY DEF EmptyMap
<1> QED
  BY <1>1 DEF DeletedByWrite, Serializable, NoSpuriousConflict

\* Validating one transaction: the code it gets is the right one.
LEMMA ValidateSerial ==
  ASSUME IInv, SerialInv, ValidateTx
  PROVE  DeletedByWrite' /\ Serializable' /\ NoSpuriousConflict'
<1> DEFINE i == Len(codes) + 1
           c == block[i]
           cc == client[c].cc
           rw == client[c].rw
           code == validateTx(rw)
<1>1. /\ pc = "validate" /\ i =< Len(block) /\ before' = Append(before, serial)
      /\ UNCHANGED <<db, height, client, block>>
  BY DEF ValidateTx
<1>2. /\ block \in Seq(Client) /\ codes \in Seq(ValidationCode)
      /\ before \in Seq([Key -> VV]) /\ Len(before) = Len(codes)
  BY <1>1 DEF IInv, BlockOK, ValidationCode
<1>3. i \in 1..Len(block) /\ i \in Nat \ {0} /\ Len(codes) \in Nat
  BY <1>1, <1>2
<1>4. c \in Client /\ client[c].st = "endorsed" /\ cc \in Chaincode /\ RWSetOK(rw)
  BY <1>2, <1>3 DEF IInv, BlockOK, ClientsOK
<1>5. Validating
  BY <1>1, AppliedType DEF Validating, IInv, BatchIsSerial, TypeOK
<1>6. before'[i] = serial /\ \A j \in DOMAIN codes : before'[j] = before[j]
  BY <1>1, <1>2
<1>7. PICK state \in [Key -> VV] :
        /\ \A k \in Key : state[k].ver[1] =< height
        /\ rw = Run(cc, state)[Len(cc.ops)]
  BY <1>4 DEF SerialInv, Recorded
<1>8. CASE code = "VALID" /\ Panics(rw)
  <2>1. UNCHANGED <<codes, updates>>
    BY <1>8 DEF ValidateTx
  <2>2. DOMAIN codes = 1..Len(codes)
    BY <1>2
  <2>3. DeletedByWrite'
    BY <1>1, <2>1 DEF SerialInv, DeletedByWrite
  <2>4. Serializable'
    BY <1>1, <1>6, <2>1 DEF SerialInv, Serializable, Rerun
  <2>5. NoSpuriousConflict'
    BY <1>1, <1>6, <2>1, ZenonT(30) DEF SerialInv, NoSpuriousConflict, Rerun
  <2> QED
    BY <2>3, <2>4, <2>5
<1>9. CASE ~(code = "VALID" /\ Panics(rw))
  <2>1. /\ codes' = Append(codes, code)
        /\ IF code = "VALID" THEN applyWriteSet(rw, TxHeight(i)) ELSE UNCHANGED updates
    BY <1>9 DEF ValidateTx
  <2>2. code \in ValidationCode
    BY DEF validateTx, ValidationCode
  <2>3. code = "VALID" => Run(cc, serial)[Len(cc.ops)] = rw
    BY <1>4, <1>5, <1>7, ValidIsSerial
  <2>4. ASSUME code # "VALID", Run(cc, serial)[Len(cc.ops)] = rw
        PROVE  \E j \in DOMAIN codes, k \in DOMAIN rw.reads :
                 codes[j] = "VALID" /\ k \in DOMAIN client[block[j]].rw.writes
    <3>1. PICK k \in DOMAIN rw.reads : /\ k \in DOMAIN updates /\ k \in Key
                                       /\ rw.reads[k] = serial[k].ver
      BY <1>4, <1>5, <2>4, ConflictIsInBatch
    <3>2. rw.reads[k] = state[k].ver
      <4>1. Len(cc.ops) \in 0..Len(cc.ops)
        BY <1>4, OpsFacts
      <4>2. RecordOf(rw, state)
        BY <1>4, <1>7, <4>1, RunRecords
      <4> QED
        BY <4>2 DEF RecordOf
    <3>3. updates[k].val = None
      <4> SUFFICES ASSUME updates[k].val # None PROVE FALSE
        OBVIOUS
      <4>1. serial[k] = updates[k]
        BY <1>5, <3>1 DEF Validating, Applied
      <4>2. serial[k].ver[1] = height + 1
        BY <3>1, <4>1 DEF IInv, UpdatesOK
      <4>3. height \in Nat /\ state[k].ver[1] =< height
        BY <1>7, <3>1 DEF IInv, TypeOK
      <4> QED
        BY <3>1, <3>2, <4>2, <4>3
    <3> QED
      BY <3>1, <3>3 DEF SerialInv, DeletedByWrite
  <2> HIDE DEF code
  <2>5. /\ codes'[i] = code /\ \A j \in DOMAIN codes : codes'[j] = codes[j]
        /\ DOMAIN codes' = DOMAIN codes \cup {i} /\ DOMAIN codes = 1..(i - 1)
    BY <1>2, <1>3, <2>1, <2>2
  <2>6. /\ \A j \in DOMAIN codes : codes'[j] = codes[j] /\ before'[j] = before[j] /\ j # i
        /\ \A j \in DOMAIN codes : \A m \in 1..(j - 1) : m \in DOMAIN codes
    BY <1>3, <1>6, <2>5
  <2> HIDE DEF i
  <2>7. Serializable'
    <3> SUFFICES ASSUME NEW j \in DOMAIN codes', codes'[j] = "VALID"
                 PROVE  Run(client[block[j]].cc, before'[j])[Len(client[block[j]].cc.ops)]
                          = client[block[j]].rw
      BY <1>1 DEF Serializable, Rerun
    <3>1. CASE j = i
      BY <1>6, <2>3, <2>5, <3>1
    <3>2. CASE j \in DOMAIN codes
      BY <2>6, <3>2 DEF SerialInv, Serializable, Rerun
    <3> QED
      BY <2>5, <3>1, <3>2
  <2>8. NoSpuriousConflict'
    <3> SUFFICES ASSUME NEW j \in DOMAIN codes', codes'[j] # "VALID",
                        Run(client[block[j]].cc, before'[j])[Len(client[block[j]].cc.ops)]
                          = client[block[j]].rw
                 PROVE  \E m \in 1..(j - 1), k \in DOMAIN client[block[j]].rw.reads :
                          codes'[m] = "VALID" /\ k \in DOMAIN client[block[m]].rw.writes
      BY <1>1 DEF NoSpuriousConflict, Rerun
    <3>1. CASE j = i
      <4>1. PICK m \in DOMAIN codes, k \in DOMAIN rw.reads :
              codes[m] = "VALID" /\ k \in DOMAIN client[block[m]].rw.writes
        BY <1>6, <2>4, <2>5, <3>1
      <4> QED
        BY <2>5, <2>6, <3>1, <4>1
    <3>2. CASE j \in DOMAIN codes
      <4>1. PICK m \in 1..(j - 1), k \in DOMAIN client[block[j]].rw.reads :
              codes[m] = "VALID" /\ k \in DOMAIN client[block[m]].rw.writes
        BY <2>6, <3>2 DEF SerialInv, NoSpuriousConflict, Rerun
      <4>2. m \in DOMAIN codes
        BY <2>6, <3>2
      <4> QED
        BY <2>6, <4>1, <4>2
    <3> QED
      BY <2>5, <3>1, <3>2
  <2>9. DeletedByWrite'
    <3>1. CASE code # "VALID"
      <4>1. updates' = updates
        BY <2>1, <3>1
      <4> QED
        BY <1>1, <2>5, <4>1 DEF SerialInv, DeletedByWrite
    <3>2. CASE code = "VALID"
      <4>1. updates' = [k \in DOMAIN updates \cup TxOps(rw) |->
                          IF k \in TxOps(rw) THEN KeyOp(rw, k, TxHeight(i)) ELSE updates[k]]
        BY <2>1, <3>2 DEF applyWriteSet
      <4>2. ~Panics(rw)
        BY <1>9, <3>2
      <4> SUFFICES ASSUME NEW k \in DOMAIN updates', updates'[k].val = None
                   PROVE  \E j \in DOMAIN codes' :
                            codes'[j] = "VALID" /\ k \in DOMAIN client[block[j]].rw.writes
        BY <1>1 DEF DeletedByWrite
      <4>3. CASE k \in TxOps(rw)
        <5>1. KeyOp(rw, k, TxHeight(i)).val = None
          BY <4>1, <4>3
        <5>2. isDelete(rw, k)
          BY <1>3, <1>4, <4>2, <4>3, <5>1, KeyOpOK
        <5>3. k \in DOMAIN rw.writes
          BY <5>2 DEF isDelete
        <5> QED
          BY <2>5, <3>2, <5>3
      <4>4. CASE k \notin TxOps(rw)
        <5>1. k \in DOMAIN updates /\ updates[k].val = None
          BY <4>1, <4>4
        <5>2. PICK j \in DOMAIN codes : codes[j] = "VALID" /\ k \in DOMAIN client[block[j]].rw.writes
          BY <5>1 DEF SerialInv, DeletedByWrite
        <5> QED
          BY <2>5, <5>2
      <4> QED
        BY <4>3, <4>4
    <3> QED
      BY <3>1, <3>2
  <2> QED
    BY <2>7, <2>8, <2>9
<1> QED
  BY <1>8, <1>9

\* Every step keeps the invariant.
LEMMA SerialStep ==
  ASSUME IInv, SerialInv, [Next]_vars PROVE SerialInv'
<1>1. Recorded'
  BY RecordedStep DEF SerialInv
<1>2. ASSUME NEW c \in Client,
             \/ \E cc \in Chaincode : NewTxSimulator(c, cc)
             \/ Simulate(c) \/ Done(c) \/ Abandon(c)
      PROVE  DeletedByWrite' /\ Serializable' /\ NoSpuriousConflict'
  <2>1. /\ UNCHANGED <<block, codes, updates, before>>
        /\ \A d \in Client \ {c} : client'[d] = client[d]
        /\ client[c].st # "endorsed" \/ \A i \in 1..Len(block) : block[i] # c
    BY <1>2 DEF IInv, ClientsOK, NewTxSimulator, Simulate, Done, Abandon
  <2>2. \A i \in 1..Len(block) : block[i] \in Client /\ client[block[i]].st = "endorsed"
    BY DEF IInv, BlockOK
  <2>3. \A i \in 1..Len(block) : client'[block[i]] = client[block[i]]
    BY <2>1, <2>2
  <2> QED
    BY <2>1, <2>3, BlockSame DEF SerialInv
<1>3. CASE \E txs \in Orders : Order(txs)
  <2>1. codes' = << >> /\ updates' = EmptyMap
    BY <1>3 DEF Order
  <2> QED
    BY <1>1, <2>1, BlockEmpty DEF SerialInv
<1>4. CASE Commit \/ Restart
  <2>1. codes' = << >> /\ updates' = EmptyMap
    BY <1>4 DEF Commit, Restart
  <2> QED
    BY <1>1, <2>1, BlockEmpty DEF SerialInv
<1>5. CASE ValidateTx
  BY <1>1, <1>5, ValidateSerial DEF SerialInv
<1>6. CASE RequestLock \/ UNCHANGED vars
  <2>1. UNCHANGED <<client, block, codes, updates, before>>
    BY <1>6 DEF RequestLock, vars
  <2> QED
    BY <1>1, <2>1, BlockSame DEF SerialInv
<1>7. ASSUME NEW c \in Client,
             \/ \E cc \in Chaincode : NewTxSimulator(c, cc)
             \/ Simulate(c) \/ Done(c) \/ Abandon(c)
      PROVE  SerialInv'
  BY <1>1, <1>2, <1>7 DEF SerialInv
<1> QED
  BY <1>3, <1>4, <1>5, <1>6, <1>7 DEF Next

\* A read-write set is the one its chaincode has alone on a committed state, and every code
\* is the right one.
THEOREM SerialInvariance == Spec => []SerialInv
<1>1. IInv /\ SerialInv /\ [Next]_vars => SerialInv'
  BY SerialStep
<1> QED
  BY <1>1, InitSerial, Invariance, PTL DEF Spec

\* Valid transactions are serializable in the order of the block, range queries included.
THEOREM ValidSerializable == Spec => []Serializable
BY SerialInvariance, PTL DEF SerialInv

\* A transaction is found invalid only when executing it in its place would read something
\* else, or when a valid transaction before it wrote a key it read.
THEOREM ConflictsReal == Spec => []NoSpuriousConflict
BY SerialInvariance, PTL DEF SerialInv
=============================================================================
