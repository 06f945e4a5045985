---------------------------- MODULE PvtDataProofs ----------------------------
EXTENDS PvtData, TLAPS, NaturalsInduction, WellFoundedInduction

-----------------------------------------------------------------------------
(* The base of all invariants: types, the positions of the committer and   *)
(* the heights, and what the lists and batches may refer to.               *)

Known == {"no", "hash", "raw", "keyOnly"}

ChainOK == chain \in Seq(Ops) /\ Len(chain) =< MaxBlock

CurType == [n : Nat, have : SUBSET Keys, raw : SUBSET Keys, lost : BOOLEAN]

\* The stores are committed in the order private data, block, state. Where the committer
\* is tells how far they are for the block at hand.
CommitterOK ==
  /\ pvtHt \in Nat /\ blkHt \in Nat /\ stHt \in Nat
  /\ 1 =< stHt /\ stHt =< blkHt /\ blkHt =< pvtHt /\ pvtHt =< Len(chain) + 1
  /\ isPvtstoreAheadOfBlkstore \in BOOLEAN
  /\ cpc \in {"idle", "prepared", "fetched", "pvt", "block", "expiry", "applied", "recover", "down"}
  /\ cur \in [n : Nat, have : SUBSET Keys, raw : SUBSET Keys, lost : BOOLEAN]
  /\ cur.n =< Len(chain)
  /\ cpc \in {"idle", "recover", "down"} => cur = NoBlock
  /\ cpc \notin {"idle", "recover", "down"} => cur.n > 0
  /\ cpc = "idle" => stHt = blkHt
  /\ cpc = "recover" => stHt < blkHt
  /\ cpc \in {"prepared", "fetched", "pvt"} => cur.n = stHt /\ blkHt = stHt /\ ~cur.lost
  /\ cpc \in {"block", "expiry"} => cur.n = stHt /\ stHt < blkHt
  /\ cpc = "applied" => stHt = cur.n + 1
  /\ cpc \in {"block", "expiry", "applied"} /\ ~cur.lost => blkHt = cur.n + 1
  /\ cpc \notin {"down", "pvt"} => (isPvtstoreAheadOfBlkstore <=> pvtHt > blkHt)
  /\ cpc = "pvt" => ~isPvtstoreAheadOfBlkstore /\ pvtHt = cur.n + 1
  /\ crashes \in Nat
  /\ crashes = 0 => cpc \notin {"down", "recover"} /\ ~cur.lost /\ ~isPvtstoreAheadOfBlkstore

\* The entries of the private data store are of blocks below its height that write keys.
StoreOK ==
  /\ \A n \in DOMAIN data : n \in 1..lastCommittedBlock /\ data[n] \subseteq Writes(n)
  /\ hashedIndex \subseteq Keys \X Blocks
  /\ \A n \in DOMAIN expiry : n \in 1..lastCommittedBlock /\ ~neverExpires
  /\ \A n \in prio \cup deprio \cup inelg : n \in 1..lastCommittedBlock /\ Writes(n) # {}
  /\ \A e \in elgEvents : e \in 1..pvtHt /\ e =< Len(chain) /\ chain[e].elg

\* What the committer has of its block.
CurOK == cur.n > 0 => cur.have \subseteq Writes(cur.n) /\ cur.raw \subseteq Purges(cur.n)

MarkerTypes ==
  /\ marker \in [Keys -> 0..MaxBlock] /\ reconMarker \in [Keys -> 0..MaxBlock]
  /\ collMarker \in 0..MaxBlock

StateTypes ==
  /\ hash \in [Keys -> 0..MaxBlock] /\ pvt \in [Keys -> 0..MaxBlock]
  /\ schedule \in [Blocks -> [Keys -> Known]]

\* The reconciler does not run while the store is ahead or blocks are recovered, and
\* applies a batch only between two blocks.
ReconcilerOK ==
  /\ rpc \in {"idle", "asked", "waited", "updated", "applied"}
  /\ rec = [next |-> rec.next, asked |-> rec.asked, found |-> rec.found]
  /\ \A n \in rec.asked \cup DOMAIN rec.found : n \in 1..lastCommittedBlock
  /\ \A n \in DOMAIN rec.found : rec.found[n] \subseteq Writes(n) /\ n < blkHt
  /\ rec.asked \cap DOMAIN rec.found = {}
  /\ isPvtstoreAheadOfBlkstore \/ ~Running => rpc = "idle"
  /\ rpc = "idle" => rec.asked = {}
  /\ rpc \in {"idle", "asked"} => DOMAIN rec.found = {}
  /\ rpc = "updated" => cpc \notin {"expiry", "applied"}

PurgerOK ==
  /\ upc \in {"idle", "expired", "scanned"}
  /\ purger \in [upto : SUBSET Blocks, bound : Nat, markers : [Keys -> 0..MaxBlock]]
  /\ purger.bound < pvtHt /\ \A b \in purger.upto : b < pvtHt
  /\ upc # "scanned" => purger.markers = NoScan.markers

ElgOK ==
  /\ epc \in {"wait", "start", "locked", "unlocked", "down"}
  /\ epc = "down" <=> cpc = "down"
  /\ elg \in [entries : SUBSET Blocks, events : SUBSET Blocks, signal : BOOLEAN]
  /\ epc \notin {"locked", "unlocked"} => elg.entries = {} /\ elg.events = {}
  /\ \A n \in elg.entries : n \in 1..lastCommittedBlock /\ Writes(n) # {}
  /\ \A e \in elg.events : e \in 1..pvtHt /\ e =< Len(chain) /\ chain[e].elg

\* The preparation is for the next block of the state, and is finished when its block
\* is applied.
PrepOK ==
  /\ workingset \in [keys : [Keys -> Known], clear : SUBSET Int]
  /\ prep \in [pc : {"none", "started", "retrieved"}, n : Nat, keys : [Keys -> Known]]
  /\ usedOnce \in BOOLEAN
  /\ prep.pc # "none" => prep.n = stHt /\ cpc # "applied" /\ usedOnce
  /\ prep.pc = "retrieved" => prep.n - BTL - 1 \in Blocks /\ ~neverExpires
  /\ cpc \in {"expiry", "applied"} => usedOnce
  /\ cpc = "down" => ~usedOnce
  /\ ~usedOnce => workingset = NoSet

GhostOK == member \in BOOLEAN /\ raced \subseteq {"early", "prep", "raw", "marker", "elg"}

Base ==
  /\ ChainOK /\ CommitterOK /\ StoreOK /\ CurOK /\ MarkerTypes /\ StateTypes
  /\ ReconcilerOK /\ PurgerOK /\ ElgOK /\ PrepOK /\ GhostOK

-----------------------------------------------------------------------------
USE DEF storeVars, stateVars, purgeVars, committer, reconciler, purgerVars, elgVars, ghosts, vars

\* A nonempty set of natural numbers has a least element, which Min returns.
LEMMA MinFacts ==
  ASSUME NEW S \in SUBSET Nat, S # {}
  PROVE  Min(S) \in S /\ \A n \in S : Min(S) =< n
<1> DEFINE R == {ss \in Nat \X Nat : ss[1] < ss[2]}
<1>1. IsWellFoundedOn(R, Nat)
  BY NatLessThanWellFounded DEF OpToRel
<1> HIDE DEF R
<1>2. PICK m \in S : \A n \in S : ~ (<<n, m>> \in R)
  BY <1>1, WFMin, Zenon
<1>3. \A n \in S : m =< n
  <2> SUFFICES ASSUME NEW n \in S PROVE ~ (n < m)
    OBVIOUS
  <2>1. n \in Nat /\ m \in Nat
    OBVIOUS
  <2> QED
    BY <1>2, <2>1 DEF R
<1> QED
  BY <1>3 DEF Min

\* A nonempty set of naturals with an upper bound has a greatest element: Max returns it.
LEMMA MaxFacts ==
  ASSUME NEW N \in Nat, NEW S \in SUBSET (0..N), S # {}
  PROVE  Max(S) \in S /\ \A n \in S : Max(S) >= n
<1> DEFINE T == {N - x : x \in S}
<1>1. T \in SUBSET Nat /\ T # {}
  <2>1. \A x \in S : N - x \in Nat
    OBVIOUS
  <2>2. PICK x \in S : TRUE
    OBVIOUS
  <2>3. N - x \in T
    BY <2>2
  <2> QED
    BY <2>1, <2>3
<1>2. Min(T) \in T /\ \A t \in T : Min(T) =< t
  BY <1>1, MinFacts
<1>3. PICK m \in S : Min(T) = N - m
  BY <1>2
<1>4. \A n \in S : m >= n
  <2> SUFFICES ASSUME NEW n \in S PROVE m >= n
    OBVIOUS
  <2>1. N - m =< N - n
    BY <1>2, <1>3
  <2> QED
    BY <2>1
<1> QED
  BY <1>4 DEF Max

\* Blocks are only added to the chain.
LEMMA ChainGrows ==
  ASSUME ChainOK, CommitterOK, NEW op \in Ops, NEW got \in BOOLEAN, ValidateAndPrepare(op, got)
  PROVE  /\ ChainOK' /\ Len(chain) =< Len(chain') /\ blkHt =< Len(chain')
         /\ \A n \in 1..Len(chain) : chain'[n] = chain[n]
         /\ op = chain'[blkHt]
BY PvtDataAssumption DEF ChainOK, CommitterOK, ValidateAndPrepare

\* The initial state satisfies Base.
LEMMA InitBase == Init => Base
<1> SUFFICES ASSUME Init PROVE Base
  OBVIOUS
<1> USE PvtDataAssumption DEF Init
<1>1. ChainOK
  BY DEF ChainOK
<1>2. CommitterOK /\ CurOK
  <2>1. cur = [n |-> 0, have |-> {}, raw |-> {}, lost |-> FALSE]
    BY DEF NoBlock
  <2>2. cur \in CurType /\ isPvtstoreAheadOfBlkstore = FALSE
    BY <2>1 DEF CurType
  <2>3. Len(chain) = 0
    OBVIOUS
  <2> QED
    <3>1. ~isPvtstoreAheadOfBlkstore /\ isPvtstoreAheadOfBlkstore \in BOOLEAN
      BY <2>2
    <3>2. cur.n = 0 /\ cur.lost = FALSE /\ pvtHt = 1 /\ blkHt = 1 /\ stHt = 1 /\ cpc = "idle"
      BY <2>1
    <3>3. CurOK
      BY <3>2 DEF CurOK
    <3> QED
      BY <2>1, <2>2, <2>3, <3>1, <3>2, <3>3 DEF CommitterOK, NoBlock, CurType
<1>3. StoreOK /\ MarkerTypes
  BY DEF StoreOK, MarkerTypes, Nothing
<1>4. StateTypes
  BY DEF StateTypes, Known
<1>5. ReconcilerOK /\ PurgerOK
  BY DEF ReconcilerOK, PurgerOK, NoBatch, NoScan, Nothing, Running, NoBlock, Blocks
<1>6. ElgOK /\ PrepOK /\ GhostOK
  BY DEF ElgOK, PrepOK, GhostOK, NoElg, NoSet, NoPrep, Known
<1> QED
  BY <1>1, <1>2, <1>3, <1>4, <1>5, <1>6 DEF Base

\* The keys of a block are keys, and so is what the store returns for it.
LEMMA WritesType == ASSUME ChainOK, NEW n \in 1..Len(chain) PROVE Writes(n) \subseteq Keys
BY DEF ChainOK, Writes, Ops

\* GetPvtDataByBlockNum returns keys of the block.
LEMMA GetPvtType ==
  ASSUME ChainOK, CommitterOK, StoreOK, NEW n
  PROVE  /\ GetPvtDataByBlockNum(n) \subseteq Keys
         /\ n \in 1..Len(chain) => GetPvtDataByBlockNum(n) \subseteq Writes(n)
BY WritesType DEF StoreOK, GetPvtDataByBlockNum, RemovePurged, CommitterOK, ChainOK,
   lastCommittedBlock

\* The committer and the heights.
LEMMA CommitterStep ==
  ASSUME ChainOK, CommitterOK, StoreOK, [Next]_vars
  PROVE  ChainOK' /\ CommitterOK'
<1> USE PvtDataAssumption
<1>1. ASSUME NEW op \in Ops, NEW got \in BOOLEAN, ValidateAndPrepare(op, got)
      PROVE  ChainOK' /\ CommitterOK'
  <2>1. cur' \in CurType /\ cur'.n = blkHt /\ ~cur'.lost
    <3>1. op.keys \subseteq Keys
      BY DEF Ops
    <3>2. GetPvtDataByBlockNum(blkHt) \subseteq Keys
      BY GetPvtType
    <3>3. blkHt \in Nat
      BY DEF CommitterOK
    <3> QED
      BY <1>1, <3>1, <3>2, <3>3 DEF ValidateAndPrepare, CurType, NoBlock
  <2>2. /\ ChainOK' /\ Len(chain) =< Len(chain') /\ blkHt =< Len(chain')
    BY <1>1, ChainGrows
  <2>3. /\ cpc = "idle" /\ cpc' \in {"prepared", "fetched"}
        /\ UNCHANGED <<pvtHt, blkHt, stHt, isPvtstoreAheadOfBlkstore, crashes>>
    BY <1>1 DEF ValidateAndPrepare
  <2> QED
    BY <2>1, <2>2, <2>3 DEF CommitterOK, ChainOK, CurType
<1>2. CASE FetchRawKeys
  <2>1. Purges(cur.n) \subseteq Keys
    BY <1>2, WritesType DEF Purges, CommitterOK, FetchRawKeys, ChainOK
  <2> QED
    BY <1>2, <2>1 DEF FetchRawKeys, CommitterOK, ChainOK
<1>3. CASE CommitPvt
  BY <1>3 DEF CommitPvt, CommitterOK, ChainOK
<1>4. CASE AddBlock
  BY <1>4 DEF AddBlock, CommitterOK, ChainOK
<1>5. CASE UpdateExpiryInfo
  BY <1>5 DEF UpdateExpiryInfo, CommitterOK, ChainOK
<1>6. CASE ApplyUpdates
  BY <1>6 DEF ApplyUpdates, CommitterOK, ChainOK
<1>7. CASE BlockCommitDone
  BY <1>7 DEF BlockCommitDone, CommitterOK, ChainOK, NoBlock
<1>8. CASE CommitLostBlock
  <2>1. cur' \in CurType /\ cur'.n = stHt /\ cur'.lost
    BY <1>8, GetPvtType DEF CommitLostBlock, NoBlock, CurType, CommitterOK
  <2> QED
    BY <1>8, <2>1 DEF CommitLostBlock, CommitterOK, ChainOK, CurType
<1>9. CASE Stop /\ (Crash \/ \E h \in Blocks : Rollback(h))
  <2>1. cur' \in CurType /\ cur'.n = 0 /\ cur' = NoBlock
    BY <1>9 DEF Stop, NoBlock, CurType
  <2> QED
    BY <1>9, <2>1 DEF Stop, Crash, Rollback, Blocks, CommitterOK, ChainOK, NoBlock, CurType
<1>10. CASE Open
  <2>1. isPvtstoreAheadOfBlkstore' \in BOOLEAN /\ (isPvtstoreAheadOfBlkstore' <=> pvtHt > blkHt)
    <3> DEFINE ahead == pvtHt > blkHt
    <3>1. isPvtstoreAheadOfBlkstore' = ahead
      BY <1>10 DEF Open
    <3>2. ahead \in BOOLEAN
      OBVIOUS
    <3> HIDE DEF ahead
    <3>3. isPvtstoreAheadOfBlkstore' \in BOOLEAN /\ (isPvtstoreAheadOfBlkstore' <=> ahead)
      BY <3>1, <3>2, Zenon
    <3> QED
      BY <3>3 DEF ahead
  <2> QED
    BY <1>10, <2>1 DEF Open, CommitterOK, ChainOK, NoBlock
<1>11. CASE Preparation \/ Reconciler \/ Purger \/ ElgProcessor \/ UNCHANGED vars
  <2>1. UNCHANGED <<chain, pvtHt, blkHt, stHt, committer, crashes>>
    BY <1>11 DEF Preparation, Reconciler, Purger, ElgProcessor, RetrieveSchedule,
        PrepareWorkingset, GetMissing, ReconcileFails, FetchAndVerify, UpdateExpiryInfoOfOld,
        ApplyOld, StoreOld, StartPurge, PurgeExpiredEntry, ScanMarkers, DeleteMarked,
        WaitForNotification, StartElg, ConvertBatch, Relock, FinishElg
  <2> QED
    BY <2>1 DEF CommitterOK, ChainOK, NoBlock
<1> QED
  BY <1>1, <1>2, <1>3, <1>4, <1>5, <1>6, <1>7, <1>8, <1>9, <1>10, <1>11
  DEF Next, Committer, Crash, Rollback

\* What stays as it is in every step.
LEMMA Grows ==
  ASSUME ChainOK, CommitterOK, [Next]_vars
  PROVE  /\ pvtHt =< pvtHt' /\ Len(chain) =< Len(chain')
         /\ \A n \in 1..Len(chain) : chain'[n] = chain[n]
<1>1. ASSUME NEW op \in Ops, NEW got \in BOOLEAN, ValidateAndPrepare(op, got)
      PROVE  /\ pvtHt =< pvtHt' /\ Len(chain) =< Len(chain')
             /\ \A n \in 1..Len(chain) : chain'[n] = chain[n]
  <2>1. pvtHt' = pvtHt /\ pvtHt \in Nat
    BY <1>1 DEF ValidateAndPrepare, CommitterOK
  <2> QED
    BY <1>1, <2>1, ChainGrows
<1>2. CASE CommitPvt
  BY <1>2 DEF CommitPvt, CommitterOK, ChainOK
<1>3. CASE UNCHANGED <<chain, pvtHt>>
  BY <1>3 DEF CommitterOK, ChainOK
<1> QED
  BY <1>1, <1>2, <1>3 DEF Next, Committer, Preparation, Reconciler, Purger, ElgProcessor,
     FetchRawKeys, AddBlock, UpdateExpiryInfo, ApplyUpdates, BlockCommitDone, CommitLostBlock,
     RetrieveSchedule, PrepareWorkingset, GetMissing, ReconcileFails, FetchAndVerify,
     UpdateExpiryInfoOfOld, ApplyOld, StoreOld, StartPurge, PurgeExpiredEntry, ScanMarkers,
     DeleteMarked, WaitForNotification, StartElg, ConvertBatch, Relock, FinishElg, Stop, Crash,
     Rollback, Open

\* Every step keeps the entries of the private data store within its height.
LEMMA StoreStep ==
  ASSUME Base, [Next]_vars
  PROVE  StoreOK'
<1> USE PvtDataAssumption
<1>1. /\ pvtHt =< pvtHt' /\ Len(chain) =< Len(chain')
      /\ \A n \in 1..Len(chain) : chain'[n] = chain[n]
      /\ pvtHt \in Nat /\ pvtHt' \in Nat /\ pvtHt =< Len(chain) + 1 /\ Len(chain) \in Nat
      /\ Len(chain') \in Nat /\ Len(chain) =< MaxBlock /\ blkHt \in Nat /\ stHt \in Nat
  BY Grows, CommitterStep, SMTT(30) DEF Base, CommitterOK, ChainOK
<1>2. ASSUME NEW op \in Ops, NEW got \in BOOLEAN, ValidateAndPrepare(op, got)
      PROVE  StoreOK'
  <2>1. elgEvents' \in {elgEvents, elgEvents \cup {blkHt}} /\ (elgEvents' # elgEvents => op.elg)
    BY <1>2 DEF ValidateAndPrepare, ProcessCollsEligibilityEnabled
  <2>2. blkHt =< Len(chain') /\ op = chain'[blkHt] /\ blkHt \in 1..pvtHt
    BY <1>2, ChainGrows DEF Base, CommitterOK
  <2>3. UNCHANGED <<data, hashedIndex, expiry, prio, deprio, inelg, pvtHt>>
    BY <1>2 DEF ValidateAndPrepare
  <2> QED
    BY <1>1, <2>1, <2>2, <2>3, SMTT(30) DEF Base, StoreOK, Writes, lastCommittedBlock
<1>3. CASE CommitPvt
  <2>1. cur.n \in 1..Len(chain) /\ cur.n = pvtHt /\ pvtHt' = cur.n + 1 /\ UNCHANGED <<chain, elgEvents>>
    BY <1>3 DEF CommitPvt, Base, CommitterOK
  <2>2. /\ hashedIndex' \subseteq Keys \X Blocks
        /\ \A n \in DOMAIN data' : n \in 1..lastCommittedBlock' /\ data'[n] \subseteq Writes(n)'
    <3>1. cur.have \subseteq Writes(cur.n) /\ Writes(cur.n) \subseteq Keys /\ cur.n \in Blocks
      BY <1>1, <2>1, WritesType DEF Base, CurOK, Blocks
    <3>2. hashedIndex' \subseteq Keys \X Blocks
      BY <1>3, <3>1 DEF CommitPvt, Base, StoreOK
    <3>3. /\ DOMAIN data' \subseteq DOMAIN data \cup {cur.n}
          /\ \A n \in DOMAIN data' : \/ data'[n] = data[n] /\ n \in DOMAIN data
                                     \/ n = cur.n /\ data'[n] = cur.have
      <4>1. data' = IF cur.have = {} THEN data ELSE With(data, cur.n, cur.have)
        BY <1>3 DEF CommitPvt
      <4>2. CASE cur.have = {}
        BY <4>1, <4>2
      <4>3. CASE cur.have # {}
        BY <4>1, <4>3 DEF With
      <4> QED
        BY <4>2, <4>3
    <3> QED
      BY <1>1, <2>1, <3>1, <3>2, <3>3 DEF Base, StoreOK, lastCommittedBlock, Writes
  <2>3. /\ \A n \in DOMAIN expiry' : n \in 1..lastCommittedBlock' /\ ~neverExpires
        /\ \A n \in prio' \cup deprio' \cup inelg' : n \in 1..lastCommittedBlock' /\ Writes(n)' # {}
    <3>1. /\ DOMAIN expiry' \subseteq DOMAIN expiry \cup {cur.n}
          /\ ~neverExpires \/ DOMAIN expiry' \subseteq DOMAIN expiry
          /\ prio' \subseteq prio \cup {n \in {cur.n} : Writes(n) # {}} /\ deprio' = deprio
          /\ inelg' \subseteq inelg \cup {n \in {cur.n} : Writes(n) # {}}
      BY <1>3 DEF CommitPvt, With
    <3> QED
      BY <1>1, <2>1, <3>1 DEF Base, StoreOK, lastCommittedBlock, Writes
  <2>4. \A e \in elgEvents' : e \in 1..pvtHt' /\ e =< Len(chain') /\ chain'[e].elg
    BY <1>1, <2>1 DEF Base, StoreOK
  <2> QED
    BY <2>2, <2>3, <2>4 DEF StoreOK, neverExpires
<1>4. CASE CommitLostBlock
  <2>1. elgEvents' \in {elgEvents, elgEvents \cup {stHt}} /\ (elgEvents' # elgEvents => chain[stHt].elg)
    BY <1>4 DEF CommitLostBlock, ProcessCollsEligibilityEnabled
  <2>2. stHt =< Len(chain) /\ stHt \in 1..pvtHt
    BY <1>1, <1>4 DEF Base, CommitterOK, CommitLostBlock
  <2>3. UNCHANGED <<chain, data, hashedIndex, expiry, prio, deprio, inelg, pvtHt>>
    BY <1>4 DEF CommitLostBlock
  <2> QED
    BY <1>1, <2>1, <2>2, <2>3 DEF Base, StoreOK, Writes, lastCommittedBlock
<1>5. CASE StoreOld
  <2>1. UNCHANGED <<chain, pvtHt, elgEvents, inelg>>
    BY <1>5 DEF StoreOld
  <2>2. /\ hashedIndex' \subseteq Keys \X Blocks
        /\ \A n \in DOMAIN data' : n \in 1..lastCommittedBlock' /\ data'[n] \subseteq Writes(n)'
    <3> DEFINE keep == {n \in DOMAIN rec.found : neverExpires \/ n \in DOMAIN expiry}
    <3>1. \A n \in keep : n \in 1..lastCommittedBlock /\ n \in Blocks /\ rec.found[n] \subseteq Writes(n) /\ Writes(n) \subseteq Keys
      BY <1>1, WritesType DEF Base, ReconcilerOK, lastCommittedBlock, Blocks
    <3>2. hashedIndex' \subseteq hashedIndex \cup UNION {rec.found[n] \X {n} : n \in keep}
      BY <1>5 DEF StoreOld
    <3>3. /\ DOMAIN data' = keep \cup DOMAIN data
          /\ \A n \in DOMAIN data' : data'[n] = IF n \in keep THEN rec.found[n] ELSE data[n]
      BY <1>5 DEF StoreOld
    <3>4. hashedIndex' \subseteq Keys \X Blocks
      BY <3>1, <3>2 DEF Base, StoreOK
    <3> QED
      BY <1>1, <2>1, <3>1, <3>3, <3>4 DEF Base, StoreOK, lastCommittedBlock, Writes
  <2>3. /\ \A n \in DOMAIN expiry' : n \in 1..lastCommittedBlock' /\ ~neverExpires
        /\ \A n \in prio' \cup deprio' \cup inelg' : n \in 1..lastCommittedBlock' /\ Writes(n)' # {}
    BY <1>1, <1>5, <2>1 DEF StoreOld, Base, StoreOK, lastCommittedBlock, Writes
  <2> QED
    BY <2>1, <2>2, <2>3 DEF StoreOK, neverExpires, Base
<1>6. CASE PurgeExpiredEntry
  <2> DEFINE n0 == Min(ToPurge(purger.bound))
  <2>1. UNCHANGED <<chain, pvtHt, elgEvents>>
    BY <1>6 DEF PurgeExpiredEntry
  <2>2. /\ hashedIndex' \subseteq hashedIndex /\ DOMAIN data' \subseteq DOMAIN data
        /\ \A n \in DOMAIN data' : data'[n] = data[n]
        /\ DOMAIN expiry' \subseteq DOMAIN expiry
        /\ prio' \subseteq prio /\ deprio' \subseteq deprio /\ inelg' \subseteq inelg
    BY <1>6 DEF PurgeExpiredEntry, Without
  <2> QED
    BY <1>1, <2>1, <2>2 DEF Base, StoreOK, Writes, lastCommittedBlock, neverExpires
<1>7. CASE DeleteMarked
  <2>1. /\ UNCHANGED <<chain, pvtHt, elgEvents, expiry, prio, deprio, inelg>>
        /\ DOMAIN data' = DOMAIN data /\ \A n \in DOMAIN data' : data'[n] \subseteq data[n]
        /\ hashedIndex' \subseteq hashedIndex
    BY <1>7 DEF DeleteMarked
  <2> QED
    BY <1>1, <2>1 DEF Base, StoreOK, Writes, lastCommittedBlock, neverExpires
<1>8. CASE FinishElg \/ \E S \in SUBSET Blocks : ConvertBatch(S)
  <2>1. /\ UNCHANGED <<chain, pvtHt, expiry, deprio, data, hashedIndex>>
        /\ prio' \subseteq prio \cup elg.entries /\ inelg' \subseteq inelg
        /\ elgEvents' \subseteq elgEvents
    BY <1>8 DEF FinishElg, ConvertBatch
  <2> QED
    BY <1>1, <2>1 DEF Base, StoreOK, ElgOK, Writes, lastCommittedBlock, neverExpires
<1>9. CASE UNCHANGED <<chain, data, hashedIndex, expiry, prio, deprio, inelg, elgEvents, pvtHt>>
  BY <1>1, <1>9 DEF Base, StoreOK, Writes, lastCommittedBlock, neverExpires
<1> QED
  BY <1>2, <1>3, <1>4, <1>5, <1>6, <1>7, <1>8, <1>9 DEF Next, Committer, Preparation, Reconciler,
     Purger, ElgProcessor,
     FetchRawKeys, AddBlock, UpdateExpiryInfo, ApplyUpdates, BlockCommitDone,
     RetrieveSchedule, PrepareWorkingset, GetMissing, ReconcileFails, FetchAndVerify,
     UpdateExpiryInfoOfOld, ApplyOld, StartPurge, ScanMarkers,
     WaitForNotification, StartElg, Relock, Stop, Crash, Rollback, Open

\* What the committer holds stays within the writes of its block.
LEMMA CurStep ==
  ASSUME Base, [Next]_vars
  PROVE  CurOK'
<1>1. /\ \A n \in 1..Len(chain) : chain'[n] = chain[n]
      /\ cur.n \in Nat /\ cur.n =< Len(chain) /\ Len(chain) \in Nat
  BY Grows DEF Base, CommitterOK, ChainOK
<1>2. ASSUME NEW op \in Ops, NEW got \in BOOLEAN, ValidateAndPrepare(op, got)
      PROVE  CurOK'
  <2>1. blkHt =< Len(chain') /\ op = chain'[blkHt] /\ blkHt \in Nat \ {0}
    BY <1>2, ChainGrows DEF Base, CommitterOK
  <2>2. isPvtstoreAheadOfBlkstore => GetPvtDataByBlockNum(blkHt) \subseteq chain'[blkHt].keys
    <3>1. isPvtstoreAheadOfBlkstore => blkHt \in 1..Len(chain)
      BY <1>2 DEF Base, CommitterOK, ValidateAndPrepare, ChainOK
    <3> QED
      BY <1>1, <3>1, GetPvtType DEF Base, Writes
  <2>3. cur'.n = blkHt /\ cur'.raw = {} /\ cur'.have \subseteq chain'[blkHt].keys
    BY <1>2, <2>1, <2>2 DEF ValidateAndPrepare, NoBlock
  <2> QED
    BY <2>1, <2>3 DEF CurOK, Writes
<1>3. CASE FetchRawKeys
  BY <1>1, <1>3 DEF FetchRawKeys, Base, CurOK, CommitterOK, Writes, Purges
<1>4. CASE CommitLostBlock
  <2>1. stHt \in 1..Len(chain)
    BY <1>4 DEF CommitLostBlock, Base, CommitterOK, ChainOK
  <2> QED
    BY <1>4, <2>1, GetPvtType DEF CommitLostBlock, Base, CurOK, Writes, Purges, NoBlock
<1>5. CASE BlockCommitDone \/ Stop
  BY <1>5 DEF BlockCommitDone, Stop, CurOK, NoBlock
<1>6. CASE UNCHANGED <<chain, cur>>
  BY <1>6 DEF Base, CurOK, Writes, Purges
<1> QED
  BY <1>2, <1>3, <1>4, <1>5, <1>6 DEF Next, Committer, Preparation, Reconciler,
     Purger, ElgProcessor, CommitPvt,
     AddBlock, UpdateExpiryInfo, ApplyUpdates, 
     RetrieveSchedule, PrepareWorkingset, GetMissing, ReconcileFails, FetchAndVerify,
     UpdateExpiryInfoOfOld, ApplyOld, StoreOld, StartPurge, ScanMarkers, PurgeExpiredEntry,
     DeleteMarked,
     WaitForNotification, StartElg, ConvertBatch, FinishElg, Relock, Crash, Rollback, Open

\* What NotStale picks from a batch: of each key the newest version, if it is the current one.
LEMMA NotStaleFacts ==
  ASSUME Base
  PROVE  /\ DOMAIN NotStale \subseteq Keys
         /\ \A k \in DOMAIN NotStale :
              /\ NotStale[k] \in DOMAIN rec.found /\ k \in rec.found[NotStale[k]]
              /\ \A n \in DOMAIN rec.found : k \in rec.found[n] => n =< NotStale[k]
              /\ IF hash[k] = 0 THEN ~IsPut(NotStale[k]) ELSE hash[k] = NotStale[k]
         /\ \A k \in Keys, n \in DOMAIN rec.found :
              /\ k \in rec.found[n] /\ hash[k] = n
              /\ \A m \in DOMAIN rec.found : k \in rec.found[m] => m =< n
              => k \in DOMAIN NotStale
<1> DEFINE V(k) == {n \in DOMAIN rec.found : k \in rec.found[n]}
<1>1. DOMAIN rec.found \subseteq 0..MaxBlock /\ DOMAIN rec.found \subseteq Nat \ {0}
  BY PvtDataAssumption, SMTT(30) DEF Base, ReconcilerOK, CommitterOK, ChainOK, lastCommittedBlock
<1>2. \A k \in Keys : V(k) # {} => Max(V(k)) \in V(k) /\ \A n \in V(k) : Max(V(k)) >= n
  BY <1>1, MaxFacts, PvtDataAssumption
<1> DEFINE fresh(k) == /\ V(k) # {}
                       /\ IF hash[k] = 0 THEN ~IsPut(Max(V(k))) ELSE hash[k] = Max(V(k))
<1>3. NotStale = [k \in {k \in Keys : fresh(k)} |-> Max(V(k))]
  BY DEF NotStale
<1>4. ASSUME NEW k \in DOMAIN NotStale
      PROVE  /\ k \in Keys /\ NotStale[k] \in DOMAIN rec.found /\ k \in rec.found[NotStale[k]]
             /\ \A n \in DOMAIN rec.found : k \in rec.found[n] => n =< NotStale[k]
             /\ IF hash[k] = 0 THEN ~IsPut(NotStale[k]) ELSE hash[k] = NotStale[k]
  <2>1. k \in Keys /\ fresh(k) /\ NotStale[k] = Max(V(k))
    BY <1>3
  <2>2. Max(V(k)) \in V(k) /\ \A n \in V(k) : Max(V(k)) >= n
    BY <1>2, <2>1
  <2> HIDE DEF NotStale
  <2>3. \A n \in V(k) : n =< Max(V(k))
    BY <1>1, <2>2
  <2> QED
    BY <2>1, <2>2, <2>3
<1>5. ASSUME NEW k \in Keys, NEW n \in DOMAIN rec.found, k \in rec.found[n], hash[k] = n,
             \A m \in DOMAIN rec.found : k \in rec.found[m] => m =< n
      PROVE  k \in DOMAIN NotStale
  <2>1. n \in V(k) /\ Max(V(k)) \in V(k) /\ Max(V(k)) >= n
    BY <1>2, <1>5
  <2>2. Max(V(k)) = n
    <3>1. \A x \in V(k) : x >= n => x = n
      BY <1>1, <1>5
    <3> QED
      BY <2>1, <3>1
  <2>3. fresh(k)
    BY <1>1, <1>5, <2>1, <2>2
  <2> QED
    BY <1>3, <2>3
<1> QED
  BY <1>4, <1>5

\* Every step keeps the types of markers, state and ghosts.
LEMMA TypesStep ==
  ASSUME Base, [Next]_vars
  PROVE  MarkerTypes' /\ StateTypes' /\ GhostOK'
<1> USE PvtDataAssumption
<1>1. /\ cur.n \in 0..MaxBlock /\ cur.n \in Nat
      /\ DOMAIN rec.found \subseteq 1..MaxBlock
  BY DEF Base, CommitterOK, ChainOK, ReconcilerOK, lastCommittedBlock
<1>2. MarkerTypes'
  <2>1. CASE CommitPvt
    BY <1>1, <2>1 DEF CommitPvt, Base, MarkerTypes
  <2>2. CASE DeleteMarked
    BY <2>2 DEF DeleteMarked, Base, MarkerTypes
  <2>3. CASE UNCHANGED <<marker, reconMarker, collMarker>>
    BY <2>3 DEF Base, MarkerTypes
  <2> QED
    BY <2>1, <2>2, <2>3 DEF Next, Committer, Preparation, Reconciler, Purger, ElgProcessor,
       ValidateAndPrepare, FetchRawKeys, AddBlock, UpdateExpiryInfo, ApplyUpdates,
       BlockCommitDone, CommitLostBlock,
       RetrieveSchedule, PrepareWorkingset, GetMissing, ReconcileFails, FetchAndVerify,
       UpdateExpiryInfoOfOld, ApplyOld, StoreOld, StartPurge, PurgeExpiredEntry, ScanMarkers,
       WaitForNotification, StartElg, ConvertBatch, Relock, FinishElg, Stop, Crash,
       Rollback, Open
<1>3. StateTypes'
  <2>1. CASE UpdateExpiryInfo
    BY <2>1 DEF UpdateExpiryInfo, Base, StateTypes, Known
  <2>2. CASE ApplyUpdates
    BY <1>1, <2>2 DEF ApplyUpdates, Base, StateTypes
  <2>3. CASE BlockCommitDone
    BY <2>3 DEF BlockCommitDone, Base, StateTypes, Known
  <2>4. CASE UpdateExpiryInfoOfOld
    BY <2>4 DEF UpdateExpiryInfoOfOld, Base, StateTypes, Known
  <2>5. CASE ApplyOld
    <3>1. \A k \in DOMAIN NotStale : NotStale[k] \in 0..MaxBlock
      BY <1>1, NotStaleFacts
    <3> QED
      BY <2>5, <3>1 DEF ApplyOld, Base, StateTypes
  <2>6. CASE \E h \in Blocks : Rollback(h)
    BY <2>6 DEF Rollback, Base, StateTypes, Known
  <2>7. CASE UNCHANGED <<hash, pvt, schedule>>
    BY <2>7 DEF Base, StateTypes
  <2> QED
    BY <2>1, <2>2, <2>3, <2>4, <2>5, <2>6, <2>7 DEF Next, Committer, Preparation, Reconciler,
       Purger, ElgProcessor, ValidateAndPrepare, FetchRawKeys, CommitPvt, AddBlock, CommitLostBlock,
       RetrieveSchedule, PrepareWorkingset, GetMissing, ReconcileFails, FetchAndVerify,
       StoreOld, StartPurge, PurgeExpiredEntry, ScanMarkers, DeleteMarked,
       WaitForNotification, StartElg, ConvertBatch, Relock, FinishElg, Crash, Open
<1>4. GhostOK'
  <2>1. CASE CommitPvt \/ UpdateExpiryInfoOfOld \/ StoreOld
    BY <2>1 DEF CommitPvt, UpdateExpiryInfoOfOld, StoreOld, Base, GhostOK
  <2>2. CASE UNCHANGED <<member, raced>>
    BY <2>2 DEF Base, GhostOK
  <2> QED
    BY <2>1, <2>2 DEF Next, Committer, Preparation, Reconciler, Purger, ElgProcessor,
       ValidateAndPrepare, FetchRawKeys, AddBlock, UpdateExpiryInfo, ApplyUpdates,
       BlockCommitDone, CommitLostBlock,
       RetrieveSchedule, PrepareWorkingset, GetMissing, ReconcileFails, FetchAndVerify,
       ApplyOld, StartPurge, PurgeExpiredEntry, ScanMarkers, DeleteMarked,
       WaitForNotification, StartElg, ConvertBatch, Relock, FinishElg, Stop, Crash,
       Rollback, Open
<1> QED
  BY <1>2, <1>3, <1>4

\* A round of the reconciler asks for blocks of the list.
LEMMA GetMissingFacts ==
  ASSUME NEW list, GetMissing(list)
  PROVE  /\ UNCHANGED <<chain, storeVars, blkHt, stateVars, member, committer, purgerVars, elgVars,
                        purgeVars, ghosts>>
         /\ Running /\ rpc = "idle" /\ rpc' \in {"idle", "asked"}
         /\ isPvtstoreAheadOfBlkstore => rpc' = "idle"
         /\ rec' = [next |-> rec'.next, asked |-> rec'.asked, found |-> rec'.found]
         /\ rec'.asked \subseteq list /\ DOMAIN rec'.found = {}
         /\ rpc' = "idle" => rec'.asked = {}
<1> DEFINE candidates == {n \in list : n =< rec.next /\ ~isExpired(n, lastCommittedBlock)}
           asked == {n \in candidates :
                       Cardinality({m \in candidates : m > n}) < ReconcileBatchSize}
           x == Min(asked) - 1
<1>1. /\ UNCHANGED <<chain, storeVars, blkHt, stateVars, member, committer, purgerVars, elgVars,
                     purgeVars, ghosts>>
      /\ Running /\ rpc = "idle"
      /\ IF isPvtstoreAheadOfBlkstore \/ asked = {}
           THEN rpc' = rpc /\ rec' = NoBatch
           ELSE rpc' = "asked" /\ rec' = [next |-> x, asked |-> asked, found |-> Nothing]
  BY DEF GetMissing
<1>2. asked \subseteq list
  OBVIOUS
<1> HIDE DEF x, asked, candidates
<1> QED
  BY <1>1, <1>2 DEF NoBatch, Nothing

\* Every step keeps the batch of the reconciler within the store.
LEMMA ReconcilerStep ==
  ASSUME Base, [Next]_vars
  PROVE  ReconcilerOK'
<1> USE PvtDataAssumption
<1>1. /\ pvtHt =< pvtHt' /\ Len(chain) =< Len(chain')
      /\ \A n \in 1..Len(chain) : chain'[n] = chain[n]
      /\ pvtHt \in Nat /\ pvtHt' \in Nat /\ pvtHt =< Len(chain) + 1 /\ Len(chain) \in Nat
      /\ Len(chain') \in Nat /\ blkHt \in Nat /\ blkHt =< pvtHt
  BY Grows, CommitterStep DEF Base, CommitterOK, ChainOK
<1>2. ASSUME NEW list, list \subseteq prio \cup deprio, GetMissing(list)
      PROVE  ReconcilerOK'
  <2>1. \A n \in rec'.asked : n \in 1..lastCommittedBlock'
    BY <1>2, GetMissingFacts DEF Base, StoreOK, lastCommittedBlock
  <2>2. isPvtstoreAheadOfBlkstore' \/ ~Running' => rpc' = "idle"
    BY <1>2, GetMissingFacts DEF Running
  <2> QED
    BY <1>2, <2>1, <2>2, GetMissingFacts DEF ReconcilerOK
<1>3. CASE ReconcileFails \/ Stop
  <2>1. rpc' = "idle" /\ rec' = NoBatch
    BY <1>3 DEF ReconcileFails, Stop
  <2> QED
    BY <2>1 DEF ReconcilerOK, NoBatch, Nothing
<1>4. ASSUME NEW got \in Answers, FetchAndVerify(got)
      PROVE  ReconcilerOK'
  <2>1. /\ rpc = "asked" /\ rpc' = "waited" /\ Running /\ UNCHANGED <<chain, pvtHt, blkHt, committer>>
        /\ rec'.asked = rec.asked \ DOMAIN got
        /\ DOMAIN rec'.found \subseteq DOMAIN got
        /\ \A n \in DOMAIN rec'.found : rec'.found[n] \subseteq Writes(n)
        /\ \A n \in DOMAIN got : n < blkHt
        /\ rec' = [next |-> rec'.next, asked |-> rec'.asked, found |-> rec'.found]
    BY <1>4 DEF FetchAndVerify, Base, ReconcilerOK, ExtractValid
  <2>2. DOMAIN got \subseteq rec.asked
    BY DEF Answers
  <2>3. Running' /\ ~isPvtstoreAheadOfBlkstore'
    BY <2>1 DEF Running, Base, ReconcilerOK
  <2> QED
    BY <2>1, <2>2, <2>3 DEF Base, ReconcilerOK, lastCommittedBlock, Writes
<1>5. CASE UpdateExpiryInfoOfOld
  BY <1>5 DEF UpdateExpiryInfoOfOld, Base, ReconcilerOK, lastCommittedBlock, Writes, Running,
     oldBlockCommitFree
<1>6. CASE ApplyOld
  BY <1>6 DEF ApplyOld, Base, ReconcilerOK, lastCommittedBlock, Writes, Running
<1>7. CASE StoreOld
  BY <1>7 DEF StoreOld, Base, ReconcilerOK, lastCommittedBlock, Writes, Running, Nothing
<1>8. ASSUME NEW op \in Ops, NEW got \in BOOLEAN, ValidateAndPrepare(op, got)
      PROVE  ReconcilerOK'
  <2>1. /\ UNCHANGED <<pvtHt, blkHt, reconciler, isPvtstoreAheadOfBlkstore>>
        /\ cpc = "idle" /\ cpc' \notin {"down", "recover", "expiry", "applied"} /\ ~cur'.lost
    BY <1>8 DEF ValidateAndPrepare, NoBlock
  <2>2. ~cur.lost
    BY <2>1 DEF Base, CommitterOK, NoBlock
  <2>3. isPvtstoreAheadOfBlkstore' \/ ~Running' => rpc' = "idle"
    BY <2>1, <2>2 DEF Base, ReconcilerOK, Running
  <2>4. \A n \in DOMAIN rec'.found : rec'.found[n] \subseteq Writes(n)' /\ n < blkHt'
    BY <1>1, <2>1 DEF Base, ReconcilerOK, lastCommittedBlock, Writes
  <2> QED
    BY <2>1, <2>3, <2>4 DEF Base, ReconcilerOK, lastCommittedBlock
<1>9. CASE FetchRawKeys
  <2>1. cur'.lost = cur.lost
    BY <1>9 DEF FetchRawKeys, Base, CommitterOK
  <2> QED
    BY <1>1, <1>9, <2>1 DEF FetchRawKeys, Base, ReconcilerOK, lastCommittedBlock, Writes, Running
<1>10. CASE CommitPvt
  BY <1>1, <1>10 DEF CommitPvt, Base, ReconcilerOK, lastCommittedBlock, Writes, Running
<1>11. CASE AddBlock
  BY <1>1, <1>11, SMTT(30) DEF AddBlock, Base, ReconcilerOK, lastCommittedBlock, Writes, Running, CommitterOK
<1>12. CASE UpdateExpiryInfo
  BY <1>1, <1>12 DEF UpdateExpiryInfo, Base, ReconcilerOK, lastCommittedBlock, Writes, Running,
     oldBlockCommitFree
<1>13. CASE ApplyUpdates
  BY <1>1, <1>13 DEF ApplyUpdates, Base, ReconcilerOK, lastCommittedBlock, Writes, Running
<1>14. CASE BlockCommitDone
  <2>1. cpc' = "recover" => cur.lost
    BY <1>14 DEF BlockCommitDone, Base, CommitterOK
  <2> QED
    BY <1>1, <1>14, <2>1 DEF BlockCommitDone, Base, ReconcilerOK, lastCommittedBlock, Writes,
       Running, NoBlock
<1>15. CASE CommitLostBlock
  BY <1>1, <1>15 DEF CommitLostBlock, Base, ReconcilerOK, lastCommittedBlock, Writes, Running
<1>16. CASE Open
  BY <1>1, <1>16 DEF Open, Base, ReconcilerOK, lastCommittedBlock, Writes, Running
<1>17. CASE Preparation \/ Purger \/ ElgProcessor \/ UNCHANGED vars
  <2>1. UNCHANGED <<chain, pvtHt, blkHt, committer, reconciler>>
    BY <1>17 DEF Preparation, Purger, ElgProcessor, RetrieveSchedule, PrepareWorkingset,
       StartPurge, PurgeExpiredEntry, ScanMarkers, DeleteMarked,
       WaitForNotification, StartElg, ConvertBatch, Relock, FinishElg
  <2> QED
    BY <1>1, <2>1 DEF Base, ReconcilerOK, lastCommittedBlock, Writes, Running
<1> QED
  BY <1>2, <1>3, <1>4, <1>5, <1>6, <1>7, <1>8, <1>9, <1>10, <1>11, <1>12, <1>13, <1>14, <1>15,
     <1>16, <1>17 DEF Next, Committer, Reconciler, Crash, Rollback

\* Every step keeps the scan of the purger and the blocks it waits for.
LEMMA PurgerStep ==
  ASSUME Base, [Next]_vars
  PROVE  PurgerOK'
<1> USE PvtDataAssumption
<1>1. pvtHt =< pvtHt' /\ pvtHt \in Nat /\ pvtHt' \in Nat /\ cur.n \in Nat /\ cur.n =< MaxBlock
  BY Grows, CommitterStep DEF Base, CommitterOK, ChainOK
<1>2. CASE CommitPvt
  <2>1. purger' \in {purger, [purger EXCEPT !.upto = @ \cup {cur.n}]}
    BY <1>2 DEF CommitPvt
  <2>2. pvtHt' = cur.n + 1 /\ upc' = upc /\ cur.n \in Blocks
    BY <1>1, <1>2 DEF CommitPvt, Base, CommitterOK, Blocks
  <2>3. /\ purger' \in [upto : SUBSET Blocks, bound : Nat, markers : [Keys -> 0..MaxBlock]]
        /\ purger'.bound = purger.bound /\ purger'.markers = purger.markers
        /\ purger'.upto \subseteq purger.upto \cup {cur.n}
    BY <2>1, <2>2 DEF Base, PurgerOK
  <2>4. purger.bound < pvtHt /\ purger.bound \in Nat /\ \A b \in purger.upto : b < pvtHt /\ b \in Nat
    BY DEF Base, PurgerOK, Blocks
  <2> QED
    BY <1>1, <2>2, <2>3, <2>4 DEF Base, PurgerOK
<1>3. CASE Stop
  BY <1>1, <1>3, CommitterStep DEF Stop, PurgerOK, NoScan, Base, CommitterOK
<1>4. ASSUME NEW b \in Blocks, StartPurge(b)
      PROVE  PurgerOK'
  <2>1. PICK x \in {0, b} : purger' = [purger EXCEPT !.upto = @ \ {b}, !.bound = x]
    BY <1>4 DEF StartPurge
  <2>2. pvtHt' = pvtHt /\ upc' \in {"idle", "expired"} /\ b \in purger.upto /\ upc = "idle" /\ b \in Nat
    BY <1>4 DEF StartPurge, purgerLockFree, Blocks
  <2>3. pvtHt > 0
    BY DEF Base, CommitterOK
  <2>4. /\ purger' \in [upto : SUBSET Blocks, bound : Nat, markers : [Keys -> 0..MaxBlock]]
        /\ purger'.bound = x /\ purger'.markers = purger.markers
        /\ purger'.upto \subseteq purger.upto
    <3>1. x \in Nat
      BY <2>2
    <3>2. purger \in [upto : SUBSET Blocks, bound : Nat, markers : [Keys -> 0..MaxBlock]]
      BY DEF Base, PurgerOK
    <3>3. purger.upto \ {b} \subseteq purger.upto /\ purger.upto \ {b} \subseteq Blocks
      BY <3>2
    <3> QED
      BY <2>1, <3>1, <3>2, <3>3
  <2>5. \A c \in purger.upto : c < pvtHt
    BY DEF Base, PurgerOK
  <2> QED
    BY <1>1, <2>1, <2>2, <2>3, <2>4, <2>5 DEF Base, PurgerOK
<1>5. CASE ScanMarkers
  BY <1>1, <1>5 DEF ScanMarkers, Base, PurgerOK, MarkerTypes
<1>6. CASE DeleteMarked
  <2>1. NoScan.markers \in [Keys -> 0..MaxBlock]
    BY DEF NoScan
  <2>2. purger' = [purger EXCEPT !.bound = 0, !.markers = NoScan.markers] /\ upc' = "idle" /\ pvtHt' = pvtHt
    BY <1>6 DEF DeleteMarked
  <2>3. pvtHt > 0
    BY DEF Base, CommitterOK
  <2> QED
    BY <1>1, <2>1, <2>2, <2>3 DEF Base, PurgerOK
<1>7. CASE UNCHANGED <<upc, purger>>
  BY <1>1, <1>7 DEF Base, PurgerOK, Blocks
<1> QED
  BY <1>2, <1>3, <1>4, <1>5, <1>6, <1>7 DEF Next, Committer, Preparation, Reconciler, Purger,
     ElgProcessor, ValidateAndPrepare, FetchRawKeys, AddBlock, UpdateExpiryInfo, ApplyUpdates,
     BlockCommitDone, CommitLostBlock,
     RetrieveSchedule, PrepareWorkingset, GetMissing, ReconcileFails, FetchAndVerify,
     UpdateExpiryInfoOfOld, ApplyOld, StoreOld, PurgeExpiredEntry,
     WaitForNotification, StartElg, ConvertBatch, Relock, FinishElg, Crash, Rollback, Open

\* Every step keeps the scan of the eligibility processor.
LEMMA ElgStep ==
  ASSUME Base, [Next]_vars
  PROVE  ElgOK'
<1> USE PvtDataAssumption
<1>1. /\ pvtHt =< pvtHt' /\ Len(chain) =< Len(chain')
      /\ \A n \in 1..Len(chain) : chain'[n] = chain[n]
      /\ pvtHt \in Nat /\ pvtHt' \in Nat /\ pvtHt =< Len(chain) + 1 /\ Len(chain) \in Nat
      /\ Len(chain') \in Nat /\ Len(chain) =< MaxBlock
  BY Grows, CommitterStep DEF Base, CommitterOK, ChainOK
<1>2. ASSUME elg'.entries = elg.entries, elg'.events = elg.events, elg'.signal \in BOOLEAN,
             elg' = [entries |-> elg'.entries, events |-> elg'.events, signal |-> elg'.signal],
             epc' = epc, cpc' = "down" <=> cpc = "down"
      PROVE  ElgOK'
  <2>1. elg' \in [entries : SUBSET Blocks, events : SUBSET Blocks, signal : BOOLEAN]
    BY <1>2 DEF Base, ElgOK
  <2>2. \A n \in elg'.entries : n \in 1..lastCommittedBlock' /\ Writes(n)' # {}
    BY <1>1, <1>2, SMTT(30) DEF Base, ElgOK, lastCommittedBlock, Writes
  <2>3. \A e \in elg'.events : e \in 1..pvtHt' /\ e =< Len(chain') /\ chain'[e].elg
    BY <1>1, <1>2 DEF Base, ElgOK
  <2> QED
    BY <1>2, <2>1, <2>2, <2>3 DEF Base, ElgOK
<1>3. ASSUME NEW op \in Ops, NEW got \in BOOLEAN, ValidateAndPrepare(op, got)
      PROVE  ElgOK'
  <2>1. cpc' # "down" /\ cpc # "down" /\ epc' = epc
    BY <1>3 DEF ValidateAndPrepare
  <2> QED
    BY <1>2, <1>3, <2>1 DEF ValidateAndPrepare, ProcessCollsEligibilityEnabled, Base, ElgOK
<1>4. CASE CommitLostBlock
  <2>1. cpc' # "down" /\ cpc # "down" /\ epc' = epc
    BY <1>4 DEF CommitLostBlock
  <2> QED
    BY <1>2, <1>4, <2>1 DEF CommitLostBlock, ProcessCollsEligibilityEnabled, Base, ElgOK
<1>5. CASE FetchRawKeys \/ CommitPvt \/ AddBlock \/ UpdateExpiryInfo \/ ApplyUpdates \/ BlockCommitDone
           \/ Preparation \/ Reconciler \/ Purger \/ Relock \/ UNCHANGED vars
  <2>1. elg' = elg /\ (cpc' = "down" <=> cpc = "down") /\ (epc' = epc \/ Relock)
    BY <1>5 DEF FetchRawKeys, CommitPvt, AddBlock, UpdateExpiryInfo, ApplyUpdates,
       BlockCommitDone, Preparation, Reconciler, Purger,
       RetrieveSchedule, PrepareWorkingset, GetMissing, ReconcileFails, FetchAndVerify,
       UpdateExpiryInfoOfOld, ApplyOld, StoreOld, StartPurge, PurgeExpiredEntry, ScanMarkers,
       DeleteMarked, Relock
  <2>2. CASE epc' = epc
    BY <1>2, <2>1, <2>2 DEF Base, ElgOK
  <2>3. CASE Relock
    BY <1>1, <2>1, <2>3 DEF Relock, Base, ElgOK, lastCommittedBlock, Writes
  <2> QED
    BY <2>1, <2>2, <2>3
<1>6. CASE Stop
  BY <1>6 DEF Stop, ElgOK, NoElg
<1>7. CASE Open
  <2>1. epc' = "start" /\ cpc' # "down" /\ elg' = elg /\ epc = "down"
    BY <1>7 DEF Open, Base, ElgOK
  <2> QED
    BY <1>1, <2>1 DEF Base, ElgOK, lastCommittedBlock, Writes
<1>8. CASE WaitForNotification
  BY <1>1, <1>8 DEF WaitForNotification, Base, ElgOK, lastCommittedBlock, Writes
<1>9. CASE StartElg
  <2>1. inelg \subseteq Blocks /\ elgEvents \subseteq Blocks
    BY <1>1 DEF Base, StoreOK, Blocks, lastCommittedBlock
  <2> QED
    BY <1>1, <1>9, <2>1 DEF StartElg, Base, ElgOK, StoreOK, lastCommittedBlock, Writes
<1>10. ASSUME NEW S \in SUBSET Blocks, ConvertBatch(S)
      PROVE  ElgOK'
  BY <1>1, <1>10 DEF ConvertBatch, Base, ElgOK, lastCommittedBlock, Writes
<1>11. CASE FinishElg
  BY <1>1, <1>11 DEF FinishElg, Base, ElgOK, lastCommittedBlock, Writes, NoElg
<1> QED
  BY <1>3, <1>4, <1>5, <1>6, <1>7, <1>8, <1>9, <1>10, <1>11 DEF Next, Committer, ElgProcessor,
     Crash, Rollback

\* Every step keeps the preparation at the next block of the state.
LEMMA PrepStep ==
  ASSUME Base, [Next]_vars
  PROVE  PrepOK'
<1> USE PvtDataAssumption
<1>1. stHt \in Nat /\ stHt >= 1 /\ stHt' \in Nat
  BY CommitterStep DEF Base, CommitterOK, ChainOK
<1>2. ASSUME NEW op \in Ops, NEW got \in BOOLEAN, ValidateAndPrepare(op, got)
      PROVE  PrepOK'
  <2>1. UNCHANGED <<workingset, prep, usedOnce, stHt>> /\ cpc' \in {"prepared", "fetched"}
    BY <1>2 DEF ValidateAndPrepare
  <2> QED
    BY <2>1 DEF Base, PrepOK
<1>3. CASE FetchRawKeys \/ CommitPvt \/ AddBlock \/ CommitLostBlock \/ Open
  <2>1. UNCHANGED <<workingset, prep, usedOnce, stHt>> /\ cpc' \notin {"expiry", "applied", "down"}
    BY <1>3 DEF FetchRawKeys, CommitPvt, AddBlock, CommitLostBlock, Open
  <2> QED
    BY <2>1 DEF Base, PrepOK
<1>4. CASE UpdateExpiryInfo
  <2>1. CASE usedOnce
    BY <1>4, <2>1 DEF UpdateExpiryInfo, Base, PrepOK
  <2>2. CASE ~usedOnce
    <3>1. /\ prep' = [pc |-> "started", n |-> stHt, keys |-> NoPrep.keys]
          /\ usedOnce' = TRUE /\ stHt' = stHt /\ cpc' = "expiry" /\ workingset' = workingset
      BY <1>4, <2>2 DEF UpdateExpiryInfo, NoPrep, Base, CommitterOK
    <3>2. NoPrep.keys \in [Keys -> Known]
      BY DEF NoPrep, Known
    <3>3. usedOnce' \in BOOLEAN /\ usedOnce'
      BY <3>1
    <3> QED
      BY <1>1, <3>1, <3>2, <3>3 DEF Base, PrepOK
  <2> QED
    BY <2>1, <2>2
<1>5. CASE ApplyUpdates
  BY <1>5 DEF ApplyUpdates, Base, PrepOK, PrepareFinished
<1>6. CASE BlockCommitDone
  <2>1. /\ prep' = [pc |-> "started", n |-> stHt, keys |-> NoPrep.keys]
        /\ usedOnce /\ usedOnce' = usedOnce /\ stHt' = stHt /\ cpc' \in {"idle", "recover"} /\ workingset' = NoSet
    BY <1>6 DEF BlockCommitDone, NoPrep, Base, CommitterOK, PrepOK
  <2>2. NoPrep.keys \in [Keys -> Known] /\ NoSet \in [keys : [Keys -> Known], clear : SUBSET Int]
    BY DEF NoPrep, NoSet, Known
  <2>3. usedOnce' \in BOOLEAN /\ usedOnce'
    BY <2>1 DEF Base, PrepOK
  <2> QED
    BY <1>1, <2>1, <2>2, <2>3 DEF PrepOK
<1>7. CASE RetrieveSchedule
  <2> DEFINE m == prep.n - BTL - 1
             keys == IF ~neverExpires /\ m \in Blocks THEN schedule[m] ELSE NoPrep.keys
  <2>1. UNCHANGED <<stHt, cpc, usedOnce>> /\ prep.pc = "started"
    BY <1>7 DEF RetrieveSchedule
  <2>2. CASE keys = NoPrep.keys
    <3>1. workingset' = NoSet /\ prep' = NoPrep
      BY <1>7, <2>2 DEF RetrieveSchedule
    <3> QED
      BY <2>1, <3>1 DEF Base, PrepOK, NoSet, NoPrep, Known
  <2>3. CASE keys # NoPrep.keys
    <3>1. workingset' = workingset /\ prep' = [prep EXCEPT !.pc = "retrieved", !.keys = schedule[m]]
          /\ ~neverExpires /\ m \in Blocks
      BY <1>7, <2>3 DEF RetrieveSchedule
    <3>2. schedule[m] \in [Keys -> Known]
      BY <3>1 DEF Base, StateTypes
    <3> QED
      BY <2>1, <3>1, <3>2 DEF Base, PrepOK
  <2> QED
    BY <2>2, <2>3
<1>8. CASE PrepareWorkingset
  <2>1. /\ UNCHANGED <<stHt, cpc, usedOnce>> /\ prep.pc = "retrieved"
        /\ workingset' \in [keys : [Keys -> Known], clear : SUBSET Int] /\ prep' = NoPrep
    BY <1>8 DEF PrepareWorkingset, Base, PrepOK, Known
  <2> QED
    BY <2>1 DEF Base, PrepOK, NoPrep, Known
<1>9. CASE Stop
  <2>1. workingset' = NoSet /\ prep' = NoPrep /\ usedOnce' = FALSE /\ cpc' = "down"
    BY <1>9 DEF Stop
  <2>2. usedOnce' \in BOOLEAN /\ ~usedOnce'
    BY <2>1
  <2> QED
    BY <2>1, <2>2 DEF PrepOK, NoSet, NoPrep, Known
<1>10. CASE UpdateExpiryInfoOfOld
  <2>1. workingset' \in [keys : [Keys -> Known], clear : SUBSET Int] /\ (~usedOnce => workingset' = NoSet)
    <3> DEFINE late(k) == IF k \notin DOMAIN NotStale THEN workingset.keys[k]
                          ELSE IF workingset.keys[k] \in {"no", "keyOnly"} THEN "no" ELSE "raw"
    <3>1. workingset' = [workingset EXCEPT !.keys = [k \in Keys |-> late(k)]]
      BY <1>10 DEF UpdateExpiryInfoOfOld
    <3>2. /\ \A k \in Keys : late(k) \in Known
          /\ \A k \in Keys : workingset.keys[k] = "no" => late(k) = "no"
      BY DEF Base, PrepOK, Known
    <3> HIDE DEF late
    <3>3. workingset' \in [keys : [Keys -> Known], clear : SUBSET Int]
      BY <3>1, <3>2 DEF Base, PrepOK
    <3>4. ASSUME workingset = NoSet PROVE workingset' = NoSet
      <4>1. [k \in Keys |-> late(k)] = [k \in Keys |-> "no"]
        BY <3>2, <3>4 DEF NoSet
      <4> QED
        BY <3>1, <3>4, <4>1 DEF NoSet
    <3> QED
      BY <3>3, <3>4 DEF Base, PrepOK
  <2>2. UNCHANGED <<prep, usedOnce, stHt, cpc>>
    BY <1>10 DEF UpdateExpiryInfoOfOld
  <2> QED
    BY <2>1, <2>2 DEF Base, PrepOK
<1>11. CASE UNCHANGED <<workingset, prep, usedOnce, stHt, cpc>>
  BY <1>11 DEF Base, PrepOK
<1> QED
  BY <1>2, <1>3, <1>4, <1>5, <1>6, <1>7, <1>8, <1>9, <1>10, <1>11 DEF Next, Committer, Preparation,
     Reconciler, Purger, ElgProcessor, GetMissing, ReconcileFails, FetchAndVerify, ApplyOld,
     StoreOld, StartPurge, PurgeExpiredEntry, ScanMarkers, DeleteMarked,
     WaitForNotification, StartElg, ConvertBatch, Relock, FinishElg, Crash, Rollback

\* Base is inductive.
LEMMA BaseStep == Base /\ [Next]_vars => Base'
<1> SUFFICES ASSUME Base, [Next]_vars PROVE Base'
  OBVIOUS
<1> QED
  BY CommitterStep, StoreStep, CurStep, TypesStep, ReconcilerStep, PurgerStep, ElgStep, PrepStep
  DEF Base

\* In every reachable state the heights are those of the position of the committer, and lists,
\* batches and scans refer to blocks of the private data store.
THEOREM BaseInvariance == Spec => []Base
BY InitBase, BaseStep, PTL DEF Spec

\* The variables keep their types.
THEOREM TypeCorrect == Spec => []TypeOK
<1>1. Base => TypeOK
  <2> SUFFICES ASSUME Base PROVE TypeOK
    OBVIOUS
  <2> USE PvtDataAssumption
  <2>1. Len(chain) \in Nat /\ Len(chain) =< MaxBlock /\ pvtHt =< MaxBlock + 1
    BY DEF Base, ChainOK, CommitterOK
  <2>2. \A n \in DOMAIN data : n \in Blocks /\ data[n] \subseteq Keys
    BY <2>1, WritesType DEF Base, StoreOK, lastCommittedBlock, Blocks, CommitterOK
  <2>3. DOMAIN expiry \subseteq Blocks /\ UNION {prio, deprio, inelg, elgEvents} \subseteq Blocks
    BY <2>1 DEF Base, StoreOK, lastCommittedBlock, Blocks, CommitterOK
  <2>4. {marker, reconMarker, hash, pvt} \subseteq [Keys -> 0..MaxBlock]
    BY DEF Base, MarkerTypes, StateTypes
  <2>5. {pvtHt, blkHt, stHt} \subseteq 1..(MaxBlock + 1)
    BY <2>1 DEF Base, CommitterOK
  <2>6. schedule \in [Blocks -> [Keys -> {"no", "hash", "raw", "keyOnly"}]]
    BY DEF Base, StateTypes, Known
  <2>7. /\ workingset.keys \in [Keys -> {"no", "hash", "raw", "keyOnly"}]
        /\ prep.keys \in [Keys -> {"no", "hash", "raw", "keyOnly"}]
    BY DEF Base, PrepOK, Known
  <2> QED
    BY <2>1, <2>2, <2>3, <2>4, <2>5, <2>6, <2>7
    DEF TypeOK, Base, ChainOK, CommitterOK, StoreOK, MarkerTypes, ReconcilerOK, PurgerOK, ElgOK,
        GhostOK
<1> QED
  BY <1>1, BaseInvariance, PTL
-----------------------------------------------------------------------------
(* Missing data.  A block is tracked until the purger removes its expiry   *)
(* entry; what is tracked is in one place, and the batches in flight refer *)
(* to the lists they were read from unless the purger was faster.          *)

Tracked(n) == neverExpires \/ n \in DOMAIN expiry

OnePlace(n) ==
  /\ n \in DOMAIN data \cup prio \cup deprio \cup inelg
  /\ n \in DOMAIN data => n \notin prio \cup deprio \cup inelg
  /\ n \in prio => n \notin deprio \cup inelg
  /\ n \in deprio => n \notin inelg

Accounted ==
  /\ \A n \in 1..lastCommittedBlock :
       Writes(n) # {} /\ ~isExpired(n, lastCommittedBlock) => Tracked(n)
  /\ \A n \in 1..lastCommittedBlock : Writes(n) # {} /\ Tracked(n) => OnePlace(n)
  /\ \A n \in elg.entries : Tracked(n) => n \in inelg
  /\ \A n \in rec.asked \cup DOMAIN rec.found : Tracked(n) => n \in prio \cup deprio

\* The index by hashed key lists exactly the keys that are stored.
IndexOfData ==
  \A k \in Keys, n \in Blocks :
    <<k, n>> \in hashedIndex <=> n \in DOMAIN data /\ k \in data[n]

\* What CommitPvt does to the lists.
LEMMA CommitPvtFacts ==
  ASSUME Base, CommitPvt
  PROVE  /\ cur.n \in Blocks /\ cur.n \in 1..Len(chain) /\ pvtHt = cur.n /\ pvtHt' = cur.n + 1
         /\ blkHt = cur.n /\ stHt = cur.n /\ pvtHt \in Nat
         /\ UNCHANGED <<chain, deprio, elgEvents, blkHt, stHt, cur, rpc, rec, upc, elg, epc>>
         /\ cur.have \subseteq Writes(cur.n) /\ Writes(cur.n) \subseteq Keys
         /\ cur.n \notin DOMAIN data /\ cur.n \notin DOMAIN expiry
         /\ cur.n \notin prio \cup deprio \cup inelg
         /\ DOMAIN data' = DOMAIN data \cup {n \in {cur.n} : cur.have # {}}
         /\ \A n \in DOMAIN data : data'[n] = data[n]
         /\ cur.have # {} => data'[cur.n] = cur.have
         /\ DOMAIN expiry' = DOMAIN expiry \cup {n \in {cur.n} : ~neverExpires /\ Writes(n) # {}}
         /\ prio' = prio \cup {n \in {cur.n} : Writes(n) # {} /\ cur.have = {} /\ IsMember}
         /\ inelg' = inelg \cup {n \in {cur.n} : Writes(n) # {} /\ cur.have = {} /\ ~IsMember}
<1> USE PvtDataAssumption
<1>1. /\ cur.n \in Nat \ {0} /\ pvtHt = cur.n /\ pvtHt' = cur.n + 1 /\ blkHt = cur.n /\ stHt = cur.n
      /\ cur.n =< Len(chain) /\ Len(chain) \in Nat /\ Len(chain) =< MaxBlock
      /\ UNCHANGED <<chain, deprio, elgEvents, blkHt, stHt, cur, rpc, rec, upc, elg, epc>>
  BY DEF Base, CommitterOK, ChainOK, CommitPvt
<1>2. cur.have \subseteq Writes(cur.n) /\ Writes(cur.n) \subseteq Keys
  BY <1>1, WritesType DEF Base, CurOK
<1>3. cur.n \notin DOMAIN data /\ cur.n \notin DOMAIN expiry /\ cur.n \notin prio \cup deprio \cup inelg
  BY <1>1 DEF Base, StoreOK, lastCommittedBlock
<1>4. /\ DOMAIN data' = DOMAIN data \cup {n \in {cur.n} : cur.have # {}}
      /\ \A n \in DOMAIN data : data'[n] = data[n]
      /\ cur.have # {} => data'[cur.n] = cur.have
  <2>1. data' = IF cur.have = {} THEN data ELSE With(data, cur.n, cur.have)
    BY DEF CommitPvt
  <2>2. CASE cur.have = {}
    BY <2>1, <2>2
  <2>3. CASE cur.have # {}
    BY <1>3, <2>1, <2>3 DEF With
  <2> QED
    BY <2>2, <2>3
<1>5. DOMAIN expiry' = DOMAIN expiry \cup {n \in {cur.n} : ~neverExpires /\ Writes(n) # {}}
  <2>1. CASE neverExpires \/ Writes(cur.n) = {}
    BY <2>1 DEF CommitPvt
  <2>2. CASE ~(neverExpires \/ Writes(cur.n) = {})
    BY <2>2 DEF CommitPvt, With
  <2> QED
    BY <2>1, <2>2
<1>6. /\ prio' = prio \cup {n \in {cur.n} : Writes(n) # {} /\ cur.have = {} /\ IsMember}
      /\ inelg' = inelg \cup {n \in {cur.n} : Writes(n) # {} /\ cur.have = {} /\ ~IsMember}
  BY DEF CommitPvt
<1> QED
  BY <1>1, <1>2, <1>3, <1>4, <1>5, <1>6 DEF Blocks

\* What StoreOld does to the lists.
LEMMA StoreOldFacts ==
  ASSUME Base, StoreOld
  PROVE  LET keep == {n \in DOMAIN rec.found : Tracked(n)} IN
         /\ DOMAIN data' = keep \cup DOMAIN data
         /\ \A n \in DOMAIN data' : data'[n] = IF n \in keep THEN rec.found[n] ELSE data[n]
         /\ hashedIndex' = hashedIndex \cup UNION {rec.found[n] \X {n} : n \in keep}
         /\ DOMAIN expiry' = DOMAIN expiry
         /\ prio' = prio \ (keep \cup rec.asked)
         /\ deprio' = (deprio \ (keep \ prio)) \cup (rec.asked \cap prio)
         /\ rec'.asked = {} /\ DOMAIN rec'.found = {} /\ rpc = "applied" /\ rpc' = "idle"
         /\ UNCHANGED <<chain, pvtHt, inelg, elg, stHt, blkHt, cur, cpc>>
BY DEF StoreOld, Tracked, Nothing, Base, ReconcilerOK

\* The purger removes an entry that has expired.
LEMMA PurgeExpiredFacts ==
  ASSUME Base, PurgeExpiredEntry
  PROVE  \E n0 \in DOMAIN expiry :
         /\ n0 \in Blocks /\ isExpired(n0, lastCommittedBlock) /\ ~neverExpires
         /\ DOMAIN data' = IF "present" \in expiry[n0] THEN DOMAIN data \ {n0} ELSE DOMAIN data
         /\ \A n \in DOMAIN data' : data'[n] = data[n]
         /\ hashedIndex' = {e \in hashedIndex : e[2] # n0 \/ "present" \notin expiry[n0]}
         /\ DOMAIN expiry' = DOMAIN expiry \ {n0}
         /\ prio' \subseteq prio /\ prio \ {n0} \subseteq prio'
         /\ deprio' \subseteq deprio /\ deprio \ {n0} \subseteq deprio'
         /\ inelg' \subseteq inelg /\ inelg \ {n0} \subseteq inelg'
         /\ UNCHANGED <<chain, pvtHt, elg, elgEvents, rec, rpc, stHt, blkHt, cur, cpc>>
<1> USE PvtDataAssumption
<1> DEFINE n0 == Min(ToPurge(purger.bound))
<1>1. n0 \in ToPurge(purger.bound)
  <2>1. DOMAIN expiry \subseteq Nat
    BY DEF Base, StoreOK, lastCommittedBlock, CommitterOK
  <2>2. ToPurge(purger.bound) \in SUBSET Nat /\ ToPurge(purger.bound) # {}
    BY <2>1 DEF PurgeExpiredEntry, ToPurge
  <2> QED
    BY <2>2, MinFacts
<1>2. n0 \in DOMAIN expiry /\ ExpiringBlock(n0) =< purger.bound
  BY <1>1 DEF ToPurge
<1>3. n0 \in Blocks /\ isExpired(n0, lastCommittedBlock) /\ ~neverExpires
  <2>1. n0 \in 1..lastCommittedBlock /\ ~neverExpires
    BY <1>2 DEF Base, StoreOK
  <2>2. purger.bound =< lastCommittedBlock /\ lastCommittedBlock \in Nat /\ lastCommittedBlock =< MaxBlock /\ purger.bound \in Nat
    BY DEF Base, PurgerOK, CommitterOK, ChainOK, lastCommittedBlock
  <2> HIDE DEF n0
  <2> QED
    BY <1>2, <2>1, <2>2 DEF isExpired, Blocks, ExpiringBlock
<1> HIDE DEF n0
<1>4. /\ DOMAIN data' = IF "present" \in expiry[n0] THEN DOMAIN data \ {n0} ELSE DOMAIN data
      /\ \A n \in DOMAIN data' : data'[n] = data[n]
  BY DEF PurgeExpiredEntry, n0
<1>5. /\ hashedIndex' = {e \in hashedIndex : e[2] # n0 \/ "present" \notin expiry[n0]}
      /\ DOMAIN expiry' = DOMAIN expiry \ {n0}
  BY DEF PurgeExpiredEntry, n0, Without
<1>6. /\ prio' \subseteq prio /\ prio \ {n0} \subseteq prio'
      /\ deprio' \subseteq deprio /\ deprio \ {n0} \subseteq deprio'
      /\ inelg' \subseteq inelg /\ inelg \ {n0} \subseteq inelg'
  BY DEF PurgeExpiredEntry, n0
<1>7. UNCHANGED <<chain, pvtHt, elg, elgEvents, rec, rpc, stHt, blkHt, cur, cpc>>
  BY DEF PurgeExpiredEntry
<1> QED
  BY <1>2, <1>3, <1>4, <1>5, <1>6, <1>7

\* The lists and the batches stay, or a batch gets smaller.
LEMMA AccountedSame ==
  ASSUME Base, Accounted, [Next]_vars, pvtHt' = pvtHt,
         UNCHANGED <<DOMAIN data, DOMAIN expiry, prio, deprio, inelg>>,
         elg'.entries \subseteq elg.entries,
         rec'.asked \cup DOMAIN rec'.found \subseteq rec.asked \cup DOMAIN rec.found
  PROVE  Accounted'
<1>1. /\ \A n \in 1..Len(chain) : chain'[n] = chain[n]
      /\ pvtHt \in Nat /\ pvtHt =< Len(chain) + 1 /\ Len(chain) \in Nat
  BY Grows DEF Base, CommitterOK, ChainOK
<1>2. \A n \in 1..lastCommittedBlock : Writes(n)' = Writes(n)
  BY <1>1 DEF lastCommittedBlock, Writes
<1>3. \A n : Tracked(n)' <=> Tracked(n)
  BY DEF Tracked, neverExpires
<1>4. \A n : OnePlace(n)' <=> OnePlace(n)
  BY DEF OnePlace
<1>5. lastCommittedBlock' = lastCommittedBlock
  BY DEF lastCommittedBlock
<1>6. \A n, l : isExpired(n, l)' <=> isExpired(n, l)
  BY DEF isExpired, neverExpires, ExpiringBlock
<1> QED
  BY <1>2, <1>3, <1>4, <1>5, <1>6, PvtDataAssumption DEF Accounted, isExpired, neverExpires,
     ExpiringBlock

\* Nothing is stored and nothing is missing initially.
LEMMA InitAccounted == Init => Accounted /\ IndexOfData
BY DEF Init, Accounted, IndexOfData, Nothing, lastCommittedBlock, NoElg, NoBatch

\* No step loses a block from the lists, nor lists it twice.
LEMMA AccountedStep ==
  ASSUME Base, Base', Accounted, [Next]_vars
  PROVE  Accounted'
<1> USE PvtDataAssumption
<1>1. pvtHt \in Nat /\ \A n : Writes(n)' = chain'[n].keys
  BY DEF Base, CommitterOK, Writes
<1>2. CASE CommitPvt
  <2>1. \A n \in 1..lastCommittedBlock : n # cur.n /\ n \in 1..lastCommittedBlock'
    BY <1>1, <1>2, CommitPvtFacts DEF lastCommittedBlock
  <2>2. \A n \in 1..lastCommittedBlock' : n \in 1..lastCommittedBlock \/ n = cur.n
    BY <1>1, <1>2, CommitPvtFacts DEF lastCommittedBlock
  <2>3. \A n : n # cur.n => (Tracked(n)' <=> Tracked(n)) /\ (OnePlace(n)' <=> OnePlace(n))
    BY <1>2, CommitPvtFacts DEF Tracked, OnePlace, neverExpires
  <2>4. \A n \in 1..lastCommittedBlock : isExpired(n, lastCommittedBlock) => isExpired(n, lastCommittedBlock)'
    BY <1>1, <1>2, CommitPvtFacts DEF isExpired, lastCommittedBlock, neverExpires, ExpiringBlock
  <2>5. Writes(cur.n) # {} => Tracked(cur.n)' /\ OnePlace(cur.n)'
    BY <1>2, CommitPvtFacts DEF Tracked, OnePlace, neverExpires
  <2>6. \A n : Writes(n)' = Writes(n)
    BY <1>2, CommitPvtFacts DEF Writes
  <2>7. \A n \in elg'.entries : Tracked(n)' => n \in inelg'
    BY <1>2, CommitPvtFacts, <2>1, <2>3 DEF Accounted, Base, ElgOK
  <2>8. \A n \in rec'.asked \cup DOMAIN rec'.found : Tracked(n)' => n \in prio' \cup deprio'
    BY <1>2, CommitPvtFacts, <2>1, <2>3 DEF Accounted, Base, ReconcilerOK
  <2> QED
    BY <2>1, <2>2, <2>3, <2>4, <2>5, <2>6, <2>7, <2>8, CommitPvtFacts, <1>2 DEF Accounted
<1>3. CASE StoreOld
  <2> DEFINE keep == {n \in DOMAIN rec.found : Tracked(n)}
  <2>1. \A n \in keep \cup rec.asked : Tracked(n) => n \in prio \cup deprio
    BY DEF Accounted
  <2>2. keep \cap rec.asked = {}
    BY DEF Base, ReconcilerOK
  <2>3. \A n \in 1..lastCommittedBlock : Writes(n) # {} /\ Tracked(n) => OnePlace(n)'
    <3> SUFFICES ASSUME NEW n \in 1..lastCommittedBlock, Writes(n) # {},
                        Tracked(n)
                 PROVE  OnePlace(n)'
      OBVIOUS
    <3>1. OnePlace(n)
      BY DEF Accounted
    <3> QED
      BY <1>3, <2>1, <2>2, <3>1, StoreOldFacts DEF OnePlace
  <2>4. \A n : (Tracked(n)' <=> Tracked(n)) /\ Writes(n)' = Writes(n)
    BY <1>3, StoreOldFacts DEF Tracked, Writes, neverExpires
  <2>5. lastCommittedBlock' = lastCommittedBlock
    BY <1>3, StoreOldFacts DEF lastCommittedBlock
  <2> QED
    BY <1>3, <2>3, <2>4, <2>5, StoreOldFacts DEF Accounted, isExpired, neverExpires, ExpiringBlock
<1>4. CASE PurgeExpiredEntry
  <2>1. PICK n0 \in DOMAIN expiry :
         /\ n0 \in Blocks /\ isExpired(n0, lastCommittedBlock) /\ ~neverExpires
         /\ DOMAIN data' = IF "present" \in expiry[n0] THEN DOMAIN data \ {n0} ELSE DOMAIN data
         /\ DOMAIN expiry' = DOMAIN expiry \ {n0}
         /\ prio' \subseteq prio /\ prio \ {n0} \subseteq prio'
         /\ deprio' \subseteq deprio /\ deprio \ {n0} \subseteq deprio'
         /\ inelg' \subseteq inelg /\ inelg \ {n0} \subseteq inelg'
         /\ UNCHANGED <<chain, pvtHt, elg, elgEvents, rec, rpc, stHt, blkHt, cur, cpc>>
    BY <1>4, PurgeExpiredFacts
  <2>2. \A n : Tracked(n)' <=> Tracked(n) /\ n # n0
    BY <2>1 DEF Tracked, neverExpires
  <2>3. \A n : n # n0 => (OnePlace(n)' <=> OnePlace(n))
    BY <2>1 DEF OnePlace
  <2>4. lastCommittedBlock' = lastCommittedBlock /\ \A n : Writes(n)' = Writes(n)
    BY <2>1 DEF lastCommittedBlock, Writes
  <2>5. /\ \A n \in elg'.entries : Tracked(n)' => n \in inelg'
        /\ \A n \in rec'.asked \cup DOMAIN rec'.found : Tracked(n)' => n \in prio' \cup deprio'
    BY <2>1, <2>2 DEF Accounted
  <2>6. \A n \in 1..lastCommittedBlock : isExpired(n, lastCommittedBlock)' <=> isExpired(n, lastCommittedBlock)
    BY <2>4 DEF isExpired, neverExpires, ExpiringBlock
  <2>7. \A n \in 1..lastCommittedBlock' :
          Writes(n)' # {} /\ ~isExpired(n, lastCommittedBlock)' => Tracked(n)'
    BY <2>1, <2>2, <2>4, <2>6 DEF Accounted
  <2> QED
    BY <2>2, <2>3, <2>4, <2>5, <2>7 DEF Accounted
<1>5. CASE FinishElg \/ \E S \in SUBSET Blocks : ConvertBatch(S)
  <2>1. PICK S : /\ S \subseteq elg.entries /\ prio' = prio \cup S /\ inelg' = inelg \ S
                 /\ elg'.entries \subseteq elg.entries \ S
                 /\ UNCHANGED <<chain, data, expiry, deprio, pvtHt, rec>>
    <3>1. CASE FinishElg
      <4>1. elg'.entries = {}
        BY <3>1 DEF FinishElg, NoElg
      <4> QED
        BY <3>1, <4>1 DEF FinishElg
    <3>2. ASSUME NEW S \in SUBSET Blocks, ConvertBatch(S)
          PROVE  /\ S \subseteq elg.entries /\ prio' = prio \cup S /\ inelg' = inelg \ S
                 /\ elg'.entries \subseteq elg.entries \ S
                 /\ UNCHANGED <<chain, data, expiry, deprio, pvtHt, rec>>
      BY <3>2 DEF ConvertBatch, Base, ElgOK
    <3> QED
      BY <1>5, <3>1, <3>2
  <2>2. \A n : (Tracked(n)' <=> Tracked(n)) /\ Writes(n)' = Writes(n)
    BY <2>1 DEF Tracked, Writes, neverExpires
  <2>3. \A n \in S : Tracked(n) => n \in inelg
    BY <2>1 DEF Accounted
  <2>4. \A n \in 1..lastCommittedBlock : Writes(n) # {} /\ Tracked(n) => OnePlace(n)'
    BY <2>1, <2>3 DEF Accounted, OnePlace
  <2>5. lastCommittedBlock' = lastCommittedBlock
    BY <2>1 DEF lastCommittedBlock
  <2> QED
    BY <2>1, <2>2, <2>4, <2>5 DEF Accounted, isExpired, neverExpires, ExpiringBlock
<1>6. CASE StartElg
  <2>1. elg'.entries \subseteq inelg /\ UNCHANGED <<chain, data, expiry, deprio, prio, inelg, pvtHt, rec>>
    BY <1>6 DEF StartElg, Base, ElgOK
  <2> QED
    BY <2>1 DEF Accounted, Tracked, OnePlace, Writes, lastCommittedBlock, isExpired, neverExpires,
       ExpiringBlock
<1>7. CASE GetMissing(prio) \/ GetMissing(deprio)
  <2>1. /\ rec'.asked \subseteq prio \cup deprio /\ DOMAIN rec'.found = {}
        /\ UNCHANGED <<chain, data, expiry, deprio, prio, inelg, pvtHt, elg>>
    BY <1>7, GetMissingFacts
  <2> QED
    BY <2>1 DEF Accounted, Tracked, OnePlace, Writes, lastCommittedBlock, isExpired, neverExpires,
       ExpiringBlock
<1>8. CASE DeleteMarked
  <2>1. DOMAIN data' = DOMAIN data /\ UNCHANGED <<expiry, prio, deprio, inelg, elg, rec, pvtHt>>
    BY <1>8 DEF DeleteMarked
  <2> QED
    BY <2>1, AccountedSame
<1>9. ASSUME NEW got \in Answers, FetchAndVerify(got)
      PROVE  Accounted'
  <2>1. /\ rec'.asked \subseteq rec.asked /\ DOMAIN rec'.found \subseteq rec.asked
        /\ UNCHANGED <<data, expiry, prio, deprio, inelg, elg, pvtHt>>
    BY <1>9 DEF FetchAndVerify, Answers, Base, ReconcilerOK
  <2> QED
    BY <2>1, AccountedSame
<1>10. CASE ReconcileFails \/ Stop
  <2>1. /\ rec'.asked = {} /\ DOMAIN rec'.found = {} /\ elg'.entries \subseteq elg.entries
        /\ UNCHANGED <<data, expiry, prio, deprio, inelg, pvtHt>>
    BY <1>10 DEF ReconcileFails, Stop, NoBatch, Nothing, NoElg
  <2> QED
    BY <2>1, AccountedSame
<1>11. CASE \/ \E op \in Ops, got \in BOOLEAN : ValidateAndPrepare(op, got)
            \/ CommitLostBlock \/ WaitForNotification
  <2>1. elg'.entries = elg.entries /\ UNCHANGED <<data, expiry, prio, deprio, inelg, pvtHt, rec>>
    <3>1. elg' = elg \/ \E b \in BOOLEAN : elg' = [elg EXCEPT !.signal = b]
      BY <1>11, ZenonT(60) DEF ValidateAndPrepare, CommitLostBlock, ProcessCollsEligibilityEnabled,
         WaitForNotification
    <3>2. UNCHANGED <<data, expiry, prio, deprio, inelg, pvtHt, rec>>
      BY <1>11, ZenonT(60) DEF ValidateAndPrepare, CommitLostBlock, WaitForNotification,
         storeVars, reconciler
    <3>3. elg'.entries = elg.entries
      BY <3>1 DEF Base, ElgOK
    <3> QED
      BY <3>2, <3>3
  <2> QED
    BY <2>1, AccountedSame
<1>12. CASE UNCHANGED <<data, expiry, prio, deprio, inelg, pvtHt, rec, elg>>
  BY <1>12, AccountedSame
<1> QED
  BY <1>2, <1>3, <1>4, <1>5, <1>6, <1>7, <1>8, <1>9, <1>10, <1>11, <1>12 DEF Next, Committer,
     Preparation, Reconciler, Purger, ElgProcessor,
     FetchRawKeys, AddBlock, UpdateExpiryInfo, ApplyUpdates, BlockCommitDone,
     RetrieveSchedule, PrepareWorkingset, UpdateExpiryInfoOfOld, ApplyOld, StartPurge, ScanMarkers,
     Relock, Crash, Rollback, Open

\* Every step writes the index together with the data.
LEMMA IndexStep ==
  ASSUME Base, Base', Accounted, IndexOfData, [Next]_vars
  PROVE  IndexOfData'
<1> USE PvtDataAssumption
<1>1. CASE CommitPvt
  <2>1. hashedIndex' = hashedIndex \cup (cur.have \X {cur.n})
    BY <1>1 DEF CommitPvt
  <2> QED
    BY <1>1, <2>1, CommitPvtFacts DEF IndexOfData
<1>2. CASE StoreOld
  <2> DEFINE keep == {n \in DOMAIN rec.found : Tracked(n)}
  <2>1. \A n \in keep : n \notin DOMAIN data
    <3> SUFFICES ASSUME NEW n \in keep PROVE n \notin DOMAIN data
      OBVIOUS
    <3>1. n \in prio \cup deprio /\ Tracked(n)
      BY DEF Accounted
    <3>2. n \in 1..lastCommittedBlock /\ Writes(n) # {}
      BY <3>1 DEF Base, StoreOK
    <3> QED
      BY <3>1, <3>2 DEF Accounted, OnePlace
  <2>2. \A k \in Keys, n \in Blocks : <<k, n>> \in hashedIndex' <=>
           <<k, n>> \in hashedIndex \/ (n \in keep /\ k \in rec.found[n])
    BY <1>2, StoreOldFacts
  <2> QED
    BY <1>2, <2>1, <2>2, StoreOldFacts DEF IndexOfData
<1>3. CASE PurgeExpiredEntry
  <2>1. PICK n0 \in DOMAIN expiry :
         /\ DOMAIN data' = IF "present" \in expiry[n0] THEN DOMAIN data \ {n0} ELSE DOMAIN data
         /\ \A n \in DOMAIN data' : data'[n] = data[n]
         /\ hashedIndex' = {e \in hashedIndex : e[2] # n0 \/ "present" \notin expiry[n0]}
    BY <1>3, PurgeExpiredFacts
  <2> QED
    BY <2>1 DEF IndexOfData
<1>4. CASE DeleteMarked
  <2>1. /\ \A k, n : <<k, n>> \in hashedIndex' <=> <<k, n>> \in hashedIndex /\ n > purger.markers[k]
        /\ DOMAIN data' = DOMAIN data
        /\ \A n \in DOMAIN data : data'[n] = {k \in data[n] : n > purger.markers[k]}
    BY <1>4 DEF DeleteMarked
  <2> QED
    BY <2>1 DEF IndexOfData
<1>5. CASE UNCHANGED <<data, hashedIndex>>
  BY <1>5 DEF IndexOfData
<1> QED
  BY <1>1, <1>2, <1>3, <1>4, <1>5 DEF Next, Committer, Preparation, Reconciler, Purger,
     ElgProcessor, ValidateAndPrepare,
     FetchRawKeys, AddBlock, UpdateExpiryInfo, ApplyUpdates, BlockCommitDone, CommitLostBlock,
     RetrieveSchedule, PrepareWorkingset, GetMissing, ReconcileFails, FetchAndVerify,
     UpdateExpiryInfoOfOld, ApplyOld, StartPurge, ScanMarkers,
     WaitForNotification, StartElg, ConvertBatch, Relock, FinishElg, Stop, Crash,
     Rollback, Open

\* In every reachable state each live block is in one place and the index is that of the data.
LEMMA AccountedInvariance == Spec => [](Accounted /\ IndexOfData)
<1>1. Base /\ Base' /\ (Accounted /\ IndexOfData) /\ [Next]_vars => (Accounted /\ IndexOfData)'
  BY AccountedStep, IndexStep
<1> QED
  BY <1>1, InitAccounted, BaseInvariance, PTL DEF Spec

\* As long as it has not expired, the private data of a committed block is stored or missing
\* in exactly one of the three lists.
THEOREM AllAccounted == Spec => []MissingAccounted
<1>1. Base /\ Accounted => MissingAccounted
  <2> SUFFICES ASSUME Base, Accounted, NEW n \in 1..lastCommittedBlock,
                      Writes(n) # {}, ~isExpired(n, lastCommittedBlock)
               PROVE  \E p \in DOMAIN Places : \A q \in DOMAIN Places : n \in Places[q] <=> q = p
    BY DEF MissingAccounted
  <2>1. OnePlace(n)
    BY DEF Accounted
  <2>2. /\ DOMAIN Places = {"data", "prio", "deprio", "inelg"}
        /\ Places["data"] = DOMAIN data /\ Places["prio"] = prio
        /\ Places["deprio"] = deprio /\ Places["inelg"] = inelg
    BY DEF Places
  <2> HIDE DEF Places
  <2>3. CASE n \in DOMAIN data
    BY <2>1, <2>2, <2>3 DEF OnePlace
  <2>4. CASE n \in prio
    BY <2>1, <2>2, <2>4 DEF OnePlace
  <2>5. CASE n \in deprio
    BY <2>1, <2>2, <2>5 DEF OnePlace
  <2>6. CASE n \in inelg
    BY <2>1, <2>2, <2>6 DEF OnePlace
  <2> QED
    BY <2>1, <2>3, <2>4, <2>5, <2>6 DEF OnePlace
<1> QED
  BY <1>1, BaseInvariance, AccountedInvariance, PTL

-----------------------------------------------------------------------------
(* Collection eligibility events.  No block before an ineligible entry made *)
(* the peer a member; once there is one, an event says so, and the          *)
(* processor has scanned the entries of the events it will delete.  Only    *)
(* the block that itself makes the peer a member may be excused.            *)

Eligible(m) == chain[m].elg

\* A block that makes the peer a member is committed or being committed.
MemberSeen ==
  (\E m \in 1..(stHt - 1) : Eligible(m)) \/ (cur.n # 0 /\ Eligible(cur.n))

\* The entry of a block that makes the peer a member, written after its event was scanned.
Excused(n) == Eligible(n) /\ "elg" \in raced

ElgInv ==
  /\ \A n \in inelg : ~member /\ \A m \in 1..(n - 1) : ~Eligible(m)
  /\ \A n \in inelg : MemberSeen => Excused(n) \/ \E e \in elgEvents : n =< e
  /\ \A n \in inelg, e \in elg.events : n =< e => n \in elg.entries \/ Excused(n)
  /\ epc \notin {"start", "down"} => elg.signal \/ elgEvents \subseteq elg.events

\* There is no event initially.
LEMMA InitElg == Init => ElgInv
BY DEF Init, ElgInv, NoElg

\* Every step keeps an event for what is to be converted, and the processor awake for it.
LEMMA ElgInvStep ==
  ASSUME Base, Base', ElgInv, [Next]_vars
  PROVE  ElgInv'
<1> USE PvtDataAssumption
<1>1. /\ \A n \in 1..Len(chain) : chain'[n] = chain[n]
      /\ Len(chain) \in Nat /\ pvtHt \in Nat /\ stHt \in Nat /\ stHt >= 1 /\ cur.n \in Nat
      /\ pvtHt =< Len(chain) + 1 /\ blkHt \in Nat /\ stHt =< blkHt /\ blkHt =< pvtHt /\ cur.n =< Len(chain)
      /\ inelg \subseteq 1..(pvtHt - 1)
  BY Grows, SMTT(30) DEF Base, CommitterOK, ChainOK, StoreOK, lastCommittedBlock
<1>2. ASSUME inelg' \subseteq inelg, UNCHANGED <<chain, elgEvents, elg, epc, member>>, raced \subseteq raced',
             stHt' = stHt \/ stHt' = 1 \/ (stHt' = cur.n + 1 /\ cur.n = stHt), 
             cur'.n = cur.n \/ cur'.n = 0 
      PROVE  ElgInv'
  <2>1. ASSUME MemberSeen'
        PROVE  MemberSeen
    BY <1>1, <1>2, <2>1 DEF Eligible, MemberSeen
  <2>2. \A n \in inelg : Excused(n) => Excused(n)'
    BY <1>2 DEF Excused, Eligible
  <2>3. \A n : Eligible(n)' <=> Eligible(n)
    BY <1>2 DEF Eligible
  <2> QED
    BY <1>2, <2>1, <2>2, <2>3 DEF ElgInv
<1>3. ASSUME NEW op \in Ops, NEW got \in BOOLEAN, ValidateAndPrepare(op, got)
      PROVE  ElgInv'
  <2>1. /\ blkHt = stHt /\ cur'.n = blkHt /\ UNCHANGED <<stHt, inelg, member, epc, raced>>
        /\ op = chain'[blkHt] /\ elg'.entries = elg.entries /\ elg'.events = elg.events
        /\ cur.n = 0
    BY <1>3 DEF ValidateAndPrepare, ProcessCollsEligibilityEnabled, Base, CommitterOK, ElgOK,
       NoBlock
  <2>2. IF op.elg /\ ~IsMember
          THEN elgEvents' = elgEvents \cup {blkHt} /\ elg'.signal = TRUE
          ELSE UNCHANGED <<elgEvents, elg>>
    BY <1>3 DEF ValidateAndPrepare, ProcessCollsEligibilityEnabled, Base, ElgOK
  <2>3. /\ \A n \in inelg : ~member' /\ \A m \in 1..(n - 1) : ~Eligible(m)'
        /\ \A n \in inelg : Excused(n) => Excused(n)'
    <3>1. \A m \in 1..Len(chain) : Eligible(m)' <=> Eligible(m)
      BY <1>1 DEF Eligible
    <3>2. \A n \in inelg : n \in 1..Len(chain) /\ \A m \in 1..(n - 1) : m \in 1..Len(chain)
      BY <1>1
    <3>3. \A n \in inelg : Excused(n) => Excused(n)'
      BY <2>1, <3>1, <3>2 DEF Excused
    <3> QED
      BY <2>1, <3>1, <3>2, <3>3 DEF ElgInv
  <2>4. ASSUME NEW n \in inelg, MemberSeen'
        PROVE  Excused(n)' \/ \E e \in elgEvents' : n =< e
    <3>1. CASE \E m \in 1..(stHt - 1) : Eligible(m)
      <4>1. Excused(n) \/ \E e \in elgEvents : n =< e
        BY <3>1 DEF ElgInv, MemberSeen
      <4> QED
        BY <2>2, <2>3, <4>1
    <3>2. CASE ~ \E m \in 1..(stHt - 1) : Eligible(m)
      <4>1. op.elg
        BY <1>1, <2>1, <2>4, <3>2, SMTT(30) DEF Eligible, MemberSeen
      <4>2. ~IsMember
        BY <1>1, <3>2 DEF IsMember, ElgInv, Eligible
      <4>3. n =< blkHt
        BY <1>1, <2>1, <2>3, <4>1 DEF Eligible
      <4> QED
        BY <2>2, <4>1, <4>2, <4>3
    <3> QED
      BY <3>1, <3>2
  <2>5. epc' \notin {"start", "down"} => elg'.signal \/ elgEvents' \subseteq elg'.events
    BY <2>1, <2>2 DEF ElgInv
  <2> QED
    BY <2>1, <2>3, <2>4, <2>5 DEF ElgInv
<1>4. CASE CommitLostBlock
  <2>1. /\ cur'.n = stHt /\ UNCHANGED <<stHt, inelg, member, epc, chain, raced>>
        /\ elg'.entries = elg.entries /\ elg'.events = elg.events
    BY <1>4 DEF CommitLostBlock, ProcessCollsEligibilityEnabled, Base, CommitterOK, ElgOK, NoBlock
  <2>2. IF chain[stHt].elg /\ ~IsMember
          THEN elgEvents' = elgEvents \cup {stHt} /\ elg'.signal = TRUE
          ELSE UNCHANGED <<elgEvents, elg>>
    BY <1>4 DEF CommitLostBlock, ProcessCollsEligibilityEnabled, Base, ElgOK
  <2>3. ASSUME NEW n \in inelg, MemberSeen'
        PROVE  Excused(n)' \/ \E e \in elgEvents' : n =< e
    <3>1. CASE \E m \in 1..(stHt - 1) : Eligible(m)
      <4>1. Excused(n) \/ \E e \in elgEvents : n =< e
        BY <3>1 DEF ElgInv, MemberSeen
      <4> QED
        BY <2>1, <2>2, <4>1 DEF Excused, Eligible
    <3>2. CASE ~ \E m \in 1..(stHt - 1) : Eligible(m)
      <4>1. chain[stHt].elg
        BY <1>1, <2>1, <2>3, <3>2 DEF Eligible, MemberSeen
      <4>2. ~IsMember
        BY <1>1, <3>2 DEF IsMember, ElgInv, Eligible
      <4>3. n =< stHt
        BY <1>1, <4>1 DEF Eligible, ElgInv
      <4> QED
        BY <2>2, <4>1, <4>2, <4>3
    <3> QED
      BY <3>1, <3>2
  <2>4. epc' \notin {"start", "down"} => elg'.signal \/ elgEvents' \subseteq elg'.events
    BY <2>1, <2>2 DEF ElgInv
  <2> QED
    BY <2>1, <2>3, <2>4 DEF ElgInv, Eligible, Excused, MemberSeen
<1>5. CASE CommitPvt
  <2>1. ASSUME NEW n \in inelg', n \notin inelg
        PROVE  /\ n = cur.n /\ ~IsMember /\ Writes(n) # {}
    BY <1>5, <2>1, CommitPvtFacts
  <2>2. UNCHANGED <<chain, elgEvents, stHt, cur, elg, epc, member>> /\ cur.n = stHt /\ pvtHt = cur.n
        /\ raced \subseteq raced'
    BY <1>5, CommitPvtFacts DEF CommitPvt
  <2>3. ASSUME NEW n \in inelg', n \notin inelg, Eligible(n), n \notin elgEvents \/ n \in elg.events
        PROVE  Excused(n)'
    <3>1. n = cur.n /\ ~IsMember /\ Writes(n) # {} /\ cur.have = {}
      BY <1>5, <2>1, <2>3 DEF CommitPvt
    <3>2. "elg" \in raced'
      BY <1>5, <2>3, <3>1 DEF CommitPvt, Eligible
    <3> QED
      BY <2>2, <2>3, <3>2 DEF Excused, Eligible
  <2>4. ASSUME NEW n \in inelg', n \notin inelg
        PROVE  ~member /\ \A m \in 1..(n - 1) : ~Eligible(m)
    BY <1>1, <2>1, <2>2, <2>4 DEF IsMember, Eligible
  <2>5. ASSUME NEW n \in inelg', n \notin inelg, NEW e \in elg.events, n =< e
        PROVE  Excused(n)'
    <3>1. e \in 1..cur.n /\ Eligible(e)
      BY <2>2 DEF Base, ElgOK, Eligible
    <3>2. e = n
      BY <1>1, <2>1, <2>5, <3>1
    <3> QED
      BY <2>3, <2>5, <3>1, <3>2
  <2>6. ASSUME NEW n \in inelg', n \notin inelg, MemberSeen
        PROVE  Excused(n)' \/ \E e \in elgEvents : n =< e
    <3>1. Eligible(n) /\ n \in Nat
      BY <1>1, <2>1, <2>2, <2>4, <2>6 DEF MemberSeen
    <3> QED
      BY <2>3, <2>6, <3>1
  <2>7. /\ MemberSeen' <=> MemberSeen
        /\ \A n \in inelg : Excused(n) => Excused(n)'
    BY <2>2 DEF MemberSeen, Eligible, Excused
  <2>8. \A n \in inelg' : ~member' /\ \A m \in 1..(n - 1) : ~Eligible(m)'
    BY <2>2, <2>4 DEF ElgInv, Eligible
  <2>9. \A n \in inelg' : MemberSeen' => Excused(n)' \/ \E e \in elgEvents' : n =< e
    BY <2>2, <2>6, <2>7 DEF ElgInv
  <2>10. \A n \in inelg', e \in elg'.events : n =< e => n \in elg'.entries \/ Excused(n)'
    BY <2>2, <2>5, <2>7 DEF ElgInv
  <2> QED
    BY <2>2, <2>8, <2>9, <2>10 DEF ElgInv
<1>6. CASE BlockCommitDone \/ ApplyUpdates \/ FetchRawKeys \/ PurgeExpiredEntry
  <2>1. /\ inelg' \subseteq inelg /\ UNCHANGED <<chain, elgEvents, elg, epc, member, raced>>
        /\ stHt' = stHt \/ (stHt' = cur.n + 1 /\ cur.n = stHt)
        /\ cur'.n = cur.n \/ cur'.n = 0
    <3>1. CASE BlockCommitDone
      BY <3>1 DEF BlockCommitDone, NoBlock
    <3>2. CASE ApplyUpdates
      BY <3>2 DEF ApplyUpdates, Base, CommitterOK
    <3>3. CASE FetchRawKeys
      BY <3>3 DEF FetchRawKeys, Base, CommitterOK
    <3>4. CASE PurgeExpiredEntry
      BY <3>4 DEF PurgeExpiredEntry
    <3> QED
      BY <1>6, <3>1, <3>2, <3>3, <3>4
  <2> QED
    BY <1>2, <2>1
<1>7. CASE Stop /\ (Crash \/ \E h \in Blocks : Rollback(h))
  <2>1. /\ UNCHANGED <<inelg, chain, elgEvents, member, raced>> /\ epc' = "down" /\ elg'.events = {}
        /\ stHt' = stHt \/ stHt' = 1
        /\ cur'.n = 0
    BY <1>7 DEF Stop, Crash, Rollback, NoBlock, NoElg
  <2>2. ASSUME MemberSeen'
        PROVE  MemberSeen
    BY <1>1, <2>1, <2>2 DEF Eligible, MemberSeen
  <2> QED
    BY <2>1, <2>2 DEF ElgInv, Eligible, Excused, MemberSeen
<1>8. CASE Open
  BY <1>8 DEF Open, ElgInv, Eligible, Excused, MemberSeen
<1>9. CASE WaitForNotification
  BY <1>9 DEF WaitForNotification, ElgInv, Eligible, Excused, MemberSeen, Base, ElgOK
<1>10. CASE StartElg
  <2>1. /\ elg'.events = elgEvents /\ elg'.entries = {n \in inelg : \E e \in elgEvents : n =< e}
        /\ UNCHANGED <<chain, inelg, elgEvents, stHt, cur, member, raced>> /\ epc' = "locked"
    BY <1>10 DEF StartElg, Base, ElgOK
  <2> QED
    BY <2>1 DEF ElgInv, Eligible, Excused, MemberSeen
<1>11. ASSUME NEW S \in SUBSET Blocks, ConvertBatch(S)
       PROVE  ElgInv'
  <2>1. /\ inelg' = inelg \ S /\ elg'.entries = elg.entries \ S /\ elg'.events = elg.events
        /\ elg'.signal = elg.signal /\ UNCHANGED <<chain, elgEvents, stHt, cur, member, raced>> 
        /\ epc = "locked"
    BY <1>11 DEF ConvertBatch, Base, ElgOK
  <2> QED
    BY <2>1 DEF ElgInv, Eligible, Excused, MemberSeen
<1>12. CASE FinishElg
  <2>1. /\ inelg' = inelg \ elg.entries /\ elg'.entries = {} /\ elg'.events = {}
        /\ elg'.signal = elg.signal /\ UNCHANGED <<chain, stHt, cur, member, raced>> 
        /\ elgEvents' = elgEvents \ elg.events /\ epc = "locked"
    BY <1>12 DEF FinishElg, Base, ElgOK, NoElg
  <2> QED
    BY <2>1 DEF ElgInv, Eligible, Excused, MemberSeen
<1>13. CASE Relock
  BY <1>13 DEF Relock, ElgInv, Eligible, Excused, MemberSeen
<1>14. CASE UNCHANGED <<chain, inelg, elgEvents, elg, epc, member, stHt, cur>> /\ raced \subseteq raced'
  BY <1>2, <1>14
<1> QED
  BY <1>3, <1>4, <1>5, <1>6, <1>7, <1>8, <1>9, <1>10, <1>11, <1>12, <1>13, <1>14 DEF Next, Committer,
     Preparation, Reconciler, Purger, ElgProcessor, AddBlock, UpdateExpiryInfo,
     RetrieveSchedule, PrepareWorkingset, GetMissing, ReconcileFails, FetchAndVerify,
     UpdateExpiryInfoOfOld, ApplyOld, StoreOld, StartPurge, ScanMarkers, DeleteMarked,
     Crash, Rollback

\* The processor of eligibility events never sleeps while there is something to convert, but
\* for the entry of the block that makes the peer a member when its event was scanned first.
THEOREM NoEventLost == Spec => []ElgEventsHandled
<1>1. Base /\ ElgInv => ElgEventsHandled
  BY DEF ElgInv, ElgEventsHandled, IsMember, Eligible, Excused, MemberSeen, Base, ElgOK
<1>2. Base /\ Base' /\ ElgInv /\ [Next]_vars => ElgInv'
  BY ElgInvStep
<1> QED
  BY <1>1, <1>2, InitElg, BaseInvariance, PTL DEF Spec

-----------------------------------------------------------------------------
(* Purge markers.  The markers of the reconciler are those of the purges    *)
(* that the store has, and bound the others; a batch that is being applied  *)
(* was trimmed with them, as its lock keeps new ones away.                  *)

Markers ==
  /\ \A k \in Keys : /\ reconMarker[k] < pvtHt /\ reconMarker[k] =< collMarker
                     /\ marker[k] =< reconMarker[k] /\ purger.markers[k] =< reconMarker[k]
                     /\ reconMarker[k] # 0 => k \in Purges(reconMarker[k])
  /\ \A n \in 1..lastCommittedBlock : \A k \in Purges(n) : n =< reconMarker[k]
  /\ rpc \in {"waited", "updated", "applied"} =>
       \A n \in DOMAIN rec.found : \A k \in rec.found[n] : n > reconMarker[k]

\* A marker is removed with the keys it stands for only.
Serving ==
  "marker" \notin raced =>
    /\ \A k \in Keys : \/ marker[k] = reconMarker[k]
                       \/ /\ marker[k] = 0
                          /\ \A n \in DOMAIN data : k \in data[n] => n > reconMarker[k]
    /\ upc = "scanned" => \A k \in Keys : purger.markers[k] \in {0, marker[k]}

\* There is no marker initially.
LEMMA InitMarkers == Init => Markers /\ Serving
BY DEF Init, Markers, Serving, lastCommittedBlock, NoScan

\* What CommitPvt does to the markers.
LEMMA CommitPvtMarkers ==
  ASSUME Base, CommitPvt
  PROVE  /\ \A k \in Keys : /\ marker'[k] = IF k \in Purges(cur.n) THEN cur.n ELSE marker[k]
                            /\ reconMarker'[k] = IF k \in Purges(cur.n) THEN cur.n ELSE reconMarker[k]
         /\ collMarker' = IF Purges(cur.n) # {} THEN cur.n ELSE collMarker
         /\ purger'.markers = purger.markers
         /\ Purges(cur.n) # {} => rpc \in {"idle", "asked"}
         /\ Purges(cur.n) \subseteq Keys
<1>1. purger' \in {purger, [purger EXCEPT !.upto = @ \cup {cur.n}]}
  BY DEF CommitPvt
<1>2. purger'.markers = purger.markers
  BY <1>1 DEF Base, PurgerOK
<1>3. Purges(cur.n) # {} => rpc \in {"idle", "asked"}
  BY DEF CommitPvt, pvtdataStoreLockFree, Base, ReconcilerOK
<1>4. Purges(cur.n) \subseteq Keys
  BY CommitPvtFacts DEF Purges
<1> QED
  BY <1>2, <1>3, <1>4 DEF CommitPvt

\* Markers and versions of a key are block numbers or 0.
LEMMA MarkersAreNumbers ==
  ASSUME Base, NEW k \in Keys
  PROVE  /\ marker[k] \in 0..MaxBlock /\ reconMarker[k] \in 0..MaxBlock
         /\ purger.markers[k] \in 0..MaxBlock /\ collMarker \in 0..MaxBlock
         /\ hash[k] \in 0..MaxBlock /\ pvt[k] \in 0..MaxBlock
<1>1. purger.markers \in [Keys -> 0..MaxBlock]
  BY DEF Base, PurgerOK
<1> QED
  BY <1>1 DEF Base, MarkerTypes, StateTypes

\* Every step keeps the markers of the reconciler at the last purge of each key.
LEMMA MarkersStep ==
  ASSUME Base, Base', Markers, [Next]_vars
  PROVE  Markers'
<1> USE PvtDataAssumption
<1>1. /\ \A n \in 1..Len(chain) : chain'[n] = chain[n]
      /\ Len(chain) \in Nat /\ pvtHt \in Nat /\ pvtHt =< Len(chain) + 1
      /\ \A k \in Keys : reconMarker[k] \in 0..MaxBlock /\ marker[k] \in 0..MaxBlock /\ purger.markers[k] \in 0..MaxBlock
      /\ collMarker \in 0..MaxBlock
  BY Grows, MarkersAreNumbers, SMTT(30) DEF Base, CommitterOK, ChainOK, MarkerTypes
<1>2. ASSUME UNCHANGED <<pvtHt, reconMarker, collMarker>>,
             \A k \in Keys : marker'[k] =< reconMarker[k] /\ purger'.markers[k] =< reconMarker[k],
             rpc' \in {"waited", "updated", "applied"} =>
               \A n \in DOMAIN rec'.found : \A k \in rec'.found[n] : n > reconMarker[k]
      PROVE  Markers'
  <2>1. \A n \in 1..lastCommittedBlock : Purges(n)' = Purges(n)
    BY <1>1 DEF lastCommittedBlock, Purges, Writes
  <2>2. \A k \in Keys : reconMarker[k] # 0 => k \in Purges(reconMarker[k])'
    <3> SUFFICES ASSUME NEW k \in Keys, reconMarker[k] # 0 PROVE k \in Purges(reconMarker[k])'
      OBVIOUS
    <3>1. k \in Purges(reconMarker[k]) /\ reconMarker[k] \in 1..lastCommittedBlock
      BY <1>1 DEF Markers, lastCommittedBlock
    <3> QED
      BY <1>2, <2>1, <3>1
  <2>3. \A n \in 1..lastCommittedBlock' : \A k \in Purges(n)' : n =< reconMarker'[k]
    BY <1>2, <2>1 DEF Markers, lastCommittedBlock
  <2> QED
    BY <1>2, <2>2, <2>3 DEF Markers
<1>3. CASE CommitPvt
  <2>1. \A n \in 1..lastCommittedBlock : n < cur.n /\ Purges(n)' = Purges(n)
    BY <1>1, <1>3, CommitPvtFacts DEF lastCommittedBlock, Purges, Writes
  <2>2. Purges(cur.n)' = Purges(cur.n)
    BY <1>3, CommitPvtFacts DEF Purges, Writes
  <2>3. \A k \in Keys : /\ reconMarker'[k] < pvtHt' /\ reconMarker'[k] =< collMarker'
                        /\ marker'[k] =< reconMarker'[k] /\ purger'.markers[k] =< reconMarker'[k]
    BY <1>1, <1>3, CommitPvtFacts, CommitPvtMarkers, SMTT(30) DEF Markers
  <2>4. \A k \in Keys : reconMarker'[k] # 0 => k \in Purges(reconMarker[k])'
    <3> SUFFICES ASSUME NEW k \in Keys, reconMarker'[k] # 0 PROVE k \in Purges(reconMarker[k])'
      OBVIOUS
    <3>1. CASE k \in Purges(cur.n)
      <4>1. reconMarker'[k] = cur.n
        BY <1>3, <3>1, CommitPvtMarkers
      <4> QED
        BY <1>3, <3>1, <4>1, CommitPvtFacts DEF Purges, Writes
    <3>2. CASE k \notin Purges(cur.n)
      <4>1. reconMarker'[k] = reconMarker[k]
        BY <1>3, <3>2, CommitPvtMarkers
      <4>2. k \in Purges(reconMarker[k])
        BY <4>1 DEF Markers
      <4> QED
        BY <1>3, <4>1, <4>2, CommitPvtFacts DEF Purges, Writes
    <3> QED
      BY <3>1, <3>2
  <2>5. \A n \in 1..lastCommittedBlock' : \A k \in Purges(n)' : n =< reconMarker'[k]
    <3> SUFFICES ASSUME NEW n \in 1..lastCommittedBlock',
                        NEW k \in Purges(n)'
                 PROVE  n =< reconMarker'[k]
      OBVIOUS
    <3>1. CASE n = cur.n
      BY <1>1, <1>3, <2>2, <3>1, CommitPvtFacts, CommitPvtMarkers
    <3>2. CASE n # cur.n
      <4>1. n \in 1..lastCommittedBlock
        BY <1>1, <1>3, <3>2, CommitPvtFacts DEF lastCommittedBlock
      <4>2. k \in Purges(n) /\ n =< reconMarker[k]
        BY <2>1, <4>1 DEF Markers
      <4>3. k \in Keys
        BY <1>1, <4>1, <4>2, WritesType DEF Purges, lastCommittedBlock, Base
      <4> QED
        BY <1>1, <1>3, <2>1, <4>1, <4>2, <4>3, CommitPvtFacts, CommitPvtMarkers
    <3> QED
      BY <3>1, <3>2
  <2>6. rpc' \in {"waited", "updated", "applied"} =>
               \A n \in DOMAIN rec'.found : \A k \in rec'.found[n] : n > reconMarker'[k]
    <3> SUFFICES ASSUME rpc' \in {"waited", "updated", "applied"}, NEW n \in DOMAIN rec'.found,
                        NEW k \in rec'.found[n]
                 PROVE  n > reconMarker'[k]
      OBVIOUS
    <3>1. Purges(cur.n) = {} /\ n \in DOMAIN rec.found /\ k \in rec.found[n] /\ rpc' = rpc
      BY <1>3, CommitPvtFacts, CommitPvtMarkers
    <3>2. k \in Keys
      BY <1>1, <3>1, WritesType DEF Base, ReconcilerOK, lastCommittedBlock
    <3> QED
      BY <1>3, <3>1, <3>2, CommitPvtMarkers DEF Markers
  <2> QED
    BY <2>3, <2>4, <2>5, <2>6 DEF Markers
<1>4. CASE DeleteMarked
  <2>1. /\ UNCHANGED <<pvtHt, reconMarker, collMarker, rpc, rec>>
        /\ \A k \in Keys : purger'.markers[k] = 0 /\ marker'[k] \in {0, marker[k]}
    BY <1>4 DEF DeleteMarked, NoScan, Base, PurgerOK
  <2> QED
    BY <1>1, <1>2, <2>1 DEF Markers
<1>5. CASE ScanMarkers
  <2>1. /\ UNCHANGED <<pvtHt, marker, reconMarker, collMarker, rpc, rec>>
        /\ purger'.markers = marker
    BY <1>5 DEF ScanMarkers, Base, PurgerOK
  <2> QED
    BY <1>2, <2>1 DEF Markers
<1>6. CASE Stop \/ \E b \in Blocks : StartPurge(b)
  <2>1. /\ UNCHANGED <<pvtHt, marker, reconMarker, collMarker>>
        /\ \A k \in Keys : purger'.markers[k] \in {0, purger.markers[k]}
        /\ rpc' = "idle" \/ UNCHANGED <<rpc, rec>>
    BY <1>6 DEF Stop, StartPurge, NoScan, Base, PurgerOK
  <2> QED
    BY <1>1, <1>2, <2>1, SMTT(30) DEF Markers
<1>7. ASSUME NEW got \in Answers, FetchAndVerify(got)
      PROVE  Markers'
  <2>1. /\ UNCHANGED <<pvtHt, marker, reconMarker, collMarker, purger>>
        /\ \A n \in DOMAIN rec'.found : \A k \in rec'.found[n] : n > reconMarker[k]
    BY <1>7 DEF FetchAndVerify, ExtractValid, Base, ReconcilerOK
  <2> QED
    BY <1>2, <2>1 DEF Markers
<1>8. CASE GetMissing(prio) \/ GetMissing(deprio)
  BY <1>2, <1>8, GetMissingFacts DEF Markers
<1>9. CASE ReconcileFails \/ StoreOld \/ UpdateExpiryInfoOfOld \/ ApplyOld
  <2>1. /\ UNCHANGED <<pvtHt, marker, reconMarker, collMarker, purger>>
        /\ rpc' = "idle" \/ (rpc \in {"waited", "updated"} /\ UNCHANGED rec)
    BY <1>9 DEF ReconcileFails, StoreOld, UpdateExpiryInfoOfOld, ApplyOld
  <2> QED
    BY <1>2, <2>1 DEF Markers
<1>10. CASE UNCHANGED <<pvtHt, marker, reconMarker, collMarker, purger, rpc, rec>>
  BY <1>2, <1>10 DEF Markers
<1> QED
  BY <1>3, <1>4, <1>5, <1>6, <1>7, <1>8, <1>9, <1>10 DEF Next, Committer, Preparation, Reconciler,
     Purger, ElgProcessor, ValidateAndPrepare, FetchRawKeys, AddBlock, UpdateExpiryInfo,
     ApplyUpdates, BlockCommitDone, CommitLostBlock, RetrieveSchedule, PrepareWorkingset,
     PurgeExpiredEntry, WaitForNotification, StartElg, ConvertBatch, Relock, FinishElg, Crash,
     Rollback, Open

\* Every step but a replaced marker keeps what is served above the last purge.
LEMMA ServingStep ==
  ASSUME Base, Base', Markers, Serving, [Next]_vars
  PROVE  Serving'
<1> USE PvtDataAssumption
<1>1. /\ \A k \in Keys : reconMarker[k] \in Nat /\ marker[k] \in Nat /\ purger.markers[k] \in Nat
      /\ DOMAIN data \subseteq Nat
  <2>1. \A k \in Keys : reconMarker[k] \in Nat /\ marker[k] \in Nat /\ purger.markers[k] \in Nat
    BY MarkersAreNumbers
  <2>2. DOMAIN data \subseteq Nat
    BY SMTT(30) DEF Base, StoreOK, lastCommittedBlock, CommitterOK
  <2> QED
    BY <2>1, <2>2
<1>2. ASSUME UNCHANGED <<marker, reconMarker>>, raced \subseteq raced',
             \A n \in DOMAIN data' : n \in DOMAIN data /\ data'[n] \subseteq data[n],
             upc' = "scanned" => upc = "scanned" /\ purger'.markers = purger.markers
      PROVE  Serving'
  BY <1>2 DEF Serving
<1>3. CASE CommitPvt
  <2> SUFFICES ASSUME "marker" \notin raced', NEW k \in Keys
               PROVE  /\ \/ marker'[k] = reconMarker'[k]
                         \/ /\ marker'[k] = 0
                            /\ \A n \in DOMAIN data' : k \in data'[n] => n > reconMarker'[k]
                      /\ upc' = "scanned" => purger'.markers[k] \in {0, marker'[k]}
    BY DEF Serving
  <2>1. "marker" \notin raced /\ (k \in Purges(cur.n) => upc # "scanned" \/ purger.markers[k] = 0)
    BY <1>3 DEF CommitPvt
  <2>2. CASE k \in Purges(cur.n)
    BY <1>3, <2>1, <2>2, CommitPvtFacts, CommitPvtMarkers
  <2>3. CASE k \notin Purges(cur.n)
    <3>1. marker'[k] = marker[k] /\ reconMarker'[k] = reconMarker[k]
      BY <1>3, <2>3, CommitPvtMarkers
    <3>2. cur.n > reconMarker[k]
      BY <1>1, <1>3, CommitPvtFacts DEF Markers
    <3>3. \A n \in DOMAIN data' : (n \in DOMAIN data /\ data'[n] = data[n]) \/ n = cur.n
      BY <1>3, CommitPvtFacts
    <3>4. upc' = upc /\ purger'.markers = purger.markers
      BY <1>3, CommitPvtFacts, CommitPvtMarkers
    <3> QED
      BY <2>1, <3>1, <3>2, <3>3, <3>4 DEF Serving
  <2> QED
    BY <2>2, <2>3
<1>4. CASE StoreOld
  <2>1. \A n \in DOMAIN data' : \/ n \in DOMAIN data /\ data'[n] = data[n]
                                \/ n \in DOMAIN rec.found /\ data'[n] = rec.found[n]
    BY <1>4, StoreOldFacts
  <2>2. \A n \in DOMAIN rec.found : \A k \in rec.found[n] : n > reconMarker[k]
    BY <1>4 DEF StoreOld, Markers
  <2>3. UNCHANGED <<marker, reconMarker, upc, purger>> /\ raced \subseteq raced'
    BY <1>4 DEF StoreOld
  <2> QED
    BY <2>1, <2>2, <2>3 DEF Serving
<1>5. CASE DeleteMarked
  <2>1. /\ UNCHANGED <<reconMarker, raced>> /\ upc' = "idle" /\ upc = "scanned"
        /\ \A k \in Keys : marker'[k] = IF purger.markers[k] # 0 THEN 0 ELSE marker[k]
        /\ DOMAIN data' = DOMAIN data
        /\ \A n \in DOMAIN data : data'[n] = {k \in data[n] : n > purger.markers[k]}
    BY <1>5 DEF DeleteMarked
  <2> QED
    BY <1>1, <2>1 DEF Serving, Markers
<1>6. CASE ScanMarkers
  <2>1. UNCHANGED <<marker, reconMarker, raced, data>> /\ purger'.markers = marker
    BY <1>6 DEF ScanMarkers, Base, PurgerOK
  <2> QED
    BY <2>1 DEF Serving
<1>7. CASE PurgeExpiredEntry
  <2>1. UNCHANGED <<marker, reconMarker, raced, upc, purger>>
    BY <1>7 DEF PurgeExpiredEntry
  <2>2. \A n \in DOMAIN data' : n \in DOMAIN data /\ data'[n] = data[n]
    BY <1>7, PurgeExpiredFacts
  <2> QED
    BY <1>2, <2>1, <2>2
<1>8. CASE Stop \/ \E b \in Blocks : StartPurge(b)
  <2>1. UNCHANGED <<marker, reconMarker, data, raced>> /\ upc' # "scanned"
    BY <1>8 DEF Stop, StartPurge
  <2> QED
    BY <1>2, <2>1
<1>9. CASE UpdateExpiryInfoOfOld
  BY <1>2, <1>9 DEF UpdateExpiryInfoOfOld
<1>10. CASE UNCHANGED <<marker, reconMarker, data, raced, upc, purger>>
  BY <1>2, <1>10
<1> QED
  BY <1>3, <1>4, <1>5, <1>6, <1>7, <1>8, <1>9, <1>10 DEF Next, Committer, Preparation, Reconciler,
     Purger, ElgProcessor, ValidateAndPrepare, FetchRawKeys, AddBlock, UpdateExpiryInfo,
     ApplyUpdates, BlockCommitDone, CommitLostBlock, RetrieveSchedule, PrepareWorkingset,
     GetMissing, ReconcileFails, FetchAndVerify, ApplyOld,
     WaitForNotification, StartElg, ConvertBatch, Relock, FinishElg, Crash, Rollback, Open

\* The markers in every reachable state.
LEMMA MarkersInvariance == Spec => [](Markers /\ Serving)
<1>1. Base /\ Base' /\ (Markers /\ Serving) /\ [Next]_vars => (Markers /\ Serving)'
  BY MarkersStep, ServingStep
<1> QED
  BY <1>1, InitMarkers, BaseInvariance, PTL DEF Spec

\* The store never returns a key that a later transaction purged, unless a new marker replaced
\* one that the purger was about to remove.
THEOREM PurgedHidden == Spec => []PurgedNotServed
<1>1. Base /\ Markers /\ Serving => PurgedNotServed
  <2> SUFFICES ASSUME Base, Markers, Serving, "marker" \notin raced,
                      NEW n \in 1..lastCommittedBlock, NEW k \in GetPvtDataByBlockNum(n)
               PROVE  n > reconMarker[k]
    BY DEF PurgedNotServed
  <2>1. n \in DOMAIN data /\ k \in data[n] /\ (n > collMarker \/ n > marker[k]) /\ k \in Keys
    BY GetPvtType DEF GetPvtDataByBlockNum, RemovePurged, Base
  <2>2. n \in Nat /\ reconMarker[k] \in Nat /\ marker[k] \in Nat /\ collMarker \in Nat
    BY <2>1, PvtDataAssumption DEF Base, MarkerTypes, lastCommittedBlock, CommitterOK
  <2> QED
    BY <2>1, <2>2 DEF Markers, Serving
<1> QED
  BY <1>1, BaseInvariance, MarkersInvariance, PTL

-----------------------------------------------------------------------------
(* Versions in the state DB.  A key hash is that of the last put, unless    *)
(* something happened to the key since; the private value is not newer.     *)

Versions ==
  \A k \in Keys :
    /\ pvt[k] < stHt /\ hash[k] < stHt
    /\ hash[k] # 0 => /\ pvt[k] =< hash[k]
                      /\ IsPut(hash[k]) /\ k \in Writes(hash[k])
                      /\ \A m \in (hash[k] + 1)..(stHt - 1) : k \notin Writes(m)

\* There is no version initially.
LEMMA InitVersions == Init => Versions
BY DEF Init, Versions

\* What ApplyUpdates and ApplyOld do to a key.
LEMMA ApplyUpdatesFacts ==
  ASSUME Base, ApplyUpdates
  PROVE  /\ cur.n = stHt /\ stHt' = stHt + 1 /\ stHt \in Nat /\ stHt \in 1..Len(chain)
         /\ cpc = "expiry" /\ prep.pc = "none" /\ usedOnce /\ cur'= cur
         /\ UNCHANGED <<chain, storeVars, rpc, rec, workingset, prep, usedOnce, schedule, crashes, raced, purger, upc>>
         /\ cpc' = "applied" /\ rpc # "updated"
         /\ cur.have \cup cur.raw \subseteq Writes(stHt)
         /\ \A k \in Keys :
              /\ hash'[k] = IF k \in Writes(stHt) THEN IF IsPut(stHt) THEN stHt ELSE 0
                            ELSE IF workingset.keys[k] \in {"hash", "raw"} THEN 0 ELSE hash[k]
              /\ pvt'[k] = IF k \in cur.have \cup cur.raw THEN IF IsPut(stHt) THEN stHt ELSE 0
                           ELSE IF workingset.keys[k] \in {"raw", "keyOnly"} THEN 0 ELSE pvt[k]
<1>1. cur.n = stHt /\ stHt \in Nat /\ stHt \in 1..Len(chain)
  BY DEF ApplyUpdates, Base, CommitterOK, ChainOK
<1>2. /\ cpc = "expiry" /\ prep.pc = "none" /\ usedOnce /\ cur'= cur /\ stHt' = stHt + 1 /\ cpc' = "applied"
      /\ UNCHANGED <<chain, storeVars, rpc, rec, workingset, prep, usedOnce, schedule, crashes, raced, purger, upc>>
      /\ rpc # "updated"
  BY <1>1 DEF ApplyUpdates, Base, PrepOK, PrepareFinished, ReconcilerOK
<1>3. cur.have \cup cur.raw \subseteq Writes(stHt)
  BY <1>1 DEF Base, CurOK, Purges
<1>4. \A k \in Keys :
              /\ hash'[k] = IF k \in Writes(stHt) THEN IF IsPut(stHt) THEN stHt ELSE 0
                            ELSE IF workingset.keys[k] \in {"hash", "raw"} THEN 0 ELSE hash[k]
              /\ pvt'[k] = IF k \in cur.have \cup cur.raw THEN IF IsPut(stHt) THEN stHt ELSE 0
                           ELSE IF workingset.keys[k] \in {"raw", "keyOnly"} THEN 0 ELSE pvt[k]
  BY <1>1 DEF ApplyUpdates
<1> QED
  BY <1>1, <1>2, <1>3, <1>4

\* A reconciled value goes to the state only as the current version of its key.
LEMMA ApplyOldFacts ==
  ASSUME Base, ApplyOld
  PROVE  /\ rpc = "updated" /\ rpc' = "applied"
         /\ UNCHANGED <<chain, storeVars, blkHt, stHt, hash, schedule, member, committer, rec,
                        purgerVars, elgVars, purgeVars, ghosts>>
         /\ \A k \in Keys :
              \/ k \notin DOMAIN NotStale /\ pvt'[k] = pvt[k]
              \/ /\ k \in DOMAIN NotStale /\ IsPut(NotStale[k])
                 /\ hash[k] = NotStale[k] /\ pvt'[k] = hash[k]
              \/ k \in DOMAIN NotStale /\ ~IsPut(NotStale[k]) /\ pvt'[k] = 0
<1>1. \A k \in Keys : pvt'[k] = IF k \notin DOMAIN NotStale THEN pvt[k]
                                ELSE IF IsPut(NotStale[k]) THEN NotStale[k] ELSE 0
  BY DEF ApplyOld
<1>2. \A k \in DOMAIN NotStale : IsPut(NotStale[k]) => hash[k] = NotStale[k]
  BY NotStaleFacts
<1>3. /\ rpc = "updated" /\ rpc' = "applied"
      /\ UNCHANGED <<chain, storeVars, blkHt, stHt, hash, schedule, member, committer, rec,
                     purgerVars, elgVars, purgeVars, ghosts>>
  BY DEF ApplyOld
<1> QED
  BY <1>1, <1>2, <1>3

\* Every step keeps the hash of a key at its last write, and its value not above it.
LEMMA VersionsStep ==
  ASSUME Base, Base', Versions, [Next]_vars
  PROVE  Versions'
<1> USE PvtDataAssumption
<1>1. /\ \A n \in 1..Len(chain) : chain'[n] = chain[n]
      /\ Len(chain) \in Nat /\ stHt \in Nat /\ stHt =< Len(chain) + 1
      /\ \A k \in Keys : hash[k] \in Nat /\ pvt[k] \in Nat
  BY Grows, MarkersAreNumbers, SMTT(30) DEF Base, CommitterOK, ChainOK
<1>2. CASE ApplyUpdates
  <2> SUFFICES ASSUME NEW k \in Keys
               PROVE  /\ pvt'[k] < stHt' /\ hash'[k] < stHt'
                      /\ hash'[k] # 0 => /\ pvt'[k] =< hash'[k]
                                         /\ IsPut(hash[k])' /\ k \in Writes(hash[k])'
                                         /\ \A m \in (hash'[k] + 1)..(stHt' - 1) : k \notin Writes(m)'
    BY DEF Versions
  <2>1. \A m : Writes(m)' = Writes(m) /\ (IsPut(m)' <=> IsPut(m))
    BY <1>2, ApplyUpdatesFacts DEF Writes, IsPut
  <2>2. pvt'[k] < stHt' /\ hash'[k] < stHt' /\ (hash'[k] # 0 => pvt'[k] =< hash'[k])
    BY <1>1, <1>2, ApplyUpdatesFacts DEF Versions
  <2>3. ASSUME hash'[k] # 0
        PROVE  /\ IsPut(hash[k])' /\ k \in Writes(hash[k])'
               /\ \A m \in (hash'[k] + 1)..(stHt' - 1) : k \notin Writes(m)'
    <3>1. CASE k \in Writes(stHt)
      <4>1. hash'[k] = stHt /\ IsPut(stHt)
        BY <1>2, <2>3, <3>1, ApplyUpdatesFacts
      <4>2. IsPut(hash[k])' /\ k \in Writes(hash[k])'
        BY <1>2, <3>1, <4>1, ApplyUpdatesFacts DEF IsPut, Writes
      <4> QED
        BY <1>1, <1>2, <4>1, <4>2, ApplyUpdatesFacts
    <3>2. CASE k \notin Writes(stHt)
      <4>1. hash'[k] = hash[k]
        BY <1>2, <2>3, <3>2, ApplyUpdatesFacts
      <4>2. IsPut(hash[k])' /\ k \in Writes(hash[k])'
        BY <1>2, <2>3, <4>1, ApplyUpdatesFacts DEF Versions, IsPut, Writes
      <4>3. \A m \in (hash[k] + 1)..(stHt - 1) : k \notin Writes(m)
        BY <2>3, <4>1 DEF Versions
      <4> QED
        BY <1>1, <1>2, <2>1, <3>2, <4>1, <4>2, <4>3, ApplyUpdatesFacts
    <3> QED
      BY <3>1, <3>2
  <2> QED
    BY <2>2, <2>3
<1>3. CASE ApplyOld
  <2>1. UNCHANGED <<chain, hash, stHt>>
    BY <1>3, ApplyOldFacts
  <2>2. \A k \in Keys : pvt'[k] \in {0, pvt[k], hash[k]}
    BY <1>3, ApplyOldFacts
  <2> QED
    BY <1>1, <2>1, <2>2 DEF Versions, Writes, IsPut
<1>4. CASE \E h \in Blocks : Rollback(h)
  BY <1>4 DEF Rollback, Versions
<1>5. CASE UNCHANGED <<hash, pvt, stHt>>
  <2>1. \A m \in 1..(stHt - 1) : Writes(m)' = Writes(m) /\ (IsPut(m)' <=> IsPut(m))
    BY <1>1 DEF Writes, IsPut
  <2>2. \A k \in Keys : hash[k] # 0 => IsPut(hash[k])' /\ k \in Writes(hash[k])'
    BY <1>1, <1>5 DEF Versions, Writes, IsPut
  <2> QED
    BY <1>1, <1>5, <2>1, <2>2 DEF Versions
<1> QED
  BY <1>2, <1>3, <1>4, <1>5 DEF Next, Committer, Preparation, Reconciler, Purger, ElgProcessor,
     ValidateAndPrepare, FetchRawKeys, CommitPvt, AddBlock, UpdateExpiryInfo, BlockCommitDone,
     CommitLostBlock, RetrieveSchedule, PrepareWorkingset, GetMissing, ReconcileFails,
     FetchAndVerify, UpdateExpiryInfoOfOld, StoreOld, StartPurge, PurgeExpiredEntry, ScanMarkers,
     DeleteMarked, WaitForNotification, StartElg, ConvertBatch, Relock, FinishElg, Crash, Open

\* The versions in every reachable state.
LEMMA VersionsInvariance == Spec => []Versions
<1>1. Base /\ Base' /\ Versions /\ [Next]_vars => Versions'
  BY VersionsStep
<1> QED
  BY <1>1, InitVersions, BaseInvariance, PTL DEF Spec

\* A private value in the state DB is never replaced by an older one.
THEOREM NeverOlder == Spec => PvtNeverOlder
<1>1. ASSUME Base, Versions, [Next]_vars
      PROVE  [\A k \in Keys : pvt'[k] = 0 \/ pvt'[k] >= pvt[k]]_vars
  <2>1. stHt \in Nat /\ \A k \in Keys : hash[k] \in Nat /\ pvt[k] \in Nat
    BY <1>1, MarkersAreNumbers, PvtDataAssumption DEF Base, CommitterOK
  <2>2. CASE ApplyUpdates
    BY <1>1, <2>1, <2>2, ApplyUpdatesFacts DEF Versions
  <2>3. CASE ApplyOld
    BY <1>1, <2>1, <2>3, ApplyOldFacts DEF Versions
  <2>4. CASE \E h \in Blocks : Rollback(h)
    BY <2>4 DEF Rollback
  <2>5. CASE UNCHANGED pvt
    BY <2>1, <2>5
  <2> QED
    BY <1>1, <2>2, <2>3, <2>4, <2>5 DEF Next, Committer, Preparation, Reconciler, Purger,
       ElgProcessor,
     ValidateAndPrepare, FetchRawKeys, CommitPvt, AddBlock, UpdateExpiryInfo, BlockCommitDone,
     CommitLostBlock, RetrieveSchedule, PrepareWorkingset, GetMissing, ReconcileFails,
     FetchAndVerify, UpdateExpiryInfoOfOld, StoreOld, StartPurge, PurgeExpiredEntry, ScanMarkers,
     DeleteMarked, WaitForNotification, StartElg, ConvertBatch, Relock, FinishElg, Crash, Open
<1> QED
  BY <1>1, BaseInvariance, VersionsInvariance, PTL DEF Spec, PvtNeverOlder

-----------------------------------------------------------------------------
(* Expiry.  Every version in the state is scheduled; when the preparation   *)
(* has finished the working set has the keys of the block that expires next. *)
(* A key that a batch of the reconciler will replace may be missing from it  *)
(* until the batch is applied.                                              *)

Expiring == (IF cpc = "applied" THEN stHt - 1 ELSE stHt) - BTL - 1

NoneExpired == \A k \in Keys, m \in Blocks : isExpired(m, stHt - 1) => hash[k] # m /\ pvt[k] # m

Scheduled ==
  /\ \A k \in Keys, m \in Blocks : /\ hash[k] = m => schedule[m][k] \in {"hash", "raw"}
                                   /\ pvt[k] = m => schedule[m][k] = "raw"
  /\ cpc = "expiry" /\ IsPut(cur.n) =>
       \A k \in Keys : /\ k \in cur.have => schedule[cur.n][k] = "raw"
                       /\ k \in Writes(cur.n) => schedule[cur.n][k] \in {"hash", "raw"}
  /\ rpc = "updated" => \A k \in DOMAIN NotStale :
                          IsPut(NotStale[k]) => schedule[NotStale[k]][k] = "raw"

InBatch(k) == rpc = "updated" /\ k \in DOMAIN NotStale

Prepared(k) ==
  /\ Expiring \in Blocks /\ hash[k] = Expiring => workingset.keys[k] \in {"hash", "raw"}
  /\ Expiring \in Blocks /\ pvt[k] = Expiring =>
       workingset.keys[k] \in {"raw", "keyOnly"} \/ InBatch(k)
  /\ Expiring \in Blocks /\ InBatch(k) /\ hash[k] = Expiring => workingset.keys[k] = "raw"
  /\ workingset.keys[k] = "keyOnly" => /\ Expiring \in Blocks /\ ~InBatch(k)
                                       /\ pvt[k] = Expiring /\ hash[k] # Expiring

Preparing ==
  /\ rpc = "updated" => prep.pc = "none"
  /\ prep.pc = "retrieved" => prep.keys = schedule[prep.n - BTL - 1]
  /\ workingset.clear \subseteq {Expiring}
  /\ usedOnce /\ prep.pc = "none" /\ cpc # "applied" => \A k \in Keys : Prepared(k)

NeverKeyOnly == \A m \in Blocks, k \in Keys : schedule[m][k] # "keyOnly"

ExpiryInv ==
  ~neverExpires => /\ NeverKeyOnly
                   /\ "prep" \notin raced => NoneExpired /\ Scheduled /\ Preparing

\* Nothing is scheduled initially.
LEMMA InitExpiry == Init => ExpiryInv
<1> SUFFICES ASSUME Init PROVE ExpiryInv
  OBVIOUS
<1>1. NeverKeyOnly /\ NoneExpired
  BY DEF Init, NeverKeyOnly, NoneExpired, Blocks
<1>2. Scheduled
  BY DEF Init, Scheduled, Blocks
<1>3. Preparing
  BY DEF Init, Preparing, NoSet, NoPrep
<1> QED
  BY <1>1, <1>2, <1>3 DEF ExpiryInv

\* The choice from a batch depends on the batch and the hashes only.
LEMMA NotStaleSame == ASSUME UNCHANGED <<rec, hash, chain>> PROVE NotStale' = NotStale
BY DEF NotStale, IsPut

\* Steps that do not touch the state, the schedule or the working set.
LEMMA ExpirySame ==
  ASSUME Base, Base', ExpiryInv, [Next]_vars,
         UNCHANGED <<hash, pvt, stHt, schedule, workingset, prep, usedOnce>>,
         raced \subseteq raced', cpc' = "applied" <=> cpc = "applied",
         cpc' = "expiry" => cpc = "expiry" /\ UNCHANGED <<cur, chain>>,
         rpc' = "updated" <=> rpc = "updated",
         rpc = "updated" => UNCHANGED <<rec, chain>>
  PROVE  ExpiryInv'
<1> SUFFICES ASSUME ~neverExpires PROVE NeverKeyOnly' /\ ("prep" \notin raced' => (NoneExpired /\ Scheduled /\ Preparing)')
  BY DEF ExpiryInv, neverExpires
<1>1. NeverKeyOnly'
  BY DEF ExpiryInv, NeverKeyOnly
<1> SUFFICES ASSUME "prep" \notin raced' PROVE (NoneExpired /\ Scheduled /\ Preparing)'
  BY <1>1
<1>2. NoneExpired /\ Scheduled /\ Preparing
  BY DEF ExpiryInv
<1>3. NoneExpired'
  BY <1>2 DEF NoneExpired, isExpired, neverExpires, ExpiringBlock
<1>4. Expiring' = Expiring
  BY DEF Expiring
<1>5. rpc = "updated" => NotStale' = NotStale
  BY NotStaleSame
<1>6. Scheduled'
  <2>1. cpc' = "expiry" /\ IsPut(cur.n)' =>
           \A k \in Keys : /\ k \in cur'.have => schedule'[cur'.n][k] = "raw"
                           /\ k \in Writes(cur.n)' => schedule'[cur'.n][k] \in {"hash", "raw"}
    BY <1>2 DEF Scheduled, IsPut, Writes
  <2>2. rpc' = "updated" => \A k \in DOMAIN NotStale' :
                          IsPut(NotStale[k])' => schedule'[NotStale'[k]][k] = "raw"
    BY <1>2, <1>5 DEF Scheduled, IsPut
  <2> QED
    BY <1>2, <2>1, <2>2 DEF Scheduled
<1>7. \A k : InBatch(k)' <=> InBatch(k)
  BY <1>5 DEF InBatch
<1>8. Preparing'
  BY <1>2, <1>4, <1>7 DEF Preparing, Prepared
<1> QED
  BY <1>3, <1>6, <1>8

\* The batch of a block removes what expires with it.
LEMMA ExpiryApplyUpdates ==
  ASSUME Base, Base', Versions, ~neverExpires, "prep" \notin raced, NoneExpired, Scheduled,
         Preparing, ApplyUpdates
  PROVE  (NoneExpired /\ Scheduled /\ Preparing)'
<1> USE PvtDataAssumption
<1>1. stHt \in Nat /\ stHt > 0 /\ BTL \in Nat \ {0} /\ \A k \in Keys : hash[k] \in Nat /\ pvt[k] \in Nat /\ hash[k] < stHt /\ pvt[k] < stHt
  BY MarkersAreNumbers, SMTT(30) DEF Base, CommitterOK, neverExpires, Versions
<1>2. Expiring' = Expiring /\ Expiring = stHt - BTL - 1
  BY <1>1, ApplyUpdatesFacts DEF Expiring
<1>3. \A k \in Keys : Prepared(k) /\ ~InBatch(k)
  BY ApplyUpdatesFacts DEF Preparing, InBatch
<1>4. NoneExpired'
  <2> SUFFICES ASSUME NEW k \in Keys, NEW m \in Blocks, isExpired(m, stHt - 1)'
               PROVE  hash'[k] # m /\ pvt'[k] # m
    BY DEF NoneExpired
  <2>1. m =< Expiring /\ m \in Nat \ {0} /\ m < stHt
    BY <1>1, <1>2, ApplyUpdatesFacts DEF isExpired, ExpiringBlock, Blocks
  <2>2. CASE m = Expiring
    BY <1>1, <1>3, <2>1, <2>2, ApplyUpdatesFacts DEF Prepared
  <2>3. CASE m # Expiring
    <3>1. isExpired(m, stHt - 1)
      BY <1>1, <1>2, <2>1, <2>3 DEF isExpired, ExpiringBlock
    <3> QED
      BY <1>1, <2>1, <3>1, ApplyUpdatesFacts DEF NoneExpired
  <2> QED
    BY <2>2, <2>3
<1>5. Scheduled'
  <2>1. ASSUME NEW k \in Keys, NEW m \in Blocks
        PROVE  /\ hash'[k] = m => schedule[m][k] \in {"hash", "raw"}
               /\ pvt'[k] = m => schedule[m][k] = "raw"
    <3>1. m > 0
      BY DEF Blocks
    <3>2. hash'[k] = m => hash[k] = m \/ (m = stHt /\ IsPut(stHt) /\ k \in Writes(stHt))
      BY <3>1, ApplyUpdatesFacts
    <3>3. pvt'[k] = m => pvt[k] = m \/ (m = stHt /\ IsPut(stHt) /\ k \in cur.have)
      <4>1. IsPut(stHt) => cur.raw = {}
        BY ApplyUpdatesFacts DEF Base, CurOK, Purges, IsPut
      <4> QED
        BY <3>1, <4>1, ApplyUpdatesFacts
    <3> QED
      BY <3>2, <3>3, ApplyUpdatesFacts DEF Scheduled
  <2> QED
    BY <2>1, ApplyUpdatesFacts DEF Scheduled
<1>6. Preparing'
  BY <1>2, ApplyUpdatesFacts DEF Preparing
<1> QED
  BY <1>4, <1>5, <1>6

\* The schedule is cleared of blocks that have no version left in the state.
LEMMA ExpiryBlockCommitDone ==
  ASSUME Base, Base', ~neverExpires, "prep" \notin raced, NoneExpired, Scheduled, Preparing,
         BlockCommitDone
  PROVE  (NoneExpired /\ Scheduled /\ Preparing)'
<1> USE PvtDataAssumption
<1>1. stHt \in Nat /\ BTL \in Nat /\ cpc = "applied" /\ UNCHANGED <<hash, pvt, stHt, rpc>> /\ rpc # "updated"
      /\ prep'.pc = "started" /\ workingset'.clear = {} /\ cpc' \in {"idle", "recover"}
  BY DEF Base, CommitterOK, BlockCommitDone, ReconcilerOK, NoPrep, NoSet
<1>2. NoneExpired'
  BY <1>1 DEF NoneExpired, isExpired, neverExpires, ExpiringBlock
<1>3. Expiring \in Blocks => isExpired(Expiring, stHt - 1)
  BY <1>1 DEF Expiring, isExpired, ExpiringBlock
<1>4. \A m \in Blocks : m # Expiring => schedule'[m] = schedule[m]
  BY DEF BlockCommitDone, Preparing
<1>5. Scheduled'
  BY <1>1, <1>3, <1>4 DEF Scheduled, NoneExpired
<1>6. Preparing'
  BY <1>1 DEF Preparing
<1> QED
  BY <1>2, <1>5, <1>6

\* The writes of a block are scheduled before they are applied.
LEMMA ExpiryUpdateExpiryInfo ==
  ASSUME Base, Base', Versions, ~neverExpires, "prep" \notin raced, NoneExpired, Scheduled,
         Preparing, UpdateExpiryInfo
  PROVE  (NoneExpired /\ Scheduled /\ Preparing)'
<1> USE PvtDataAssumption
<1>1. /\ stHt \in Nat /\ BTL \in Nat /\ cpc = "block" /\ cpc' = "expiry" /\ cur.n = stHt
      /\ UNCHANGED <<hash, pvt, stHt, rpc, cur, chain, workingset>> /\ rpc # "updated"
      /\ stHt \in Blocks /\ \A k \in Keys : hash[k] < stHt /\ pvt[k] < stHt
  BY DEF Base, CommitterOK, ChainOK, UpdateExpiryInfo, oldBlockCommitFree, Versions, Blocks
<1>2. NoneExpired'
  BY <1>1 DEF NoneExpired, isExpired, neverExpires, ExpiringBlock
<1>3. schedule' = IF ~IsPut(cur.n) THEN schedule
                  ELSE [schedule EXCEPT ![cur.n] =
                         [k \in Keys |-> IF k \in cur.have THEN "raw"
                                         ELSE IF k \in Writes(cur.n) THEN "hash" ELSE "no"]]
  BY DEF UpdateExpiryInfo
<1>4. \A m \in Blocks : m # stHt => schedule'[m] = schedule[m]
  BY <1>1, <1>3 DEF Base, StateTypes
<1>5. IsPut(stHt) => schedule'[stHt] = [k \in Keys |-> IF k \in cur.have THEN "raw"
                                         ELSE IF k \in Writes(stHt) THEN "hash" ELSE "no"]
  BY <1>1, <1>3 DEF Base, StateTypes
<1>6. Scheduled'
  <2>1. \A k \in Keys, m \in Blocks : /\ hash'[k] = m => schedule'[m][k] \in {"hash", "raw"}
                                      /\ pvt'[k] = m => schedule'[m][k] = "raw"
    <3> SUFFICES ASSUME NEW k \in Keys, NEW m \in Blocks
                 PROVE  /\ hash[k] = m => schedule'[m][k] \in {"hash", "raw"}
                        /\ pvt[k] = m => schedule'[m][k] = "raw"
      BY <1>1
    <3>1. /\ hash[k] = m => schedule[m][k] \in {"hash", "raw"}
          /\ pvt[k] = m => schedule[m][k] = "raw"
      BY DEF Scheduled
    <3>2. hash[k] = m \/ pvt[k] = m => m # stHt
      BY <1>1
    <3> QED
      BY <1>4, <3>1, <3>2
  <2>2. (IsPut(cur.n) =>
           \A k \in Keys : /\ k \in cur.have => schedule[cur.n][k] = "raw"
                           /\ k \in Writes(cur.n) => schedule[cur.n][k] \in {"hash", "raw"})'
    BY <1>1, <1>5 DEF IsPut, Writes
  <2>3. rpc' # "updated"
    BY <1>1
  <2> QED
    BY <2>1, <2>2, <2>3 DEF Scheduled
<1>7. Preparing'
  <2>1. Expiring' = Expiring /\ Expiring < stHt
    BY <1>1 DEF Expiring
  <2>2. CASE usedOnce
    <3>1. prep' = prep /\ usedOnce'
      BY <2>2 DEF UpdateExpiryInfo
    <3>2. prep.pc = "retrieved" => prep'.keys = schedule'[prep'.n - BTL - 1]
      <4>1. prep.pc = "retrieved" => prep.n = stHt /\ prep.n - BTL - 1 \in Blocks /\ prep.n - BTL - 1 # stHt
        BY <1>1 DEF Base, PrepOK
      <4> QED
        BY <1>4, <3>1, <4>1 DEF Preparing
    <3>3. \A k : ~InBatch(k)' /\ ~InBatch(k)
      BY <1>1 DEF InBatch
    <3>4. prep.pc = "none" => \A k \in Keys : Prepared(k)
      BY <1>1, <2>2 DEF Preparing
    <3>5. prep.pc = "none" => \A k \in Keys : Prepared(k)'
      BY <1>1, <2>1, <3>3, <3>4 DEF Prepared
    <3> QED
      BY <1>1, <2>1, <3>1, <3>2, <3>5 DEF Preparing
  <2>3. CASE ~usedOnce
    <3>1. prep'.pc = "started" /\ workingset.clear = {}
      BY <2>3 DEF UpdateExpiryInfo, NoPrep, Base, PrepOK, NoSet
    <3> QED
      BY <1>1, <3>1 DEF Preparing
  <2> QED
    BY <2>2, <2>3
<1> QED
  BY <1>2, <1>6, <1>7

\* The preparation: what is retrieved is the schedule, and the state has not moved.
LEMMA ExpiryPreparation ==
  ASSUME Base, Base', ~neverExpires, NeverKeyOnly, "prep" \notin raced, NoneExpired, Scheduled,
         Preparing, Preparation
  PROVE  (NoneExpired /\ Scheduled /\ Preparing)'
<1> USE PvtDataAssumption
<1>1. /\ prep.pc # "none" /\ prep.n = stHt /\ cpc # "applied" /\ rpc # "updated"
      /\ UNCHANGED <<chain, hash, pvt, stHt, schedule, rpc, rec, cpc, cur>>
      /\ stHt \in Nat /\ BTL \in Nat
  BY DEF Preparation, RetrieveSchedule, PrepareWorkingset, Base, PrepOK, Preparing, CommitterOK
<1>2. NoneExpired'
  BY <1>1 DEF NoneExpired, isExpired, neverExpires, ExpiringBlock
<1>3. Scheduled'
  BY <1>1 DEF Scheduled, IsPut, Writes
<1>4. Expiring' = Expiring /\ Expiring = prep.n - BTL - 1
  BY <1>1 DEF Expiring
<1>5. \A k : ~InBatch(k)'
  BY <1>1 DEF InBatch
<1>6. CASE RetrieveSchedule
  <2> DEFINE keys == IF ~neverExpires /\ Expiring \in Blocks THEN schedule[Expiring] ELSE NoPrep.keys
  <2>1. CASE keys = NoPrep.keys
    <3>1. workingset' = NoSet /\ prep' = NoPrep
      BY <1>4, <1>6, <2>1 DEF RetrieveSchedule
    <3>2. Expiring \in Blocks => \A k \in Keys : schedule[Expiring][k] = "no"
      BY <2>1 DEF NoPrep
    <3>3. Expiring \in Blocks => \A k \in Keys : hash[k] # Expiring /\ pvt[k] # Expiring
      BY <3>2 DEF Scheduled
    <3>4. \A k \in Keys : workingset'.keys[k] = "no"
      BY <3>1 DEF NoSet
    <3>5. \A k \in Keys : Prepared(k)'
      BY <1>1, <1>4, <3>3, <3>4 DEF Prepared
    <3>6. prep'.pc = "none" /\ workingset'.clear = {} /\ rpc' # "updated"
      BY <1>1, <3>1 DEF NoSet, NoPrep
    <3> QED
      BY <1>2, <1>3, <3>5, <3>6 DEF Preparing
  <2>2. CASE keys # NoPrep.keys
    <3>1. /\ workingset' = workingset /\ prep' = [prep EXCEPT !.pc = "retrieved", !.keys = schedule[Expiring]]
      BY <1>4, <1>6, <2>2 DEF RetrieveSchedule
    <3>2. prep'.pc = "retrieved" /\ prep'.keys = schedule[Expiring] /\ prep'.n = prep.n
      BY <3>1 DEF Base, PrepOK
    <3>3. /\ rpc' # "updated" /\ schedule' = schedule
          /\ workingset'.clear \subseteq {Expiring'} /\ prep'.n - BTL - 1 = Expiring
      BY <1>1, <1>4, <3>1, <3>2 DEF Preparing
    <3> QED
      BY <1>2, <1>3, <3>2, <3>3 DEF Preparing
  <2> QED
    BY <2>1, <2>2
<1>7. CASE PrepareWorkingset
  <2>1. prep.keys = schedule[Expiring] /\ Expiring \in Blocks /\ prep' = NoPrep
    BY <1>4, <1>7 DEF PrepareWorkingset, Preparing, Base, PrepOK
  <2>2. /\ workingset'.clear \subseteq {Expiring}
        /\ \A k \in Keys : workingset'.keys[k] =
             IF schedule[Expiring][k] = "no" \/ hash[k] = Expiring THEN schedule[Expiring][k]
             ELSE IF schedule[Expiring][k] = "raw" /\ pvt[k] = Expiring THEN "keyOnly" ELSE "no"
    BY <1>4, <1>7, <2>1 DEF PrepareWorkingset
  <2>3. ASSUME NEW k \in Keys PROVE Prepared(k)'
    <3>1. /\ hash[k] = Expiring => schedule[Expiring][k] \in {"hash", "raw"}
          /\ pvt[k] = Expiring => schedule[Expiring][k] = "raw"
          /\ schedule[Expiring][k] # "keyOnly"
      BY <2>1 DEF Scheduled, NeverKeyOnly
    <3> QED
      BY <1>1, <1>4, <1>5, <2>1, <2>2, <3>1 DEF Prepared
  <2>4. prep'.pc = "none" /\ rpc' # "updated" /\ workingset'.clear \subseteq {Expiring'}
    BY <1>1, <1>4, <2>1, <2>2 DEF NoPrep
  <2> QED
    BY <1>2, <1>3, <2>3, <2>4 DEF Preparing
<1> QED
  BY <1>2, <1>3, <1>6, <1>7 DEF Preparation

\* The reconciler schedules its batch and takes the keys of it that would only be removed
\* as leftovers off the working set.
LEMMA ExpiryUpdateOfOld ==
  ASSUME Base, Base', ~neverExpires, "prep" \notin raced', NoneExpired, Scheduled, Preparing,
         UpdateExpiryInfoOfOld
  PROVE  (NoneExpired /\ Scheduled /\ Preparing)'
<1> USE PvtDataAssumption
<1>1. /\ rpc = "waited" /\ rpc' = "updated" /\ cpc \notin {"expiry", "applied"}
      /\ UNCHANGED <<chain, hash, pvt, stHt, rec, cpc, cur, prep, usedOnce>>
      /\ prep.pc = "none"
  BY DEF UpdateExpiryInfoOfOld, oldBlockCommitFree, PrepareFinished
<1>2. NotStale' = NotStale
  BY <1>1, NotStaleSame
<1>3. /\ \A m \in Blocks, k \in Keys :
           schedule'[m][k] = IF k \in DOMAIN NotStale /\ NotStale[k] = m /\ IsPut(m)
                               THEN "raw" ELSE schedule[m][k]
      /\ workingset'.clear = workingset.clear
      /\ \A k \in Keys :
           IF k \notin DOMAIN NotStale THEN workingset'.keys[k] = workingset.keys[k]
           ELSE workingset'.keys[k] = IF workingset.keys[k] \in {"no", "keyOnly"} THEN "no" ELSE "raw"
  <2>1. \A m \in Blocks, k \in Keys :
           schedule'[m][k] = IF k \in DOMAIN NotStale /\ NotStale[k] = m /\ IsPut(m)
                               THEN "raw" ELSE schedule[m][k]
    BY DEF UpdateExpiryInfoOfOld
  <2>2. workingset' = [workingset EXCEPT !.keys = [k \in Keys |->
                         IF k \notin DOMAIN NotStale THEN workingset.keys[k]
                         ELSE IF workingset.keys[k] \in {"no", "keyOnly"} THEN "no" ELSE "raw"]]
    BY DEF UpdateExpiryInfoOfOld
  <2>3. /\ workingset'.clear = workingset.clear
        /\ workingset'.keys = [k \in Keys |->
                         IF k \notin DOMAIN NotStale THEN workingset.keys[k]
                         ELSE IF workingset.keys[k] \in {"no", "keyOnly"} THEN "no" ELSE "raw"]
    BY <2>2 DEF Base, PrepOK
  <2> QED
    BY <2>1, <2>3
<1>4. NoneExpired'
  BY <1>1 DEF NoneExpired, isExpired, neverExpires, ExpiringBlock
<1>5. \A k \in DOMAIN NotStale : k \in Keys /\ NotStale[k] \in Blocks
  <2>1. DOMAIN rec.found \subseteq Blocks
    <3>1. lastCommittedBlock =< MaxBlock /\ lastCommittedBlock \in Int
      BY DEF Base, CommitterOK, ChainOK, lastCommittedBlock
    <3>2. \A n \in DOMAIN rec.found : n \in 1..lastCommittedBlock
      BY DEF Base, ReconcilerOK
    <3> QED
      BY <3>1, <3>2 DEF Blocks
  <2> QED
    BY <2>1, NotStaleFacts
<1>6. Scheduled'
  <2>1. \A k \in Keys, m \in Blocks : /\ hash'[k] = m => schedule'[m][k] \in {"hash", "raw"}
                                      /\ pvt'[k] = m => schedule'[m][k] = "raw"
    BY <1>1, <1>3 DEF Scheduled
  <2>2. \A k \in DOMAIN NotStale : IsPut(NotStale[k]) => schedule'[NotStale[k]][k] = "raw"
    BY <1>3, <1>5
  <2>3. \A k \in DOMAIN NotStale' : IsPut(NotStale[k])' => schedule'[NotStale'[k]][k] = "raw"
    BY <1>1, <1>2, <2>2 DEF IsPut
  <2> QED
    BY <1>1, <2>1, <2>3 DEF Scheduled
<1>7. Expiring' = Expiring
  BY <1>1 DEF Expiring
<1>8. \A k : InBatch(k)' <=> k \in DOMAIN NotStale
  BY <1>1, <1>2 DEF InBatch
<1>9. ASSUME usedOnce, NEW k \in Keys PROVE Prepared(k)'
  <2>1. Prepared(k) /\ ~InBatch(k)
    BY <1>1, <1>9 DEF Preparing, InBatch
  <2> QED
    BY <1>1, <1>3, <1>7, <1>8, <2>1 DEF Prepared
<1>10. Preparing'
  BY <1>1, <1>3, <1>7, <1>9 DEF Preparing
<1> QED
  BY <1>4, <1>6, <1>10

\* What the reconciler puts into the state is scheduled and prepared.
LEMMA ExpiryApplyOld ==
  ASSUME Base, Base', ~neverExpires, "prep" \notin raced, NoneExpired, Scheduled, Preparing,
         ApplyOld
  PROVE  (NoneExpired /\ Scheduled /\ Preparing)'
<1> USE PvtDataAssumption
<1>1. /\ rpc = "updated" /\ rpc' = "applied" /\ cpc \notin {"expiry", "applied"}
      /\ UNCHANGED <<chain, hash, schedule, stHt, rec, cpc, cur, prep, usedOnce, workingset>>
  BY ApplyOldFacts DEF Base, ReconcilerOK
<1>2. NoneExpired'
  <2>1. \A k \in Keys : pvt'[k] \in {0, pvt[k], hash[k]}
    BY ApplyOldFacts
  <2>2. 0 \notin Blocks
    BY DEF Blocks
  <2> QED
    BY <1>1, <2>1, <2>2 DEF NoneExpired, isExpired, neverExpires, ExpiringBlock
<1>3. Scheduled'
  <2>1. ASSUME NEW k \in Keys, NEW m \in Blocks, pvt'[k] = m PROVE schedule[m][k] = "raw"
    <3>1. m # 0
      BY DEF Blocks
    <3> QED
      BY <1>1, <2>1, <3>1, ApplyOldFacts DEF Scheduled
  <2>2. \A k \in Keys, m \in Blocks : hash[k] = m => schedule[m][k] \in {"hash", "raw"}
    BY DEF Scheduled
  <2>3. rpc' # "updated" /\ cpc' # "expiry" /\ UNCHANGED <<hash, schedule>>
    BY <1>1
  <2> QED
    BY <2>1, <2>2, <2>3 DEF Scheduled
<1>4. Expiring' = Expiring
  BY <1>1 DEF Expiring
<1>5. ASSUME usedOnce, NEW k \in Keys PROVE Prepared(k)'
  <2>1. Prepared(k) /\ (InBatch(k) <=> k \in DOMAIN NotStale) /\ ~InBatch(k)'
    BY <1>1, <1>5 DEF Preparing, InBatch
  <2>2. Expiring # 0 \/ Expiring \notin Blocks
    BY DEF Blocks
  <2>3. CASE k \in DOMAIN NotStale
    <3>1. pvt'[k] = 0 \/ pvt'[k] = hash[k]
      BY <2>3, ApplyOldFacts
    <3> QED
      BY <1>1, <1>4, <2>1, <2>2, <2>3, <3>1 DEF Prepared
  <2>4. CASE k \notin DOMAIN NotStale
    <3>1. pvt'[k] = pvt[k]
      BY <2>4, ApplyOldFacts
    <3> QED
      BY <1>1, <1>4, <2>1, <2>4, <3>1 DEF Prepared
  <2> QED
    BY <2>3, <2>4
<1>6. prep.pc = "none" /\ workingset.clear \subseteq {Expiring}
  BY <1>1 DEF Preparing
<1>7. Preparing'
  BY <1>1, <1>4, <1>5, <1>6 DEF Preparing
<1> QED
  BY <1>2, <1>3, <1>7

\* A crash keeps the schedule; a rollback drops it together with the state.
LEMMA ExpiryStop ==
  ASSUME Base, Base', ~neverExpires, "prep" \notin raced, NoneExpired, Scheduled, Preparing,
         Crash \/ \E h \in Blocks : Rollback(h)
  PROVE  (NoneExpired /\ Scheduled /\ Preparing)'
<1>1. Stop
  BY DEF Crash, Rollback
<1>2. Preparing'
  BY <1>1 DEF Stop, Preparing, NoPrep, NoSet
<1>3. cpc' # "expiry" /\ rpc' # "updated"
  BY <1>1 DEF Stop
<1>4. CASE Crash
  <2>1. UNCHANGED <<hash, pvt, stHt, schedule>>
    BY <1>4 DEF Crash
  <2>2. NoneExpired'
    BY <2>1 DEF NoneExpired, isExpired, neverExpires, ExpiringBlock
  <2>3. Scheduled'
    BY <1>3, <2>1 DEF Scheduled
  <2> QED
    BY <1>2, <2>2, <2>3
<1>5. CASE \E h \in Blocks : Rollback(h)
  <2>1. \A k \in Keys : hash'[k] = 0 /\ pvt'[k] = 0
    BY <1>5 DEF Rollback
  <2>2. 0 \notin Blocks
    BY DEF Blocks
  <2>3. NoneExpired'
    BY <2>1, <2>2 DEF NoneExpired
  <2>4. Scheduled'
    BY <1>3, <2>1, <2>2 DEF Scheduled
  <2> QED
    BY <1>2, <2>3, <2>4
<1> QED
  BY <1>4, <1>5

\* The schedule never has a leftover, which is a notion of the working set.
LEMMA NeverKeyOnlyStep ==
  ASSUME Base, Base', NeverKeyOnly, [Next]_vars
  PROVE  NeverKeyOnly'
<1>1. CASE UpdateExpiryInfo
  <2>1. \A m \in Blocks, k \in Keys : schedule'[m][k] \in {schedule[m][k], "raw", "hash", "no"}
    BY <1>1 DEF UpdateExpiryInfo, Base, StateTypes
  <2> QED
    BY <2>1 DEF NeverKeyOnly
<1>2. CASE BlockCommitDone
  <2>1. \A m \in Blocks, k \in Keys : schedule'[m][k] \in {schedule[m][k], "no"}
    BY <1>2 DEF BlockCommitDone
  <2> QED
    BY <2>1 DEF NeverKeyOnly
<1>3. CASE UpdateExpiryInfoOfOld
  <2>1. \A m \in Blocks, k \in Keys : schedule'[m][k] \in {schedule[m][k], "raw"}
    BY <1>3 DEF UpdateExpiryInfoOfOld
  <2> QED
    BY <2>1 DEF NeverKeyOnly
<1>4. CASE \E h \in Blocks : Rollback(h)
  <2>1. \A m \in Blocks, k \in Keys : schedule'[m][k] = "no"
    BY <1>4 DEF Rollback
  <2> QED
    BY <2>1 DEF NeverKeyOnly
<1>5. CASE UNCHANGED schedule
  BY <1>5 DEF NeverKeyOnly
<1> QED
  BY <1>1, <1>2, <1>3, <1>4, <1>5 DEF Next, Committer, Preparation, Reconciler, Purger,
     ElgProcessor,
     ValidateAndPrepare, FetchRawKeys, CommitPvt, AddBlock, ApplyUpdates,
     CommitLostBlock, RetrieveSchedule, PrepareWorkingset, GetMissing, ReconcileFails,
     FetchAndVerify, ApplyOld, StoreOld, StartPurge, PurgeExpiredEntry, ScanMarkers,
     DeleteMarked, WaitForNotification, StartElg, ConvertBatch, Relock, FinishElg, Crash, Open

\* ExpiryInv is inductive, relative to Base and Versions.
LEMMA ExpiryStep ==
  ASSUME Base, Base', Versions, ExpiryInv, [Next]_vars
  PROVE  ExpiryInv'
<1> DEFINE Sound == NoneExpired /\ Scheduled /\ Preparing
<1>1. ASSUME ~neverExpires, "prep" \notin raced PROVE NeverKeyOnly /\ NoneExpired /\ Scheduled /\ Preparing
  BY <1>1 DEF ExpiryInv
<1>2. ~neverExpires => NeverKeyOnly'
  BY NeverKeyOnlyStep DEF ExpiryInv
<1>3. ASSUME ~neverExpires /\ "prep" \notin raced' => (NoneExpired /\ Scheduled /\ Preparing)'
      PROVE  ExpiryInv'
  BY <1>2, <1>3 DEF ExpiryInv, neverExpires
<1>4. CASE ApplyUpdates
  <2>1. raced' = raced
    BY <1>4 DEF ApplyUpdates
  <2> QED
    BY <1>1, <1>3, <1>4, <2>1, ExpiryApplyUpdates
<1>5. CASE BlockCommitDone
  <2>1. raced' = raced
    BY <1>5 DEF BlockCommitDone
  <2> QED
    BY <1>1, <1>3, <1>5, <2>1, ExpiryBlockCommitDone
<1>6. CASE UpdateExpiryInfo
  <2>1. raced' = raced
    BY <1>6 DEF UpdateExpiryInfo
  <2> QED
    BY <1>1, <1>3, <1>6, <2>1, ExpiryUpdateExpiryInfo
<1>7. CASE Preparation
  <2>1. raced' = raced
    BY <1>7 DEF Preparation, RetrieveSchedule, PrepareWorkingset
  <2> QED
    BY <1>1, <1>3, <1>7, <2>1, ExpiryPreparation
<1>8. CASE UpdateExpiryInfoOfOld
  <2>1. raced \subseteq raced'
    BY <1>8 DEF UpdateExpiryInfoOfOld
  <2> QED
    BY <1>1, <1>3, <1>8, <2>1, ExpiryUpdateOfOld
<1>9. CASE ApplyOld
  <2>1. raced' = raced
    BY <1>9 DEF ApplyOld
  <2> QED
    BY <1>1, <1>3, <1>9, <2>1, ExpiryApplyOld
<1>10. CASE Crash \/ \E h \in Blocks : Rollback(h)
  <2>1. raced' = raced
    BY <1>10 DEF Crash, Rollback, Stop
  <2> QED
    BY <1>1, <1>3, <1>10, <2>1, ExpiryStop
<1> DEFINE Same ==
      /\ UNCHANGED <<hash, pvt, stHt, schedule, workingset, prep, usedOnce>>
      /\ raced \subseteq raced' /\ (cpc' = "applied" <=> cpc = "applied")
      /\ cpc' = "expiry" => cpc = "expiry" /\ UNCHANGED <<cur, chain>>
      /\ rpc' = "updated" <=> rpc = "updated"
      /\ rpc = "updated" => UNCHANGED <<rec, chain>>
<1>11. Same => ExpiryInv'
  BY ExpirySame
<1> HIDE DEF Same
<1>12. CASE \E op \in Ops, got \in BOOLEAN : ValidateAndPrepare(op, got)
  <2>1. Same
    BY <1>12 DEF Same, ValidateAndPrepare, oldBlockCommitFree
  <2> QED
    BY <1>11, <2>1
<1>13. CASE FetchRawKeys \/ CommitPvt \/ AddBlock \/ CommitLostBlock
  <2>1. Same
    BY <1>13 DEF Same, FetchRawKeys, CommitPvt, AddBlock, CommitLostBlock
  <2> QED
    BY <1>11, <2>1
<1>14. CASE \/ GetMissing(prio) \/ GetMissing(deprio) \/ ReconcileFails
            \/ \E got \in Answers : FetchAndVerify(got)
            \/ StoreOld
  <2>1. Same
    BY <1>14 DEF Same, GetMissing, ReconcileFails, FetchAndVerify, StoreOld
  <2> QED
    BY <1>11, <2>1
<1>15. CASE Purger \/ ElgProcessor \/ Open \/ UNCHANGED vars
  <2>1. Same
    BY <1>15 DEF Same, Purger, ElgProcessor, StartPurge, PurgeExpiredEntry, ScanMarkers,
       DeleteMarked, WaitForNotification, StartElg, ConvertBatch, Relock, FinishElg, Open
  <2> QED
    BY <1>11, <2>1
<1> QED
  BY <1>4, <1>5, <1>6, <1>7, <1>8, <1>9, <1>10, <1>12, <1>13, <1>14, <1>15
  DEF Next, Committer, Reconciler

\* Expiry in every reachable state.
LEMMA ExpiryInvariance == Spec => []ExpiryInv
<1>1. Base /\ Base' /\ Versions /\ ExpiryInv /\ [Next]_vars => ExpiryInv'
  BY ExpiryStep
<1> QED
  BY <1>1, InitExpiry, BaseInvariance, VersionsInvariance, PTL DEF Spec

-----------------------------------------------------------------------------
(* Key hashes expire whatever the reconciler does while keys are prepared:  *)
(* it never unschedules a key, nor takes a hash out of the working set.     *)

HashesGone == \A k \in Keys, m \in Blocks : isExpired(m, stHt - 1) => hash[k] # m

HashesScheduled ==
  /\ \A k \in Keys, m \in Blocks : hash[k] = m => schedule[m][k] # "no"
  /\ cpc = "expiry" /\ IsPut(cur.n) =>
       \A k \in Keys : k \in Writes(cur.n) => schedule[cur.n][k] # "no"

HashesPrepared ==
  /\ workingset.clear \subseteq {Expiring}
  /\ prep.pc = "retrieved" =>
       \A k \in Keys : prep.keys[k] # "keyOnly" /\ (hash[k] = Expiring => prep.keys[k] # "no")
  /\ usedOnce /\ prep.pc = "none" /\ cpc # "applied" /\ Expiring \in Blocks =>
       \A k \in Keys : hash[k] = Expiring => workingset.keys[k] \in {"hash", "raw"}

HashInv == ~neverExpires => HashesGone /\ HashesScheduled /\ HashesPrepared

\* There is no key hash initially.
LEMMA InitHash == Init => HashInv
<1> SUFFICES ASSUME Init PROVE HashInv
  OBVIOUS
<1>1. HashesGone /\ HashesScheduled
  BY DEF Init, HashesGone, HashesScheduled, Blocks
<1>2. HashesPrepared
  BY DEF Init, HashesPrepared, NoSet, NoPrep
<1> QED
  BY <1>1, <1>2 DEF HashInv

\* The batch of a block removes the key hashes that expire with it.
LEMMA HashApplyUpdates ==
  ASSUME Base, Base', Versions, ~neverExpires, HashesGone, HashesScheduled, HashesPrepared,
         ApplyUpdates
  PROVE  (HashesGone /\ HashesScheduled /\ HashesPrepared)'
<1> USE PvtDataAssumption
<1>1. stHt \in Nat /\ stHt > 0 /\ BTL \in Nat \ {0} /\ \A k \in Keys : hash[k] \in Nat /\ hash[k] < stHt
  BY MarkersAreNumbers, SMTT(30) DEF Base, CommitterOK, neverExpires, Versions
<1>2. Expiring' = Expiring /\ Expiring = stHt - BTL - 1
  BY <1>1, ApplyUpdatesFacts DEF Expiring
<1>3. Expiring \in Blocks => \A k \in Keys : hash[k] = Expiring => workingset.keys[k] \in {"hash", "raw"}
  BY ApplyUpdatesFacts DEF HashesPrepared
<1>4. HashesGone'
  <2> SUFFICES ASSUME NEW k \in Keys, NEW m \in Blocks, isExpired(m, stHt - 1)'
               PROVE  hash'[k] # m
    BY DEF HashesGone
  <2>1. m =< Expiring /\ m \in Nat \ {0} /\ m < stHt
    BY <1>1, <1>2, ApplyUpdatesFacts DEF isExpired, ExpiringBlock, Blocks
  <2>2. CASE m = Expiring
    BY <1>1, <1>3, <2>1, <2>2, ApplyUpdatesFacts
  <2>3. CASE m # Expiring
    <3>1. isExpired(m, stHt - 1)
      BY <1>1, <1>2, <2>1, <2>3 DEF isExpired, ExpiringBlock
    <3> QED
      BY <1>1, <2>1, <3>1, ApplyUpdatesFacts DEF HashesGone
  <2> QED
    BY <2>2, <2>3
<1>5. HashesScheduled'
  <2>1. ASSUME NEW k \in Keys, NEW m \in Blocks, hash'[k] = m
        PROVE  schedule[m][k] # "no"
    <3>1. m > 0
      BY DEF Blocks
    <3>2. hash[k] = m \/ (m = stHt /\ IsPut(stHt) /\ k \in Writes(stHt))
      BY <2>1, <3>1, ApplyUpdatesFacts
    <3> QED
      BY <3>2, ApplyUpdatesFacts DEF HashesScheduled
  <2> QED
    BY <2>1, ApplyUpdatesFacts DEF HashesScheduled
<1>6. HashesPrepared'
  BY <1>2, ApplyUpdatesFacts DEF HashesPrepared
<1> QED
  BY <1>4, <1>5, <1>6

\* The schedule is cleared of a block that has no key hash left in the state.
LEMMA HashBlockCommitDone ==
  ASSUME Base, Base', ~neverExpires, HashesGone, HashesScheduled, HashesPrepared, BlockCommitDone
  PROVE  (HashesGone /\ HashesScheduled /\ HashesPrepared)'
<1> USE PvtDataAssumption
<1>1. stHt \in Nat /\ BTL \in Nat /\ cpc = "applied" /\ UNCHANGED <<hash, stHt>>
      /\ prep'.pc = "started" /\ workingset'.clear = {} /\ cpc' \in {"idle", "recover"}
  BY DEF Base, CommitterOK, BlockCommitDone, NoPrep, NoSet
<1>2. HashesGone'
  BY <1>1 DEF HashesGone, isExpired, neverExpires, ExpiringBlock
<1>3. Expiring \in Blocks => isExpired(Expiring, stHt - 1)
  BY <1>1 DEF Expiring, isExpired, ExpiringBlock
<1>4. \A m \in Blocks : m # Expiring => schedule'[m] = schedule[m]
  BY DEF BlockCommitDone, HashesPrepared
<1>5. HashesScheduled'
  BY <1>1, <1>3, <1>4 DEF HashesScheduled, HashesGone
<1>6. HashesPrepared'
  BY <1>1 DEF HashesPrepared
<1> QED
  BY <1>2, <1>5, <1>6

\* The hashes that a block writes are scheduled before they are applied.
LEMMA HashUpdateExpiryInfo ==
  ASSUME Base, Base', Versions, ~neverExpires, HashesGone, HashesScheduled, HashesPrepared,
         UpdateExpiryInfo
  PROVE  (HashesGone /\ HashesScheduled /\ HashesPrepared)'
<1> USE PvtDataAssumption
<1>1. /\ stHt \in Nat /\ BTL \in Nat /\ cpc = "block" /\ cpc' = "expiry" /\ cur.n = stHt
      /\ UNCHANGED <<hash, stHt, cur, chain, workingset>>
      /\ stHt \in Blocks /\ \A k \in Keys : hash[k] < stHt
  BY DEF Base, CommitterOK, ChainOK, UpdateExpiryInfo, Versions, Blocks
<1>2. HashesGone'
  BY <1>1 DEF HashesGone, isExpired, neverExpires, ExpiringBlock
<1>3. schedule' = IF ~IsPut(cur.n) THEN schedule
                  ELSE [schedule EXCEPT ![cur.n] =
                         [k \in Keys |-> IF k \in cur.have THEN "raw"
                                         ELSE IF k \in Writes(cur.n) THEN "hash" ELSE "no"]]
  BY DEF UpdateExpiryInfo
<1>4. \A m \in Blocks : m # stHt => schedule'[m] = schedule[m]
  BY <1>1, <1>3 DEF Base, StateTypes
<1>5. IsPut(stHt) => schedule'[stHt] = [k \in Keys |-> IF k \in cur.have THEN "raw"
                                         ELSE IF k \in Writes(stHt) THEN "hash" ELSE "no"]
  BY <1>1, <1>3 DEF Base, StateTypes
<1>6. HashesScheduled'
  <2>1. ASSUME NEW k \in Keys, NEW m \in Blocks, hash'[k] = m
        PROVE  schedule'[m][k] # "no"
    <3>1. hash[k] = m /\ m # stHt
      BY <1>1, <2>1
    <3>2. schedule[m][k] # "no"
      BY <3>1 DEF HashesScheduled
    <3> QED
      BY <1>4, <3>1, <3>2
  <2>2. IsPut(cur.n)' => \A k \in Keys : k \in Writes(cur.n)' => schedule'[cur'.n][k] # "no"
    BY <1>1, <1>5 DEF IsPut, Writes
  <2> QED
    BY <2>1, <2>2 DEF HashesScheduled
<1>7. HashesPrepared'
  <2>1. Expiring' = Expiring
    BY <1>1 DEF Expiring
  <2>2. CASE usedOnce
    <3>1. prep' = prep /\ usedOnce'
      BY <2>2 DEF UpdateExpiryInfo
    <3> QED
      BY <1>1, <2>1, <2>2, <3>1 DEF HashesPrepared
  <2>3. CASE ~usedOnce
    <3>1. prep'.pc = "started" /\ workingset.clear = {}
      BY <2>3 DEF UpdateExpiryInfo, NoPrep, Base, PrepOK, NoSet
    <3> QED
      BY <1>1, <3>1 DEF HashesPrepared
  <2> QED
    BY <2>2, <2>3
<1> QED
  BY <1>2, <1>6, <1>7

\* The preparation finds every hash that expires next, as each is scheduled.
LEMMA HashPreparation ==
  ASSUME Base, Base', ~neverExpires, NeverKeyOnly, HashesGone, HashesScheduled, HashesPrepared,
         Preparation
  PROVE  (HashesGone /\ HashesScheduled /\ HashesPrepared)'
<1> USE PvtDataAssumption
<1>1. /\ prep.pc # "none" /\ prep.n = stHt /\ cpc # "applied"
      /\ UNCHANGED <<chain, hash, stHt, schedule, cpc, cur>>
      /\ stHt \in Nat /\ BTL \in Nat
  BY DEF Preparation, RetrieveSchedule, PrepareWorkingset, Base, PrepOK, CommitterOK
<1>2. HashesGone'
  BY <1>1 DEF HashesGone, isExpired, neverExpires, ExpiringBlock
<1>3. HashesScheduled'
  BY <1>1 DEF HashesScheduled, IsPut, Writes
<1>4. Expiring' = Expiring /\ Expiring = prep.n - BTL - 1
  BY <1>1 DEF Expiring
<1>5. CASE RetrieveSchedule
  <2> DEFINE keys == IF Expiring \in Blocks THEN schedule[Expiring] ELSE NoPrep.keys
  <2>1. IF keys = NoPrep.keys
          THEN workingset' = NoSet /\ prep' = NoPrep
          ELSE workingset' = workingset /\ prep' = [prep EXCEPT !.pc = "retrieved", !.keys = keys]
    BY <1>4, <1>5 DEF RetrieveSchedule
  <2>2. CASE keys = NoPrep.keys
    <3>1. workingset'.clear = {} /\ prep'.pc = "none"
      BY <2>1, <2>2 DEF NoSet, NoPrep
    <3>2. Expiring \in Blocks => \A k \in Keys : schedule[Expiring][k] = "no"
      BY <2>2 DEF NoPrep
    <3>3. Expiring \in Blocks => \A k \in Keys : hash[k] # Expiring
      BY <3>2 DEF HashesScheduled
    <3> QED
      BY <1>1, <1>2, <1>3, <1>4, <3>1, <3>3 DEF HashesPrepared
  <2>3. CASE keys # NoPrep.keys
    <3>1. Expiring \in Blocks
      BY <2>3
    <3>2. workingset' = workingset /\ prep'.pc = "retrieved" /\ prep'.keys = schedule[Expiring]
      BY <2>1, <2>3, <3>1 DEF Base, PrepOK
    <3>3. \A k \in Keys : schedule[Expiring][k] # "keyOnly" /\ (hash[k] = Expiring => schedule[Expiring][k] # "no")
      BY <3>1 DEF NeverKeyOnly, HashesScheduled
    <3> QED
      BY <1>1, <1>2, <1>3, <1>4, <3>2, <3>3 DEF HashesPrepared
  <2> QED
    BY <2>2, <2>3
<1>6. CASE PrepareWorkingset
  <2>1. prep.pc = "retrieved" /\ prep' = NoPrep /\ workingset'.clear = {Expiring}
    BY <1>4, <1>6 DEF PrepareWorkingset
  <2>2. \A k \in Keys : hash[k] = Expiring => workingset'.keys[k] = prep.keys[k]
    BY <1>4, <1>6 DEF PrepareWorkingset
  <2>3. \A k \in Keys : prep.keys[k] \in Known
    BY DEF Base, PrepOK
  <2>4. \A k \in Keys : hash[k] = Expiring => workingset'.keys[k] \in {"hash", "raw"}
    BY <2>1, <2>2, <2>3 DEF HashesPrepared, Known
  <2> QED
    BY <1>1, <1>2, <1>3, <1>4, <2>1, <2>4 DEF HashesPrepared, NoPrep
<1> QED
  BY <1>2, <1>3, <1>5, <1>6 DEF Preparation

\* Reconciled data only adds raw keys to the schedule and to the working set.
LEMMA HashUpdateOfOld ==
  ASSUME Base, Base', ~neverExpires, HashesGone, HashesScheduled, HashesPrepared,
         UpdateExpiryInfoOfOld
  PROVE  (HashesGone /\ HashesScheduled /\ HashesPrepared)'
<1>1. /\ UNCHANGED <<chain, hash, stHt, cpc, cur, prep, usedOnce>>
      /\ \A m \in Blocks, k \in Keys : schedule'[m][k] \in {schedule[m][k], "raw"}
      /\ workingset'.clear = workingset.clear
  BY DEF UpdateExpiryInfoOfOld, committer, Base, PrepOK
<1>2. \A k \in Keys : workingset.keys[k] \in {"hash", "raw"} => workingset'.keys[k] \in {"hash", "raw"}
  BY DEF UpdateExpiryInfoOfOld, Base, PrepOK
<1>3. Expiring' = Expiring
  BY <1>1 DEF Expiring
<1>4. HashesGone'
  BY <1>1 DEF HashesGone, isExpired, neverExpires, ExpiringBlock
<1>5. cpc = "expiry" => cur.n \in Blocks
  BY PvtDataAssumption DEF Base, CommitterOK, ChainOK, Blocks
<1>6. HashesScheduled'
  BY <1>1, <1>5 DEF HashesScheduled, IsPut, Writes
<1>7. HashesPrepared'
  BY <1>1, <1>2, <1>3 DEF HashesPrepared
<1> QED
  BY <1>4, <1>6, <1>7

\* A stop empties the working set; a rollback the state.
LEMMA HashStop ==
  ASSUME Base, Base', ~neverExpires, HashesGone, HashesScheduled, HashesPrepared,
         Crash \/ \E h \in Blocks : Rollback(h)
  PROVE  (HashesGone /\ HashesScheduled /\ HashesPrepared)'
<1>1. /\ cpc' = "down" /\ workingset'.clear = {} /\ prep'.pc = "none" /\ ~usedOnce'
  BY DEF Crash, Rollback, Stop, NoSet, NoPrep
<1>2. HashesPrepared'
  BY <1>1 DEF HashesPrepared
<1>3. CASE Crash
  <2>1. UNCHANGED <<hash, stHt, schedule>>
    BY <1>3 DEF Crash
  <2> QED
    BY <1>1, <1>2, <2>1 DEF HashesGone, HashesScheduled, isExpired, neverExpires, ExpiringBlock
<1>4. CASE \E h \in Blocks : Rollback(h)
  <2>1. \A k \in Keys : hash'[k] = 0
    BY <1>4 DEF Rollback
  <2>2. \A m \in Blocks : m # 0
    BY DEF Blocks
  <2> QED
    BY <1>1, <1>2, <2>1, <2>2 DEF HashesGone, HashesScheduled
<1> QED
  BY <1>3, <1>4

\* HashInv is inductive, relative to Base, Versions and ExpiryInv.
LEMMA HashStep ==
  ASSUME Base, Base', Versions, ExpiryInv, HashInv, [Next]_vars
  PROVE  HashInv'
<1> SUFFICES ASSUME ~neverExpires PROVE (HashesGone /\ HashesScheduled /\ HashesPrepared)'
  BY DEF HashInv, neverExpires
<1>1. NeverKeyOnly /\ HashesGone /\ HashesScheduled /\ HashesPrepared
  BY DEF HashInv, ExpiryInv
<1>2. CASE ApplyUpdates
  BY <1>1, <1>2, HashApplyUpdates
<1>3. CASE BlockCommitDone
  BY <1>1, <1>3, HashBlockCommitDone
<1>4. CASE UpdateExpiryInfo
  BY <1>1, <1>4, HashUpdateExpiryInfo
<1>5. CASE Preparation
  BY <1>1, <1>5, HashPreparation
<1>6. CASE UpdateExpiryInfoOfOld
  BY <1>1, <1>6, HashUpdateOfOld
<1>7. CASE Crash \/ \E h \in Blocks : Rollback(h)
  BY <1>1, <1>7, HashStop
<1> DEFINE Same ==
      /\ UNCHANGED <<hash, stHt, schedule, workingset, prep, usedOnce>>
      /\ cpc' = "applied" <=> cpc = "applied"
      /\ cpc' = "expiry" => cpc = "expiry" /\ UNCHANGED <<cur, chain>>
<1>8. ASSUME Same PROVE (HashesGone /\ HashesScheduled /\ HashesPrepared)'
  <2>1. HashesGone'
    BY <1>1, <1>8 DEF HashesGone, isExpired, neverExpires, ExpiringBlock
  <2>2. HashesScheduled'
    BY <1>1, <1>8 DEF HashesScheduled, IsPut, Writes
  <2>3. Expiring' = Expiring
    BY <1>8 DEF Expiring
  <2>4. HashesPrepared'
    BY <1>1, <1>8, <2>3 DEF HashesPrepared
  <2> QED
    BY <2>1, <2>2, <2>4
<1> HIDE DEF Same
<1>9. CASE \E op \in Ops, got \in BOOLEAN : ValidateAndPrepare(op, got)
  <2>1. Same
    BY <1>9 DEF Same, ValidateAndPrepare
  <2> QED
    BY <1>8, <2>1
<1>10. CASE FetchRawKeys \/ CommitPvt \/ AddBlock \/ CommitLostBlock
  <2>1. Same
    BY <1>10 DEF Same, FetchRawKeys, CommitPvt, AddBlock, CommitLostBlock
  <2> QED
    BY <1>8, <2>1
<1>11. CASE \/ GetMissing(prio) \/ GetMissing(deprio) \/ ReconcileFails
            \/ \E got \in Answers : FetchAndVerify(got)
            \/ ApplyOld \/ StoreOld
  <2>1. Same
    BY <1>11 DEF Same, GetMissing, ReconcileFails, FetchAndVerify, ApplyOld, StoreOld
  <2> QED
    BY <1>8, <2>1
<1>12. CASE Purger \/ ElgProcessor \/ Open \/ UNCHANGED vars
  <2>1. Same
    BY <1>12 DEF Same, Purger, ElgProcessor, StartPurge, PurgeExpiredEntry, ScanMarkers,
       DeleteMarked, WaitForNotification, StartElg, ConvertBatch, Relock, FinishElg, Open
  <2> QED
    BY <1>8, <2>1
<1> QED
  BY <1>2, <1>3, <1>4, <1>5, <1>6, <1>7, <1>9, <1>10, <1>11, <1>12
  DEF Next, Committer, Reconciler

\* No key hash outlives its block to live in the state DB, and no private key does unless
\* data was reconciled while keys to expire were prepared.
THEOREM ExpiredAway == Spec => []ExpiredGone
<1>1. ExpiryInv /\ HashInv => ExpiredGone
  BY DEF ExpiryInv, NoneExpired, HashInv, HashesGone, ExpiredGone, isExpired
<1>2. Base /\ Base' /\ Versions /\ ExpiryInv /\ HashInv /\ [Next]_vars => HashInv'
  BY HashStep
<1> QED
  BY <1>1, <1>2, InitHash, BaseInvariance, VersionsInvariance, ExpiryInvariance, PTL DEF Spec

-----------------------------------------------------------------------------
(* Purges of a peer that has not crashed.  A private value in the state can *)
(* be found again: it is stored, in the batch the reconciler has applied, to *)
(* be removed by the purge at hand, or it expires with the block at hand.    *)
(* So the look-up of raw keys that precedes a purge misses none.             *)

InData(k, m) == m \in DOMAIN data /\ k \in data[m]
InFound(k, m) == rpc = "applied" /\ m \in DOMAIN rec.found /\ k \in rec.found[m]
BeingPurged(k) == cpc \in {"pvt", "block", "expiry"} /\ k \in Purges(cur.n)

NoPurgeRace == crashes = 0 /\ raced \cap {"raw", "prep"} = {}

AbovePurges ==
  \A k \in Keys : \A n \in 1..(stHt - 1) : pvt[k] # 0 /\ k \in Purges(n) => pvt[k] > n

ValueKnown ==
  \A k \in Keys : pvt[k] # 0 =>
    \/ InData(k, pvt[k]) \/ InFound(k, pvt[k]) \/ BeingPurged(k)
    \/ isExpired(pvt[k], lastCommittedBlock)

RawKnown ==
  cpc \in {"fetched", "pvt", "block", "expiry"} =>
    \A k \in Keys : k \in Purges(cur.n) /\ pvt[k] # 0 =>
      \/ k \in cur.have \cup cur.raw
      \/ cpc = "fetched" /\ InFound(k, pvt[k])

HaveStored ==
  cpc \in {"pvt", "block", "expiry"} /\ IsPut(cur.n) => \A k \in cur.have : InData(k, cur.n)

PurgeState == AbovePurges /\ ValueKnown /\ RawKnown /\ HaveStored

PurgeInv == NoPurgeRace => PurgeState

\* There is no value in the state initially.
LEMMA InitPurge == Init => PurgeInv
BY DEF Init, PurgeInv, PurgeState, AbovePurges, ValueKnown, RawKnown, HaveStored

\* Without crashes the stores are at most one block apart.
LEMMA NoCrashHeights ==
  ASSUME Base, crashes = 0
  PROVE  /\ ~isPvtstoreAheadOfBlkstore /\ pvtHt \in Nat /\ stHt \in Nat /\ stHt > 0
         /\ cpc \notin {"down", "recover"} /\ lastCommittedBlock = pvtHt - 1
         /\ cpc \in {"idle", "prepared", "fetched", "applied"} => pvtHt = stHt
         /\ cpc \in {"pvt", "block", "expiry"} => pvtHt = stHt + 1 /\ cur.n = stHt
         /\ cpc \in {"prepared", "fetched"} => cur.n = stHt
BY DEF Base, CommitterOK, lastCommittedBlock

\* When no block is between its private data and its state, no value in the state has expired.
LEMMA NotExpiredBetween ==
  ASSUME Base, ExpiryInv, NoPurgeRace, cpc \in {"idle", "prepared", "fetched"}, NEW k \in Keys,
         pvt[k] # 0
  PROVE  ~isExpired(pvt[k], lastCommittedBlock)
<1>1. lastCommittedBlock = stHt - 1
  BY NoCrashHeights DEF NoPurgeRace
<1>2. pvt[k] \in Blocks
  BY MarkersAreNumbers, PvtDataAssumption DEF Blocks
<1> QED
  BY <1>1, <1>2 DEF ExpiryInv, NoneExpired, NoPurgeRace, isExpired

\* Steps that touch neither the state nor the data, and leave the applied batch.
LEMMA PurgeSame ==
  ASSUME Base, Base', PurgeState,
         UNCHANGED <<pvt, stHt, pvtHt, data, chain, cur>>,
         cpc' = cpc \/ {cpc, cpc'} \subseteq {"pvt", "block", "expiry"},
         rpc' = "applied" <=> rpc = "applied",
         rpc = "applied" => rec' = rec
  PROVE  PurgeState'
<1>1. \A n : Purges(n)' = Purges(n) /\ (IsPut(n)' <=> IsPut(n))
  BY DEF Purges, Writes, IsPut
<1>2. \A k, m : (InData(k, m)' <=> InData(k, m)) /\ (InFound(k, m)' <=> InFound(k, m))
  BY DEF InData, InFound
<1>3. \A k : BeingPurged(k)' <=> BeingPurged(k)
  BY <1>1 DEF BeingPurged
<1>4. \A m : isExpired(m, lastCommittedBlock)' <=> isExpired(m, lastCommittedBlock)
  BY DEF isExpired, lastCommittedBlock, neverExpires, ExpiringBlock
<1>5. AbovePurges'
  BY <1>1 DEF PurgeState, AbovePurges
<1>6. ValueKnown'
  BY <1>2, <1>3, <1>4 DEF PurgeState, ValueKnown
<1>7. RawKnown'
  BY <1>1, <1>2 DEF PurgeState, RawKnown
<1>8. HaveStored'
  BY <1>1, <1>2 DEF PurgeState, HaveStored
<1> QED
  BY <1>5, <1>6, <1>7, <1>8 DEF PurgeState

\* A block that does not purge skips the look-up of raw keys.
LEMMA PurgeValidateAndPrepare ==
  ASSUME Base, Base', PurgeState, NoPurgeRace, NEW op \in Ops, NEW got \in BOOLEAN,
         ValidateAndPrepare(op, got)
  PROVE  PurgeState'
<1> USE PvtDataAssumption
<1>1. /\ cpc = "idle" /\ cpc' \in {"prepared", "fetched"} /\ UNCHANGED <<pvt, stHt, pvtHt, data, rpc, rec>>
      /\ cpc' = "fetched" => op.kind # "purge"
      /\ stHt \in Nat /\ stHt =< Len(chain) + 1 /\ Len(chain) \in Nat
  BY SMTT(30) DEF ValidateAndPrepare, Base, CommitterOK, ChainOK
<1>2. \A n \in 1..(stHt - 1) : Purges(n)' = Purges(n)
  BY <1>1, ChainGrows DEF Base, Purges, Writes
<1>3. cpc' = "fetched" => Purges(cur.n)' = {}
  <2>1. cur'.n = blkHt /\ op = chain'[blkHt]
    BY DEF ValidateAndPrepare, NoBlock
  <2> QED
    BY <1>1, <2>1 DEF Purges
<1>4. \A k, m : (InData(k, m)' <=> InData(k, m)) /\ (InFound(k, m)' <=> InFound(k, m)) /\ ~BeingPurged(k)
  BY <1>1 DEF InData, InFound, BeingPurged
<1>5. \A m : isExpired(m, lastCommittedBlock)' <=> isExpired(m, lastCommittedBlock)
  BY <1>1 DEF isExpired, lastCommittedBlock, neverExpires, ExpiringBlock
<1>6. AbovePurges'
  BY <1>1, <1>2 DEF PurgeState, AbovePurges
<1>7. ValueKnown'
  BY <1>1, <1>4, <1>5 DEF PurgeState, ValueKnown
<1>8. RawKnown' /\ HaveStored'
  BY <1>1, <1>3 DEF RawKnown, HaveStored
<1> QED
  BY <1>6, <1>7, <1>8 DEF PurgeState

\* The look-up finds every key whose value is in the state.
LEMMA PurgeFetchRawKeys ==
  ASSUME Base, Base', IndexOfData, ExpiryInv, PurgeState, NoPurgeRace, FetchRawKeys
  PROVE  PurgeState'
<1> USE PvtDataAssumption
<1>1. /\ cpc = "prepared" /\ cpc' = "fetched" /\ UNCHANGED <<pvt, stHt, pvtHt, data, rpc, rec, chain>>
      /\ cur'.n = cur.n
      /\ cur'.raw = {k \in Purges(cur.n) : \E m \in Blocks : <<k, m>> \in hashedIndex}
  BY DEF FetchRawKeys, Base, CommitterOK
<1>2. \A n : Purges(n)' = Purges(n)
  BY <1>1 DEF Purges, Writes
<1>3. \A k, m : (InData(k, m)' <=> InData(k, m)) /\ (InFound(k, m)' <=> InFound(k, m)) /\ ~BeingPurged(k)
  BY <1>1 DEF InData, InFound, BeingPurged
<1>4. \A m : isExpired(m, lastCommittedBlock)' <=> isExpired(m, lastCommittedBlock)
  BY <1>1 DEF isExpired, lastCommittedBlock, neverExpires, ExpiringBlock
<1>5. AbovePurges'
  BY <1>1, <1>2 DEF PurgeState, AbovePurges
<1>6. ValueKnown'
  BY <1>1, <1>3, <1>4 DEF PurgeState, ValueKnown
<1>7. ASSUME NEW k \in Keys, k \in Purges(cur.n), pvt[k] # 0
      PROVE  k \in cur'.raw \/ InFound(k, pvt[k])
  <2>1. InData(k, pvt[k]) \/ InFound(k, pvt[k])
    BY <1>1, <1>3, <1>7, NotExpiredBetween DEF PurgeState, ValueKnown
  <2>2. pvt[k] \in Blocks
    BY <1>7, MarkersAreNumbers DEF Blocks
  <2>3. InData(k, pvt[k]) => <<k, pvt[k]>> \in hashedIndex
    BY <2>2 DEF InData, IndexOfData
  <2> QED
    BY <1>1, <1>7, <2>1, <2>2, <2>3
<1>8. RawKnown'
  <2>1. ASSUME NEW k \in Keys, k \in Purges(cur.n)', pvt'[k] # 0
        PROVE  k \in cur'.have \cup cur'.raw \/ (cpc' = "fetched" /\ InFound(k, pvt[k])')
    <3>1. k \in Purges(cur.n) /\ pvt[k] # 0
      BY <1>1, <2>1 DEF Purges, Writes
    <3> QED
      BY <1>1, <1>7, <3>1 DEF InFound
  <2> QED
    BY <2>1 DEF RawKnown
<1>9. HaveStored'
  BY <1>1 DEF HaveStored
<1> QED
  BY <1>5, <1>6, <1>8, <1>9 DEF PurgeState

\* The markers are written when no batch is being applied: the look-up is complete.
LEMMA PurgeCommitPvt ==
  ASSUME Base, Base', PurgeState, NoPurgeRace, CommitPvt
  PROVE  PurgeState'
<1> USE PvtDataAssumption
<1>1. /\ cpc = "fetched" /\ cpc' = "pvt" /\ UNCHANGED <<pvt, stHt, rpc, rec, chain, cur>>
      /\ lastCommittedBlock' = lastCommittedBlock + 1 /\ lastCommittedBlock \in Nat
  BY CommitPvtFacts DEF CommitPvt, lastCommittedBlock, Base, CommitterOK
<1>2. \A n : Purges(n)' = Purges(n)
  BY <1>1 DEF Purges, Writes
<1>3. \A k, m : InData(k, m) => InData(k, m)'
  BY CommitPvtFacts DEF InData
<1>4. \A k, m : InFound(k, m)' <=> InFound(k, m)
  BY <1>1 DEF InFound
<1>5. \A m \in Nat : isExpired(m, lastCommittedBlock) => isExpired(m, lastCommittedBlock)'
  BY <1>1 DEF isExpired, neverExpires, ExpiringBlock
<1>6. AbovePurges'
  BY <1>1, <1>2 DEF PurgeState, AbovePurges
<1>7. ValueKnown'
  <2>1. ASSUME NEW k \in Keys, pvt[k] # 0
        PROVE  InData(k, pvt[k])' \/ InFound(k, pvt[k])' \/ isExpired(pvt[k], lastCommittedBlock)'
    <3>1. InData(k, pvt[k]) \/ InFound(k, pvt[k]) \/ isExpired(pvt[k], lastCommittedBlock)
      BY <1>1, <2>1 DEF PurgeState, ValueKnown, BeingPurged
    <3>2. pvt[k] \in Nat /\ pvt' = pvt
      BY <1>1, MarkersAreNumbers
    <3> QED
      BY <1>3, <1>4, <1>5, <3>1, <3>2
  <2> QED
    BY <1>1, <2>1 DEF ValueKnown
<1>8. RawKnown'
  <2>1. ASSUME NEW k \in Keys, k \in Purges(cur.n), pvt[k] # 0 PROVE k \in cur.have \cup cur.raw
    <3>1. ~InFound(k, pvt[k])
      BY <2>1, CommitPvtMarkers DEF InFound
    <3> QED
      BY <1>1, <2>1, <3>1 DEF PurgeState, RawKnown
  <2> QED
    BY <1>1, <1>2, <2>1 DEF RawKnown
<1>9. HaveStored'
  BY <1>1, CommitPvtFacts DEF HaveStored, InData
<1> QED
  BY <1>6, <1>7, <1>8, <1>9 DEF PurgeState

\* A purge removes every value it finds, which is every value.
LEMMA PurgeApplyUpdates ==
  ASSUME Base, Base', PurgeState, NoPurgeRace, ApplyUpdates
  PROVE  PurgeState'
<1> USE PvtDataAssumption
<1>1. /\ cpc = "expiry" /\ cpc' = "applied" /\ UNCHANGED <<data, pvtHt, rpc, rec, chain, cur>>
      /\ cur.n = stHt /\ stHt' = stHt + 1 /\ stHt \in Nat /\ stHt > 0
  BY ApplyUpdatesFacts
<1>2. \A n : Purges(n)' = Purges(n)
  BY <1>1 DEF Purges, Writes
<1>3. ASSUME NEW k \in Keys, pvt'[k] # 0
      PROVE  \/ pvt'[k] = stHt /\ IsPut(stHt) /\ k \in cur.have
             \/ pvt'[k] = pvt[k] /\ k \notin cur.have \cup cur.raw
  <2>1. IsPut(stHt) => cur.raw = {}
    BY <1>1 DEF Base, CurOK, Purges, IsPut
  <2> QED
    BY <1>3, <2>1, ApplyUpdatesFacts
<1>4. \A k \in Keys : pvt[k] \in Nat
  BY MarkersAreNumbers
<1>5. ASSUME NEW k \in Keys, pvt'[k] # 0, NEW n \in 1..stHt, k \in Purges(n)
      PROVE  pvt'[k] > n
  <2>1. CASE pvt'[k] = stHt /\ IsPut(stHt)
    <3>1. n # stHt
      BY <1>5, <2>1 DEF Purges, IsPut
    <3> QED
      BY <1>1, <2>1, <3>1
  <2>2. CASE pvt'[k] = pvt[k] /\ k \notin cur.have \cup cur.raw
    <3>1. n # stHt
      BY <1>1, <1>5, <2>2 DEF PurgeState, RawKnown
    <3> QED
      BY <1>1, <1>5, <2>2, <3>1 DEF PurgeState, AbovePurges
  <2> QED
    BY <1>3, <1>5, <2>1, <2>2
<1>6. AbovePurges'
  BY <1>1, <1>2, <1>5 DEF AbovePurges
<1>7. ValueKnown'
  <2>1. ASSUME NEW k \in Keys, pvt'[k] # 0
        PROVE  InData(k, pvt[k])' \/ InFound(k, pvt[k])' \/ isExpired(pvt[k], lastCommittedBlock)'
    <3>1. CASE pvt'[k] = stHt /\ IsPut(stHt) /\ k \in cur.have
      BY <1>1, <3>1 DEF PurgeState, HaveStored, InData
    <3>2. CASE pvt'[k] = pvt[k] /\ k \notin cur.have \cup cur.raw
      <4>1. ~BeingPurged(k)
        BY <1>1, <2>1, <3>2 DEF PurgeState, RawKnown, BeingPurged
      <4>2. InData(k, pvt[k]) \/ InFound(k, pvt[k]) \/ isExpired(pvt[k], lastCommittedBlock)
        BY <2>1, <3>2, <4>1 DEF PurgeState, ValueKnown
      <4> QED
        BY <1>1, <3>2, <4>2
        DEF InData, InFound, isExpired, lastCommittedBlock, neverExpires, ExpiringBlock
    <3> QED
      BY <1>3, <2>1, <3>1, <3>2
  <2> QED
    BY <2>1 DEF ValueKnown
<1>8. RawKnown' /\ HaveStored'
  BY <1>1 DEF RawKnown, HaveStored
<1> QED
  BY <1>6, <1>7, <1>8 DEF PurgeState

\* When a block is done the purge at hand is in the state.
LEMMA PurgeBlockCommitDone ==
  ASSUME Base, Base', PurgeState, NoPurgeRace, BlockCommitDone
  PROVE  PurgeState'
<1>1. /\ cpc = "applied" /\ cpc' \in {"idle", "recover"}
      /\ UNCHANGED <<pvt, stHt, pvtHt, data, rpc, rec, chain>>
  BY DEF BlockCommitDone
<1>2. \A n : Purges(n)' = Purges(n)
  BY <1>1 DEF Purges, Writes
<1>3. \A k, m : (InData(k, m)' <=> InData(k, m)) /\ (InFound(k, m)' <=> InFound(k, m)) /\ ~BeingPurged(k)
  BY <1>1 DEF InData, InFound, BeingPurged
<1>4. \A m : isExpired(m, lastCommittedBlock)' <=> isExpired(m, lastCommittedBlock)
  BY <1>1 DEF isExpired, lastCommittedBlock, neverExpires, ExpiringBlock
<1>5. AbovePurges'
  BY <1>1, <1>2 DEF PurgeState, AbovePurges
<1>6. ValueKnown'
  BY <1>1, <1>3, <1>4 DEF PurgeState, ValueKnown
<1>7. RawKnown' /\ HaveStored'
  BY <1>1 DEF RawKnown, HaveStored
<1> QED
  BY <1>5, <1>6, <1>7 DEF PurgeState

\* What the reconciler puts into the state was not purged up to the last private data.
LEMMA PurgeApplyOld ==
  ASSUME Base, Base', Markers, PurgeState, NoPurgeRace, ApplyOld
  PROVE  PurgeState'
<1> USE PvtDataAssumption
<1>1. /\ rpc = "updated" /\ rpc' = "applied" /\ cpc \notin {"expiry", "applied"}
      /\ UNCHANGED <<data, pvtHt, stHt, blkHt, cpc, rec, chain, cur>>
  BY ApplyOldFacts DEF Base, ReconcilerOK
<1>2. \A n : Purges(n)' = Purges(n) /\ (IsPut(n)' <=> IsPut(n))
  BY <1>1 DEF Purges, Writes, IsPut
<1>3. ASSUME NEW k \in Keys, pvt'[k] # 0
      PROVE  \/ pvt'[k] = pvt[k]
             \/ /\ pvt'[k] \in DOMAIN rec.found /\ k \in rec.found[pvt'[k]]
                /\ pvt'[k] > reconMarker[k] /\ pvt'[k] < blkHt
  <2>1. CASE k \notin DOMAIN NotStale
    BY <2>1, ApplyOldFacts
  <2>2. CASE k \in DOMAIN NotStale
    <3>1. pvt'[k] = NotStale[k]
      BY <1>3, <2>2, ApplyOldFacts
    <3>2. NotStale[k] \in DOMAIN rec.found /\ k \in rec.found[NotStale[k]]
      BY <2>2, NotStaleFacts
    <3>3. NotStale[k] > reconMarker[k] /\ NotStale[k] < blkHt
      BY <1>1, <3>2 DEF Markers, Base, ReconcilerOK
    <3> QED
      BY <3>1, <3>2, <3>3
  <2> QED
    BY <2>1, <2>2
<1>4. /\ \A n \in 1..lastCommittedBlock : \A k \in Purges(n) : n =< reconMarker[k]
      /\ \A k \in Keys : reconMarker[k] \in Nat /\ pvt'[k] \in Nat
      /\ stHt \in Nat /\ stHt > 0 /\ pvtHt \in Nat /\ blkHt \in Nat /\ stHt =< blkHt /\ blkHt =< pvtHt
      /\ lastCommittedBlock = pvtHt - 1
  <2>1. \A k \in Keys : pvt'[k] \in Nat
    BY DEF Base, StateTypes
  <2>2. \A k \in Keys : reconMarker[k] \in Nat
    BY MarkersAreNumbers
  <2> QED
    BY <2>1, <2>2 DEF Markers, Base, CommitterOK, lastCommittedBlock
<1>5. AbovePurges'
  <2> SUFFICES ASSUME NEW k \in Keys, NEW n \in 1..(stHt - 1), pvt'[k] # 0, k \in Purges(n)
               PROVE  pvt'[k] > n
    BY <1>1, <1>2 DEF AbovePurges
  <2>1. CASE pvt'[k] = pvt[k]
    BY <2>1 DEF PurgeState, AbovePurges
  <2>2. CASE pvt'[k] > reconMarker[k]
    <3>1. n \in 1..lastCommittedBlock /\ n \in Nat
      BY <1>4
    <3>2. n =< reconMarker[k]
      BY <1>4, <3>1
    <3> QED
      BY <1>4, <2>2, <3>1, <3>2
  <2> QED
    BY <1>3, <2>1, <2>2
<1>6. ASSUME NEW k \in Keys, pvt'[k] # 0, pvt'[k] = pvt[k]
      PROVE  ~InFound(k, pvt[k])
  BY <1>1 DEF InFound
<1>7. ValueKnown'
  <2> SUFFICES ASSUME NEW k \in Keys, pvt'[k] # 0
               PROVE  \/ InData(k, pvt[k])' \/ InFound(k, pvt[k])' \/ BeingPurged(k)'
                      \/ isExpired(pvt[k], lastCommittedBlock)'
    BY DEF ValueKnown
  <2>1. CASE pvt'[k] = pvt[k]
    <3>1. InData(k, pvt[k]) \/ BeingPurged(k) \/ isExpired(pvt[k], lastCommittedBlock)
      BY <1>6, <2>1 DEF PurgeState, ValueKnown
    <3> QED
      BY <1>1, <1>2, <2>1, <3>1
      DEF InData, BeingPurged, isExpired, lastCommittedBlock, neverExpires, ExpiringBlock
  <2>2. CASE pvt'[k] \in DOMAIN rec.found /\ k \in rec.found[pvt'[k]]
    BY <1>1, <2>2 DEF InFound
  <2> QED
    BY <1>3, <2>1, <2>2
<1>8. RawKnown'
  <2> SUFFICES ASSUME NEW k \in Keys, pvt'[k] # 0, k \in Purges(cur.n),
                      cpc \in {"fetched", "pvt", "block"}
               PROVE  k \in cur.have \cup cur.raw \/ (cpc = "fetched" /\ InFound(k, pvt[k])')
    BY <1>1, <1>2 DEF RawKnown
  <2>1. CASE pvt'[k] = pvt[k]
    BY <1>1, <1>6, <2>1 DEF PurgeState, RawKnown
  <2>2. CASE /\ pvt'[k] \in DOMAIN rec.found /\ k \in rec.found[pvt'[k]]
             /\ pvt'[k] > reconMarker[k] /\ pvt'[k] < blkHt
    <3>1. CASE cpc = "fetched"
      BY <1>1, <2>2, <3>1 DEF InFound
    <3>2. CASE cpc \in {"pvt", "block"}
      <4>1. cur.n = stHt /\ stHt \in 1..lastCommittedBlock /\ blkHt =< stHt + 1
        BY <1>4, <3>2, NoCrashHeights DEF NoPurgeRace, Base, CommitterOK
      <4>2. stHt =< reconMarker[k]
        BY <1>4, <4>1
      <4> QED
        BY <1>4, <2>2, <4>1, <4>2
    <3> QED
      BY <3>1, <3>2
  <2> QED
    BY <1>3, <2>1, <2>2
<1>9. HaveStored'
  BY <1>1, <1>2 DEF PurgeState, HaveStored, InData
<1> QED
  BY <1>5, <1>7, <1>8, <1>9 DEF PurgeState

\* What was applied is stored now, has expired, or is noted as a race.
LEMMA PurgeStoreOld ==
  ASSUME Base, Base', Accounted, ExpiryInv, PurgeState, NoPurgeRace, NoPurgeRace', StoreOld
  PROVE  PurgeState'
<1> USE PvtDataAssumption
<1> DEFINE keep == {n \in DOMAIN rec.found : Tracked(n)}
<1>1. /\ DOMAIN data' = keep \cup DOMAIN data
      /\ \A n \in DOMAIN data' : data'[n] = IF n \in keep THEN rec.found[n] ELSE data[n]
      /\ rpc = "applied" /\ rpc' = "idle"
      /\ UNCHANGED <<chain, pvtHt, stHt, blkHt, cur, cpc>>
  BY StoreOldFacts
<1>2. pvt' = pvt
  BY DEF StoreOld
<1>3. cpc = "fetched" => \A n \in keep : \A k \in rec.found[n] : k \notin Purges(cur.n)
  <2>1. raced' = raced \cup {r \in {"raw"} : /\ cpc = "fetched"
                               /\ \E n \in keep : (rec.found[n] \cap Purges(cur.n)) # {}}
    BY DEF StoreOld, Tracked
  <2>2. "raw" \notin raced'
    BY DEF NoPurgeRace
  <2> HIDE DEF keep
  <2> QED
    BY <2>1, <2>2
<1>4. \A n : Purges(n)' = Purges(n) /\ (IsPut(n)' <=> IsPut(n))
  BY <1>1 DEF Purges, Writes, IsPut
<1>5. ASSUME NEW n \in DOMAIN rec.found, rec.found[n] # {}
      PROVE  /\ n \in 1..lastCommittedBlock
             /\ Tracked(n) => n \notin DOMAIN data
             /\ ~Tracked(n) => isExpired(n, lastCommittedBlock)
  <2>1. n \in 1..lastCommittedBlock /\ Writes(n) # {}
    BY <1>5 DEF Base, ReconcilerOK
  <2> QED
    BY <2>1 DEF Accounted, OnePlace
<1>6. \A n \in DOMAIN data : n \in keep => rec.found[n] = {} \/ n \notin DOMAIN data
  BY <1>5
<1>7. ASSUME NEW k, NEW m, InData(k, m) PROVE InData(k, m)'
  <2>1. m \notin keep
    <3>1. m \in DOMAIN data /\ data[m] \subseteq Writes(m) /\ k \in data[m] /\ m \in 1..lastCommittedBlock
      BY <1>7 DEF InData, Base, StoreOK
    <3>2. Tracked(m) => OnePlace(m)
      BY <3>1 DEF Accounted
    <3>3. m \in keep => m \in prio \cup deprio
      BY DEF Accounted
    <3> QED
      BY <3>1, <3>2, <3>3 DEF OnePlace
  <2> QED
    BY <1>1, <1>7, <2>1 DEF InData
<1>8. ASSUME NEW k, NEW m, InFound(k, m)
      PROVE  InData(k, m)' \/ isExpired(m, lastCommittedBlock)
  <2>1. m \in DOMAIN rec.found /\ k \in rec.found[m]
    BY <1>8 DEF InFound
  <2> QED
    BY <1>1, <1>5, <2>1 DEF InData
<1>9. \A k : BeingPurged(k)' <=> BeingPurged(k)
  BY <1>1, <1>4 DEF BeingPurged
<1>10. \A m : isExpired(m, lastCommittedBlock)' <=> isExpired(m, lastCommittedBlock)
  BY <1>1 DEF isExpired, lastCommittedBlock, neverExpires, ExpiringBlock
<1>11. AbovePurges'
  BY <1>1, <1>2, <1>4 DEF PurgeState, AbovePurges
<1>12. ValueKnown'
  <2>1. ASSUME NEW k \in Keys, pvt[k] # 0
        PROVE  InData(k, pvt[k])' \/ BeingPurged(k) \/ isExpired(pvt[k], lastCommittedBlock)
    <3>1. InData(k, pvt[k]) => InData(k, pvt[k])'
      BY <1>2, <1>7 DEF InData
    <3>2. InFound(k, pvt[k]) => InData(k, pvt[k])' \/ isExpired(pvt[k], lastCommittedBlock)
      BY <1>2, <1>8 DEF InData
    <3> QED
      BY <2>1, <3>1, <3>2 DEF PurgeState, ValueKnown
  <2>2. \A k : isExpired(pvt[k], lastCommittedBlock) => isExpired(pvt[k], lastCommittedBlock)'
    BY <1>2, <1>10 DEF isExpired, neverExpires, ExpiringBlock
  <2> QED
    BY <1>2, <1>9, <2>1, <2>2 DEF ValueKnown
<1>13. RawKnown'
  <2>1. ASSUME NEW k \in Keys, k \in Purges(cur.n), pvt[k] # 0, cpc = "fetched"
        PROVE  ~InFound(k, pvt[k])
    <3> SUFFICES ASSUME InFound(k, pvt[k]) PROVE FALSE
      OBVIOUS
    <3>1. pvt[k] \in DOMAIN rec.found /\ k \in rec.found[pvt[k]]
      BY DEF InFound
    <3>2. pvt[k] \notin keep
      BY <1>3, <2>1, <3>1
    <3>3. isExpired(pvt[k], lastCommittedBlock)
      BY <1>5, <3>1, <3>2
    <3> QED
      BY <2>1, <3>3, NotExpiredBetween
  <2>2. cpc \in {"fetched", "pvt", "block", "expiry"} =>
          \A k \in Keys : k \in Purges(cur.n) /\ pvt[k] # 0 => k \in cur.have \cup cur.raw
    BY <2>1 DEF PurgeState, RawKnown
  <2> QED
    BY <1>1, <1>2, <1>4, <2>2 DEF RawKnown
<1>14. HaveStored'
  <2>1. cpc \in {"pvt", "block", "expiry"} /\ IsPut(cur.n) => \A k \in cur.have : InData(k, cur.n)
    BY DEF PurgeState, HaveStored
  <2>2. cpc \in {"pvt", "block", "expiry"} /\ IsPut(cur.n) => \A k \in cur.have : InData(k, cur.n)'
    BY <1>1, <1>7, <2>1 DEF InData
  <2> QED
    BY <1>1, <1>4, <2>2 DEF HaveStored
<1> QED
  BY <1>11, <1>12, <1>13, <1>14 DEF PurgeState

\* The purger deletes what has expired.
LEMMA PurgePurgeExpired ==
  ASSUME Base, Base', PurgeState, NoPurgeRace, PurgeExpiredEntry
  PROVE  PurgeState'
<1> USE PvtDataAssumption
<1>1. UNCHANGED <<chain, pvtHt, stHt, blkHt, cur, cpc, rpc, rec, pvt>>
  BY DEF PurgeExpiredEntry
<1>2. PICK n0 \in Blocks : /\ isExpired(n0, lastCommittedBlock)
                           /\ DOMAIN data \ {n0} \subseteq DOMAIN data'
                           /\ \A n \in DOMAIN data' : data'[n] = data[n]
  BY PurgeExpiredFacts
<1>3. \A k, m : m # n0 /\ InData(k, m) => InData(k, m)'
  BY <1>2 DEF InData
<1>4. \A n : Purges(n)' = Purges(n) /\ (IsPut(n)' <=> IsPut(n))
  BY <1>1 DEF Purges, Writes, IsPut
<1>5. \A k, m : (InFound(k, m)' <=> InFound(k, m)) /\ (BeingPurged(k)' <=> BeingPurged(k))
  BY <1>1, <1>4 DEF InFound, BeingPurged
<1>6. \A m : isExpired(m, lastCommittedBlock)' <=> isExpired(m, lastCommittedBlock)
  BY <1>1 DEF isExpired, lastCommittedBlock, neverExpires, ExpiringBlock
<1>7. AbovePurges'
  BY <1>1, <1>4 DEF PurgeState, AbovePurges
<1>8. ValueKnown'
  <2> SUFFICES ASSUME NEW k \in Keys, pvt[k] # 0
               PROVE  \/ InData(k, pvt[k])' \/ InFound(k, pvt[k])' \/ BeingPurged(k)'
                      \/ isExpired(pvt[k], lastCommittedBlock)'
    BY <1>1 DEF ValueKnown
  <2>1. CASE pvt[k] = n0
    BY <1>1, <1>2, <1>6, <2>1 DEF isExpired, neverExpires, ExpiringBlock
  <2>2. CASE pvt[k] # n0
    <3>1. InData(k, pvt[k]) => InData(k, pvt[k])'
      BY <1>1, <1>3, <2>2 DEF InData
    <3>2. InFound(k, pvt[k]) => InFound(k, pvt[k])'
      BY <1>1 DEF InFound
    <3>3. isExpired(pvt[k], lastCommittedBlock) => isExpired(pvt[k], lastCommittedBlock)'
      BY <1>1, <1>6 DEF isExpired, neverExpires, ExpiringBlock
    <3> QED
      BY <1>5, <3>1, <3>2, <3>3 DEF PurgeState, ValueKnown
  <2> QED
    BY <2>1, <2>2
<1>9. RawKnown'
  <2>1. \A k : InFound(k, pvt[k]) => InFound(k, pvt[k])'
    BY <1>1 DEF InFound
  <2> QED
    BY <1>1, <1>4, <2>1 DEF PurgeState, RawKnown
<1>10. HaveStored'
  <2>1. ASSUME cpc \in {"pvt", "block", "expiry"}, IsPut(cur.n), NEW k \in cur.have
        PROVE  InData(k, cur.n)'
    <3>1. cur.n # n0
      <4>1. lastCommittedBlock = cur.n /\ lastCommittedBlock \in Nat
        BY <2>1, NoCrashHeights DEF NoPurgeRace
      <4> QED
        BY <1>2, <4>1 DEF isExpired, ExpiringBlock, Blocks
    <3>2. InData(k, cur.n)
      BY <2>1 DEF PurgeState, HaveStored
    <3> QED
      BY <1>1, <1>3, <3>1, <3>2 DEF InData
  <2> QED
    BY <1>1, <1>4, <2>1 DEF HaveStored
<1> QED
  BY <1>7, <1>8, <1>9, <1>10 DEF PurgeState

\* The purger deletes what is below a marker: an older purge has removed it from the state,
\* the purge at hand is about to.
LEMMA PurgeDeleteMarked ==
  ASSUME Base, Base', Markers, PurgeState, NoPurgeRace, DeleteMarked
  PROVE  PurgeState'
<1> USE PvtDataAssumption
<1>1. /\ UNCHANGED <<chain, pvtHt, stHt, blkHt, cur, cpc, rpc, rec, pvt>>
      /\ data' = [n \in DOMAIN data |-> {k \in data[n] : n > purger.markers[k]}]
  BY DEF DeleteMarked
<1>2. ASSUME NEW k \in Keys, NEW m \in Nat \ {0}, InData(k, m), ~InData(k, m)'
      PROVE  /\ m =< reconMarker[k] /\ k \in Purges(reconMarker[k])
             /\ reconMarker[k] \in 1..lastCommittedBlock
  <2>1. ~(m > purger.markers[k])
    BY <1>1, <1>2 DEF InData
  <2>2. purger.markers[k] \in Nat /\ reconMarker[k] \in Nat
    BY MarkersAreNumbers
  <2>3. m =< reconMarker[k] /\ reconMarker[k] # 0
    BY <2>1, <2>2 DEF Markers
  <2>4. k \in Purges(reconMarker[k]) /\ reconMarker[k] < pvtHt /\ pvtHt \in Nat
    BY <2>3 DEF Markers, Base, CommitterOK
  <2> QED
    BY <2>2, <2>3, <2>4 DEF lastCommittedBlock
<1>3. \A n : Purges(n)' = Purges(n) /\ (IsPut(n)' <=> IsPut(n))
  BY <1>1 DEF Purges, Writes, IsPut
<1>4. \A k : BeingPurged(k)' <=> BeingPurged(k)
  BY <1>1, <1>3 DEF BeingPurged
<1>5. \A k : InFound(k, pvt[k])' <=> InFound(k, pvt[k])
  BY <1>1 DEF InFound
<1>6. \A k : isExpired(pvt[k], lastCommittedBlock)' <=> isExpired(pvt[k], lastCommittedBlock)
  BY <1>1 DEF isExpired, lastCommittedBlock, neverExpires, ExpiringBlock
<1>7. AbovePurges'
  BY <1>1, <1>3 DEF PurgeState, AbovePurges
<1>8. ValueKnown'
  <2>1. ASSUME NEW k \in Keys, pvt[k] # 0, InData(k, pvt[k]), ~InData(k, pvt[k])'
        PROVE  BeingPurged(k)
    <3>1. pvt[k] \in Nat \ {0}
      BY <2>1, MarkersAreNumbers
    <3>2. /\ pvt[k] =< reconMarker[k] /\ k \in Purges(reconMarker[k])
          /\ reconMarker[k] \in 1..lastCommittedBlock
      BY <1>1, <1>2, <2>1, <3>1 DEF InData
    <3>3. reconMarker[k] \notin 1..(stHt - 1)
      BY <2>1, <3>1, <3>2 DEF PurgeState, AbovePurges
    <3>4. cpc \in {"pvt", "block", "expiry"} /\ reconMarker[k] = cur.n
      <4>1. /\ lastCommittedBlock = pvtHt - 1 /\ pvtHt \in Nat /\ stHt \in Nat
            /\ cpc \in {"idle", "prepared", "fetched", "applied"} => pvtHt = stHt
            /\ cpc \in {"pvt", "block", "expiry"} => pvtHt = stHt + 1 /\ cur.n = stHt
            /\ cpc \notin {"down", "recover"}
        BY NoCrashHeights DEF NoPurgeRace
      <4>2. cpc \notin {"idle", "prepared", "fetched", "applied"}
        BY <3>2, <3>3, <4>1
      <4>3. cpc \in {"pvt", "block", "expiry"}
        BY <4>1, <4>2 DEF Base, CommitterOK
      <4> QED
        BY <3>2, <3>3, <4>1, <4>3
    <3> QED
      BY <3>2, <3>4 DEF BeingPurged
  <2> QED
    BY <1>1, <1>4, <1>5, <1>6, <2>1 DEF PurgeState, ValueKnown
<1>9. RawKnown'
  BY <1>1, <1>3, <1>5 DEF PurgeState, RawKnown
<1>10. HaveStored'
  <2>1. ASSUME cpc \in {"pvt", "block", "expiry"}, IsPut(cur.n), NEW k \in cur.have
        PROVE  InData(k, cur.n)'
    <3> SUFFICES ASSUME ~InData(k, cur.n)' PROVE FALSE
      OBVIOUS
    <3>1. InData(k, cur.n) /\ k \in Keys /\ cur.n \in Nat \ {0} /\ lastCommittedBlock = cur.n
      <4>1. lastCommittedBlock = cur.n /\ cur.n \in Nat \ {0}
        BY <2>1, NoCrashHeights DEF NoPurgeRace
      <4> QED
        BY <2>1, <4>1 DEF PurgeState, HaveStored, Base, CommitterOK
    <3>2. /\ cur.n =< reconMarker[k] /\ k \in Purges(reconMarker[k])
          /\ reconMarker[k] \in 1..lastCommittedBlock
      BY <1>1, <1>2, <3>1 DEF InData
    <3>3. reconMarker[k] = cur.n
      BY <3>1, <3>2
    <3> QED
      BY <2>1, <3>2, <3>3 DEF IsPut, Purges
  <2> QED
    BY <1>1, <1>3, <2>1 DEF HaveStored
<1> QED
  BY <1>7, <1>8, <1>9, <1>10 DEF PurgeState

\* PurgeInv is inductive, relative to the earlier layers.
LEMMA PurgeStep ==
  ASSUME Base, Base', Accounted, IndexOfData, Markers, ExpiryInv, PurgeInv, [Next]_vars
  PROVE  PurgeInv'
<1> SUFFICES ASSUME NoPurgeRace' PROVE PurgeState'
  BY DEF PurgeInv
<1>1. NoPurgeRace
  <2>1. crashes' = 0 /\ crashes \in Nat /\ raced' \cap {"raw", "prep"} = {}
    BY DEF NoPurgeRace, Base, CommitterOK
  <2>2. crashes' \in {crashes, crashes + 1}
    BY DEF Next, Committer, Preparation, Reconciler, Purger, ElgProcessor,
     ValidateAndPrepare, FetchRawKeys, CommitPvt, AddBlock, UpdateExpiryInfo, ApplyUpdates,
     BlockCommitDone, CommitLostBlock, RetrieveSchedule, PrepareWorkingset, GetMissing,
     ReconcileFails, FetchAndVerify, UpdateExpiryInfoOfOld, ApplyOld, StoreOld, StartPurge,
     PurgeExpiredEntry, ScanMarkers, DeleteMarked, WaitForNotification, StartElg, ConvertBatch,
     Relock, FinishElg, Crash, Rollback, Stop, Open
  <2>3. raced \subseteq raced'
    BY DEF Next, Committer, Preparation, Reconciler, Purger, ElgProcessor,
     ValidateAndPrepare, FetchRawKeys, CommitPvt, AddBlock, UpdateExpiryInfo, ApplyUpdates,
     BlockCommitDone, CommitLostBlock, RetrieveSchedule, PrepareWorkingset, GetMissing,
     ReconcileFails, FetchAndVerify, UpdateExpiryInfoOfOld, ApplyOld, StoreOld, StartPurge,
     PurgeExpiredEntry, ScanMarkers, DeleteMarked, WaitForNotification, StartElg, ConvertBatch,
     Relock, FinishElg, Crash, Rollback, Stop, Open
  <2> QED
    BY <2>1, <2>2, <2>3 DEF NoPurgeRace
<1>2. PurgeState
  BY <1>1 DEF PurgeInv
<1>3. cpc \notin {"down", "recover"} /\ crashes' = 0 /\ crashes = 0 /\ ~isPvtstoreAheadOfBlkstore
  BY <1>1, NoCrashHeights DEF NoPurgeRace
<1>4. CASE \E op \in Ops, got \in BOOLEAN : ValidateAndPrepare(op, got)
  BY <1>1, <1>2, <1>4, PurgeValidateAndPrepare
<1>5. CASE FetchRawKeys
  BY <1>1, <1>2, <1>5, PurgeFetchRawKeys
<1>6. CASE CommitPvt
  BY <1>1, <1>2, <1>6, PurgeCommitPvt
<1>7. CASE ApplyUpdates
  BY <1>1, <1>2, <1>7, PurgeApplyUpdates
<1>8. CASE BlockCommitDone
  BY <1>1, <1>2, <1>8, PurgeBlockCommitDone
<1>9. CASE ApplyOld
  BY <1>1, <1>2, <1>9, PurgeApplyOld
<1>10. CASE StoreOld
  BY <1>1, <1>2, <1>10, PurgeStoreOld
<1>11. CASE PurgeExpiredEntry
  BY <1>1, <1>2, <1>11, PurgePurgeExpired
<1>12. CASE DeleteMarked
  BY <1>1, <1>2, <1>12, PurgeDeleteMarked
<1> DEFINE Same == /\ UNCHANGED <<pvt, stHt, pvtHt, data, chain, cur>>
                   /\ cpc' = cpc \/ {cpc, cpc'} \subseteq {"pvt", "block", "expiry"}
                   /\ rpc' = "applied" <=> rpc = "applied"
                   /\ rpc = "applied" => rec' = rec
<1>13. Same => PurgeState'
  BY <1>2, PurgeSame
<1> HIDE DEF Same
<1>14. CASE AddBlock \/ UpdateExpiryInfo
  <2>1. Same
    BY <1>3, <1>14 DEF Same, AddBlock, UpdateExpiryInfo
  <2> QED
    BY <1>13, <2>1
<1>15. CASE Preparation \/ ElgProcessor \/ UNCHANGED vars
  <2>1. Same
    BY <1>15 DEF Same, Preparation, RetrieveSchedule, PrepareWorkingset, ElgProcessor,
       WaitForNotification, StartElg, ConvertBatch, Relock, FinishElg
  <2> QED
    BY <1>13, <2>1
<1>16. CASE \/ GetMissing(prio) \/ GetMissing(deprio) \/ ReconcileFails
            \/ \E got \in Answers : FetchAndVerify(got)
            \/ UpdateExpiryInfoOfOld
            \/ \E b \in Blocks : StartPurge(b)
            \/ ScanMarkers
  <2>1. Same
    BY <1>16 DEF Same, GetMissing, ReconcileFails, FetchAndVerify, UpdateExpiryInfoOfOld,
       StartPurge, ScanMarkers
  <2> QED
    BY <1>13, <2>1
<1>17. ~(CommitLostBlock \/ Open \/ Crash \/ \E h \in Blocks : Rollback(h))
  BY <1>3 DEF CommitLostBlock, Open, Crash, Rollback, Stop
<1> QED
  BY <1>4, <1>5, <1>6, <1>7, <1>8, <1>9, <1>10, <1>11, <1>12, <1>14, <1>15, <1>16, <1>17
  DEF Next, Committer, Reconciler, Purger

\* A key that was purged is not left in the state DB with an older value, on a peer that has
\* not crashed, unless data was reconciled between the look-up of the raw key and the marker
\* or while keys to expire were prepared.
THEOREM PurgedAway == Spec => []PurgedGone
<1>1. Base /\ Base' /\ Accounted /\ IndexOfData /\ Markers /\ ExpiryInv /\ PurgeInv /\ [Next]_vars => PurgeInv'
  BY PurgeStep
<1>2. ASSUME Base, PurgeInv PROVE PurgedGone
  <2> SUFFICES ASSUME NoPurgeRace, NEW k \in Keys, pvt[k] # 0 PROVE pvt[k] > LastPurge(k)
    BY DEF PurgedGone, PurgedGoneFromState, NoPurgeRace
  <2>1. pvt[k] \in Nat \ {0} /\ stHt \in Nat
    BY <1>2, MarkersAreNumbers DEF Base, CommitterOK
  <2>2. {0} \cup {n \in 1..(stHt - 1) : k \in Purges(n)} \in SUBSET (0..stHt)
    BY <2>1
  <2>3. LastPurge(k) \in {0} \cup {n \in 1..(stHt - 1) : k \in Purges(n)}
    BY <2>1, <2>2, MaxFacts DEF LastPurge
  <2> QED
    BY <1>2, <2>1, <2>3 DEF PurgeInv, PurgeState, AbovePurges
<1> QED
  BY <1>1, <1>2, InitPurge, BaseInvariance, AccountedInvariance, MarkersInvariance,
     ExpiryInvariance, PTL DEF Spec

-----------------------------------------------------------------------------
(* Completeness of the state.  What is stored, has not expired and is served *)
(* is in the state when it is current, and with the committer when its block *)
(* is at hand.  A marker that replaces one the purger is about to remove     *)
(* counts as removed already, for the purger does not look again.            *)

Overwritten(k) == upc = "scanned" /\ purger.markers[k] # 0 /\ purger.markers[k] # marker[k]

Served(n, k) ==
  \/ n > collMarker \/ n > marker[k]
  \/ Overwritten(k) /\ n > purger.markers[k]

\* The purge that replaced the marker is in the state, or at hand.
MarkerBehind ==
  \A k \in Keys : Overwritten(k) =>
    marker[k] < stHt \/ (marker[k] = stHt /\ cpc \in {"pvt", "block", "expiry"})

NothingPrepared == neverExpires => \A k \in Keys : workingset.keys[k] = "no"

BatchCommitted == rpc \in {"updated", "applied"} => \A n \in DOMAIN rec.found : n < stHt

BatchApplied ==
  rpc = "applied" =>
    \A n \in DOMAIN rec.found : \A k \in rec.found[n] : hash[k] = n => pvt[k] = n

StoredApplied ==
  \A n \in DOMAIN data : \A k \in data[n] :
    ~isExpired(n, lastCommittedBlock) /\ Served(n, k) =>
      /\ hash[k] = n => pvt[k] = n
      /\ n = cur.n /\ cpc # "applied" => k \in cur.have

NoReconcileRace == raced \cap {"early", "prep"} = {}

CompleteState == BatchCommitted /\ BatchApplied /\ StoredApplied

CompleteInv == MarkerBehind /\ NothingPrepared /\ (NoReconcileRace => CompleteState)

\* Nothing is stored initially.
LEMMA InitComplete == Init => CompleteInv
<1> SUFFICES ASSUME Init PROVE CompleteInv
  OBVIOUS
<1>1. MarkerBehind
  BY DEF Init, MarkerBehind, Overwritten
<1>2. NothingPrepared
  BY DEF Init, NothingPrepared, NoSet
<1>3. BatchCommitted /\ BatchApplied
  BY DEF Init, BatchCommitted, BatchApplied
<1>4. StoredApplied
  BY DEF Init, StoredApplied, Nothing
<1> QED
  BY <1>1, <1>2, <1>3, <1>4 DEF CompleteInv, CompleteState

\* A collection that never expires has no working set.
LEMMA NothingPreparedStep ==
  ASSUME Base, NothingPrepared, [Next]_vars
  PROVE  NothingPrepared'
<1> SUFFICES ASSUME neverExpires, NEW k \in Keys PROVE workingset'.keys[k] = "no"
  BY DEF NothingPrepared, neverExpires
<1>1. workingset.keys[k] = "no"
  BY DEF NothingPrepared
<1>2. CASE workingset' = NoSet
  BY <1>2 DEF NoSet
<1>3. CASE RetrieveSchedule
  <2>1. workingset' = NoSet
    BY <1>3 DEF RetrieveSchedule
  <2> QED
    BY <1>2, <2>1
<1>4. CASE PrepareWorkingset
  BY <1>4 DEF PrepareWorkingset, Base, PrepOK
<1>5. CASE UpdateExpiryInfoOfOld
  <2>1. workingset' = [workingset EXCEPT !.keys = [j \in Keys |->
                         IF j \notin DOMAIN NotStale THEN workingset.keys[j]
                         ELSE IF workingset.keys[j] \in {"no", "keyOnly"} THEN "no" ELSE "raw"]]
    BY <1>5 DEF UpdateExpiryInfoOfOld
  <2>2. workingset'.keys = [j \in Keys |->
                         IF j \notin DOMAIN NotStale THEN workingset.keys[j]
                         ELSE IF workingset.keys[j] \in {"no", "keyOnly"} THEN "no" ELSE "raw"]
    BY <2>1 DEF Base, PrepOK
  <2> QED
    BY <1>1, <2>2
<1>6. CASE UNCHANGED workingset
  BY <1>1, <1>6
<1> QED
  BY <1>2, <1>3, <1>4, <1>5, <1>6 DEF Next, Committer, Preparation, Reconciler, Purger,
     ElgProcessor,
     ValidateAndPrepare, FetchRawKeys, CommitPvt, AddBlock, UpdateExpiryInfo, ApplyUpdates,
     BlockCommitDone, CommitLostBlock, GetMissing, ReconcileFails, FetchAndVerify, ApplyOld,
     StoreOld, StartPurge, PurgeExpiredEntry, ScanMarkers, DeleteMarked, WaitForNotification,
     StartElg, ConvertBatch, Relock, FinishElg, Crash, Rollback, Stop, Open

\* A marker can be replaced only by the block at hand.
LEMMA MarkerBehindStep ==
  ASSUME Base, Base', MarkerBehind, [Next]_vars
  PROVE  MarkerBehind'
<1> SUFFICES ASSUME NEW k \in Keys, Overwritten(k)'
             PROVE  marker'[k] < stHt' \/ (marker'[k] = stHt' /\ cpc' \in {"pvt", "block", "expiry"})
  BY DEF MarkerBehind
<1>1. marker[k] \in Nat /\ stHt \in Nat
  BY MarkersAreNumbers DEF Base, CommitterOK
<1>2. CASE CommitPvt
  <2>1. CASE k \in Purges(cur.n)
    BY <1>2, <2>1, CommitPvtFacts, CommitPvtMarkers DEF CommitPvt
  <2>2. CASE k \notin Purges(cur.n)
    <3>1. marker'[k] = marker[k] /\ purger'.markers = purger.markers /\ UNCHANGED <<upc, stHt>> /\ cpc = "fetched"
      BY <1>2, <2>2, CommitPvtFacts, CommitPvtMarkers DEF CommitPvt
    <3>2. Overwritten(k)
      BY <3>1 DEF Overwritten
    <3> QED
      BY <3>1, <3>2 DEF MarkerBehind
  <2> QED
    BY <2>1, <2>2
<1>3. CASE ApplyUpdates
  <2>1. UNCHANGED <<marker, upc, purger>> /\ stHt' = stHt + 1
    BY <1>3, ApplyUpdatesFacts
  <2>2. Overwritten(k)
    BY <2>1 DEF Overwritten
  <2> QED
    BY <1>1, <2>1, <2>2 DEF MarkerBehind
<1>4. CASE Crash \/ \E h \in Blocks : Rollback(h)
  BY <1>4 DEF Crash, Rollback, Stop, Overwritten
<1>5. CASE DeleteMarked
  BY <1>5 DEF DeleteMarked, Overwritten
<1>6. CASE ScanMarkers
  <2>1. purger'.markers = marker /\ marker' = marker
    BY <1>6 DEF ScanMarkers, Base, PurgerOK
  <2> QED
    BY <2>1 DEF Overwritten
<1>7. CASE \E b \in Blocks : StartPurge(b)
  BY <1>7 DEF StartPurge, Overwritten
<1>8. CASE /\ UNCHANGED <<marker, upc, purger, stHt>>
           /\ cpc \in {"pvt", "block", "expiry"} => cpc' \in {"pvt", "block", "expiry"}
  <2>1. Overwritten(k)
    BY <1>8 DEF Overwritten
  <2> QED
    BY <1>8, <2>1 DEF MarkerBehind
<1> QED
  BY <1>2, <1>3, <1>4, <1>5, <1>6, <1>7, <1>8, ZenonT(60) DEF Next, Committer, Preparation, Reconciler, Purger,
     ElgProcessor,
     ValidateAndPrepare, FetchRawKeys, AddBlock, UpdateExpiryInfo,
     BlockCommitDone, CommitLostBlock, RetrieveSchedule, PrepareWorkingset, GetMissing,
     ReconcileFails, FetchAndVerify, UpdateExpiryInfoOfOld, ApplyOld, StoreOld,
     PurgeExpiredEntry, WaitForNotification, StartElg, ConvertBatch,
     Relock, FinishElg, Open

\* Steps after which less is stored, or less of it is served.
LEMMA StoredSame ==
  ASSUME Base, Base', StoredApplied, UNCHANGED <<hash, pvt>>, pvtHt' >= pvtHt,
         \A n \in DOMAIN data' : \A k \in data'[n] :
           n \in DOMAIN data /\ k \in data[n] /\ (Served(n, k)' => Served(n, k)),
         \/ cur'.n \notin DOMAIN data'
         \/ cur'.n = cur.n /\ cur'.have = cur.have /\ (cpc = "applied" => cpc' = "applied")
  PROVE  StoredApplied'
<1> SUFFICES ASSUME NEW n \in DOMAIN data', NEW k \in data'[n], ~isExpired(n, lastCommittedBlock)',
                    Served(n, k)'
             PROVE  /\ hash'[k] = n => pvt'[k] = n
                    /\ n = cur'.n /\ cpc' # "applied" => k \in cur'.have
  BY DEF StoredApplied
<1>1. n \in DOMAIN data /\ k \in data[n] /\ Served(n, k)
  OBVIOUS
<1>2. ~isExpired(n, lastCommittedBlock)
  <2>1. n \in Nat /\ BTL \in Nat /\ pvtHt \in Nat /\ pvtHt' \in Nat
    BY <1>1, PvtDataAssumption DEF Base, StoreOK, CommitterOK, lastCommittedBlock
  <2> QED
    BY <2>1 DEF isExpired, lastCommittedBlock, neverExpires, ExpiringBlock
<1>3. /\ hash[k] = n => pvt[k] = n
      /\ n = cur.n /\ cpc # "applied" => k \in cur.have
  BY <1>1, <1>2 DEF StoredApplied
<1> QED
  BY <1>3

\* With the same markers and the same scan, or none, no more is served.
LEMMA ServedSame ==
  ASSUME Base, UNCHANGED <<marker, collMarker>>,
         (upc' = upc /\ purger'.markers = purger.markers) \/ upc' # "scanned",
         NEW n, NEW k, Served(n, k)'
  PROVE  Served(n, k)
BY DEF Served, Overwritten

\* What a block that is committed again gets from the store is all that is served.
LEMMA RemovePurgedServed ==
  ASSUME Base, MarkerBehind, cpc \in {"idle", "recover"}, stHt \in DOMAIN data,
         ~isExpired(stHt, lastCommittedBlock), NEW k \in data[stHt], Served(stHt, k)
  PROVE  k \in GetPvtDataByBlockNum(stHt)
<1>1. k \in Keys /\ stHt \in Nat
  BY WritesType DEF Base, StoreOK, CommitterOK, ChainOK, lastCommittedBlock
<1>2. marker[k] \in Nat /\ collMarker \in Nat
  BY <1>1, MarkersAreNumbers
<1>3. stHt > collMarker \/ stHt > marker[k]
  BY <1>1, <1>2 DEF Served, MarkerBehind
<1> QED
  BY <1>1, <1>3 DEF GetPvtDataByBlockNum, RemovePurged

\* What is stored or in the batch is of blocks and keys.
LEMMA StoredFacts ==
  ASSUME Base
  PROVE  /\ \A n \in DOMAIN data : n \in Nat \ {0} /\ \A k \in data[n] : k \in Keys
         /\ \A n \in DOMAIN rec.found : /\ n \in Nat \ {0} /\ rec.found[n] \subseteq Writes(n)
                                        /\ \A k \in rec.found[n] : k \in Keys
<1>1. lastCommittedBlock \in Nat /\ lastCommittedBlock =< Len(chain) /\ Len(chain) \in Nat
  BY DEF Base, CommitterOK, ChainOK, lastCommittedBlock
<1>2. \A n \in 1..lastCommittedBlock : n \in Nat \ {0} /\ n \in 1..Len(chain)
  BY <1>1
<1>3. \A n \in 1..lastCommittedBlock : Writes(n) \subseteq Keys
  BY <1>2, WritesType DEF Base
<1>4. \A n \in DOMAIN data : n \in 1..lastCommittedBlock /\ data[n] \subseteq Writes(n)
  BY DEF Base, StoreOK
<1>5. \A n \in DOMAIN rec.found : n \in 1..lastCommittedBlock /\ rec.found[n] \subseteq Writes(n)
  BY DEF Base, ReconcilerOK
<1> QED
  BY <1>2, <1>3, <1>4, <1>5

\* A block the store has already is committed with all that is served of it.
LEMMA CompleteValidateAndPrepare ==
  ASSUME Base, Base', MarkerBehind, CompleteState, NEW op \in Ops, NEW got \in BOOLEAN,
         ValidateAndPrepare(op, got)
  PROVE  CompleteState'
<1>1. /\ cpc = "idle" /\ cpc' \in {"prepared", "fetched"} /\ rpc' = rpc /\ rec' = rec
      /\ UNCHANGED <<hash, pvt, data, marker, collMarker, upc, purger, pvtHt, stHt>>
      /\ cur'.n = blkHt /\ stHt = blkHt /\ pvtHt \in Nat
      /\ isPvtstoreAheadOfBlkstore => cur'.have = GetPvtDataByBlockNum(blkHt)
      /\ ~isPvtstoreAheadOfBlkstore => pvtHt = blkHt
  BY DEF ValidateAndPrepare, Base, CommitterOK, NoBlock
<1>2. BatchCommitted' /\ BatchApplied'
  BY <1>1 DEF CompleteState, BatchCommitted, BatchApplied
<1>3. \A n, k : Served(n, k)' => Served(n, k)
  BY <1>1, ServedSame
<1>4. CASE ~isPvtstoreAheadOfBlkstore
  <2>1. cur'.n \notin DOMAIN data'
    BY <1>1, <1>4 DEF Base, StoreOK, lastCommittedBlock
  <2>2. StoredApplied'
    BY <1>1, <1>3, <2>1, StoredSame DEF CompleteState
  <2> QED
    BY <1>2, <2>2 DEF CompleteState
<1>5. CASE isPvtstoreAheadOfBlkstore
  <2> SUFFICES ASSUME NEW n \in DOMAIN data, NEW k \in data[n], ~isExpired(n, lastCommittedBlock)',
                      Served(n, k)'
               PROVE  /\ hash[k] = n => pvt[k] = n
                      /\ n = cur'.n => k \in cur'.have
    BY <1>1, <1>2 DEF CompleteState, StoredApplied
  <2>1. ~isExpired(n, lastCommittedBlock) /\ Served(n, k)
    BY <1>1, <1>3 DEF isExpired, lastCommittedBlock, neverExpires, ExpiringBlock
  <2>2. n = stHt => k \in GetPvtDataByBlockNum(stHt)
    BY <1>1, <2>1, RemovePurgedServed
  <2> QED
    BY <1>1, <1>5, <2>1, <2>2 DEF CompleteState, StoredApplied
<1> QED
  BY <1>4, <1>5

\* The same for a block that is recovered.
LEMMA CompleteCommitLostBlock ==
  ASSUME Base, Base', MarkerBehind, CompleteState, CommitLostBlock
  PROVE  CompleteState'
<1>1. /\ cpc = "recover" /\ cpc' = "block" /\ rpc' = rpc /\ rec' = rec
      /\ UNCHANGED <<hash, pvt, data, marker, collMarker, upc, purger, pvtHt, stHt>>
      /\ cur'.n = stHt /\ cur'.have = GetPvtDataByBlockNum(stHt)
  BY DEF CommitLostBlock, NoBlock
<1>2. BatchCommitted' /\ BatchApplied'
  BY <1>1 DEF CompleteState, BatchCommitted, BatchApplied
<1>3. \A n, k : Served(n, k)' => Served(n, k)
  BY <1>1, ServedSame
<1> SUFFICES ASSUME NEW n \in DOMAIN data, NEW k \in data[n], ~isExpired(n, lastCommittedBlock)',
                    Served(n, k)'
             PROVE  /\ hash[k] = n => pvt[k] = n
                    /\ n = cur'.n => k \in cur'.have
  BY <1>1, <1>2 DEF CompleteState, StoredApplied
<1>4. ~isExpired(n, lastCommittedBlock) /\ Served(n, k)
  BY <1>1, <1>3 DEF isExpired, lastCommittedBlock, neverExpires, ExpiringBlock
<1>5. n = stHt => k \in GetPvtDataByBlockNum(stHt)
  BY <1>1, <1>4, RemovePurgedServed
<1> QED
  BY <1>1, <1>4, <1>5 DEF CompleteState, StoredApplied

\* Private data is stored with its block, and a marker hides what is older.
LEMMA CompleteCommitPvt ==
  ASSUME Base, Base', Versions, CompleteState, CommitPvt
  PROVE  CompleteState'
<1> USE PvtDataAssumption
<1>1. /\ cpc = "fetched" /\ cpc' = "pvt" /\ UNCHANGED <<rpc, rec, hash, pvt, stHt, cur, upc>>
      /\ pvtHt = cur.n /\ pvtHt' = cur.n + 1 /\ stHt = cur.n /\ cur.n \in Nat
  BY CommitPvtFacts DEF CommitPvt
<1>2. BatchCommitted' /\ BatchApplied'
  BY <1>1 DEF CompleteState, BatchCommitted, BatchApplied
<1> SUFFICES ASSUME NEW n \in DOMAIN data', NEW k \in data'[n], ~isExpired(n, lastCommittedBlock)',
                    Served(n, k)'
             PROVE  /\ hash[k] = n => pvt[k] = n
                    /\ n = cur.n => k \in cur.have
  BY <1>1, <1>2 DEF CompleteState, StoredApplied
<1>3. n \in Nat /\ n =< cur.n /\ k \in Keys
  <2>1. n \in 1..lastCommittedBlock' /\ lastCommittedBlock' = cur.n /\ data'[n] \subseteq Writes(n)'
    BY <1>1 DEF Base, StoreOK, lastCommittedBlock
  <2>2. n \in 1..Len(chain') /\ ChainOK'
    BY <2>1, SMTT(30) DEF Base, CommitterOK, ChainOK, lastCommittedBlock
  <2>3. Writes(n)' \subseteq Keys
    <3>1. n \in 1..Len(chain) /\ chain' = chain
      BY <2>2, CommitPvtFacts
    <3> QED
      BY <3>1, WritesType DEF Base, Writes
  <2> QED
    BY <1>1, <2>1, <2>3
<1>4. hash[k] < cur.n /\ hash[k] \in Nat /\ marker[k] \in Nat /\ purger.markers[k] \in Nat /\ collMarker \in Nat
  BY <1>1, <1>3, MarkersAreNumbers DEF Versions
<1>5. CASE n = cur.n
  <2>1. k \in cur.have
    BY <1>5, CommitPvtFacts
  <2> QED
    BY <1>4, <1>5, <2>1
<1>6. CASE n # cur.n
  <2>1. n \in DOMAIN data /\ k \in data[n]
    BY <1>6, CommitPvtFacts
  <2>2. ~isExpired(n, lastCommittedBlock)
    BY <1>1, <1>3 DEF isExpired, lastCommittedBlock, neverExpires, ExpiringBlock
  <2>3. Served(n, k)
    <3>1. CASE k \in Purges(cur.n)
      <4>1. marker'[k] = cur.n /\ collMarker' = cur.n /\ purger'.markers[k] = purger.markers[k]
        BY <1>3, <3>1, CommitPvtMarkers
      <4>2. upc = "scanned" /\ purger.markers[k] # 0 /\ n > purger.markers[k]
        BY <1>1, <1>3, <1>6, <4>1 DEF Served, Overwritten
      <4> QED
        BY <4>2 DEF Served, Overwritten
    <3>2. CASE k \notin Purges(cur.n)
      <4>1. marker'[k] = marker[k] /\ collMarker' \in {collMarker, cur.n} /\ purger'.markers[k] = purger.markers[k]
        BY <1>3, <3>2, CommitPvtMarkers
      <4> QED
        BY <1>1, <1>3, <1>6, <4>1 DEF Served, Overwritten
    <3> QED
      BY <3>1, <3>2
  <2> QED
    BY <1>1, <1>6, <2>1, <2>2, <2>3 DEF CompleteState, StoredApplied
<1> QED
  BY <1>5, <1>6

\* A current value is neither removed as expired nor left out of the batch.
LEMMA CompleteApplyUpdates ==
  ASSUME Base, Base', Versions, ExpiryInv, NothingPrepared, NoReconcileRace, CompleteState,
         ApplyUpdates
  PROVE  CompleteState'
<1> USE PvtDataAssumption
<1>1. /\ cpc = "expiry" /\ cpc' = "applied" /\ UNCHANGED <<data, pvtHt, rpc, rec, cur, marker, collMarker, upc, purger>>
      /\ cur.n = stHt /\ stHt' = stHt + 1 /\ stHt \in Nat /\ stHt > 0 /\ rpc # "updated"
  BY ApplyUpdatesFacts
<1>2. ASSUME NEW k \in Keys, NEW n \in Nat, n # 0, n # stHt, hash[k] = n => pvt[k] = n, hash'[k] = n
      PROVE  pvt'[k] = n
  <2>1. k \notin Writes(stHt) /\ hash[k] = n /\ pvt[k] = n
    BY <1>2, ApplyUpdatesFacts
  <2>2. workingset.keys[k] # "keyOnly"
    <3>1. CASE neverExpires
      BY <3>1 DEF NothingPrepared
    <3>2. CASE ~neverExpires
      <4>1. Prepared(k)
        BY <3>2, ApplyUpdatesFacts DEF ExpiryInv, Preparing, NoReconcileRace
      <4> QED
        BY <2>1, <4>1 DEF Prepared
    <3> QED
      BY <3>1, <3>2
  <2>3. workingset.keys[k] # "raw"
    BY <1>2, <2>1, ApplyUpdatesFacts
  <2>4. k \notin cur.have \cup cur.raw
    BY <2>1, ApplyUpdatesFacts
  <2> QED
    BY <2>1, <2>2, <2>3, <2>4, ApplyUpdatesFacts
<1>3. BatchCommitted'
  <2>1. \A n \in DOMAIN rec.found : n \in Nat
    BY StoredFacts
  <2>2. rpc = "applied" => \A n \in DOMAIN rec.found : n < stHt
    BY DEF CompleteState, BatchCommitted
  <2>3. rpc = "applied" => \A n \in DOMAIN rec.found : n < stHt + 1
    BY <1>1, <2>1, <2>2
  <2> QED
    BY <1>1, <2>3 DEF BatchCommitted
<1>4. BatchApplied'
  <2> SUFFICES ASSUME rpc = "applied", NEW n \in DOMAIN rec.found, NEW k \in rec.found[n],
                      hash'[k] = n
               PROVE  pvt'[k] = n
    BY <1>1 DEF BatchApplied
  <2>1. n \in Nat /\ n # 0 /\ n < stHt /\ k \in Keys
    BY StoredFacts DEF CompleteState, BatchCommitted
  <2>2. hash[k] = n => pvt[k] = n
    BY DEF CompleteState, BatchApplied
  <2> QED
    BY <1>1, <1>2, <2>1, <2>2
<1>5. StoredApplied'
  <2> SUFFICES ASSUME NEW n \in DOMAIN data, NEW k \in data[n], ~isExpired(n, lastCommittedBlock)',
                      Served(n, k)', hash'[k] = n
               PROVE  pvt'[k] = n
    BY <1>1 DEF StoredApplied
  <2>1. ~isExpired(n, lastCommittedBlock) /\ Served(n, k)
    BY <1>1, ServedSame DEF isExpired, lastCommittedBlock, neverExpires, ExpiringBlock
  <2>2. /\ hash[k] = n => pvt[k] = n
        /\ n = stHt => k \in cur.have
    BY <1>1, <2>1 DEF CompleteState, StoredApplied
  <2>3. n \in Nat /\ n # 0 /\ k \in Keys
    BY StoredFacts
  <2>4. CASE n = stHt
    <3>1. k \in cur.have /\ k \in Writes(stHt)
      BY <2>2, <2>4, ApplyUpdatesFacts
    <3>2. IsPut(stHt)
      BY <1>1, <2>3, <2>4, <3>1, ApplyUpdatesFacts
    <3> QED
      BY <2>3, <2>4, <3>1, <3>2, ApplyUpdatesFacts
  <2>5. CASE n # stHt
    BY <1>2, <2>2, <2>3, <2>5
  <2> QED
    BY <2>4, <2>5
<1> QED
  BY <1>3, <1>4, <1>5 DEF CompleteState

\* Every current value of the batch is applied.
LEMMA CompleteApplyOld ==
  ASSUME Base, Base', Versions, CompleteState, ApplyOld
  PROVE  CompleteState'
<1> USE PvtDataAssumption
<1>1. /\ rpc = "updated" /\ rpc' = "applied"
      /\ UNCHANGED <<data, pvtHt, stHt, rec, cur, cpc, hash, chain, marker, collMarker, upc, purger>>
  BY ApplyOldFacts
<1>2. BatchCommitted'
  BY <1>1 DEF CompleteState, BatchCommitted
<1>3. ASSUME NEW k \in DOMAIN NotStale, hash[k] # 0 PROVE pvt'[k] = hash[k]
  <2>1. k \in Keys /\ NotStale[k] = hash[k]
    BY <1>3, NotStaleFacts
  <2>2. IsPut(hash[k])
    BY <1>3, <2>1 DEF Versions
  <2> QED
    BY <1>3, <2>1, <2>2, ApplyOldFacts
<1>4. BatchApplied'
  <2> SUFFICES ASSUME NEW n \in DOMAIN rec.found, NEW k \in rec.found[n], hash[k] = n
               PROVE  pvt'[k] = n
    BY <1>1 DEF BatchApplied
  <2>1. \A m \in DOMAIN rec.found : m \in Nat \ {0} /\ rec.found[m] \subseteq Writes(m) /\ m < stHt
    BY <1>1, StoredFacts DEF CompleteState, BatchCommitted
  <2>2. k \in Keys
    BY StoredFacts
  <2>3. \A m \in (n + 1)..(stHt - 1) : k \notin Writes(m)
    BY <2>1, <2>2 DEF Versions
  <2>4. \A m \in DOMAIN rec.found : k \in rec.found[m] => m =< n
    <3> SUFFICES ASSUME NEW m \in DOMAIN rec.found, k \in rec.found[m], ~(m =< n) PROVE FALSE
      OBVIOUS
    <3>1. m \in (n + 1)..(stHt - 1)
      <4>1. stHt \in Nat
        BY DEF Base, CommitterOK
      <4> QED
        BY <2>1, <4>1
    <3> QED
      BY <2>1, <2>3, <3>1
  <2>5. k \in DOMAIN NotStale
    BY <2>2, <2>4, NotStaleFacts
  <2> QED
    BY <1>3, <2>1, <2>5
<1>5. StoredApplied'
  <2> SUFFICES ASSUME NEW n \in DOMAIN data, NEW k \in data[n], ~isExpired(n, lastCommittedBlock)',
                      Served(n, k)'
               PROVE  /\ hash[k] = n => pvt'[k] = n
                      /\ n = cur.n /\ cpc # "applied" => k \in cur.have
    BY <1>1 DEF StoredApplied
  <2>1. ~isExpired(n, lastCommittedBlock) /\ Served(n, k)
    BY <1>1, ServedSame DEF isExpired, lastCommittedBlock, neverExpires, ExpiringBlock
  <2>2. /\ hash[k] = n => pvt[k] = n
        /\ n = cur.n /\ cpc # "applied" => k \in cur.have
    BY <2>1 DEF CompleteState, StoredApplied
  <2>3. n # 0 /\ k \in Keys
    BY StoredFacts
  <2>4. k \notin DOMAIN NotStale => pvt'[k] = pvt[k]
    BY <2>3, ApplyOldFacts
  <2> QED
    BY <1>3, <2>2, <2>3, <2>4
<1> QED
  BY <1>2, <1>4, <1>5 DEF CompleteState

\* What is stored of the batch was applied before.
LEMMA CompleteStoreOld ==
  ASSUME Base, Base', CompleteState, StoreOld
  PROVE  CompleteState'
<1> DEFINE keep == {n \in DOMAIN rec.found : Tracked(n)}
<1>1. /\ DOMAIN data' = keep \cup DOMAIN data
      /\ \A n \in DOMAIN data' : data'[n] = IF n \in keep THEN rec.found[n] ELSE data[n]
      /\ rpc = "applied" /\ rpc' = "idle"
      /\ UNCHANGED <<pvtHt, stHt, cur, cpc>>
  BY StoreOldFacts
<1>2. UNCHANGED <<hash, pvt, marker, collMarker, upc, purger>>
  BY DEF StoreOld
<1>3. BatchCommitted' /\ BatchApplied'
  BY <1>1 DEF BatchCommitted, BatchApplied
<1>4. StoredApplied'
  <2> SUFFICES ASSUME NEW n \in DOMAIN data', NEW k \in data'[n],
                      ~isExpired(n, lastCommittedBlock)',
                      Served(n, k)'
               PROVE  /\ hash[k] = n => pvt[k] = n
                      /\ n = cur.n /\ cpc # "applied" => k \in cur.have
    BY <1>1, <1>2 DEF StoredApplied
  <2>1. CASE n \in keep
    <3>1. n \in DOMAIN rec.found /\ k \in rec.found[n]
      BY <1>1, <2>1
    <3>2. n < stHt /\ n \in Nat \ {0}
      BY <1>1, <3>1, StoredFacts DEF CompleteState, BatchCommitted
    <3>3. cpc = "applied" \/ n # cur.n
      BY <3>2 DEF Base, CommitterOK, NoBlock
    <3> QED
      BY <1>1, <3>1, <3>3 DEF CompleteState, BatchApplied
  <2>2. CASE n \notin keep
    <3>1. n \in DOMAIN data /\ k \in data[n]
      BY <1>1, <2>2
    <3>2. ~isExpired(n, lastCommittedBlock) /\ Served(n, k)
      BY <1>1, <1>2, ServedSame DEF isExpired, lastCommittedBlock, neverExpires, ExpiringBlock
    <3> QED
      BY <3>1, <3>2 DEF CompleteState, StoredApplied
  <2> QED
    BY <2>1, <2>2
<1> QED
  BY <1>3, <1>4 DEF CompleteState

\* A key that is still stored when its marker is removed was served before.
LEMMA CompleteDeleteMarked ==
  ASSUME Base, Base', CompleteState, DeleteMarked
  PROVE  CompleteState'
<1>1. /\ UNCHANGED <<pvtHt, stHt, cur, cpc, hash, pvt, rpc, rec, collMarker>>
      /\ data' = [n \in DOMAIN data |-> {k \in data[n] : n > purger.markers[k]}]
      /\ marker' = [k \in Keys |-> IF purger.markers[k] # 0 THEN 0 ELSE marker[k]]
      /\ upc = "scanned" /\ upc' = "idle"
  BY DEF DeleteMarked
<1>2. BatchCommitted' /\ BatchApplied'
  BY <1>1 DEF CompleteState, BatchCommitted, BatchApplied
<1>3. ASSUME NEW n \in DOMAIN data', NEW k \in data'[n]
      PROVE  n \in DOMAIN data /\ k \in data[n] /\ (Served(n, k)' => Served(n, k))
  <2>1. n \in DOMAIN data /\ k \in data[n] /\ n > purger.markers[k]
    BY <1>1
  <2>2. k \in Keys
    BY <2>1, StoredFacts
  <2>3. CASE purger.markers[k] # 0
    BY <1>1, <2>1, <2>3 DEF Served, Overwritten
  <2>4. CASE purger.markers[k] = 0
    BY <1>1, <2>1, <2>2, <2>4 DEF Served, Overwritten
  <2> QED
    BY <2>1, <2>3, <2>4
<1>4. pvtHt \in Nat
  BY DEF Base, CommitterOK
<1>5. StoredApplied'
  BY <1>1, <1>3, <1>4, StoredSame DEF CompleteState
<1> QED
  BY <1>2, <1>5 DEF CompleteState

\* A crash ends the scan of the purger: the replaced markers count again.
LEMMA CompleteStop ==
  ASSUME Base, Base', CompleteState, Crash \/ \E h \in Blocks : Rollback(h)
  PROVE  CompleteState'
<1>1. /\ rpc' = "idle" /\ upc' = "idle" /\ cur' = NoBlock
      /\ UNCHANGED <<data, marker, collMarker, pvtHt>>
  BY DEF Crash, Rollback, Stop
<1>2. BatchCommitted' /\ BatchApplied'
  BY <1>1 DEF BatchCommitted, BatchApplied
<1>3. 0 \notin DOMAIN data /\ cur'.n = 0 /\ pvtHt \in Nat
  BY <1>1, StoredFacts DEF NoBlock, Base, CommitterOK
<1>4. \A n, k : Served(n, k)' => Served(n, k)
  BY <1>1, ServedSame
<1>5. CASE Crash
  <2>1. UNCHANGED <<hash, pvt>>
    BY <1>5 DEF Crash
  <2>2. StoredApplied'
    BY <1>1, <1>3, <1>4, <2>1, StoredSame DEF CompleteState
  <2> QED
    BY <1>2, <2>2 DEF CompleteState
<1>6. CASE \E h \in Blocks : Rollback(h)
  <2>1. \A k \in Keys : hash'[k] = 0
    BY <1>6 DEF Rollback
  <2>2. StoredApplied'
    BY <1>1, <1>3, <2>1, StoredFacts DEF StoredApplied
  <2> QED
    BY <1>2, <2>2 DEF CompleteState
<1> QED
  BY <1>5, <1>6

\* Steps that leave the state, the markers and the block at hand, or put it away.
LEMMA CompleteSame ==
  ASSUME Base, Base', CompleteState, UNCHANGED <<hash, pvt, stHt, pvtHt, marker, collMarker>>,
         \A n \in DOMAIN data' : n \in DOMAIN data /\ data'[n] = data[n],
         (upc' = upc /\ purger'.markers = purger.markers) \/ upc' # "scanned",
         \/ cur'.n = cur.n /\ cur'.have = cur.have /\ (cpc = "applied" => cpc' = "applied")
         \/ cur'.n = 0,
         \/ rpc' \notin {"updated", "applied"}
         \/ rpc' = rpc /\ rec' = rec
  PROVE  CompleteState'
<1>1. BatchCommitted' /\ BatchApplied'
  BY DEF CompleteState, BatchCommitted, BatchApplied
<1>2. 0 \notin DOMAIN data' /\ pvtHt \in Nat
  BY StoredFacts DEF Base, CommitterOK
<1>3. \A n, k : Served(n, k)' => Served(n, k)
  BY ServedSame
<1>4. StoredApplied'
  BY <1>2, <1>3, StoredSame DEF CompleteState
<1> QED
  BY <1>1, <1>4 DEF CompleteState

\* CompleteInv is inductive, relative to the earlier layers.
LEMMA CompleteStep ==
  ASSUME Base, Base', Versions, ExpiryInv, CompleteInv, [Next]_vars
  PROVE  CompleteInv'
<1>1. MarkerBehind /\ MarkerBehind' /\ NothingPrepared /\ NothingPrepared'
  BY MarkerBehindStep, NothingPreparedStep DEF CompleteInv
<1> SUFFICES ASSUME NoReconcileRace' PROVE CompleteState'
  BY <1>1 DEF CompleteInv
<1>2. NoReconcileRace
  <2>1. raced \subseteq raced'
    BY DEF Next, Committer, Preparation, Reconciler, Purger, ElgProcessor,
     ValidateAndPrepare, FetchRawKeys, CommitPvt, AddBlock, UpdateExpiryInfo, ApplyUpdates,
     BlockCommitDone, CommitLostBlock, RetrieveSchedule, PrepareWorkingset, GetMissing,
     ReconcileFails, FetchAndVerify, UpdateExpiryInfoOfOld, ApplyOld, StoreOld, StartPurge,
     PurgeExpiredEntry, ScanMarkers, DeleteMarked, WaitForNotification, StartElg, ConvertBatch,
     Relock, FinishElg, Crash, Rollback, Stop, Open
  <2> QED
    BY <2>1 DEF NoReconcileRace
<1>3. CompleteState
  BY <1>2 DEF CompleteInv
<1>4. CASE \E op \in Ops, got \in BOOLEAN : ValidateAndPrepare(op, got)
  BY <1>1, <1>3, <1>4, CompleteValidateAndPrepare
<1>5. CASE CommitLostBlock
  BY <1>1, <1>3, <1>5, CompleteCommitLostBlock
<1>6. CASE CommitPvt
  BY <1>3, <1>6, CompleteCommitPvt
<1>7. CASE ApplyUpdates
  BY <1>1, <1>2, <1>3, <1>7, CompleteApplyUpdates
<1>8. CASE ApplyOld
  BY <1>3, <1>8, CompleteApplyOld
<1>9. CASE StoreOld
  BY <1>3, <1>9, CompleteStoreOld
<1>10. CASE DeleteMarked
  BY <1>3, <1>10, CompleteDeleteMarked
<1>11. CASE Crash \/ \E h \in Blocks : Rollback(h)
  BY <1>3, <1>11, CompleteStop
<1>12. CASE UpdateExpiryInfoOfOld
  <2>1. /\ UNCHANGED <<hash, pvt, stHt, pvtHt, marker, collMarker, data, upc, purger, cur, cpc, rec>>
        /\ rpc' = "updated"
    BY <1>12 DEF UpdateExpiryInfoOfOld
  <2>2. "early" \notin raced'
    BY DEF NoReconcileRace
  <2>3. ~ \E n \in DOMAIN rec.found : n >= stHt
    BY <1>12, <2>2 DEF UpdateExpiryInfoOfOld
  <2>4. BatchCommitted'
    <3>1. \A n \in DOMAIN rec.found : n \in Nat
      BY StoredFacts
    <3>2. stHt \in Nat
      BY DEF Base, CommitterOK
    <3>3. \A n \in DOMAIN rec.found : n < stHt
      BY <2>3, <3>1, <3>2
    <3> QED
      BY <2>1, <3>3 DEF BatchCommitted
  <2>5. BatchApplied'
    BY <2>1 DEF BatchApplied
  <2>6. \A n, k : Served(n, k)' => Served(n, k)
    BY <2>1, ServedSame
  <2>7. StoredApplied'
    BY <1>3, <2>1, <2>6 DEF CompleteState, StoredApplied, isExpired, lastCommittedBlock,
       neverExpires, ExpiringBlock
  <2> QED
    BY <2>4, <2>5, <2>7 DEF CompleteState
<1> DEFINE Same ==
      /\ UNCHANGED <<hash, pvt, stHt, pvtHt, marker, collMarker>>
      /\ \A n \in DOMAIN data' : n \in DOMAIN data /\ data'[n] = data[n]
      /\ (upc' = upc /\ purger'.markers = purger.markers) \/ upc' # "scanned"
      /\ \/ cur'.n = cur.n /\ cur'.have = cur.have /\ (cpc = "applied" => cpc' = "applied")
         \/ cur'.n = 0
      /\ \/ rpc' \notin {"updated", "applied"}
         \/ rpc' = rpc /\ rec' = rec
<1>13. Same => CompleteState'
  BY <1>3, CompleteSame
<1> HIDE DEF Same
<1>14. CASE FetchRawKeys \/ AddBlock \/ UpdateExpiryInfo \/ BlockCommitDone
  <2>1. Same
    BY <1>14 DEF Same, FetchRawKeys, AddBlock, UpdateExpiryInfo, BlockCommitDone, NoBlock, Base,
       CommitterOK
  <2> QED
    BY <1>13, <2>1
<1>15. CASE Preparation \/ ElgProcessor \/ UNCHANGED vars
  <2>1. Same
    BY <1>15 DEF Same, Preparation, RetrieveSchedule, PrepareWorkingset, ElgProcessor,
       WaitForNotification, StartElg, ConvertBatch, Relock, FinishElg
  <2> QED
    BY <1>13, <2>1
<1>16. CASE \/ GetMissing(prio) \/ GetMissing(deprio) \/ ReconcileFails
            \/ \E got \in Answers : FetchAndVerify(got)
  <2>1. Same
    BY <1>16 DEF Same, GetMissing, ReconcileFails, FetchAndVerify
  <2> QED
    BY <1>13, <2>1
<1>17. CASE \E b \in Blocks : StartPurge(b)
  <2>1. Same
    BY <1>17 DEF Same, StartPurge
  <2> QED
    BY <1>13, <2>1
<1>18. CASE PurgeExpiredEntry
  <2>1. \A n \in DOMAIN data' : n \in DOMAIN data /\ data'[n] = data[n]
    BY <1>18, PurgeExpiredFacts
  <2>2. Same
    BY <1>18, <2>1 DEF Same, PurgeExpiredEntry
  <2> QED
    BY <1>13, <2>2
<1>19. CASE ScanMarkers
  <2>1. /\ UNCHANGED <<hash, pvt, stHt, pvtHt, marker, collMarker, data, cur, cpc, rpc, rec>>
        /\ upc' = "scanned" /\ purger'.markers = marker
    BY <1>19 DEF ScanMarkers, Base, PurgerOK
  <2>2. \A n, k : Served(n, k)' => Served(n, k)
    BY <2>1 DEF Served, Overwritten
  <2>3. pvtHt \in Nat
    BY DEF Base, CommitterOK
  <2>4. StoredApplied'
    BY <1>3, <2>1, <2>2, <2>3, StoredSame DEF CompleteState
  <2>5. BatchCommitted' /\ BatchApplied'
    BY <1>3, <2>1 DEF CompleteState, BatchCommitted, BatchApplied
  <2> QED
    BY <2>4, <2>5 DEF CompleteState
<1>20. CASE Open
  <2>1. Same
    BY <1>20 DEF Same, Open
  <2> QED
    BY <1>13, <2>1
<1> QED
  BY <1>4, <1>5, <1>6, <1>7, <1>8, <1>9, <1>10, <1>11, <1>12, <1>14, <1>15, <1>16, <1>17, <1>18,
     <1>19, <1>20
  DEF Next, Committer, Reconciler, Purger

\* A private value that is stored and current is in the state DB when no block is being
\* committed, unless a block was reconciled before its state was committed or while keys to
\* expire were prepared.
THEOREM StateHasStored == Spec => []StateComplete
<1>1. Base /\ Base' /\ Versions /\ ExpiryInv /\ CompleteInv /\ [Next]_vars => CompleteInv'
  BY CompleteStep
<1>2. ASSUME Base, CompleteInv PROVE StateComplete
  <2> SUFFICES ASSUME NoReconcileRace, NEW k \in Keys, hash[k] # 0,
                      k \in GetPvtDataByBlockNum(hash[k])
               PROVE  pvt[k] = hash[k]
    BY DEF StateComplete, NoReconcileRace
  <2> DEFINE n == hash[k]
  <2>1. n \in DOMAIN data /\ ~isExpired(n, lastCommittedBlock) /\ k \in RemovePurged(n, data[n])
    BY DEF GetPvtDataByBlockNum
  <2>2. k \in data[n] /\ Served(n, k)
    BY <2>1 DEF RemovePurged, Served
  <2> QED
    BY <1>2, <2>1, <2>2 DEF CompleteInv, CompleteState, StoredApplied
<1> QED
  BY <1>1, <1>2, InitComplete, BaseInvariance, VersionsInvariance, ExpiryInvariance, PTL DEF Spec
=============================================================================
