------------------------------- MODULE PvtData -------------------------------
(***************************************************************************)
(* Private data of a peer: the private data store (pvtdatastorage), the    *)
(* private part of the state DB (lockbased_txmgr, pvtstatepurgemgmt), and  *)
(* the threads that work on them: the committer, the reconciler that       *)
(* fetches what was missing at commit time, the purger, the processor of   *)
(* collection eligibility events, and the routine that prepares expiring   *)
(* keys.  The locks are those of the code.                                 *)
(*                                                                         *)
(* One collection, at most one valid transaction per block that writes to  *)
(* it: a version is a block number and a bitmap of transactions is a bit.  *)
(* A key and its hash are the same.  Values written by different blocks    *)
(* differ.  The block store is its height; KVLedger and BlockStore have    *)
(* the rest.                                                               *)
(***************************************************************************)
EXTENDS Integers, Sequences, SequencesExt, FiniteSetsExt, TLC

CONSTANTS
  Keys,
  Chains,              \* the sequences of blocks that may be ordered
  MaxBlock,            \* bound on their length
  BTL,                 \* blockToLive of the collection, 0 for ever
  PurgeInterval,
  ReconcileBatchSize,
  MaxCrashes           \* bound

Blocks == 1..MaxBlock
Kinds == {"put", "del", "purge"}

\* What a block may do: write, delete or purge keys, or upgrade a chaincode so that the peer
\* becomes a member (elg), or both.
Ops == {o \in [kind : Kinds, keys : SUBSET Keys, elg : BOOLEAN] : o.keys = {} => o.elg}

ASSUME PvtDataAssumption ==
  /\ MaxBlock \in Nat \ {0} /\ BTL \in Nat /\ MaxCrashes \in Nat
  /\ PurgeInterval \in Nat \ {0} /\ ReconcileBatchSize \in Nat \ {0}
  /\ \A c \in Chains : c \in Seq(Ops) /\ Len(c) =< MaxBlock

VARIABLES
  chain,       \* the blocks that were received so far
  \* private data store
  data,        \* dataEntries: by block, the keys of the write set
  hashedIndex, \* <<key, block>>
  marker,      \* purge markers, 0 for none
  reconMarker, \* the same for the reconciler, never removed
  collMarker,  \* the last purge in the collection
  expiry,      \* expiryEntries by block: whether data and missing data are listed
  prio,        \* blocks with missing data: eligible and prioritized
  deprio,      \*   eligible and deprioritized
  inelg,       \*   ineligible
  elgEvents,   \* collection eligibility events, by block
  pvtHt,       \* its height
  \* other stores
  blkHt,       \* height of the block store
  stHt,        \* height of the state DB
  hash,        \* state DB: version of the key hash, 0 for none
  pvt,         \* state DB: version of the private key, 0 for none
  schedule,    \* expiryKeeper: by block, what is known of each key
  \* in memory
  member,      \* the peer belongs to the collection from the start
  isPvtstoreAheadOfBlkstore,
  cpc, cur,    \* the committer and the block at hand
  rpc, rec,    \* the reconciler and its batch
  upc, purger, \* the purger and its scan; goroutines that wait to purge
  epc, elg,    \* the eligibility processor and its scan; pending signal
  workingset, prep, usedOnce,   \* PurgeMgr and its background routine
  \* ghost
  crashes,
  raced        \* races between threads that happened

storeVars == <<data, hashedIndex, marker, reconMarker, collMarker, expiry, prio, deprio,
               inelg, elgEvents, pvtHt>>
stateVars == <<stHt, hash, pvt, schedule>>
purgeVars == <<workingset, prep, usedOnce>>
committer == <<isPvtstoreAheadOfBlkstore, cpc, cur>>
reconciler == <<rpc, rec>>
purgerVars == <<upc, purger>>
elgVars == <<epc, elg>>
ghosts == <<crashes, raced>>
vars == <<chain, storeVars, blkHt, stateVars, member, committer, reconciler, purgerVars,
          elgVars, purgeVars, ghosts>>

NoBlock == [n |-> 0, have |-> {}, raw |-> {}, lost |-> FALSE]
Nothing == [n \in {} |-> {}]
NoBatch == [next |-> MaxBlock, asked |-> {}, found |-> Nothing]
NoScan == [upto |-> {}, bound |-> 0, markers |-> [k \in Keys |-> 0]]
NoElg == [entries |-> {}, events |-> {}, signal |-> FALSE]
NoSet == [keys |-> [k \in Keys |-> "no"], clear |-> {}]
NoPrep == [pc |-> "none", n |-> 0, keys |-> [k \in Keys |-> "no"]]

Init ==
  /\ chain = << >>
  /\ data = Nothing /\ hashedIndex = {}
  /\ marker = [k \in Keys |-> 0] /\ reconMarker = marker /\ collMarker = 0
  /\ expiry = Nothing
  /\ prio = {} /\ deprio = {} /\ inelg = {} /\ elgEvents = {}
  /\ pvtHt = 1 /\ blkHt = 1 /\ stHt = 1
  /\ hash = [k \in Keys |-> 0] /\ pvt = hash
  /\ schedule = [n \in Blocks |-> [k \in Keys |-> "no"]]
  /\ member \in BOOLEAN
  /\ isPvtstoreAheadOfBlkstore = FALSE
  /\ cpc = "idle" /\ cur = NoBlock
  /\ rpc = "idle" /\ rec = NoBatch
  /\ upc = "idle" /\ purger = NoScan
  /\ epc = "wait" /\ elg = NoElg
  /\ workingset = NoSet /\ prep = NoPrep /\ usedOnce = FALSE
  /\ crashes = 0 /\ raced = {}

-----------------------------------------------------------------------------
(* Helpers. *)

Writes(n) == chain[n].keys
Purges(n) == IF chain[n].kind = "purge" THEN Writes(n) ELSE {}
IsPut(n) == chain[n].kind = "put"

lastCommittedBlock == pvtHt - 1
neverExpires == BTL = 0

\* ComputeExpiringBlock and isExpired.
ExpiringBlock(n) == n + BTL + 1
isExpired(n, latest) == ~neverExpires /\ latest >= ExpiringBlock(n)

\* The peer is a member as of the committed state.
IsMember == member \/ \E m \in 1..(stHt - 1) : chain[m].elg

Running == cpc \notin {"down", "recover"} /\ ~cur.lost

\* Locks, by who holds them where.
pvtdataStoreLockFree ==
  /\ ~(cpc = "pvt" /\ Purges(cur.n) # {} /\ ~isPvtstoreAheadOfBlkstore)
  /\ rpc \notin {"waited", "updated", "applied"}
oldBlockCommitFree == cpc \notin {"expiry", "applied"} /\ rpc # "updated"
purgerLockFree == upc = "idle" /\ epc # "locked"
PrepareFinished == prep.pc = "none"

\* removePurgedDataFromCollPvtRWset.
RemovePurged(n, keys) ==
  IF n > collMarker THEN keys ELSE {k \in keys : n > marker[k]}

\* GetPvtDataByBlockNum: the keys of block n that are returned.
GetPvtDataByBlockNum(n) ==
  IF n \in DOMAIN data /\ ~isExpired(n, lastCommittedBlock) THEN RemovePurged(n, data[n]) ELSE {}

\* A function with one more argument, or with some arguments fewer.
With(f, x, v) == [y \in DOMAIN f \cup {x} |-> IF y = x THEN v ELSE f[y]]
Without(f, S) == [y \in DOMAIN f \ S |-> f[y]]

-----------------------------------------------------------------------------
(* The committer: kvLedger.commit. *)

\* invokeNamespaceListeners: an upgrade that makes the peer a member of the collection
\* is recorded and the processor notified, before the block is committed.
ProcessCollsEligibilityEnabled(n, op) ==
  IF op.elg /\ ~IsMember
    THEN elgEvents' = elgEvents \cup {n} /\ elg' = [elg EXCEPT !.signal = TRUE]
    ELSE UNCHANGED <<elgEvents, elg>>

\* Block blkHt with the private data the peer got for it; from the store if it is ahead.
ValidateAndPrepare(op, got) ==
  /\ cpc = "idle" /\ blkHt =< MaxBlock
  /\ PrepareFinished /\ oldBlockCommitFree
  /\ got => IsMember /\ op.keys # {} /\ ~isPvtstoreAheadOfBlkstore
  /\ chain' = IF blkHt =< Len(chain) THEN chain ELSE Append(chain, op)
  /\ op = chain'[blkHt] /\ \E c \in Chains : IsPrefix(chain', c)
  /\ cur' = [NoBlock EXCEPT !.n = blkHt,
               !.have = IF isPvtstoreAheadOfBlkstore THEN GetPvtDataByBlockNum(blkHt)
                        ELSE IF got THEN op.keys ELSE {}]
  /\ ProcessCollsEligibilityEnabled(blkHt, op)
  /\ cpc' = IF op.kind = "purge" THEN "prepared" ELSE "fetched"
  /\ UNCHANGED <<data, hashedIndex, marker, reconMarker, collMarker, expiry, prio, deprio, inelg,
                 pvtHt, blkHt, stateVars, member, isPvtstoreAheadOfBlkstore, reconciler,
                 purgerVars, epc, purgeVars, ghosts>>

\* FetchPrivateDataRawKey for each purged key, before the markers are written.
FetchRawKeys ==
  /\ cpc = "prepared"
  /\ cur' = [cur EXCEPT !.raw = {k \in Purges(cur.n) : \E m \in Blocks : <<k, m>> \in hashedIndex}]
  /\ cpc' = "fetched"
  /\ UNCHANGED <<chain, storeVars, blkHt, stateVars, member, isPvtstoreAheadOfBlkstore, reconciler,
                 purgerVars, elgVars, purgeVars, ghosts>>

\* Store.Commit with all entries in one batch. The lock is taken for purges only, and
\* kept until the block is added. The purger is started at its interval.
CommitPvt ==
  LET n == cur.n
      missing == Writes(n) # {} /\ cur.have = {}
  IN
  /\ cpc = "fetched" /\ ~isPvtstoreAheadOfBlkstore
  /\ Purges(n) # {} => pvtdataStoreLockFree
  /\ data' = IF cur.have = {} THEN data ELSE With(data, n, cur.have)
  /\ hashedIndex' = hashedIndex \cup (cur.have \X {n})
  /\ marker' = [k \in Keys |-> IF k \in Purges(n) THEN n ELSE marker[k]]
  /\ reconMarker' = [k \in Keys |-> IF k \in Purges(n) THEN n ELSE reconMarker[k]]
  /\ collMarker' = IF Purges(n) # {} THEN n ELSE collMarker
  /\ expiry' = IF neverExpires \/ Writes(n) = {} THEN expiry
               ELSE With(expiry, n, {IF missing THEN "missing" ELSE "present"})
  /\ prio' = IF missing /\ IsMember THEN prio \cup {n} ELSE prio
  /\ inelg' = IF missing /\ ~IsMember THEN inelg \cup {n} ELSE inelg
  /\ pvtHt' = n + 1
  /\ purger' = IF n % PurgeInterval = 0 THEN [purger EXCEPT !.upto = @ \cup {n}] ELSE purger
  /\ raced' = raced
       \cup {r \in {"marker"} : \E k \in Purges(n) : upc = "scanned" /\ purger.markers[k] # 0}
       \cup {r \in {"elg"} : missing /\ ~IsMember /\ chain[n].elg /\ n \notin elgEvents \ elg.events}
  /\ cpc' = "pvt"
  /\ UNCHANGED <<chain, deprio, elgEvents, blkHt, stateVars, member, isPvtstoreAheadOfBlkstore, cur,
                 reconciler, upc, elgVars, purgeVars, crashes>>

\* A private data store that is ahead has the block already.
AddBlock ==
  /\ cpc = "pvt" \/ (cpc = "fetched" /\ isPvtstoreAheadOfBlkstore)
  /\ blkHt' = cur.n + 1
  /\ isPvtstoreAheadOfBlkstore' = (isPvtstoreAheadOfBlkstore /\ pvtHt # cur.n + 1)
  /\ cpc' = "block"
  /\ UNCHANGED <<chain, storeVars, stateVars, member, cur, reconciler, purgerVars, elgVars,
                 purgeVars, ghosts>>

\* LockBasedTxMgr.Commit: the expiry schedule of the block is written first. The keys
\* that expire are prepared here after a start.
UpdateExpiryInfo ==
  /\ cpc = "block" /\ oldBlockCommitFree
  /\ schedule' = IF ~IsPut(cur.n) \/ neverExpires THEN schedule
                 ELSE [schedule EXCEPT ![cur.n] =
                         [k \in Keys |-> IF k \in cur.have THEN "raw"
                                         ELSE IF k \in Writes(cur.n) THEN "hash" ELSE "no"]]
  /\ prep' = IF usedOnce THEN prep ELSE [NoPrep EXCEPT !.pc = "started", !.n = cur.n]
  /\ usedOnce' = TRUE
  /\ cpc' = "expiry"
  /\ UNCHANGED <<chain, storeVars, blkHt, stHt, hash, pvt, member, isPvtstoreAheadOfBlkstore, cur,
                 reconciler, purgerVars, elgVars, workingset, ghosts>>

\* Mutant: the raw keys that were looked up are not added to the batch.
M_ApplyUpdates ==
  LET n == cur.n
      written == IF IsPut(n) THEN n ELSE 0
  IN
  /\ cpc = "expiry" /\ PrepareFinished
  /\ hash' = [k \in Keys |-> IF k \in Writes(n) THEN written
                             ELSE IF workingset.keys[k] \in {"hash", "raw"} THEN 0 ELSE hash[k]]
  /\ pvt' = [k \in Keys |-> IF k \in cur.have THEN written
                            ELSE IF workingset.keys[k] \in {"raw", "keyOnly"} THEN 0 ELSE pvt[k]]
  /\ stHt' = n + 1
  /\ cpc' = "applied"
  /\ UNCHANGED <<chain, storeVars, blkHt, schedule, member, isPvtstoreAheadOfBlkstore, cur,
                 reconciler, purgerVars, elgVars, purgeVars, ghosts>>

\* The batch, with the purges of the application and the expired keys, is applied. A
\* key that the block writes does not expire.
ApplyUpdates ==
  LET n == cur.n
      updates == cur.have \cup cur.raw
      written == IF IsPut(n) THEN n ELSE 0
  IN
  /\ cpc = "expiry" /\ PrepareFinished
  /\ hash' = [k \in Keys |-> IF k \in Writes(n) THEN written
                             ELSE IF workingset.keys[k] \in {"hash", "raw"} THEN 0 ELSE hash[k]]
  /\ pvt' = [k \in Keys |-> IF k \in updates THEN written
                            ELSE IF workingset.keys[k] \in {"raw", "keyOnly"} THEN 0 ELSE pvt[k]]
  /\ stHt' = n + 1
  /\ cpc' = "applied"
  /\ UNCHANGED <<chain, storeVars, blkHt, schedule, member, isPvtstoreAheadOfBlkstore, cur,
                 reconciler, purgerVars, elgVars, purgeVars, ghosts>>

\* The schedule is cleared and the preparation for the next block launched.
BlockCommitDone ==
  /\ cpc = "applied"
  /\ schedule' = [m \in Blocks |-> IF m \in workingset.clear THEN [k \in Keys |-> "no"]
                                   ELSE schedule[m]]
  /\ workingset' = NoSet
  /\ prep' = [NoPrep EXCEPT !.pc = "started", !.n = cur.n + 1]
  /\ cpc' = IF stHt < blkHt THEN "recover" ELSE "idle"
  /\ cur' = NoBlock
  /\ UNCHANGED <<chain, storeVars, blkHt, stHt, hash, pvt, member, isPvtstoreAheadOfBlkstore,
                 reconciler, purgerVars, elgVars, usedOnce, ghosts>>

-----------------------------------------------------------------------------
(* PrepareForExpiringKeys, in the background: the schedule is read, then,  *)
(* unless nothing expires, the state DB.                                   *)

RetrieveSchedule ==
  LET m == prep.n - BTL - 1
      keys == IF ~neverExpires /\ m \in Blocks THEN schedule[m] ELSE NoPrep.keys
  IN
  /\ prep.pc = "started"
  /\ IF keys = NoPrep.keys
       THEN workingset' = NoSet /\ prep' = NoPrep
       ELSE workingset' = workingset /\ prep' = [prep EXCEPT !.pc = "retrieved", !.keys = keys]
  /\ UNCHANGED <<chain, storeVars, blkHt, stateVars, member, committer, reconciler, purgerVars,
                 elgVars, usedOnce, ghosts>>

PrepareWorkingset ==
  LET m == prep.n - BTL - 1
      evaluate(k) ==
        IF prep.keys[k] = "no" \/ hash[k] = m THEN prep.keys[k]
        ELSE IF prep.keys[k] = "raw" /\ pvt[k] = m THEN "keyOnly" ELSE "no"
  IN
  /\ prep.pc = "retrieved"
  /\ workingset' = [keys |-> [k \in Keys |-> evaluate(k)],
                    clear |-> {m}]
  /\ prep' = NoPrep
  /\ UNCHANGED <<chain, storeVars, blkHt, stateVars, member, committer, reconciler, purgerVars,
                 elgVars, usedOnce, ghosts>>

-----------------------------------------------------------------------------
(* Crash, rollback and start. *)

\* What is in memory is lost.
Stop ==
  /\ crashes < MaxCrashes /\ cpc # "down"
  /\ crashes' = crashes + 1
  /\ cpc' = "down" /\ cur' = NoBlock
  /\ rpc' = "idle" /\ rec' = NoBatch
  /\ upc' = "idle" /\ purger' = NoScan
  /\ epc' = "down" /\ elg' = NoElg
  /\ workingset' = NoSet /\ prep' = NoPrep /\ usedOnce' = FALSE
  /\ UNCHANGED <<chain, storeVars, member, isPvtstoreAheadOfBlkstore, raced>>

Crash ==
  /\ Stop
  /\ UNCHANGED <<blkHt, stateVars>>

\* RollbackKVLedger of a peer that was stopped: the state DB and the schedule are dropped
\* and the block store is cut; the private data store stays as it is.
Rollback(h) ==
  /\ Stop
  /\ cpc = "idle" /\ h < blkHt
  /\ blkHt' = h
  /\ stHt' = 1 /\ hash' = [k \in Keys |-> 0] /\ pvt' = hash'
  /\ schedule' = [n \in Blocks |-> [k \in Keys |-> "no"]]

\* The processor of eligibility events starts with those of the last run.
Open ==
  /\ cpc = "down"
  /\ isPvtstoreAheadOfBlkstore' = (pvtHt > blkHt)
  /\ epc' = "start"
  /\ cpc' = IF stHt < blkHt THEN "recover" ELSE "idle"
  /\ UNCHANGED <<chain, storeVars, blkHt, stateVars, member, cur, reconciler, purgerVars, elg,
                 purgeVars, ghosts>>

\* recommitLostBlocks and CommitLostBlock: the private data is what the store returns.
CommitLostBlock ==
  /\ cpc = "recover" /\ PrepareFinished
  /\ cur' = [NoBlock EXCEPT !.n = stHt, !.have = GetPvtDataByBlockNum(stHt), !.lost = TRUE]
  /\ ProcessCollsEligibilityEnabled(stHt, chain[stHt])
  /\ cpc' = "block"
  /\ UNCHANGED <<chain, data, hashedIndex, marker, reconMarker, collMarker, expiry, prio, deprio,
                 inelg, pvtHt, blkHt, stateVars, member, isPvtstoreAheadOfBlkstore, reconciler,
                 purgerVars, epc, purgeVars, ghosts>>

-----------------------------------------------------------------------------
(* The reconciler. *)

\* GetMissingPvtDataInfoForMostRecentBlocks, from the prioritized or, at its interval, the
\* deprioritized list. The cycle ends when it returns nothing.
GetMissing(list) ==
  LET candidates == {n \in list : n =< rec.next /\ ~isExpired(n, lastCommittedBlock)}
      asked == {n \in candidates :
                  Cardinality({m \in candidates : m > n}) < ReconcileBatchSize}
  IN
  /\ Running /\ rpc = "idle"
  /\ IF isPvtstoreAheadOfBlkstore \/ asked = {}
       THEN rpc' = rpc /\ rec' = NoBatch
       ELSE rpc' = "asked" /\ rec' = [next |-> Min(asked) - 1, asked |-> asked, found |-> Nothing]
  /\ UNCHANGED <<chain, storeVars, blkHt, stateVars, member, committer, purgerVars, elgVars,
                 purgeVars, ghosts>>

\* Nobody answered, or a block that was fetched is not in the block store yet.
ReconcileFails ==
  /\ Running /\ rpc = "asked"
  /\ rpc' = "idle" /\ rec' = NoBatch
  /\ UNCHANGED <<chain, storeVars, blkHt, stateVars, member, committer, purgerVars, elgVars,
                 purgeVars, ghosts>>

\* Mutant: the purge markers that the purger removes are consulted.
M_ExtractValid(n, got) ==
  LET trimmed == {k \in Writes(n) : n > marker[k]}
  IN [ok |-> trimmed \subseteq got, keys |-> trimmed]

\* validateAndRemovePurgedKeys on what was received for block n: what is to be stored, or
\* FALSE to skip it.
ExtractValid(n, got) ==
  LET trimmed == {k \in Writes(n) : n > reconMarker[k]}
  IN [ok |-> trimmed \subseteq got, keys |-> trimmed]

\* FetchReconciledItems and the first part of CommitPvtDataOfOldBlocks. Of each block a
\* peer returns the keys it has not purged. RemoveStaleAndCommitPvtDataOfOldBlocks waits
\* for the preparation to finish, and only then for the lock.
FetchAndVerify(got) ==
  LET valid == {n \in DOMAIN got : ExtractValid(n, got[n]).ok}
  IN
  /\ Running /\ rpc = "asked" /\ pvtdataStoreLockFree /\ PrepareFinished
  /\ \A n \in DOMAIN got : n < blkHt /\ got[n] \subseteq Writes(n)
  /\ rec' = [rec EXCEPT !.asked = @ \ DOMAIN got,
                        !.found = [n \in valid |-> ExtractValid(n, got[n]).keys]]
  /\ rpc' = "waited"
  /\ UNCHANGED <<chain, storeVars, blkHt, stateVars, member, committer, purgerVars, elgVars,
                 purgeVars, ghosts>>

\* Mutant: the oldest of several versions is taken.
M_NotStale ==
  LET versions(k) == {n \in DOMAIN rec.found : k \in rec.found[n]}
      fresh(k) == /\ versions(k) # {}
                  /\ IF hash[k] = 0 THEN ~IsPut(Min(versions(k))) ELSE hash[k] = Min(versions(k))
  IN [k \in {k \in Keys : fresh(k)} |-> Min(versions(k))]

\* Mutant: no version is stale.
M_NotStaleAny ==
  LET versions(k) == {n \in DOMAIN rec.found : k \in rec.found[n]}
  IN [k \in {k \in Keys : versions(k) # {}} |-> Max(versions(k))]

\* constructUniquePvtData and findAndRemoveStalePvtData: the version to write, by key.
NotStale ==
  LET versions(k) == {n \in DOMAIN rec.found : k \in rec.found[n]}
      fresh(k) == /\ versions(k) # {}
                  /\ IF hash[k] = 0 THEN ~IsPut(Max(versions(k))) ELSE hash[k] = Max(versions(k))
  IN [k \in {k \in Keys : fresh(k)} |-> Max(versions(k))]

\* Mutant: the keys prepared to expire are left alone.
M_UpdateExpiryInfoOfOld ==
  LET upd == NotStale
  IN
  /\ rpc = "waited" /\ oldBlockCommitFree
  /\ schedule' = [n \in Blocks |-> [k \in Keys |->
                   IF k \in DOMAIN upd /\ upd[k] = n /\ IsPut(n) /\ ~neverExpires
                     THEN "raw" ELSE schedule[n][k]]]
  /\ raced' = raced \cup {r \in {"early"} : \E n \in DOMAIN rec.found : n >= stHt}
                    \cup {r \in {"prep"} : ~PrepareFinished}
  /\ rpc' = "updated"
  /\ UNCHANGED <<chain, storeVars, blkHt, stHt, hash, pvt, member, committer, rec, purgerVars,
                 elgVars, purgeVars, crashes>>

\* UpdateExpiryInfoOfPvtDataOfOldBlocks and addMissingPvtDataToWorkingSet.
UpdateExpiryInfoOfOld ==
  LET upd == NotStale
      late(k) == IF k \notin DOMAIN upd THEN workingset.keys[k]
                 ELSE IF workingset.keys[k] \in {"no", "keyOnly"} THEN "no" ELSE "raw"
  IN
  /\ rpc = "waited" /\ oldBlockCommitFree
  /\ schedule' = [n \in Blocks |-> [k \in Keys |->
                   IF k \in DOMAIN upd /\ upd[k] = n /\ IsPut(n) /\ ~neverExpires
                     THEN "raw" ELSE schedule[n][k]]]
  /\ workingset' = [workingset EXCEPT !.keys = [k \in Keys |-> late(k)]]
  /\ raced' = raced \cup {r \in {"early"} : \E n \in DOMAIN rec.found : n >= stHt}
                    \cup {r \in {"prep"} : ~PrepareFinished}
  /\ rpc' = "updated"
  /\ UNCHANGED <<chain, storeVars, blkHt, stHt, hash, pvt, member, committer, rec, purgerVars,
                 elgVars, prep, usedOnce, crashes>>

ApplyOld ==
  LET upd == NotStale
  IN
  /\ rpc = "updated"
  /\ pvt' = [k \in Keys |-> IF k \notin DOMAIN upd THEN pvt[k]
                            ELSE IF IsPut(upd[k]) THEN upd[k] ELSE 0]
  /\ rpc' = "applied"
  /\ UNCHANGED <<chain, storeVars, blkHt, stHt, hash, schedule, member, committer, rec, purgerVars,
                 elgVars, purgeVars, ghosts>>

\* Mutant: a deprioritized entry is not removed.
M_StoreOld ==
  LET keep == {n \in DOMAIN rec.found : neverExpires \/ n \in DOMAIN expiry}
      kept == [n \in keep |-> rec.found[n]]
  IN
  /\ rpc = "applied" /\ purgerLockFree
  /\ data' = [n \in keep \cup DOMAIN data |-> IF n \in keep THEN kept[n] ELSE data[n]]
  /\ hashedIndex' = hashedIndex \cup UNION {kept[n] \X {n} : n \in keep}
  /\ expiry' = [n \in DOMAIN expiry |-> IF n \in keep THEN expiry[n] \cup {"present"} ELSE expiry[n]]
  /\ prio' = prio \ (keep \cup rec.asked)
  /\ deprio' = deprio \cup (rec.asked \cap prio)
  /\ raced' = raced
  /\ rpc' = "idle" /\ rec' = [rec EXCEPT !.asked = {}, !.found = Nothing]
  /\ UNCHANGED <<chain, marker, reconMarker, collMarker, inelg, elgEvents, pvtHt, blkHt, stateVars,
                 member, committer, purgerVars, elgVars, purgeVars, crashes>>

\* Store.CommitPvtDataOfOldBlocks. What nobody had is deprioritized.
StoreOld ==
  LET keep == {n \in DOMAIN rec.found : neverExpires \/ n \in DOMAIN expiry}
      kept == [n \in keep |-> rec.found[n]]
  IN
  /\ rpc = "applied" /\ purgerLockFree
  /\ data' = [n \in keep \cup DOMAIN data |-> IF n \in keep THEN kept[n] ELSE data[n]]
  /\ hashedIndex' = hashedIndex \cup UNION {kept[n] \X {n} : n \in keep}
  /\ expiry' = [n \in DOMAIN expiry |-> IF n \in keep THEN expiry[n] \cup {"present"} ELSE expiry[n]]
  /\ prio' = prio \ (keep \cup rec.asked)
  /\ deprio' = (deprio \ (keep \ prio)) \cup (rec.asked \cap prio)
  /\ raced' = raced \cup {r \in {"raw"} : /\ cpc = "fetched"
                                          /\ \E n \in keep : (kept[n] \cap Purges(cur.n)) # {}}
  /\ rpc' = "idle" /\ rec' = [rec EXCEPT !.asked = {}, !.found = Nothing]
  /\ UNCHANGED <<chain, marker, reconMarker, collMarker, inelg, elgEvents, pvtHt, blkHt, stateVars,
                 member, committer, purgerVars, elgVars, purgeVars, crashes>>

-----------------------------------------------------------------------------
(* The purger. *)

ToPurge(b) == {n \in DOMAIN expiry : ExpiringBlock(n) =< b}

\* The goroutine started with block b; it ends at once when there is nothing to do.
StartPurge(b) ==
  LET idle == ToPurge(b) = {} /\ \A k \in Keys : marker[k] = 0
  IN
  /\ purgerLockFree /\ b \in purger.upto
  /\ upc' = IF idle THEN "idle" ELSE "expired"
  /\ purger' = [purger EXCEPT !.upto = @ \ {b}, !.bound = IF idle THEN 0 ELSE b]
  /\ UNCHANGED <<chain, storeVars, blkHt, stateVars, member, committer, reconciler, elgVars,
                 purgeVars, ghosts>>

\* purgeExpiredData: one batch for each expiry entry.
PurgeExpiredEntry ==
  LET n == Min(ToPurge(purger.bound))
      gone(x, S) == IF x \in expiry[n] THEN S \ {n} ELSE S
  IN
  /\ upc = "expired" /\ ToPurge(purger.bound) # {}
  /\ data' = [m \in gone("present", DOMAIN data) |-> data[m]]
  /\ hashedIndex' = {e \in hashedIndex : e[2] # n \/ "present" \notin expiry[n]}
  /\ prio' = gone("missing", prio) /\ deprio' = gone("missing", deprio)
  /\ inelg' = gone("missing", inelg)
  /\ expiry' = Without(expiry, {n})
  /\ UNCHANGED <<chain, marker, reconMarker, collMarker, elgEvents, pvtHt, blkHt, stateVars, member,
                 committer, reconciler, purgerVars, elgVars, purgeVars, ghosts>>

\* deleteDataMarkedForPurge: the iterator sees the markers as they are now,
ScanMarkers ==
  /\ upc = "expired" /\ ToPurge(purger.bound) = {}
  /\ purger' = [purger EXCEPT !.markers = marker]
  /\ upc' = "scanned"
  /\ UNCHANGED <<chain, storeVars, blkHt, stateVars, member, committer, reconciler, elgVars,
                 purgeVars, ghosts>>

\* and the batch deletes the keys up to them, and the markers.
DeleteMarked ==
  LET upto(k) == purger.markers[k]
  IN
  /\ upc = "scanned"
  /\ data' = [n \in DOMAIN data |-> {k \in data[n] : n > upto(k)}]
  /\ hashedIndex' = {e \in hashedIndex : e[2] > upto(e[1])}
  /\ marker' = [k \in Keys |-> IF upto(k) # 0 THEN 0 ELSE marker[k]]
  /\ purger' = [purger EXCEPT !.bound = 0, !.markers = NoScan.markers]
  /\ upc' = "idle"
  /\ UNCHANGED <<chain, reconMarker, collMarker, expiry, prio, deprio, inelg, elgEvents, pvtHt,
                 blkHt, stateVars, member, committer, reconciler, elgVars, purgeVars, ghosts>>

-----------------------------------------------------------------------------
(* The processor of collection eligibility events. *)

WaitForNotification ==
  /\ epc = "wait" /\ elg.signal
  /\ elg' = [elg EXCEPT !.signal = FALSE]
  /\ epc' = "start"
  /\ UNCHANGED <<chain, storeVars, blkHt, stateVars, member, committer, reconciler, purgerVars,
                 purgeVars, ghosts>>

\* processCollElgEvents: iterators over the events and the entries up to them.
StartElg ==
  /\ epc = "start" /\ purgerLockFree
  /\ elg' = [elg EXCEPT !.events = elgEvents,
                        !.entries = {n \in inelg : \E e \in elgEvents : n =< e}]
  /\ epc' = "locked"
  /\ UNCHANGED <<chain, storeVars, blkHt, stateVars, member, committer, reconciler, purgerVars,
                 purgeVars, ghosts>>

\* A full batch is written and the lock released for a while.
ConvertBatch(S) ==
  /\ epc = "locked" /\ S # {} /\ S \subseteq elg.entries
  /\ prio' = prio \cup S /\ inelg' = inelg \ S
  /\ elg' = [elg EXCEPT !.entries = @ \ S]
  /\ epc' = "unlocked"
  /\ UNCHANGED <<chain, data, hashedIndex, marker, reconMarker, collMarker, expiry, deprio, elgEvents,
                 pvtHt, blkHt, stateVars, member, committer, reconciler, purgerVars, purgeVars,
                 ghosts>>

Relock ==
  /\ epc = "unlocked" /\ purgerLockFree
  /\ epc' = "locked"
  /\ UNCHANGED <<chain, storeVars, blkHt, stateVars, member, committer, reconciler, purgerVars, elg,
                 purgeVars, ghosts>>

\* Mutant: every event is deleted, the ones recorded meanwhile too.
M_FinishElg ==
  /\ epc = "locked"
  /\ prio' = prio \cup elg.entries /\ inelg' = inelg \ elg.entries
  /\ elgEvents' = {}
  /\ elg' = [NoElg EXCEPT !.signal = elg.signal]
  /\ epc' = "wait"
  /\ UNCHANGED <<chain, data, hashedIndex, marker, reconMarker, collMarker, expiry, deprio, pvtHt,
                 blkHt, stateVars, member, committer, reconciler, purgerVars, purgeVars, ghosts>>

\* The last batch also deletes the events.
FinishElg ==
  /\ epc = "locked"
  /\ prio' = prio \cup elg.entries /\ inelg' = inelg \ elg.entries
  /\ elgEvents' = elgEvents \ elg.events
  /\ elg' = [NoElg EXCEPT !.signal = elg.signal]
  /\ epc' = "wait"
  /\ UNCHANGED <<chain, data, hashedIndex, marker, reconMarker, collMarker, expiry, deprio, pvtHt,
                 blkHt, stateVars, member, committer, reconciler, purgerVars, purgeVars, ghosts>>

-----------------------------------------------------------------------------
Committer ==
  \/ \E op \in Ops, got \in BOOLEAN : ValidateAndPrepare(op, got)
  \/ FetchRawKeys
  \/ CommitPvt
  \/ AddBlock
  \/ UpdateExpiryInfo
  \/ ApplyUpdates
  \/ BlockCommitDone
  \/ CommitLostBlock

Preparation == RetrieveSchedule \/ PrepareWorkingset

\* What may come back for the blocks that were asked for.
Answers == UNION {[S -> SUBSET Keys] : S \in SUBSET rec.asked}

Reconciler ==
  \/ GetMissing(prio)
  \/ GetMissing(deprio)
  \/ ReconcileFails
  \/ \E got \in Answers : FetchAndVerify(got)
  \/ UpdateExpiryInfoOfOld
  \/ ApplyOld
  \/ StoreOld

Purger ==
  \/ \E b \in Blocks : StartPurge(b)
  \/ PurgeExpiredEntry
  \/ ScanMarkers
  \/ DeleteMarked

ElgProcessor ==
  \/ WaitForNotification
  \/ StartElg
  \/ \E S \in SUBSET Blocks : ConvertBatch(S)
  \/ Relock
  \/ FinishElg

Next ==
  \/ Committer
  \/ Preparation
  \/ Reconciler
  \/ Purger
  \/ ElgProcessor
  \/ Crash
  \/ \E h \in Blocks : Rollback(h)
  \/ Open

Spec == Init /\ [][Next]_vars

-----------------------------------------------------------------------------
(* Properties. *)

\* The variables have their types.
TypeOK ==
  LET Known == [Keys -> {"no", "hash", "raw", "keyOnly"}]
  IN
  /\ chain \in Seq(Ops) /\ Len(chain) =< MaxBlock
  /\ \A n \in DOMAIN data : n \in Blocks /\ data[n] \subseteq Keys
  /\ hashedIndex \subseteq Keys \X Blocks
  /\ {marker, reconMarker, hash, pvt} \subseteq [Keys -> 0..MaxBlock]
  /\ collMarker \in 0..MaxBlock
  /\ DOMAIN expiry \subseteq Blocks
  /\ UNION {prio, deprio, inelg, elgEvents} \subseteq Blocks
  /\ {pvtHt, blkHt, stHt} \subseteq 1..(MaxBlock + 1)
  /\ stHt =< blkHt /\ blkHt =< pvtHt /\ pvtHt =< Len(chain) + 1
  /\ schedule \in [Blocks -> Known]
  /\ cpc \in {"idle", "prepared", "fetched", "pvt", "block", "expiry", "applied", "recover", "down"}
  /\ rpc \in {"idle", "asked", "waited", "updated", "applied"}
  /\ upc \in {"idle", "expired", "scanned"}
  /\ epc \in {"wait", "start", "locked", "unlocked", "down"}
  /\ workingset.keys \in Known /\ prep.keys \in Known
  /\ raced \subseteq {"early", "prep", "raw", "marker", "elg"}

\* Where the private data of a block may be: stored, or missing in one of three lists.
Places == [data |-> DOMAIN data, prio |-> prio, deprio |-> deprio, inelg |-> inelg]

\* As long as it has not expired, the private data of a committed block is stored or
\* recorded as missing in exactly one of the three lists, whatever reconciler, purger,
\* eligibility processor and crashes do. A block in no list would never be reconciled.
MissingAccounted ==
  \A n \in 1..lastCommittedBlock :
    Writes(n) # {} /\ ~isExpired(n, lastCommittedBlock) =>
      \E p \in DOMAIN Places : \A q \in DOMAIN Places : n \in Places[q] <=> q = p

\* GetPvtDataByBlockNum never returns a key that a later transaction purged, also when the
\* reconciler stores the data after the purge or the purger has removed the marker. The
\* exception is a marker that replaces one the purger is about to remove.
PurgedNotServed ==
  "marker" \in raced \/
  \A n \in 1..lastCommittedBlock : \A k \in GetPvtDataByBlockNum(n) : n > reconMarker[k]

\* A private value in the state DB is never replaced by an older one, although the
\* reconciler commits old blocks while new ones are committed.
PvtNeverOlder ==
  [][\A k \in Keys : pvt'[k] = 0 \/ pvt'[k] >= pvt[k]]_vars

\* When no block is being committed, a private value that is stored and current is in the
\* state DB: received with its block, reconciled later or recovered. The exceptions are
\* reconciling a block before its state is committed, and while keys to expire are prepared.
StateComplete ==
  cpc = "idle" /\ raced \cap {"early", "prep"} = {} =>
    \A k \in Keys : hash[k] # 0 /\ k \in GetPvtDataByBlockNum(hash[k]) => pvt[k] = hash[k]

\* After each block, no key hash and no private key that has expired is left in the state
\* DB, whether its value came with its block or from the reconciler. The exception, for the
\* private keys only, is data reconciled while keys to expire are prepared: its raw key comes
\* too late for the working set and stays.
ExpiredGone ==
  cpc = "idle" =>
    \A k \in Keys, m \in Blocks : isExpired(m, stHt - 1) =>
      hash[k] # m /\ (pvt[k] # m \/ "prep" \in raced)

LastPurge(k) == Max({0} \cup {n \in 1..(stHt - 1) : k \in Purges(n)})

\* After each block, a key that was purged is not in the state DB with an older value.
\* The exceptions are data reconciled between the look-up of the raw key and the marker, and
\* while keys to expire are prepared: a key that outlives its block then has no raw key left.
PurgedGoneFromState ==
  cpc = "idle" /\ raced \cap {"raw", "prep"} = {} =>
    \A k \in Keys : pvt[k] = 0 \/ pvt[k] > LastPurge(k)

\* The same for a peer that does not crash.
PurgedGone == crashes = 0 => PurgedGoneFromState

\* The processor of eligibility events never sleeps while there is an event or an entry
\* to convert: no notification is lost. The exception is the private data of the very block
\* that makes the peer a member, when its event is scanned before its entry is written.
ElgEventsHandled ==
  epc = "wait" /\ ~elg.signal /\ cpc = "idle" =>
    /\ elgEvents = {}
    /\ IsMember => \A n \in inelg : chain[n].elg /\ "elg" \in raced

=============================================================================
