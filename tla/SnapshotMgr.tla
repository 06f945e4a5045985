------------------------------ MODULE SnapshotMgr ------------------------------
(***************************************************************************)
(* Ledger snapshots: how kvledger keeps block commits, snapshot generation *)
(* and snapshot requests apart (core/ledger/kvledger/snapshot_mgmt.go and  *)
(* generateSnapshot in snapshot.go).                                       *)
(*                                                                         *)
(* Four kinds of goroutines meet on three unbuffered channels: the event   *)
(* loop processSnapshotMgmtEvents, the committer (CommitLegacy), the       *)
(* callers of SubmitSnapshotRequest and CancelSnapshotRequest, and one     *)
(* generator per snapshot.  A send and its receive are one step.  The      *)
(* requests are kept in the bookkeeping DB, the snapshots in directories   *)
(* named after their last block; both survive a crash, the rest does not.  *)
(***************************************************************************)
EXTENDS Integers, Sequences, FiniteSets

CONSTANTS
  Client,       \* concurrent callers of the snapshot API
  MaxBlock,     \* bound: number of the last block that is committed
  MaxCrashes    \* bound: how often the peer crashes

ASSUME SnapshotAssumption ==
  /\ MaxBlock \in Nat \ {0}
  /\ MaxCrashes \in Nat
  /\ IsFiniteSet(Client)

VARIABLES
  \* persistent
  height,      \* height of the block store
  stateHt,     \* height of the state DB
  requests,    \* block numbers in the request bookkeeper's DB
  snapshots,   \* generated snapshots
  \* the event loop
  phase,       \* of the ledger: "down", "regen" (in initSnapshotMgr), "open"
  loop,        \* what the loop waits for: "recv", "proceed", "respond"
  last,        \* lastCommittedBlockNumber
  status,      \* committerStatus
  inProgress,  \* snapshotInProgress
  smallest,    \* smallestRequestBlockNum
  reply,       \* the response being sent
  \* the other goroutines
  committer,   \* where CommitLegacy is
  caller,      \* where each client is, and the block number it asks for
  gens,        \* running generators
  crashes

ledgerVars == <<height, stateHt>>
loopVars == <<loop, last, status, inProgress, smallest, reply>>
vars == <<ledgerVars, requests, snapshots, phase, loopVars, committer, caller,
          gens, crashes>>

NoRequest == MaxBlock + 2      \* defaultSmallestBlockNumber (math.MaxUint64)

BlockNum == 0..MaxBlock

Idle == [st |-> "idle", num |-> 0]

\* smallestRequest: the first key of the bookkeeper's DB.
SmallestOf(S) ==
  IF S = {} THEN NoRequest ELSE CHOOSE m \in S : \A n \in S : m =< n

snapshotExists(n) == \E s \in snapshots : s.dir = n

\* A ledger with its genesis block; the peer is not running.
Init ==
  /\ height = 1 /\ stateHt = 1
  /\ requests = {} /\ snapshots = {}
  /\ phase = "down" /\ loop = "recv"
  /\ last = 0 /\ status = "idle" /\ inProgress = FALSE
  /\ smallest = NoRequest
  /\ reply = "none"
  /\ committer = "idle"
  /\ caller = [c \in Client |-> Idle]
  /\ gens = << >>
  /\ crashes = 0

-----------------------------------------------------------------------------
(* Opening the ledger: initSnapshotMgr, after recoverDBs brought the state *)
(* DB up to the block store.                                               *)

InitSnapshotMgr ==
  /\ phase = "down"
  /\ stateHt' = height
  /\ smallest' = SmallestOf(requests)
  /\ last' = height - 1
  /\ loop' = "recv" /\ status' = "idle" /\ inProgress' = FALSE
  /\ phase' = IF height - 1 = smallest' /\ ~snapshotExists(height - 1)
                THEN "regen" ELSE "open"
  /\ UNCHANGED <<height, requests, snapshots, reply, committer, caller, gens,
                 crashes>>

-----------------------------------------------------------------------------
(* The cases of processSnapshotMgmtEvents. *)

StartGenerator(kind, n) ==
  gens' = Append(gens, [kind |-> kind, num |-> n, pc |-> "start", dir |-> 0, tx |-> 0,
                        state |-> 0, meta |-> 0])

\* Mutant: the commit proceeds although a snapshot is being generated.
M_onCommitStart ==
  /\ status' = "inProcess" /\ loop' = "proceed"
  /\ UNCHANGED <<last, inProgress, smallest, reply, requests, gens>>

onCommitStart ==
  /\ IF inProgress
       THEN status' = "blocked" /\ loop' = "recv"
       ELSE status' = "inProcess" /\ loop' = "proceed"
  /\ UNCHANGED <<last, inProgress, smallest, reply, requests, gens>>

\* Mutant: the generator is started without setting snapshotInProgress.
M_onCommitDone(n) ==
  /\ last' = n
  /\ status' = "idle"
  /\ IF n = smallest THEN StartGenerator("commit", n) ELSE UNCHANGED gens
  /\ loop' = "recv"
  /\ UNCHANGED <<inProgress, smallest, reply, requests>>

onCommitDone(n) ==
  /\ last' = n
  /\ status' = "idle"
  /\ IF n = smallest
       THEN inProgress' = TRUE /\ StartGenerator("commit", n)
       ELSE UNCHANGED <<inProgress, gens>>
  /\ loop' = "recv"
  /\ UNCHANGED <<smallest, reply, requests>>

\* Mutant: the cached smallest request survives its deletion.
M_BookkeeperDelete(n) ==
  /\ requests' = requests \ {n}
  /\ smallest' = smallest

\* snapshotRequestBookkeeper.delete
BookkeeperDelete(n) ==
  /\ requests' = requests \ {n}
  /\ smallest' = IF n \in requests /\ smallest = n THEN SmallestOf(requests \ {n})
                 ELSE smallest

\* Mutant: a blocked commit is not released.
M_onSnapshotDone(n) ==
  /\ BookkeeperDelete(n)
  /\ inProgress' = FALSE
  /\ loop' = "recv"
  /\ UNCHANGED <<last, reply, status>>

onSnapshotDone(n) ==
  /\ BookkeeperDelete(n)
  /\ IF status = "blocked"
       THEN status' = "inProcess" /\ loop' = "proceed"
       ELSE status' = status /\ loop' = "recv"
  /\ inProgress' = FALSE
  /\ UNCHANGED <<last, reply>>

\* Mutant: the commit in progress is not taken into account.
M_leastAcceptableBlockNum == last

leastAcceptableBlockNum == IF status = "idle" THEN last ELSE last + 1

\* The block number a request stands for: 0 asks for the latest.
requestedBlockNum(n) == IF n = 0 THEN leastAcceptableBlockNum ELSE n

requestRejected(n) ==
  \/ n < leastAcceptableBlockNum
  \/ n = last /\ snapshotExists(n)
  \/ n \in requests

\* Mutant: snapshotInProgress is not set.
M_onRequestAdd(n) ==
  LET r == requestedBlockNum(n) IN
  /\ IF requestRejected(r)
       THEN reply' = "error" /\ UNCHANGED <<requests, smallest, gens>>
       ELSE /\ reply' = "ok"
            /\ requests' = requests \cup {r}
            /\ smallest' = IF r < smallest THEN r ELSE smallest
            /\ IF status = "idle" /\ r = last
                 THEN StartGenerator("request", r) ELSE UNCHANGED gens
  /\ loop' = "respond"
  /\ UNCHANGED <<last, status, inProgress>>

onRequestAdd(n) ==
  LET r == requestedBlockNum(n) IN
  /\ IF requestRejected(r)
       THEN reply' = "error" /\ UNCHANGED <<requests, smallest, inProgress, gens>>
       ELSE /\ reply' = "ok"
            /\ requests' = requests \cup {r}
            /\ smallest' = IF r < smallest THEN r ELSE smallest
            /\ IF status = "idle" /\ r = last
                 THEN inProgress' = TRUE /\ StartGenerator("request", r)
                 ELSE UNCHANGED <<inProgress, gens>>
  /\ loop' = "respond"
  /\ UNCHANGED <<last, status>>

onRequestCancel(n) ==
  /\ IF inProgress /\ n = last
       THEN reply' = "error" /\ UNCHANGED <<requests, smallest>>
       ELSE /\ reply' = IF n \in requests THEN "ok" ELSE "error"
            /\ BookkeeperDelete(n)
  /\ loop' = "respond"
  /\ UNCHANGED <<last, status, inProgress, gens>>

Receiving == phase # "down" /\ loop = "recv"

-----------------------------------------------------------------------------
(* regenrateMissedSnapshot sends commitDone for the last block. *)

RegenerateMissedSnapshot ==
  /\ phase = "regen"
  /\ Receiving
  /\ onCommitDone(height - 1)
  /\ phase' = "open"
  /\ UNCHANGED <<ledgerVars, snapshots, committer, caller, crashes>>

-----------------------------------------------------------------------------
(* CommitLegacy of block number height. *)

CommitStart ==
  /\ phase = "open" /\ committer = "idle"
  /\ height =< MaxBlock
  /\ Receiving
  /\ onCommitStart
  /\ committer' = "waiting"
  /\ UNCHANGED <<ledgerVars, snapshots, phase, caller, crashes>>

CommitProceed ==
  /\ loop = "proceed" /\ committer = "waiting"
  /\ committer' = "addBlock"
  /\ loop' = "recv"
  /\ UNCHANGED <<ledgerVars, requests, snapshots, phase, last, status, inProgress,
                 smallest, reply, caller, gens, crashes>>

\* commit writes the block store, then the state DB.
CommitBlock ==
  /\ committer = "addBlock"
  /\ height' = height + 1
  /\ committer' = "applyState"
  /\ UNCHANGED <<stateHt, requests, snapshots, phase, loopVars, caller, gens,
                 crashes>>

CommitState ==
  /\ committer = "applyState"
  /\ stateHt' = stateHt + 1
  /\ committer' = "done"
  /\ UNCHANGED <<height, requests, snapshots, phase, loopVars, caller, gens,
                 crashes>>

CommitDone ==
  /\ committer = "done"
  /\ Receiving
  /\ onCommitDone(height - 1)
  /\ committer' = "idle"
  /\ UNCHANGED <<ledgerVars, snapshots, phase, caller, crashes>>

-----------------------------------------------------------------------------
(* SubmitSnapshotRequest and CancelSnapshotRequest. *)

Call(c, op, n) ==
  /\ phase = "open"
  /\ caller[c].st = "idle"
  /\ caller' = [caller EXCEPT ![c] = [st |-> op, num |-> n]]
  /\ UNCHANGED <<ledgerVars, requests, snapshots, phase, loopVars, committer,
                 gens, crashes>>

RequestAdd(c) ==
  /\ caller[c].st = "add"
  /\ Receiving
  /\ onRequestAdd(caller[c].num)
  /\ caller' = [caller EXCEPT ![c] = [st |-> "wait", num |-> 0]]
  /\ UNCHANGED <<ledgerVars, snapshots, phase, committer, crashes>>

RequestCancel(c) ==
  /\ caller[c].st = "cancel"
  /\ Receiving
  /\ onRequestCancel(caller[c].num)
  /\ caller' = [caller EXCEPT ![c] = [st |-> "wait", num |-> 0]]
  /\ UNCHANGED <<ledgerVars, snapshots, phase, committer, crashes>>

\* requestResponses is one channel: any client that waits on it may be served.
Respond(c) ==
  /\ loop = "respond"
  /\ caller[c].st = "wait"
  /\ caller' = [caller EXCEPT ![c] = Idle]
  /\ loop' = "recv"
  /\ reply' = "none"
  /\ UNCHANGED <<ledgerVars, requests, snapshots, phase, last, status, inProgress,
                 smallest, committer, gens, crashes>>

-----------------------------------------------------------------------------
(* generateSnapshot, in a goroutine of its own. *)

GenStep(g, from, new) ==
  /\ gens[g].pc = from
  /\ gens' = [gens EXCEPT ![g] = new]
  /\ UNCHANGED <<ledgerVars, requests, phase, loopVars, committer, caller,
                 crashes>>

GenReadHeight(g) ==
  /\ GenStep(g, "start", [gens[g] EXCEPT !.pc = "txids", !.dir = height - 1])
  /\ UNCHANGED snapshots

GenExportTxIds(g) ==
  /\ GenStep(g, "txids", [gens[g] EXCEPT !.pc = "state", !.tx = height])
  /\ UNCHANGED snapshots

GenExportState(g) ==
  /\ GenStep(g, "state", [gens[g] EXCEPT !.pc = "metadata", !.state = stateHt])
  /\ UNCHANGED snapshots

\* generateSnapshotMetadataFiles asks for the height again.
GenWriteMetadata(g) ==
  /\ GenStep(g, "metadata", [gens[g] EXCEPT !.pc = "rename", !.meta = height - 1])
  /\ UNCHANGED snapshots

\* os.Rename fails when the directory exists; then nothing is published.
GenRename(g) ==
  /\ GenStep(g, "rename", [gens[g] EXCEPT !.pc = "done"])
  /\ snapshots' = IF snapshotExists(gens[g].dir) THEN snapshots
                  ELSE snapshots \cup {[dir |-> gens[g].dir, tx |-> gens[g].tx,
                                        state |-> gens[g].state, meta |-> gens[g].meta]}

\* Any step of it may fail; the error is only logged.
GenFail(g) ==
  /\ gens[g].pc # "done"
  /\ GenStep(g, gens[g].pc, [gens[g] EXCEPT !.pc = "done"])
  /\ UNCHANGED snapshots

\* The block number in the event: the goroutine of the commitDone case sends the
\* loop's variable lastCommittedBlockNumber, read when it sends.
DoneNum(g) == IF gens[g].kind = "commit" THEN last ELSE gens[g].num

SnapshotDone(g) ==
  /\ gens[g].pc = "done"
  /\ Receiving
  /\ onSnapshotDone(DoneNum(g))
  /\ gens' = SubSeq(gens, 1, g - 1) \o SubSeq(gens, g + 1, Len(gens))
  /\ UNCHANGED <<ledgerVars, snapshots, phase, committer, caller, crashes>>

Generate(g) ==
  \/ GenReadHeight(g)
  \/ GenExportTxIds(g)
  \/ GenExportState(g)
  \/ GenWriteMetadata(g)
  \/ GenRename(g)
  \/ GenFail(g)

-----------------------------------------------------------------------------
Crash ==
  /\ phase # "down"
  /\ crashes < MaxCrashes
  /\ crashes' = crashes + 1
  /\ phase' = "down"
  /\ loop' = "recv" /\ reply' = "none"
  /\ last' = 0 /\ status' = "idle" /\ inProgress' = FALSE /\ smallest' = NoRequest
  /\ committer' = "idle"
  /\ caller' = [c \in Client |-> Idle]
  /\ gens' = << >>
  /\ UNCHANGED <<ledgerVars, requests, snapshots>>

-----------------------------------------------------------------------------
Gen == 1..Len(gens)

Next ==
  \/ InitSnapshotMgr
  \/ RegenerateMissedSnapshot
  \/ CommitStart
  \/ CommitProceed
  \/ CommitBlock
  \/ CommitState
  \/ CommitDone
  \/ \E c \in Client, op \in {"add", "cancel"}, n \in BlockNum : Call(c, op, n)
  \/ \E c \in Client : RequestAdd(c) \/ RequestCancel(c) \/ Respond(c)
  \/ \E g \in Gen : Generate(g) \/ SnapshotDone(g)
  \/ Crash

Spec == Init /\ [][Next]_vars

(***************************************************************************)
(* A goroutine that can run does. The senders blocked on an unbuffered     *)
(* channel queue up first in, first out, so each is served although others *)
(* keep sending: strong fairness for every kind of send. A peer that went  *)
(* down is started again. No block has to arrive, no client has to call.   *)
(***************************************************************************)
Fairness ==
  /\ WF_vars(InitSnapshotMgr)
  /\ WF_vars(RegenerateMissedSnapshot)
  /\ WF_vars(CommitProceed)
  /\ WF_vars(CommitBlock)
  /\ WF_vars(CommitState)
  /\ SF_vars(CommitDone)
  /\ \A c \in Client : SF_vars(RequestAdd(c) \/ RequestCancel(c)) /\ WF_vars(Respond(c))
  /\ WF_vars(\E g \in Gen : Generate(g))
  /\ SF_vars(\E g \in Gen : SnapshotDone(g))

FairSpec == Spec /\ Fairness

-----------------------------------------------------------------------------
(* Properties. *)

Snapshot == [dir : BlockNum, tx : Int, state : Int, meta : Int]

\* Every variable has its type.
TypeOK ==
  /\ height \in 1..(MaxBlock + 1)
  /\ stateHt \in 1..(MaxBlock + 1)
  /\ requests \subseteq 0..(MaxBlock + 1)
  /\ snapshots \subseteq Snapshot
  /\ phase \in {"down", "regen", "open"}
  /\ loop \in {"recv", "proceed", "respond"}
  /\ last \in BlockNum
  /\ status \in {"idle", "blocked", "inProcess"}
  /\ inProgress \in BOOLEAN
  /\ smallest \in 0..NoRequest
  /\ reply \in {"none", "ok", "error"}
  /\ committer \in {"idle", "waiting", "addBlock", "applyState", "done"}
  /\ \A c \in Client : caller[c].st \in {"idle", "add", "cancel", "wait"}
  /\ \A g \in Gen : gens[g].pc \in {"start", "txids", "state", "metadata", "rename", "done"}
  /\ crashes \in 0..MaxCrashes

\* generateSnapshot "should be invoked when commit on the kvledger are paused":
\* at most one generator runs, and no commit is past commitProceed meanwhile.
CommitPausedForSnapshot ==
  gens # << >> =>
    /\ Len(gens) = 1
    /\ inProgress
    /\ committer \in {"idle", "waiting"}

\* A published snapshot is of one height: the transaction ids, the state and the
\* metadata, read in separate steps, are those of the block it is named after.
SnapshotsConsistent ==
  \A s \in snapshots : s.tx = s.dir + 1 /\ s.state = s.dir + 1 /\ s.meta = s.dir

\* The number sent with snapshotDone, read from the loop's variable by another
\* goroutine, is the one the generator was started for: the right request goes.
DoneForTheRightRequest ==
  \A g \in Gen : DoneNum(g) = gens[g].num

\* The cached smallest request is the smallest one in the DB.
SmallestIsCurrent ==
  phase # "down" => smallest = SmallestOf(requests)

\* A commit that waits for commitProceed gets it, unless the peer goes down.
CommitNotBlockedForever ==
  (committer = "waiting") ~> (committer = "addBlock" \/ phase = "down")

\* As long as the peer does not crash, a request for a committed block is
\* processed and removed.
RequestsProcessed ==
  \A n \in BlockNum :
    (n \in requests /\ n < height) ~> (n \notin requests \/ crashes > 0)

\* The same without the exception. (SubmitSnapshotRequest: "The request will be
\* stored in the ledger until the ledger commits the given block number and the
\* snapshot generation is completed.")
RequestStoredUntilGenerated ==
  \A n \in BlockNum :
    (n \in requests /\ n < height /\ snapshotExists(n)) ~> n \notin requests
=============================================================================
