--------------------------- MODULE SnapshotMgrProofs ---------------------------
(***************************************************************************)
(* Proofs about SnapshotMgr for every number of clients, blocks and        *)
(* crashes: a snapshot is generated while commits are paused, what is      *)
(* published is of one height, the request that is removed is the one that *)
(* was served, and the cached smallest request is current.                 *)
(***************************************************************************)
EXTENDS SnapshotMgr, WellFoundedInduction, TLAPS

Generator ==
  [kind : {"commit", "request"}, num : BlockNum,
   pc : {"start", "txids", "state", "metadata", "rename", "done"},
   dir : BlockNum, tx : Nat, state : Nat, meta : Nat]

\* The types that TypeOK leaves open.
Typed ==
  /\ TypeOK
  /\ caller \in [Client -> [st : {"idle", "add", "cancel", "wait"}, num : BlockNum]]
  /\ gens \in Seq(Generator)

\* A peer that is down has no goroutines; only the state DB may be a block behind.
DownOK ==
  phase = "down" =>
    /\ gens = << >> /\ ~inProgress
    /\ committer = "idle" /\ status = "idle" /\ loop = "recv"
    /\ stateHt \in {height - 1, height}

\* Clients call only when the ledger is open.
ClientsOK ==
  phase # "open" => \A c \in Client : caller[c].st = "idle"

\* The committer, the status that the event loop keeps of it, and how far it is.
CommitterOK ==
  phase # "down" =>
    /\ committer = "idle" <=> status = "idle"
    /\ loop = "proceed" <=> (committer = "waiting" /\ status = "inProcess")
    /\ status = "blocked" => committer = "waiting" /\ inProgress
    /\ committer \in {"waiting", "addBlock"} => height =< MaxBlock
    /\ last = IF committer \in {"applyState", "done"} THEN height - 2 ELSE height - 1
    /\ stateHt = IF committer = "applyState" THEN height - 1 ELSE height
    /\ phase = "regen" => committer = "idle" /\ gens = << >>

\* What a generator has read so far, when the block store has height h.
ReadOK(r, h) ==
  /\ r.pc \in {"txids", "state", "metadata", "rename"} => r.dir = h - 1
  /\ r.pc \in {"state", "metadata", "rename"} => r.tx = h
  /\ r.pc \in {"metadata", "rename"} => r.state = h
  /\ r.pc = "rename" => r.meta = h - 1

\* The one generator runs for the last block, whose request is still stored: a second
\* request for it is refused, and so is its cancellation.
GeneratorOK ==
  /\ Len(gens) =< 1
  /\ inProgress <=> gens # << >>
  /\ gens # << >> =>
       /\ status \in {"idle", "blocked"}
       /\ gens[1].num = last /\ last \in requests
       /\ ReadOK(gens[1], height)

IInv ==
  /\ Typed
  /\ DownOK
  /\ ClientsOK
  /\ CommitterOK
  /\ GeneratorOK
  /\ SnapshotsConsistent
  /\ SmallestIsCurrent
-----------------------------------------------------------------------------
(* The smallest request. *)

\* A nonempty set of natural numbers has a smallest element.
LEMMA MinExists ==
  ASSUME NEW S \in SUBSET Nat, S # {}
  PROVE  \E m \in S : \A n \in S : m =< n
<1> DEFINE R == {ss \in Nat \X Nat : ss[1] < ss[2]}
<1>1. IsWellFoundedOn(R, Nat)
  BY NatLessThanWellFounded DEF OpToRel
<1> HIDE DEF R
<1>2. PICK m \in S : \A n \in S : ~ (<<n, m>> \in R)
  BY <1>1, WFMin, Zenon
<1>3. \A n \in S : m =< n
  <2> SUFFICES ASSUME NEW n \in S PROVE ~ (n < m)
    OBVIOUS
  <2>1. n \in Nat /\ m \in Nat
    OBVIOUS
  <2> QED
    BY <1>2, <2>1 DEF R
<1> QED
  BY <1>3

\* SmallestOf returns the smallest request, and no other number has that property.
LEMMA SmallestOfFacts ==
  ASSUME NEW S \in SUBSET (0..(MaxBlock + 1))
  PROVE  /\ SmallestOf(S) \in 0..NoRequest
         /\ S = {} <=> SmallestOf(S) = NoRequest
         /\ S # {} => SmallestOf(S) \in S /\ \A n \in S : SmallestOf(S) =< n
         /\ \A m \in S : (\A n \in S : m =< n) => SmallestOf(S) = m
<1> USE SnapshotAssumption
<1>1. CASE S = {}
  BY <1>1 DEF SmallestOf, NoRequest
<1>2. CASE S # {}
  <2>1. \E m \in S : \A n \in S : m =< n
    BY <1>2, MinExists
  <2>2. SmallestOf(S) \in S /\ \A n \in S : SmallestOf(S) =< n
    BY <1>2, <2>1 DEF SmallestOf
  <2> DEFINE min == SmallestOf(S)
  <2>3. \A m \in S : (\A n \in S : m =< n) => min = m
    <3> HIDE DEF min
    <3> SUFFICES ASSUME NEW m \in S, \A n \in S : m =< n PROVE min = m
      OBVIOUS
    <3>1. min \in S /\ min =< m /\ m =< min
      BY <2>2 DEF min
    <3> QED
      BY <3>1
  <2>4. min \in 0..(MaxBlock + 1)
    BY <2>2
  <2>5. min \in 0..NoRequest /\ min # NoRequest
    <3> HIDE DEF min
    <3> QED
      BY <2>4 DEF NoRequest
  <2> QED
    BY <1>2, <2>2, <2>3, <2>5
<1> QED
  BY <1>1, <1>2

\* Deleting a request keeps the cached smallest request current.
LEMMA DeleteKeepsSmallest ==
  ASSUME NEW n, requests \subseteq 0..(MaxBlock + 1), smallest = SmallestOf(requests),
         BookkeeperDelete(n)
  PROVE  smallest' = SmallestOf(requests')
<1> USE DEF BookkeeperDelete
<1>1. CASE n \notin requests
  <2>1. requests' = requests
    BY <1>1
  <2> QED
    BY <1>1, <2>1
<1>2. CASE n \in requests /\ smallest = n
  BY <1>2
<1>3. CASE n \in requests /\ smallest # n
  <2>1. smallest \in requests' /\ \A k \in requests' : smallest =< k
    BY <1>3, SmallestOfFacts
  <2>2. requests' \in SUBSET (0..(MaxBlock + 1))
    OBVIOUS
  <2> QED
    BY <1>3, <2>1, <2>2, SmallestOfFacts
<1> QED
  BY <1>1, <1>2, <1>3

\* Adding a request does so too.
LEMMA AddKeepsSmallest ==
  ASSUME NEW r \in 0..(MaxBlock + 1), requests \subseteq 0..(MaxBlock + 1)
  PROVE  LET old == SmallestOf(requests) IN
         (IF r < old THEN r ELSE old) = SmallestOf(requests \cup {r})
<1> USE SnapshotAssumption
<1> DEFINE old == SmallestOf(requests)
           min == IF r < old THEN r ELSE old
<1>1. old \in 0..NoRequest
  BY SmallestOfFacts
<1>2. min \in requests \cup {r} /\ \A k \in requests \cup {r} : min =< k
  <2>1. CASE requests = {}
    BY <2>1, SmallestOfFacts DEF NoRequest
  <2>2. CASE requests # {}
    BY <1>1, <2>2, SmallestOfFacts
  <2> QED
    BY <2>1, <2>2
<1>3. requests \cup {r} \in SUBSET (0..(MaxBlock + 1))
  OBVIOUS
<1> HIDE DEF min
<1>4. SmallestOf(requests \cup {r}) = min
  BY <1>2, <1>3, SmallestOfFacts
<1> QED
  BY <1>4 DEF min

-----------------------------------------------------------------------------
(* The steps of the specification keep the invariant. *)

\* At most one generator: it is the first.
LEMMA OneGenerator ==
  ASSUME IInv
  PROVE  /\ gens # << >> => gens \in Seq(Generator) /\ Len(gens) = 1 /\ gens[1] \in Generator
         /\ \A g \in Gen : g = 1 /\ gens # << >>
<1>1. gens \in Seq(Generator) /\ Len(gens) =< 1 /\ Len(gens) \in Nat
  BY DEF IInv, Typed, GeneratorOK
<1>2. CASE Len(gens) = 0
  <2>1. gens = << >>
    BY <1>1, <1>2
  <2> QED
    BY <1>2, <2>1 DEF Gen
<1>3. CASE Len(gens) = 1
  <2>1. gens # << >> /\ 1 \in 1..Len(gens)
    BY <1>3
  <2>2. gens[1] \in Generator
    BY <1>1, <1>3, <2>1
  <2> QED
    BY <1>1, <1>3, <2>1, <2>2 DEF Gen
<1>4. Len(gens) = 0 \/ Len(gens) = 1
  <2>1. \A n \in Nat : n =< 1 => n = 0 \/ n = 1
    OBVIOUS
  <2> QED
    BY <1>1, <2>1, Zenon
<1> QED
  BY <1>2, <1>3, <1>4

\* The invariant holds when the ledger is opened first.
LEMMA InitIInv == Init => IInv
<1> SUFFICES ASSUME Init PROVE IInv
  OBVIOUS
<1> USE SnapshotAssumption DEF Init
<1>1. Typed
  <2>1. Gen = {} /\ gens \in Seq(Generator)
    BY DEF Gen
  <2>2. caller \in [Client -> [st : {"idle", "add", "cancel", "wait"}, num : BlockNum]]
    BY DEF Idle, BlockNum
  <2>3. \A c \in Client : caller[c].st \in {"idle", "add", "cancel", "wait"}
    BY <2>2
  <2>4. height \in 1..(MaxBlock + 1) /\ stateHt \in 1..(MaxBlock + 1) /\ last \in BlockNum
    BY DEF BlockNum
  <2>5. smallest \in 0..NoRequest /\ crashes \in 0..MaxCrashes
    BY DEF NoRequest
  <2> HIDE DEF Init
  <2>6. /\ requests = {} /\ snapshots = {} /\ inProgress = FALSE
        /\ phase = "down" /\ loop = "recv" /\ status = "idle"
        /\ reply = "none" /\ committer = "idle"
    BY DEF Init
  <2> QED
    BY <2>1, <2>2, <2>3, <2>4, <2>5, <2>6 DEF Typed, TypeOK
<1>2. DownOK /\ ClientsOK /\ CommitterOK /\ GeneratorOK
  BY DEF DownOK, ClientsOK, CommitterOK, GeneratorOK, Idle
<1>3. SnapshotsConsistent /\ SmallestIsCurrent
  BY DEF SnapshotsConsistent, SmallestIsCurrent
<1> QED
  BY <1>1, <1>2, <1>3 DEF IInv

\* Opening the ledger.
LEMMA InitSnapshotMgrIInv ==
  ASSUME IInv, InitSnapshotMgr
  PROVE  IInv'
<1> USE SnapshotAssumption DEF InitSnapshotMgr, IInv
<1>1. smallest' \in 0..NoRequest
  BY SmallestOfFacts DEF Typed, TypeOK
<1>2. Typed'
  <2>1. height' \in 1..(MaxBlock + 1) /\ stateHt' \in 1..(MaxBlock + 1) /\ last' \in BlockNum
    BY DEF Typed, TypeOK, BlockNum
  <2>2. phase' \in {"down", "regen", "open"}
    OBVIOUS
  <2> QED
    BY <1>1, <2>1, <2>2 DEF Typed, TypeOK, Gen, NoRequest, Snapshot
<1>3. DownOK' /\ ClientsOK' /\ CommitterOK'
  BY DEF DownOK, ClientsOK, CommitterOK, Typed, TypeOK
<1>4. GeneratorOK'
  BY DEF DownOK, GeneratorOK
<1>5. SnapshotsConsistent' /\ SmallestIsCurrent'
  BY DEF SnapshotsConsistent, SmallestIsCurrent
<1> QED
  BY <1>2, <1>3, <1>4, <1>5

\* commitDone: the end of a commit, and the replay of it when the ledger is opened.
LEMMA CommitDoneIInv ==
  ASSUME IInv, RegenerateMissedSnapshot \/ CommitDone
  PROVE  IInv'
<1> USE SnapshotAssumption DEF IInv, RegenerateMissedSnapshot, CommitDone, Receiving,
      onCommitDone, ledgerVars
<1>1. /\ gens = << >> /\ ~inProgress
      /\ height - 1 \in BlockNum /\ stateHt = height
      /\ phase # "down" /\ phase' = "open"
      /\ committer' = "idle" /\ status' = "idle" /\ loop' = "recv" /\ last' = height - 1
  BY DEF CommitterOK, GeneratorOK, Typed, TypeOK, BlockNum
<1>2. CASE height - 1 = smallest
  <2> DEFINE g == [kind |-> "commit", num |-> height - 1, pc |-> "start", dir |-> 0, tx |-> 0,
                   state |-> 0, meta |-> 0]
  <2>1. gens' = <<g>> /\ g \in Generator /\ inProgress'
    BY <1>1, <1>2 DEF StartGenerator, Generator, BlockNum
  <2>2. height - 1 \in requests
    BY <1>1, <1>2, SmallestOfFacts DEF SmallestIsCurrent, Typed, TypeOK, BlockNum, NoRequest
  <2>3. Len(gens') = 1 /\ gens'[1] = g
    BY <2>1
  <2>4. g.num = height - 1 /\ g.pc = "start"
    OBVIOUS
  <2> HIDE DEF g
  <2>5. gens' \in Seq(Generator)
    BY <2>1
  <2>6. GeneratorOK'
    BY <1>1, <2>1, <2>2, <2>3, <2>4 DEF GeneratorOK, ReadOK
  <2>7. \A i \in Gen' : gens'[i].pc \in {"start", "txids", "state", "metadata", "rename", "done"}
    BY <2>3, <2>4 DEF Gen
  <2>8. Typed'
    BY <1>1, <2>1, <2>5, <2>7 DEF Typed, TypeOK
  <2>9. CommitterOK'
    BY <1>1, <2>1 DEF CommitterOK, Typed, TypeOK
  <2> QED
    BY <1>1, <2>6, <2>8, <2>9 DEF DownOK, ClientsOK, SnapshotsConsistent, SmallestIsCurrent
<1>3. CASE height - 1 # smallest
  <2>1. Typed'
    BY <1>1, <1>3 DEF Typed, TypeOK, Gen
  <2>2. CommitterOK' /\ GeneratorOK'
    BY <1>1, <1>3 DEF CommitterOK, GeneratorOK, Typed, TypeOK
  <2> QED
    BY <1>1, <1>3, <2>1, <2>2 DEF DownOK, ClientsOK, SnapshotsConsistent, SmallestIsCurrent
<1> QED
  BY <1>2, <1>3

\* The steps of the committer.
LEMMA CommitterIInv ==
  ASSUME IInv, CommitStart \/ CommitProceed \/ CommitBlock \/ CommitState
  PROVE  IInv'
<1> USE SnapshotAssumption DEF IInv
<1>1. /\ UNCHANGED <<requests, snapshots, phase, last, inProgress, smallest, reply, caller,
                     gens, crashes>>
      /\ phase # "down"
  BY DEF CommitStart, CommitProceed, CommitBlock, CommitState, onCommitStart, Receiving,
     ledgerVars, loopVars, DownOK
<1>2. ClientsOK' /\ SnapshotsConsistent' /\ SmallestIsCurrent' /\ DownOK'
  BY <1>1 DEF ClientsOK, SnapshotsConsistent, SmallestIsCurrent, DownOK
<1>3. CASE CommitStart
  <2> USE DEF CommitStart, onCommitStart, ledgerVars, Receiving
  <2>1. Typed'
    BY <1>1, <1>3 DEF Typed, TypeOK, Gen
  <2>2. CommitterOK'
    BY <1>1, <1>3 DEF CommitterOK
  <2>3. GeneratorOK'
    BY <1>1, <1>3 DEF GeneratorOK, ReadOK
  <2> QED
    BY <1>2, <2>1, <2>2, <2>3
<1>4. CASE CommitProceed
  <2> USE DEF CommitProceed, ledgerVars
  <2>1. Typed'
    BY <1>1, <1>4 DEF Typed, TypeOK, Gen
  <2>2. CommitterOK'
    BY <1>1, <1>4 DEF CommitterOK
  <2>3. GeneratorOK'
    BY <1>1, <1>4 DEF GeneratorOK, ReadOK
  <2> QED
    BY <1>2, <2>1, <2>2, <2>3
<1>5. CASE CommitBlock
  <2> USE DEF CommitBlock, loopVars
  <2>1. height' \in 1..(MaxBlock + 1) /\ gens = << >>
    BY <1>1, <1>5 DEF CommitterOK, GeneratorOK, Typed, TypeOK
  <2>2. Typed'
    BY <1>1, <1>5, <2>1 DEF Typed, TypeOK, Gen
  <2>3. CommitterOK'
    BY <1>1, <1>5 DEF CommitterOK, Typed, TypeOK
  <2>4. GeneratorOK'
    BY <1>1, <1>5, <2>1 DEF GeneratorOK
  <2> QED
    BY <1>2, <2>2, <2>3, <2>4
<1>6. CASE CommitState
  <2> USE DEF CommitState, loopVars
  <2>1. stateHt' \in 1..(MaxBlock + 1) /\ gens = << >>
    BY <1>1, <1>6 DEF CommitterOK, GeneratorOK, Typed, TypeOK
  <2>2. Typed'
    BY <1>1, <1>6, <2>1 DEF Typed, TypeOK, Gen
  <2>3. CommitterOK'
    BY <1>1, <1>6 DEF CommitterOK, Typed, TypeOK
  <2>4. GeneratorOK'
    BY <1>1, <1>6, <2>1 DEF GeneratorOK
  <2> QED
    BY <1>2, <2>2, <2>3, <2>4
<1> QED
  BY <1>3, <1>4, <1>5, <1>6

\* The response to a caller, and its next call.
LEMMA CallerIInv ==
  ASSUME IInv,
         NEW c \in Client,
         Respond(c) \/ \E op \in {"add", "cancel"}, n \in BlockNum : Call(c, op, n)
  PROVE  IInv'
<1> USE SnapshotAssumption DEF IInv, Call, Respond, ledgerVars, loopVars
<1>1. /\ UNCHANGED <<height, stateHt, requests, snapshots, phase, last, status, inProgress,
                     smallest, committer, gens, crashes>>
      /\ loop' = loop \/ (loop = "respond" /\ loop' = "recv")
      /\ reply' \in {reply, "none"}
      /\ phase # "down"
  <2>1. CASE Respond(c)
    BY <2>1 DEF DownOK
  <2>2. ASSUME NEW op, NEW n, Call(c, op, n)
        PROVE  /\ UNCHANGED <<height, stateHt, requests, snapshots, phase, loop, last, status,
                              inProgress, smallest, reply, committer, gens, crashes>>
               /\ phase # "down"
    BY <2>2
  <2> HIDE DEF Call
  <2> QED
    BY <2>1, <2>2
<1>2. /\ caller' \in [Client -> [st : {"idle", "add", "cancel", "wait"}, num : BlockNum]]
      /\ ClientsOK'
  <2>1. CASE Respond(c)
    BY <2>1 DEF Typed, TypeOK, Idle, BlockNum, ClientsOK
  <2>2. ASSUME NEW op \in {"add", "cancel"}, NEW n \in BlockNum, Call(c, op, n)
        PROVE  /\ caller' \in [Client -> [st : {"idle", "add", "cancel", "wait"}, num : BlockNum]]
               /\ ClientsOK'
    BY <2>2 DEF Typed, ClientsOK
  <2> QED
    BY <2>1, <2>2
<1> HIDE DEF Call, Respond
<1>3. Typed'
  <2>1. \A x \in Client : caller'[x].st \in {"idle", "add", "cancel", "wait"}
    BY <1>2
  <2> QED
    BY <1>1, <1>2, <2>1 DEF Typed, TypeOK, Gen
<1>4. CommitterOK' /\ DownOK'
  BY <1>1 DEF CommitterOK, DownOK, Typed, TypeOK
<1>5. GeneratorOK' /\ SnapshotsConsistent' /\ SmallestIsCurrent'
  BY <1>1 DEF GeneratorOK, ReadOK, SnapshotsConsistent, SmallestIsCurrent
<1> QED
  BY <1>2, <1>3, <1>4, <1>5

\* The peer crashes.
LEMMA CrashIInv ==
  ASSUME IInv, Crash
  PROVE  IInv'
<1> USE SnapshotAssumption DEF IInv, Crash, ledgerVars
<1>1. stateHt \in {height - 1, height}
  BY DEF CommitterOK, Typed, TypeOK
<1>2. Typed'
  <2>1. Gen' = {} /\ gens' \in Seq(Generator)
    BY DEF Gen
  <2>2. caller' \in [Client -> [st : {"idle", "add", "cancel", "wait"}, num : BlockNum]]
    BY DEF Idle, BlockNum
  <2>3. \A c \in Client : caller'[c].st \in {"idle", "add", "cancel", "wait"}
    BY <2>2
  <2>4. last' \in BlockNum /\ smallest' \in 0..NoRequest /\ crashes' \in 0..MaxCrashes
    BY DEF BlockNum, NoRequest, Typed, TypeOK
  <2> QED
    BY <2>1, <2>2, <2>3, <2>4 DEF Typed, TypeOK
<1>3. DownOK' /\ CommitterOK' /\ GeneratorOK'
  BY <1>1 DEF DownOK, CommitterOK, GeneratorOK
<1>4. ClientsOK' /\ SnapshotsConsistent' /\ SmallestIsCurrent'
  BY DEF ClientsOK, SnapshotsConsistent, SmallestIsCurrent, Idle
<1> QED
  BY <1>2, <1>3, <1>4

\* requestAdd: a request for the last block starts a generator; then none is running, for
\* the request of the one that runs would still be there.
LEMMA RequestAddIInv ==
  ASSUME IInv, NEW c \in Client, RequestAdd(c)
  PROVE  IInv'
<1> DEFINE r == requestedBlockNum(caller[c].num)
           rejected == requestRejected(r)
<1> USE SnapshotAssumption DEF IInv
<1>1. /\ phase = "open" /\ phase' = "open" /\ loop = "recv" /\ loop' = "respond"
      /\ UNCHANGED <<height, stateHt, snapshots, committer, crashes, last, status>>
      /\ caller' = [caller EXCEPT ![c] = [st |-> "wait", num |-> 0]]
  BY DEF RequestAdd, Receiving, onRequestAdd, ledgerVars, ClientsOK, Typed, TypeOK
<1>2. caller' \in [Client -> [st : {"idle", "add", "cancel", "wait"}, num : BlockNum]]
  BY <1>1 DEF Typed, BlockNum
<1>3. \A x \in Client : caller'[x].st \in {"idle", "add", "cancel", "wait"}
  BY <1>2
<1>4. DownOK' /\ ClientsOK' /\ SnapshotsConsistent'
  BY <1>1 DEF DownOK, ClientsOK, SnapshotsConsistent
<1>5. CASE rejected
  <2>1. reply' = "error" /\ UNCHANGED <<requests, smallest, inProgress, gens>>
    BY <1>5 DEF RequestAdd, onRequestAdd
  <2>2. Typed'
    BY <1>1, <1>2, <1>3, <2>1 DEF Typed, TypeOK, Gen
  <2>3. CommitterOK' /\ GeneratorOK' /\ SmallestIsCurrent'
    BY <1>1, <2>1 DEF CommitterOK, GeneratorOK, ReadOK, SmallestIsCurrent
  <2> QED
    BY <1>4, <2>2, <2>3
<1>6. CASE ~rejected
  <2>1. /\ reply' = "ok"
        /\ requests' = requests \cup {r}
        /\ smallest' = IF r < smallest THEN r ELSE smallest
        /\ IF status = "idle" /\ r = last
             THEN inProgress' = TRUE /\ StartGenerator("request", r)
             ELSE UNCHANGED <<inProgress, gens>>
    BY <1>6 DEF RequestAdd, onRequestAdd
  <2>2. r \in 0..(MaxBlock + 1)
    <3>1. caller[c].num \in BlockNum /\ last \in BlockNum
      BY DEF Typed, TypeOK
    <3> QED
      BY <3>1 DEF requestedBlockNum, leastAcceptableBlockNum, BlockNum
  <2>3. requests' \subseteq 0..(MaxBlock + 1) /\ smallest' \in 0..NoRequest
    <3> HIDE DEF r
    <3>1. requests \subseteq 0..(MaxBlock + 1) /\ smallest \in 0..NoRequest
      BY DEF Typed, TypeOK
    <3> QED
      BY <2>1, <2>2, <3>1 DEF NoRequest
  <2>4. SmallestIsCurrent'
    BY <1>1, <2>1, <2>2, AddKeepsSmallest DEF SmallestIsCurrent, Typed, TypeOK
  <2> HIDE DEF r
  <2>5. CASE status = "idle" /\ r = last
    <3> DEFINE g == [kind |-> "request", num |-> r, pc |-> "start", dir |-> 0, tx |-> 0,
                     state |-> 0, meta |-> 0]
    <3>1. gens = << >>
      BY <1>6, <2>5 DEF requestRejected, GeneratorOK
    <3>2. gens' = <<g>> /\ inProgress'
      BY <2>1, <2>5, <3>1 DEF StartGenerator
    <3>3. g \in Generator
      BY <2>5 DEF Generator, Typed, TypeOK, BlockNum
    <3>4. g.num = last /\ g.pc = "start"
      BY <2>5
    <3> HIDE DEF g
    <3>5. Len(gens') = 1 /\ gens'[1] = g /\ gens' \in Seq(Generator)
      BY <3>2, <3>3
    <3>6. GeneratorOK'
      BY <1>1, <2>1, <2>5, <3>2, <3>4, <3>5 DEF GeneratorOK, ReadOK
    <3>7. \A i \in Gen' : gens'[i].pc \in {"start", "txids", "state", "metadata", "rename", "done"}
      BY <3>4, <3>5 DEF Gen
    <3>8. Typed'
      BY <1>1, <1>2, <1>3, <2>1, <2>3, <3>2, <3>5, <3>7 DEF Typed, TypeOK
    <3>9. CommitterOK'
      BY <1>1, <2>5, <3>2 DEF CommitterOK
    <3> QED
      BY <1>4, <2>4, <3>6, <3>8, <3>9
  <2>6. CASE ~ (status = "idle" /\ r = last)
    <3>1. UNCHANGED <<inProgress, gens>>
      BY <2>1, <2>6
    <3>2. Typed'
      BY <1>1, <1>2, <1>3, <2>1, <2>3, <3>1 DEF Typed, TypeOK, Gen
    <3>3. CommitterOK' /\ GeneratorOK'
      BY <1>1, <2>1, <3>1 DEF CommitterOK, GeneratorOK, ReadOK
    <3> QED
      BY <1>4, <2>4, <3>2, <3>3
  <2> QED
    BY <2>5, <2>6
<1> QED
  BY <1>5, <1>6

\* requestCancel: the request of a running generator stays.
LEMMA RequestCancelIInv ==
  ASSUME IInv, NEW c \in Client, RequestCancel(c)
  PROVE  IInv'
<1> DEFINE n == caller[c].num
<1> USE SnapshotAssumption DEF IInv
<1>1. /\ phase = "open" /\ phase' = "open" /\ loop = "recv" /\ loop' = "respond"
      /\ UNCHANGED <<height, stateHt, snapshots, committer, crashes, last, status, inProgress,
                     gens>>
      /\ caller' = [caller EXCEPT ![c] = [st |-> "wait", num |-> 0]]
  BY DEF RequestCancel, Receiving, onRequestCancel, ledgerVars, ClientsOK, Typed, TypeOK
<1>2. caller' \in [Client -> [st : {"idle", "add", "cancel", "wait"}, num : BlockNum]]
  BY <1>1 DEF Typed, BlockNum
<1>3. \A x \in Client : caller'[x].st \in {"idle", "add", "cancel", "wait"}
  BY <1>2
<1>4. /\ SmallestIsCurrent'
      /\ requests' \subseteq requests /\ reply' \in {"ok", "error"}
      /\ inProgress /\ last \in requests => last \in requests'
  <2>1. CASE inProgress /\ n = last
    BY <1>1, <2>1 DEF RequestCancel, onRequestCancel, SmallestIsCurrent
  <2>2. CASE ~ (inProgress /\ n = last)
    <3>1. BookkeeperDelete(n) /\ reply' \in {"ok", "error"}
      BY <2>2 DEF RequestCancel, onRequestCancel
    <3>2. smallest' = SmallestOf(requests')
      BY <1>1, <3>1, DeleteKeepsSmallest DEF SmallestIsCurrent, Typed, TypeOK
    <3> QED
      BY <2>2, <3>1, <3>2 DEF BookkeeperDelete, SmallestIsCurrent
  <2> QED
    BY <2>1, <2>2
<1>5. smallest' \in 0..NoRequest
  BY <1>1, <1>4, SmallestOfFacts DEF Typed, TypeOK, SmallestIsCurrent
<1>6. Typed'
  BY <1>1, <1>2, <1>3, <1>4, <1>5 DEF Typed, TypeOK, Gen
<1>7. CommitterOK' /\ GeneratorOK'
  BY <1>1, <1>4 DEF CommitterOK, GeneratorOK, ReadOK
<1> QED
  BY <1>1, <1>4, <1>6, <1>7 DEF DownOK, ClientsOK, SnapshotsConsistent

\* A generator reads, publishes or fails: commits are paused, so what it reads is of the
\* last block.
LEMMA GenerateIInv ==
  ASSUME IInv, NEW g \in Gen, Generate(g)
  PROVE  IInv'
<1> USE SnapshotAssumption DEF IInv
<1>1. /\ gens \in Seq(Generator) /\ Len(gens) = 1 /\ g = 1 /\ gens # << >>
      /\ gens[1] \in Generator
  BY OneGenerator
<1>2. /\ UNCHANGED <<height, stateHt, requests, phase, loop, last, status, inProgress, smallest,
                     reply, committer, caller, crashes>>
      /\ phase # "down" /\ inProgress
  BY <1>1 DEF Generate, GenReadHeight, GenExportTxIds, GenExportState, GenWriteMetadata,
     GenRename, GenFail, GenStep, ledgerVars, loopVars, DownOK, GeneratorOK
<1>3. stateHt = height /\ last = height - 1 /\ height - 1 \in BlockNum /\ height \in Nat
  BY <1>1, <1>2 DEF CommitterOK, GeneratorOK, Typed, TypeOK, BlockNum
<1>4. snapshots' \subseteq Snapshot /\ SnapshotsConsistent'
  <2>1. CASE GenRename(g)
    <3>1. gens[1].dir = height - 1 /\ gens[1].tx = height /\ gens[1].state = height
          /\ gens[1].meta = height - 1
      BY <1>1, <2>1 DEF GenRename, GenStep, GeneratorOK, ReadOK
    <3> QED
      BY <1>1, <1>3, <2>1, <3>1 DEF GenRename, Typed, TypeOK, Snapshot, SnapshotsConsistent
  <2>2. CASE snapshots' = snapshots
    BY <2>2 DEF Typed, TypeOK, SnapshotsConsistent
  <2> QED
    BY <2>1, <2>2 DEF Generate, GenReadHeight, GenExportTxIds, GenExportState, GenWriteMetadata,
       GenFail
<1>5. ASSUME NEW x \in Generator, gens' = [gens EXCEPT ![1] = x], x.num = gens[1].num,
             ReadOK(x, height)
      PROVE  IInv'
  <2>1. gens' \in Seq(Generator) /\ Len(gens') = 1 /\ gens'[1] = x
    BY <1>1, <1>5
  <2>2. gens' # << >>
    <3>1. Len(<< >>) # 1
      OBVIOUS
    <3> QED
      BY <2>1, <3>1, Zenon
  <2>3. \A i \in Gen' : gens'[i].pc \in {"start", "txids", "state", "metadata", "rename", "done"}
    BY <2>1 DEF Gen, Generator
  <2>4. Typed'
    BY <1>2, <1>4, <2>1, <2>3 DEF Typed, TypeOK
  <2>5. GeneratorOK'
    BY <1>1, <1>2, <1>5, <2>1, <2>2 DEF GeneratorOK
  <2>6. CommitterOK' /\ DownOK' /\ ClientsOK' /\ SmallestIsCurrent'
    BY <1>1, <1>2 DEF CommitterOK, DownOK, ClientsOK, SmallestIsCurrent
  <2> QED
    BY <1>4, <2>4, <2>5, <2>6
<1>6. /\ ReadOK(gens[1], height)
      /\ g = 1
  BY <1>1 DEF GeneratorOK
<1>7. CASE GenReadHeight(g)
  <2> DEFINE x == [gens[1] EXCEPT !.pc = "txids", !.dir = height - 1]
  <2>1. gens' = [gens EXCEPT ![1] = x]
    BY <1>6, <1>7 DEF GenReadHeight, GenStep
  <2>2. x \in Generator /\ x.num = gens[1].num
    BY <1>1, <1>3 DEF Generator
  <2>3. ReadOK(x, height)
    BY <1>1, <1>3, <1>6, <1>7 DEF GenReadHeight, GenStep, ReadOK, Generator
  <2> HIDE DEF x
  <2> QED
    BY <1>5, <2>1, <2>2, <2>3
<1>8. CASE GenExportTxIds(g)
  <2> DEFINE x == [gens[1] EXCEPT !.pc = "state", !.tx = height]
  <2>1. gens' = [gens EXCEPT ![1] = x]
    BY <1>6, <1>8 DEF GenExportTxIds, GenStep
  <2>2. x \in Generator /\ x.num = gens[1].num
    BY <1>1, <1>3 DEF Generator
  <2>3. ReadOK(x, height)
    BY <1>1, <1>3, <1>6, <1>8 DEF GenExportTxIds, GenStep, ReadOK, Generator
  <2> HIDE DEF x
  <2> QED
    BY <1>5, <2>1, <2>2, <2>3
<1>9. CASE GenExportState(g)
  <2> DEFINE x == [gens[1] EXCEPT !.pc = "metadata", !.state = stateHt]
  <2>1. gens' = [gens EXCEPT ![1] = x]
    BY <1>6, <1>9 DEF GenExportState, GenStep
  <2>2. x \in Generator /\ x.num = gens[1].num
    BY <1>1, <1>3 DEF Generator
  <2>3. ReadOK(x, height)
    BY <1>1, <1>3, <1>6, <1>9 DEF GenExportState, GenStep, ReadOK, Generator
  <2> HIDE DEF x
  <2> QED
    BY <1>5, <2>1, <2>2, <2>3
<1>10. CASE GenWriteMetadata(g)
  <2> DEFINE x == [gens[1] EXCEPT !.pc = "rename", !.meta = height - 1]
  <2>1. gens' = [gens EXCEPT ![1] = x]
    BY <1>6, <1>10 DEF GenWriteMetadata, GenStep
  <2>2. x \in Generator /\ x.num = gens[1].num
    <3>1. height - 1 \in Nat
      BY <1>3 DEF BlockNum
    <3> QED
      BY <1>1, <3>1 DEF Generator
  <2>3. ReadOK(x, height)
    BY <1>1, <1>3, <1>6, <1>10 DEF GenWriteMetadata, GenStep, ReadOK, Generator
  <2> HIDE DEF x
  <2> QED
    BY <1>5, <2>1, <2>2, <2>3
<1>11. CASE GenRename(g)
  <2> DEFINE x == [gens[1] EXCEPT !.pc = "done"]
  <2>1. gens' = [gens EXCEPT ![1] = x]
    BY <1>6, <1>11 DEF GenRename, GenStep
  <2>2. x \in Generator /\ x.num = gens[1].num
    BY <1>1, <1>3 DEF Generator
  <2>3. ReadOK(x, height)
    BY <1>1, <1>3, <1>6, <1>11 DEF GenRename, GenStep, ReadOK, Generator
  <2> HIDE DEF x
  <2> QED
    BY <1>5, <2>1, <2>2, <2>3
<1>12. CASE GenFail(g)
  <2> DEFINE x == [gens[1] EXCEPT !.pc = "done"]
  <2>1. gens' = [gens EXCEPT ![1] = x]
    BY <1>6, <1>12 DEF GenFail, GenStep
  <2>2. x \in Generator /\ x.num = gens[1].num
    BY <1>1, <1>3 DEF Generator
  <2>3. ReadOK(x, height)
    BY <1>1, <1>3, <1>6, <1>12 DEF GenFail, GenStep, ReadOK, Generator
  <2> HIDE DEF x
  <2> QED
    BY <1>5, <2>1, <2>2, <2>3
<1> QED
  BY <1>7, <1>8, <1>9, <1>10, <1>11, <1>12 DEF Generate

\* snapshotDone: the request goes and a commit that was blocked proceeds.
LEMMA SnapshotDoneIInv ==
  ASSUME IInv, NEW g \in Gen, SnapshotDone(g)
  PROVE  IInv'
<1> USE SnapshotAssumption DEF IInv
<1>1. gens \in Seq(Generator) /\ Len(gens) = 1 /\ g = 1 /\ gens # << >>
  BY OneGenerator
<1>2. /\ UNCHANGED <<height, stateHt, snapshots, phase, last, reply, committer, caller, crashes>>
      /\ phase # "down" /\ inProgress /\ ~inProgress'
      /\ BookkeeperDelete(DoneNum(g))
      /\ IF status = "blocked" THEN status' = "inProcess" /\ loop' = "proceed"
                               ELSE status' = status /\ loop' = "recv"
      /\ status \in {"idle", "blocked"}
  BY <1>1 DEF SnapshotDone, onSnapshotDone, Receiving, ledgerVars, GeneratorOK
<1>3. gens' = << >>
  BY <1>1 DEF SnapshotDone
<1>4. smallest' = SmallestOf(requests')
  BY <1>2, DeleteKeepsSmallest DEF SmallestIsCurrent, Typed, TypeOK
<1>5. requests' \subseteq 0..(MaxBlock + 1) /\ smallest' \in 0..NoRequest
  <2>1. requests' \in SUBSET (0..(MaxBlock + 1))
    BY <1>2 DEF BookkeeperDelete, Typed, TypeOK
  <2> QED
    BY <1>4, <2>1, SmallestOfFacts
<1>6. Typed'
  <2>1. Gen' = {} /\ gens' \in Seq(Generator)
    BY <1>3 DEF Gen
  <2>2. /\ status' \in {"idle", "blocked", "inProcess"}
        /\ loop' \in {"recv", "proceed", "respond"} /\ inProgress' \in BOOLEAN
    BY <1>2 DEF SnapshotDone, onSnapshotDone
  <2> QED
    BY <1>2, <1>5, <2>1, <2>2 DEF Typed, TypeOK
<1>7. CommitterOK' /\ GeneratorOK'
  BY <1>2, <1>3 DEF CommitterOK, GeneratorOK, Typed, TypeOK
<1>8. DownOK' /\ ClientsOK' /\ SnapshotsConsistent' /\ SmallestIsCurrent'
  BY <1>2, <1>4 DEF DownOK, ClientsOK, SnapshotsConsistent, SmallestIsCurrent
<1> QED
  BY <1>6, <1>7, <1>8

\* A step that changes nothing.
LEMMA StutterIInv ==
  ASSUME IInv, UNCHANGED vars
  PROVE  IInv'
BY DEF IInv, vars, ledgerVars, loopVars, Typed, TypeOK, DownOK, ClientsOK, CommitterOK,
   GeneratorOK, ReadOK, SnapshotsConsistent, SmallestIsCurrent, Gen

-----------------------------------------------------------------------------
\* The invariant holds in every reachable state.
THEOREM Invariance == Spec => []IInv
<1>1. ASSUME IInv, [Next]_vars PROVE IInv'
  BY <1>1, InitSnapshotMgrIInv, CommitDoneIInv, CommitterIInv, CallerIInv, RequestAddIInv,
     RequestCancelIInv, GenerateIInv, SnapshotDoneIInv, CrashIInv, StutterIInv DEF Next
<1> QED
  BY InitIInv, <1>1, PTL DEF Spec

\* Every variable of the event loop, the committer, the callers and the generators has its
\* type.
THEOREM TypeCorrect == Spec => []TypeOK
<1>1. IInv => TypeOK
  BY DEF IInv, Typed
<1> QED
  BY Invariance, <1>1, PTL

\* processSnapshotMgmtEvents never lets a commit proceed while generateSnapshot runs, and
\* never starts a second generator.
THEOREM CommitsPaused == Spec => []CommitPausedForSnapshot
<1>1. IInv => CommitPausedForSnapshot
  <2> SUFFICES ASSUME IInv, gens # << >> PROVE CommitPausedForSnapshot
    BY DEF CommitPausedForSnapshot
  <2>1. gens \in Seq(Generator) /\ Len(gens) =< 1 /\ inProgress /\ status \in {"idle", "blocked"}
        /\ phase # "down"
    BY DEF IInv, Typed, GeneratorOK, DownOK
  <2>2. Len(gens) = 1
    BY OneGenerator
  <2>3. committer \in {"idle", "waiting"}
    BY <2>1 DEF IInv, CommitterOK
  <2> QED
    BY <2>1, <2>2, <2>3 DEF CommitPausedForSnapshot
<1> QED
  BY Invariance, <1>1, PTL

\* What generateSnapshot publishes, read in separate steps beside the committer, is of the
\* one height the snapshot is named after.
THEOREM PublishedConsistent == Spec => []SnapshotsConsistent
<1>1. IInv => SnapshotsConsistent
  BY DEF IInv
<1> QED
  BY Invariance, <1>1, PTL

\* The goroutine that reads lastCommittedBlockNumber when its snapshot is done removes the
\* request it was started for.
THEOREM RightRequestDone == Spec => []DoneForTheRightRequest
<1>1. IInv => DoneForTheRightRequest
  <2> SUFFICES ASSUME IInv, NEW g \in Gen PROVE DoneNum(g) = gens[g].num
    BY DEF DoneForTheRightRequest
  <2>1. g = 1 /\ gens # << >>
    BY OneGenerator
  <2> QED
    BY <2>1 DEF IInv, GeneratorOK, DoneNum
<1> QED
  BY Invariance, <1>1, PTL

\* The snapshotRequestBookkeeper's cached smallest request is the first key of its DB.
THEOREM CachedSmallest == Spec => []SmallestIsCurrent
<1>1. IInv => SmallestIsCurrent
  BY DEF IInv
<1> QED
  BY Invariance, <1>1, PTL
=============================================================================
