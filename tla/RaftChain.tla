------------------------------- MODULE RaftChain -------------------------------
(***************************************************************************)
(* The Raft orderers of one channel (orderer/consensus/etcdraft/chain.go): *)
(* the run loop of each node, which turns requests into blocks while its   *)
(* node leads, proposes them to Raft through a goroutine, and writes the   *)
(* blocks that Raft has committed.                                         *)
(*                                                                         *)
(* The loop learns about elections and commits later than Raft itself, so  *)
(* a node that has been deposed goes on proposing, and a node that has     *)
(* just been elected does not know yet what its log commits.  A goroutine  *)
(* whose context is cancelled may still propose what is in its channel,    *)
(* should its node be elected again first.                                 *)
(*                                                                         *)
(* A block stands for its header hash: it is the sequence of the contents  *)
(* of all blocks up to it, its number is the length and its previous hash  *)
(* all but the last element.  The genesis block is << >>.  The content is  *)
(* the term in which the block was created and whether it is a config      *)
(* block.  Raft itself (vendored, go.etcd.io/etcd/raft) is modelled by     *)
(* what the chain relies on: terms, up-to-date elections, replication, and *)
(* the commit of entries of the current term that a quorum acknowledged.   *)
(***************************************************************************)
EXTENDS BlockCutter, FiniteSets

CONSTANTS
  Node,            \* the consenters
  MaxInflight,     \* Options.MaxInflightBlocks
  Size,            \* sizes of the messages that clients send
  MaxTerm,         \* bound: last Raft term
  MaxBlock,        \* bound: last block number created
  MaxFaults        \* bound: leaders stepping down or transferring, and restarts

ASSUME RaftChainAssumption ==
  /\ IsFiniteSet(Node)
  /\ MaxInflight \in Nat \ {0}
  /\ Size \subseteq Message
  /\ MaxTerm \in Nat /\ MaxBlock \in Nat
  /\ MaxFaults \in Nat

VARIABLES
  \* Raft
  term,       \* current term of each node
  leads,      \* the nodes that lead, each in its own term
  log,        \* Raft log of each node: entries with a term and a block
  commit,     \* committed index known to each node
  match,      \* how much of its log each leader knows the others to have
  transfer,   \* the leaders with a leadership transfer in progress
  \* the chains
  chain,      \* state of the run loop of each node
  late,       \* ghost: a cancelled goroutine has proposed a block
  faults      \* step-downs, leadership transfers and restarts so far

raftVars == <<term, leads, log, commit, match, transfer>>
vars == <<raftVars, chain, late, faults>>

NoBlock == << >>

\* What a node knows of the others when it is elected.
NoMatch == [m \in Node |-> 0]

Quorum == {Q \in SUBSET Node : 2 * Cardinality(Q) > Cardinality(Node)}

MaxOf(a, b) == IF a > b THEN a ELSE b
Prefix(b) == SubSeq(b, 1, Len(b) - 1)
IsConfigBlock(b) == b # NoBlock /\ b[Len(b)].config

\* A panic ends the process, its Raft node included.
Running(n) == ~chain[n].panicked

\* What a chain is after NewChain and Start, given the blocks in its ledger.
Started(blocks) ==
  [leading |-> FALSE,         \* soft.Lead is this node
   justElected |-> FALSE,
   configInflight |-> FALSE,
   blockInflight |-> 0,
   accepting |-> TRUE,        \* submitC is not nil
   bc |-> << >>,              \* blockCreator: its last block, << >> when nil
   epoch |-> 0,               \* ghost: the term in which this chain leads
   propC |-> << >>,           \* blocks on the way to the proposing goroutine
   proposing |-> FALSE,       \* the goroutine takes blocks from propC
   cancelled |-> {},          \* channels of cancelled goroutines, not empty
   cutter |-> EmptyReceiver,
   ticking |-> FALSE,
   blocks |-> blocks,         \* the ledger: blocks with their Raft index
   applied |-> IF blocks = << >> THEN 0 ELSE blocks[Len(blocks)].index,
   next |-> 1,                \* index of the next entry Raft delivers
   panicked |-> FALSE]

\* What is left of a chain that panics: its ledger.
Panicked(s) == [Started(s.blocks) EXCEPT !.panicked = TRUE]

Init ==
  /\ term = [n \in Node |-> 0]
  /\ leads = {}
  /\ log = [n \in Node |-> << >>]
  /\ commit = [n \in Node |-> 0]
  /\ match = [n \in Node |-> NoMatch]
  /\ transfer = {}
  /\ chain = [n \in Node |-> Started(<< >>)]
  /\ late = FALSE
  /\ faults = 0

-----------------------------------------------------------------------------
(* Raft. *)

LastTerm(l) == IF l = << >> THEN 0 ELSE l[Len(l)].term

UpToDate(l, m) ==
  \/ LastTerm(l) > LastTerm(m)
  \/ LastTerm(l) = LastTerm(m) /\ Len(l) >= Len(m)

\* A node that led must have told its chain that it stepped down: the messages
\* of an election leave with a Ready, which carries the soft state.
Elect(n, Q) ==
  LET t == 1 + term[CHOOSE m \in Q : \A o \in Q : term[m] >= term[o]] IN
  /\ n \in Q /\ \A m \in Q : Running(m)
  /\ n \notin leads /\ ~chain[n].leading
  /\ t =< MaxTerm
  /\ \A m \in Q : UpToDate(log[n], log[m])
  /\ term' = [m \in Node |-> IF m \in Q THEN t ELSE term[m]]
  /\ leads' = (leads \ Q) \cup {n}
  /\ transfer' = transfer \ Q
  /\ log' = [log EXCEPT ![n] = Append(@, [term |-> t, block |-> NoBlock])]
  /\ match' = [m \in Node |-> IF m \in Q THEN NoMatch ELSE match[m]]
  /\ UNCHANGED <<commit, chain, late, faults>>

\* A leader that misses its quorum steps down.
StepDown(n) ==
  /\ n \in leads
  /\ faults < MaxFaults
  /\ faults' = faults + 1
  /\ leads' = leads \ {n}
  /\ match' = [match EXCEPT ![n] = NoMatch]
  /\ transfer' = transfer \ {n}
  /\ UNCHANGED <<term, log, commit, chain, late>>

\* Follower m takes over the log of leader l and acknowledges it; l commits the
\* entries of its term that a quorum has acknowledged.
Replicate(l, m) ==
  LET Acked(i) == {o \in Node : o \in {l, m} \/ match[l][o] >= i}
      committable == {i \in 1..Len(log[l]) : log[l][i].term = term[l] /\ Acked(i) \in Quorum}
      newCommit == IF committable = {} THEN commit[l]
                   ELSE MaxOf(commit[l], CHOOSE i \in committable : \A j \in committable : i >= j)
  IN
  /\ l \in leads /\ l # m
  /\ Running(l) /\ Running(m)
  /\ term[m] =< term[l]
  /\ <<term[m], log[m], commit[m]>> # <<term[l], log[l], newCommit>>
  /\ log' = [log EXCEPT ![m] = log[l]]
  /\ term' = [term EXCEPT ![m] = term[l]]
  /\ leads' = leads \ {m}
  /\ transfer' = transfer \ {m}
  /\ match' = [match EXCEPT ![l] = [@ EXCEPT ![m] = Len(log[l])], ![m] = NoMatch]
  /\ commit' = [commit EXCEPT ![l] = newCommit, ![m] = MaxOf(@, newCommit)]
  /\ UNCHANGED <<chain, late, faults>>

\* abdicateLeadership; Raft drops proposals until the transfer ends, by an
\* election or by a timeout.
TransferLeadership(n) ==
  /\ n \in leads \ transfer
  /\ chain[n].leading /\ Running(n)
  /\ faults < MaxFaults
  /\ faults' = faults + 1
  /\ transfer' = transfer \cup {n}
  /\ UNCHANGED <<term, leads, log, commit, match, chain, late>>

AbortTransfer(n) ==
  /\ n \in transfer
  /\ transfer' = transfer \ {n}
  /\ UNCHANGED <<term, leads, log, commit, match, chain, late, faults>>

-----------------------------------------------------------------------------
(* Creating and proposing blocks. Each operator takes the state s of a     *)
(* chain and returns what it becomes.                                      *)

createNextBlock(s, config) == Append(s.bc[1], [term |-> s.epoch, config |-> config])

\* One turn of the loop in propose. The channel holds MaxInflight blocks.
ProposeOne(s, config) ==
  LET b == createNextBlock(s, config) IN
  IF s.panicked \/ s.bc = << >> \/ Len(s.propC) >= MaxInflight
    THEN Panicked(s)
    ELSE [s EXCEPT !.bc = <<b>>, !.propC = Append(@, b),
                   !.configInflight = @ \/ config, !.blockInflight = @ + 1]

\* Batches are normal ones, or end with the one of a config message.
propose(s, n, config) ==
  LET last == ProposeOne(IF n = 2 THEN ProposeOne(s, FALSE) ELSE s, config)
  IN IF n = 0 THEN s ELSE last

\* Mutant: only the number of blocks is looked at.
M_Paused(s) ==
  [s EXCEPT !.accepting = s.blockInflight < MaxInflight]

\* After a request: pause if a config block or too many blocks are in flight.
Paused(s) ==
  [s EXCEPT !.accepting = ~s.configInflight /\ s.blockInflight < MaxInflight]

\* The case of submitC at the leader, for a normal message (within the bound: as long
\* as there is a block left for it).
Order(n, size) ==
  LET s == chain[n]
      o == Ordered(s.cutter, size)
  IN
  /\ s.accepting /\ Running(n)
  /\ s.leading
  /\ s.bc # << >> => Len(s.bc[1]) + MaxOf(1, Len(o.batches)) =< MaxBlock
  /\ chain' = [chain EXCEPT ![n] =
       Paused(propose([s EXCEPT !.cutter = o.receiver, !.ticking = o.pending],
                      Len(o.batches), FALSE))]
  /\ UNCHANGED <<raftVars, late, faults>>

\* The same for a config message: the pending batch is cut first.
Configure(n) ==
  LET s == chain[n]
      batches == IF s.cutter.batch = << >> THEN 1 ELSE 2
  IN
  /\ s.accepting /\ Running(n)
  /\ s.leading
  /\ s.bc # << >> => Len(s.bc[1]) + batches =< MaxBlock
  /\ chain' = [chain EXCEPT ![n] =
       Paused(propose([s EXCEPT !.cutter = EmptyReceiver, !.ticking = FALSE],
                      batches, TRUE))]
  /\ UNCHANGED <<raftVars, late, faults>>

\* A request on a node that does not lead is answered with the leader it knows;
\* a nil request is the poll of WaitReady. Neither changes the chain.
Answer ==
  /\ {n \in Node : chain[n].accepting /\ Running(n)} # {}
  /\ UNCHANGED vars

\* The batch timer.
Timer(n) ==
  LET s == chain[n] IN
  /\ s.ticking /\ Running(n)
  /\ s.bc # << >> => Len(s.bc[1]) + 1 =< MaxBlock
  /\ chain' = [chain EXCEPT ![n] =
       propose([s EXCEPT !.cutter = EmptyReceiver, !.ticking = FALSE],
               IF s.cutter.batch = << >> THEN 0 ELSE 1, FALSE)]
  /\ UNCHANGED <<raftVars, late, faults>>

\* The proposing goroutine. A leader's Raft accepts the block. A follower's, or one
\* that transfers its leadership, refuses it and the goroutine returns; without
\* leader it waits to be cancelled. Either way it takes no further block.
Propose(n) ==
  LET s == chain[n]
      accepted == n \in leads \ transfer
  IN
  /\ s.proposing /\ Running(n)
  /\ s.propC # << >>
  /\ log' = IF accepted
              THEN [log EXCEPT ![n] = Append(@, [term |-> term[n], block |-> Head(s.propC)])]
              ELSE log
  /\ chain' = [chain EXCEPT ![n] = [s EXCEPT !.propC = Tail(@), !.proposing = accepted]]
  /\ UNCHANGED <<term, leads, commit, match, transfer, late, faults>>

\* A goroutine that becomeFollower has cancelled: its select, and the one of Raft's
\* Propose, take either case while both are ready. Raft accepts the block if the
\* node leads again.
ProposeLate(n) ==
  LET s == chain[n] IN
  /\ Running(n) /\ n \in leads \ transfer
  /\ \E q \in s.cancelled :
       /\ log' = [log EXCEPT ![n] = Append(@, [term |-> term[n], block |-> Head(q)])]
       /\ chain' = [chain EXCEPT ![n] =
                      [s EXCEPT !.cancelled = (@ \ {q}) \cup ({Tail(q)} \ {<< >>})]]
  /\ late' = TRUE
  /\ UNCHANGED <<term, leads, commit, match, transfer, faults>>

\* It sees that it is cancelled, or Raft refuses its block.
QuitProposing(n) ==
  LET s == chain[n] IN
  /\ Running(n)
  /\ \E q \in s.cancelled :
       chain' = [chain EXCEPT ![n] = [s EXCEPT !.cancelled = @ \ {q}]]
  /\ UNCHANGED <<raftVars, late, faults>>

-----------------------------------------------------------------------------
(* The case of applyC: a change of leader, then a committed entry.         *)

becomeLeader(s, t) ==
  [s EXCEPT !.blockInflight = 0, !.justElected = TRUE, !.accepting = FALSE,
            !.propC = << >>, !.proposing = TRUE, !.epoch = t]

\* cancelProp: what a goroutine that still runs had in its channel, or in hand.
Cancelled(s) ==
  s.cancelled \cup (IF s.proposing THEN {s.propC} \ {<< >>} ELSE {})

\* Mutant: the pending batch is kept.
M_becomeFollower(s) ==
  [s EXCEPT !.blockInflight = 0, !.ticking = FALSE, !.accepting = TRUE, !.bc = << >>,
            !.propC = << >>, !.proposing = FALSE, !.cancelled = Cancelled(s), !.epoch = 0]

becomeFollower(s) ==
  [s EXCEPT !.blockInflight = 0, !.cutter = EmptyReceiver, !.ticking = FALSE,
            !.accepting = TRUE, !.bc = << >>, !.propC = << >>, !.proposing = FALSE,
            !.cancelled = Cancelled(s), !.epoch = 0]

LeaderChanged(s, n, leading) ==
  [(IF leading = s.leading THEN s
    ELSE IF leading THEN becomeLeader(s, term[n]) ELSE becomeFollower(s))
   EXCEPT !.leading = leading]

LastBlock(s) == IF s.blocks = << >> THEN NoBlock ELSE s.blocks[Len(s.blocks)].block

\* writeConfigBlock, for a config block that changes no membership.
writeConfigBlock(s) == [s EXCEPT !.configInflight = FALSE]

\* writeBlock: a gap panics, a block already there is skipped, and the block
\* store refuses a block whose previous hash is not that of its last block.
writeBlock(s, b, index) ==
  IF Len(b) < Len(s.blocks) + 1 THEN s
  ELSE IF Len(b) > Len(s.blocks) + 1 \/ Prefix(b) # LastBlock(s)
    THEN Panicked(s)
  ELSE [(IF IsConfigBlock(b) THEN writeConfigBlock(s) ELSE s)
        EXCEPT !.blockInflight = MaxOf(@ - 1, 0),
               !.blocks = Append(@, [block |-> b, index |-> index])]

\* Mutant: what is there already, after a restart, is written again.
M_apply(s, e, index) ==
  LET s1 == IF e.block = NoBlock THEN s
            ELSE [s EXCEPT !.blockInflight = MaxOf(@ - 1, 0),
                           !.configInflight = @ /\ ~IsConfigBlock(e.block),
                           !.blocks = Append(@, [block |-> e.block, index |-> index])]
  IN [s1 EXCEPT !.applied = MaxOf(@, index), !.next = index + 1]

apply(s, e, index) ==
  LET s1 == IF e.block = NoBlock \/ index =< s.applied THEN s
            ELSE writeBlock(s, e.block, index)
  IN [s1 EXCEPT !.applied = MaxOf(@, index), !.next = index + 1]

\* The end of the case: may the node serve requests?
Resumed(s, lastIndex) ==
  IF s.justElected
    THEN IF lastIndex > s.applied \/ s.configInflight THEN s
         ELSE [s EXCEPT !.bc = <<LastBlock(s)>>, !.accepting = TRUE, !.justElected = FALSE]
    ELSE IF s.configInflight THEN [s EXCEPT !.accepting = FALSE]
    ELSE IF s.blockInflight < MaxInflight THEN [s EXCEPT !.accepting = TRUE]
    ELSE s

\* The last entry that the Raft node hands to the chain.
LastDelivered(n) == commit[n]

Apply(n) ==
  LET s == chain[n]
      s1 == LeaderChanged(s, n, n \in leads)
  IN
  /\ Running(n)
  /\ \/ /\ (n \in leads) # s.leading
        /\ chain' = [chain EXCEPT ![n] = Resumed(s1, Len(log[n]))]
     \/ /\ s.next =< LastDelivered(n)
        /\ chain' = [chain EXCEPT ![n] =
                       Resumed(apply(s1, log[n][s.next], s.next), Len(log[n]))]
  /\ UNCHANGED <<raftVars, late, faults>>

-----------------------------------------------------------------------------
\* Mutant: the applied index is kept apart from the blocks.
M_Restart(n) ==
  LET s == chain[n] IN
  /\ faults < MaxFaults
  /\ faults' = faults + 1
  /\ \E lost \in {0, 1} :
       /\ lost = 1 => s.blocks # << >> /\ ~IsConfigBlock(LastBlock(s))
       /\ chain' = [chain EXCEPT ![n] =
                      [Started(SubSeq(s.blocks, 1, Len(s.blocks) - lost))
                       EXCEPT !.applied = s.applied]]
  /\ leads' = leads \ {n}
  /\ match' = [match EXCEPT ![n] = NoMatch]
  /\ transfer' = transfer \ {n}
  /\ UNCHANGED <<term, log, commit, late>>

\* The process ends and is started again. A normal block is written to disk by
\* a goroutine of the block writer: the last one may not have got there.
Restart(n) ==
  LET s == chain[n] IN
  /\ faults < MaxFaults
  /\ faults' = faults + 1
  /\ \E lost \in {0, 1} :
       /\ lost = 1 => s.blocks # << >> /\ ~IsConfigBlock(LastBlock(s))
       /\ chain' = [chain EXCEPT ![n] =
                      Started(SubSeq(s.blocks, 1, Len(s.blocks) - lost))]
  /\ leads' = leads \ {n}
  /\ match' = [match EXCEPT ![n] = NoMatch]
  /\ transfer' = transfer \ {n}
  /\ UNCHANGED <<term, log, commit, late>>

-----------------------------------------------------------------------------
Raft ==
  \/ \E n \in Node, Q \in Quorum : Elect(n, Q)
  \/ \E n \in Node : StepDown(n)
  \/ \E l, m \in Node : Replicate(l, m)
  \/ \E n \in Node : TransferLeadership(n) \/ AbortTransfer(n)

Next ==
  \/ Raft
  \/ Answer
  \/ \E n \in Node :
       \/ \E size \in Size : Order(n, size)
       \/ Configure(n)
       \/ Timer(n)
       \/ Propose(n) \/ ProposeLate(n) \/ QuitProposing(n)
       \/ Apply(n)
       \/ Restart(n)

Spec == Init /\ [][Next]_vars

-----------------------------------------------------------------------------
(* Properties. *)

Content == [term : 1..MaxTerm, config : BOOLEAN]

\* Every field has its type; blockInflight never falls below zero, on a follower
\* neither, and the channel to the proposing goroutine holds its capacity at most.
TypeOK ==
  /\ leads \subseteq Node /\ transfer \subseteq leads
  /\ \A n \in Node :
    LET s == chain[n] IN
    /\ term[n] \in 0..MaxTerm
    /\ \A i \in DOMAIN log[n] : log[n][i].term \in 1..MaxTerm
                                /\ log[n][i].block \in Seq(Content)
    /\ commit[n] \in 0..Len(log[n])
    /\ s.blockInflight \in 0..(MaxInflight + 1)
    /\ Len(s.propC) =< MaxInflight
    /\ \A q \in s.cancelled : q # << >> /\ Len(q) =< MaxInflight
    /\ s.applied \in 0..Len(log[n])
    /\ s.next \in 1..(Len(log[n]) + 1)

\* What apply and writeBlock put into the ledgers of two orderers never disagrees:
\* one ledger is a prefix of the other.
LedgersAgree ==
  \A n, m \in Node :
    \A i \in 1..Len(chain[n].blocks) :
      i =< Len(chain[m].blocks) => chain[n].blocks[i] = chain[m].blocks[i]

\* A block that Raft has committed is never dropped as a duplicate ("this node
\* was forced to catch up"), nor does it panic the node: whatever leaders were
\* deposed while they proposed, the blocks in the log follow each other. The one
\* exception is a block that a cancelled goroutine proposed after its node was
\* elected again (late): then one of two blocks of a number is dropped, and a
\* block that was created on the other one panics. But even then no number is
\* skipped: a node that runs has a block of every number it has passed.
CommittedBlocksWritten ==
  \A n \in Node :
    \A i \in 1..chain[n].applied :
      log[n][i].block # NoBlock =>
        \/ \E j \in 1..Len(chain[n].blocks) : chain[n].blocks[j].block = log[n][i].block
        \/ late /\ (Running(n) => Len(log[n][i].block) =< Len(chain[n].blocks))

\* While a config block is in flight no further block is created: all config
\* blocks before the last block created are written. The exception is again a
\* block proposed late: a config block of an earlier term, once written, resets
\* configInflight although the leader's own config block is still in flight.
ConfigBarrier ==
  late \/ \A n \in Node :
    chain[n].leading /\ chain[n].bc # << >> =>
      \A i \in 1..(Len(chain[n].bc[1]) - 1) :
        chain[n].bc[1][i].config => i =< Len(chain[n].blocks)

\* The batch timer runs exactly while the block cutter has pending messages, and only
\* a leader has any: becomeFollower discards them, so that the timer never makes a
\* follower, whose blockCreator is nil, create a block.
TimerIffPending ==
  \A n \in Node :
    /\ chain[n].ticking <=> chain[n].cutter.batch # << >>
    /\ chain[n].ticking => chain[n].leading

\* A leader that pauses for a config block has one in flight (configInflight "is true
\* when there is config block or ConfChange in flight"): once all of its log is applied
\* and nothing waits to be proposed, the flag is down.
ConfigInflightExact ==
  \A n \in leads :
    LET s == chain[n] IN
    s.leading /\ s.propC = << >> /\ s.applied = Len(log[n]) => ~s.configInflight
=============================================================================
