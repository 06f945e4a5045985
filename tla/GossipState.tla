----------------------------- MODULE GossipState -----------------------------
(***************************************************************************)
(* How the blocks of one channel reach the ledger of one peer              *)
(* (gossip/state/state.go, payloads_buffer.go and                          *)
(* internal/pkg/peer/blocksprovider/blocksprovider.go).  Three kinds of    *)
(* goroutines put blocks into the payloads buffer: the deliver client that *)
(* pulls from an orderer, one goroutine for each gossiped block, and       *)
(* anti-entropy, which asks other peers for the blocks this one lacks.     *)
(* One goroutine takes the blocks out in order and commits them.           *)
(*                                                                         *)
(* The other peers run the same code; of them the model keeps what this    *)
(* peer meets: their ledger, the height they advertise and their answers   *)
(* to state requests.  Gossip loses, repeats and reorders blocks: any      *)
(* block that exists may arrive at any time, any number of times, or not   *)
(* at all.  The nonce of a request is random, so a message is either of    *)
(* the batch being asked for or stale.  A block is its number; block 0 is  *)
(* the genesis block.                                                      *)
(***************************************************************************)
EXTENDS Naturals, Sequences, FiniteSets, FiniteSetsExt

CONSTANTS
  Peer,                  \* the other peers of the channel
  First,                 \* first block each of them can read (snapshot bootstrap)
  MaxBlock,              \* bound: last block of the channel
  Heights,               \* bound: the heights of the ledger of each other peer
  StateBlockBufferSize,
  StateBatchSize,
  StateMaxRetries,
  StateChannelSize,
  StateEnabled,          \* anti-entropy runs (peer.gossip.state.enabled)
  BlockingMode,          \* AddPayload waits for room (not nonBlockingCommitMode)
  MaxFaults              \* bound: lost or delayed messages, timeouts that come before
                         \* the answer, restarts of a peer that runs, VSCC and
                         \* verification failures, payloads that cannot be decoded

Block == 0..MaxBlock
Height == 1..(MaxBlock + 1)

ASSUME GossipStateAssumption ==
  /\ IsFiniteSet(Peer)
  /\ First \in [Peer -> Block]
  /\ MaxBlock \in Nat \ {0} /\ Heights \in [Peer -> (SUBSET Height) \ {{}}]
  /\ \A p \in Peer : First[p] =< Min(Heights[p])
  /\ StateBlockBufferSize \in Nat \ {0} /\ StateBatchSize \in Nat
  /\ StateMaxRetries \in Nat /\ StateChannelSize \in Nat \ {0}
  /\ StateEnabled \in BOOLEAN /\ BlockingMode \in BOOLEAN
  /\ MaxFaults \in Nat

VARIABLES
  height,    \* ledger height, which this peer advertises
  buf,       \* payloads buffer: the blocks in it,
  next,      \*   the next block to take out,
  ready,     \*   and whether its ready channel holds a signal
  deliver,   \* goroutine deliverPayloads
  client,    \* the deliver client
  ae,        \* goroutine antiEntropy
  responses, \* state requests and responses on their way, as the response
  respCh,    \* channel stateResponseCh
  adv,       \* height of each other peer, as this peer has seen it advertised
  skipped,   \* ghost: a payload was discarded since the peer started
  faults

bufVars == <<buf, next, ready>>
netVars == <<responses, respCh>>
vars == <<height, bufVars, deliver, client, ae, netVars, adv, skipped, faults>>

Lesser(a, b) == IF a < b THEN a ELSE b

Deliver(pc, blk) == [pc |-> pc, blk |-> blk]
Client(pc, seq) == [pc |-> pc, seq |-> seq]

\* antiEntropy between two rounds.
Asleep == [pc |-> "sleep", prev |-> 0, end |-> 0, tries |-> 0, todo |-> {}]

\* NewGossipStateProvider on a ledger of height h; the deliver client is not started yet.
Init ==
  /\ height = 1
  /\ buf = {} /\ next = 1 /\ ready = FALSE
  /\ deliver = Deliver("wait", 0)
  /\ client = Client("off", 0)
  /\ ae = Asleep
  /\ responses = {} /\ respCh = << >>
  /\ adv = [p \in Peer |-> Min(Heights[p])]
  /\ skipped = FALSE
  /\ faults = 0

Fault == faults < MaxFaults /\ faults' = faults + 1

\* The process runs: a panic of one goroutine ends it.
Up == deliver.pc # "panic"

\* A message becomes one of an earlier batch once a new batch is asked for, or the process
\* ends; then nothing in it is looked at but the nonce.
Stale(p) == [peer |-> p, blocks |-> {}, cur |-> FALSE]
AllStale(M) == {Stale(m.peer) : m \in M}

\* The process ends, and the goroutine deliverPayloads is left as pc: of the peer only the
\* ledger remains.
ProcessEnds(pc) ==
  /\ buf' = {} /\ ready' = FALSE
  /\ deliver' = Deliver(pc, 0)
  /\ client' = Client("off", 0)
  /\ ae' = Asleep
  /\ responses' = AllStale(responses) /\ respCh' = << >>

-----------------------------------------------------------------------------
(* The payloads buffer *)

\* Mutant: the signal is sent only to an empty buffer.
M_Push(seq) ==
  /\ next' = next
  /\ IF seq < next \/ seq \in buf
     THEN UNCHANGED <<buf, ready>>
     ELSE /\ buf' = buf \cup {seq}
          /\ ready' = (ready \/ (seq = next /\ buf = {}))

Push(seq) ==
  /\ next' = next
  /\ IF seq < next \/ seq \in buf
     THEN UNCHANGED <<buf, ready>>
     ELSE /\ buf' = buf \cup {seq}
          /\ ready' = (ready \/ seq = next)

\* Pop of a buffer that holds the next block.
Pop ==
  /\ buf' = buf \ {next}
  /\ next' = next + 1
  /\ ready' = (ready /\ buf' # {})

\* Mutant: one block more.
M_HasRoom == Cardinality(buf) =< 2 * StateBlockBufferSize + 1

\* The blocking half of addPayload waits for this.
HasRoom == Cardinality(buf) =< 2 * StateBlockBufferSize

\* Mutant: no limit above the ledger height.
M_InWindow(seq) == seq >= height

\* The other half drops the block unless this holds. The subtraction is of unsigned numbers,
\* so a block below the ledger height is dropped as well.
InWindow(seq) == seq >= height /\ seq - height < StateBlockBufferSize

-----------------------------------------------------------------------------
(* deliverPayloads *)

\* It waits for the signal that the next block has arrived.
Wake ==
  /\ deliver.pc = "wait" /\ ready
  /\ ready' = FALSE
  /\ deliver' = Deliver("pop", 0)
  /\ UNCHANGED <<height, buf, next, client, ae, netVars, adv, skipped, faults>>

PopNext ==
  /\ deliver.pc = "pop"
  /\ IF next \in buf
     THEN Pop /\ deliver' = Deliver("commit", next)
     ELSE UNCHANGED bufVars /\ deliver' = Deliver("wait", 0)
  /\ UNCHANGED <<height, client, ae, netVars, adv, skipped, faults>>

\* A popped payload is discarded, for its block or its private data cannot be decoded or the
\* block has no header or data: the next one is popped, and this one is not asked for again.
DiscardPayload ==
  /\ deliver.pc = "pop" /\ next \in buf
  /\ Fault
  /\ Pop
  /\ skipped' = TRUE
  /\ UNCHANGED <<height, deliver, client, ae, netVars, adv>>

\* StoreBlock, whose ledger refuses any block but its next one: the peer panics.
CommitBlock ==
  /\ deliver.pc = "commit"
  /\ \/ /\ deliver.blk = height
        /\ height' = height + 1 /\ deliver' = Deliver("pop", 0)
        /\ UNCHANGED <<bufVars, client, ae, netVars>>
     \/ /\ deliver.blk # height
        /\ ProcessEnds("panic")
        /\ UNCHANGED <<height, next>>
  /\ UNCHANGED <<adv, skipped, faults>>

\* A VSCC execution failure: the goroutine returns and the channel stops.
AbortProcessing ==
  /\ deliver.pc = "commit"
  /\ Fault
  /\ deliver' = Deliver("aborted", 0)
  /\ UNCHANGED <<height, bufVars, client, ae, netVars, adv, skipped>>

-----------------------------------------------------------------------------
(* Blocks from gossip *)

\* A block arrives and is pushed unless it is too far from the ledger height. In the code the
\* height may grow between check and push; that is the same as arriving later, for a block
\* that falls below the height is refused by Push.
ReceiveGossip(seq) ==
  /\ Up
  /\ InWindow(seq)
  /\ Push(seq)
  /\ UNCHANGED <<height, deliver, client, ae, netVars, adv, skipped, faults>>

-----------------------------------------------------------------------------
(* The deliver client *)

\* The peer starts to deliver, as a leader of its organization, or connects again: it seeks
\* the orderer's stream to the ledger height.
Connect ==
  /\ Up
  /\ client.pc = "off"
  /\ client' = Client("recv", height)
  /\ UNCHANGED <<height, bufVars, deliver, ae, netVars, adv, skipped, faults>>

\* The client is stopped, the stream breaks, or its block cannot be verified.
Disconnect ==
  /\ client.pc = "recv"
  /\ client' = Client("off", 0)
  /\ UNCHANGED <<height, bufVars, deliver, ae, netVars, adv, skipped, faults>>

\* The next block of the stream goes to AddPayload, which in blocking mode waits for room and
\* otherwise may refuse it: then the client connects again.
ReceiveBlock ==
  /\ client.pc = "recv" /\ client.seq =< MaxBlock
  /\ BlockingMode => HasRoom
  /\ client' = IF BlockingMode \/ InWindow(client.seq)
               THEN Client("push", client.seq)
               ELSE Client("off", 0)
  /\ UNCHANGED <<height, bufVars, deliver, ae, netVars, adv, skipped, faults>>

PushReceived ==
  /\ client.pc = "push"
  /\ Push(client.seq)
  /\ client' = Client("recv", client.seq + 1)
  /\ UNCHANGED <<height, deliver, ae, netVars, adv, skipped, faults>>

-----------------------------------------------------------------------------
(* The other peers and the network *)

\* A greater height of another peer's ledger reaches this peer.
Advertise(p) ==
  /\ \E h \in Heights[p] : h > adv[p] /\ adv' = [adv EXCEPT ![p] = h]
  /\ UNCHANGED <<height, bufVars, deliver, client, ae, netVars, skipped, faults>>

\* The answers of another peer to a request, according to the height of its ledger, which is
\* at least the one it advertises: blocks it cannot read, above that height or before its
\* snapshot, are skipped.
handleStateRequest(p, from, to) ==
  {[peer |-> p, blocks |-> {seq \in from..to : First[p] =< seq /\ seq < h}, cur |-> TRUE] :
     h \in {x \in Heights[p] : x >= adv[p]}}

\* The request or the response is lost.
Lose(m) ==
  /\ m \in responses
  /\ Fault
  /\ responses' = responses \ {m}
  /\ UNCHANGED <<height, bufVars, deliver, client, ae, respCh, adv, skipped>>

\* Mutant: the flag is reset as soon as the request has been sent.
M_stateTransferActive == ae.pc = "send"

stateTransferActive == ae.pc # "sleep"

\* A response is dropped when no transfer is active, and otherwise sent to the channel as
\* soon as there is room. (A goroutine that waits for room with a response is the same as a
\* response that is still on its way.)
directMessage(m) ==
  /\ m \in responses
  /\ responses' = responses \ {m}
  /\ IF stateTransferActive
     THEN Len(respCh) < StateChannelSize /\ respCh' = Append(respCh, m)
     ELSE respCh' = respCh
  /\ UNCHANGED <<height, bufVars, deliver, client, ae, adv, skipped, faults>>

-----------------------------------------------------------------------------
(* antiEntropy and requestBlocksInRange *)

ForgetBatch ==
  /\ responses' = AllStale(responses)
  /\ respCh' = [i \in DOMAIN respCh |-> Stale(respCh[i].peer)]

maxAvailableLedgerHeight == Max({0} \cup {adv[p] : p \in Peer})

\* The check interval is over and some peer advertises more blocks. A message that is still
\* on its way, after more than a response timeout, counts as a fault.
CheckHeight ==
  /\ StateEnabled /\ Up
  /\ ae.pc = "sleep"
  /\ IF responses = {} THEN faults' = faults ELSE Fault
  /\ height < maxAvailableLedgerHeight
  /\ ae' = [pc |-> "send", prev |-> height, end |-> maxAvailableLedgerHeight - 1,
            tries |-> 0, todo |-> {}]
  /\ ForgetBatch
  /\ UNCHANGED <<height, bufVars, deliver, client, adv, skipped>>

BatchEnd == Lesser(ae.end, ae.prev + StateBatchSize)

hasRequiredHeight(p) == adv[p] >= BatchEnd

\* The request goes to a random peer that advertises the height asked for.
SendRequest(p) ==
  /\ ae.pc = "send" /\ ae.tries =< StateMaxRetries
  /\ hasRequiredHeight(p)
  /\ \E m \in handleStateRequest(p, ae.prev, BatchEnd) : responses' = responses \cup {m}
  /\ ae' = [ae EXCEPT !.pc = "await", !.tries = @ + 1]
  /\ UNCHANGED <<height, bufVars, deliver, client, respCh, adv, skipped, faults>>

\* No peer to ask, or no answer after the last retry.
GiveUp ==
  /\ ae.pc = "send"
  /\ ae.tries > StateMaxRetries \/ \A p \in Peer : ~hasRequiredHeight(p)
  /\ ae' = Asleep
  /\ UNCHANGED <<height, bufVars, deliver, client, netVars, adv, skipped, faults>>

Answerable ==
  \/ \E m \in responses : m.cur
  \/ respCh # << >>

\* The response timeout: the answer is lost, or it is late.
ResponseTimeout ==
  /\ ae.pc = "await"
  /\ IF Answerable THEN Fault ELSE faults' = faults
  /\ ae' = [ae EXCEPT !.pc = "send"]
  /\ UNCHANGED <<height, bufVars, deliver, client, netVars, adv, skipped>>

\* A response is taken from the channel. A stale or empty one uses up a try.
TakeResponse ==
  /\ ae.pc = "await" /\ respCh # << >>
  /\ respCh' = Tail(respCh)
  /\ LET m == Head(respCh)
     IN ae' = IF m.cur /\ m.blocks # {}
              THEN [ae EXCEPT !.pc = "size", !.todo = m.blocks]
              ELSE [ae EXCEPT !.pc = "send"]
  /\ UNCHANGED <<height, bufVars, deliver, client, responses, adv, skipped, faults>>

\* handleStateResponse adds the blocks in order, waiting for room for each of them,
AntiEntropyFindsRoom ==
  /\ ae.pc = "size" /\ HasRoom
  /\ ae' = [ae EXCEPT !.pc = "push"]
  /\ UNCHANGED <<height, bufVars, deliver, client, netVars, adv, skipped, faults>>

\* and behind the last one the next batch begins, unless the range is complete.
PushTransferred ==
  /\ ae.pc = "push"
  /\ LET seq == Min(ae.todo)
         rest == ae.todo \ {seq}
     IN /\ Push(seq)
        /\ CASE rest # {} ->
                  ae' = [ae EXCEPT !.pc = "size", !.todo = rest] /\ UNCHANGED netVars
             [] rest = {} /\ seq < ae.end ->
                  /\ ae' = [ae EXCEPT !.pc = "send", !.prev = seq + 1, !.tries = 0, !.todo = {}]
                  /\ ForgetBatch
             [] rest = {} /\ seq >= ae.end ->
                  ae' = Asleep /\ UNCHANGED netVars
  /\ UNCHANGED <<height, deliver, client, adv, skipped, faults>>

\* A block of the response cannot be verified: the rest is dropped, a try is used up.
VerifyBlockFails ==
  /\ ae.pc = "size"
  /\ Fault
  /\ ae' = [ae EXCEPT !.pc = "send", !.todo = {}]
  /\ UNCHANGED <<height, bufVars, deliver, client, netVars, adv, skipped>>

-----------------------------------------------------------------------------

\* Mutant: the new buffer goes on where the old one was, not at the ledger height.
M_Restart ==
  /\ IF Up THEN Fault ELSE faults' = faults
  /\ ProcessEnds("wait")
  /\ next' = next
  /\ skipped' = FALSE
  /\ UNCHANGED <<height, adv>>

\* The peer starts again, after a panic or because it was stopped or crashed.
Restart ==
  /\ IF Up THEN Fault ELSE faults' = faults
  /\ ProcessEnds("wait")
  /\ next' = height
  /\ skipped' = FALSE
  /\ UNCHANGED <<height, adv>>

DeliverStep == Wake \/ PopNext \/ CommitBlock
AntiEntropyStep ==
  \/ CheckHeight \/ GiveUp \/ TakeResponse \/ AntiEntropyFindsRoom \/ PushTransferred
  \/ \E p \in Peer : SendRequest(p)
  \/ ~Answerable /\ ResponseTimeout

Next ==
  \/ DeliverStep \/ DiscardPayload \/ AbortProcessing
  \/ \E seq \in Block : ReceiveGossip(seq)
  \/ Connect \/ Disconnect \/ ReceiveBlock \/ PushReceived
  \/ \E p \in Peer : Advertise(p)
  \/ \E m \in responses : directMessage(m) \/ Lose(m)
  \/ AntiEntropyStep \/ ResponseTimeout \/ VerifyBlockFails
  \/ Restart

\* Goroutines that can run do run, messages that are not lost arrive, and the other peers
\* reach and advertise their last height. Nothing is assumed of gossip or of the orderer
\* and its client.
Fairness ==
  /\ WF_vars(DeliverStep) /\ WF_vars(AntiEntropyStep)
  /\ WF_vars(\E m \in responses : directMessage(m))
  /\ WF_vars(\E p \in Peer : Advertise(p))

Spec == Init /\ [][Next]_vars /\ Fairness

\* In addition, the random choice falls on each peer again and again.
FairSpec == Spec /\ \A p \in Peer : SF_vars(SendRequest(p))

-----------------------------------------------------------------------------
(* Properties *)

Message == [peer : Peer, blocks : SUBSET Block, cur : BOOLEAN]

\* The variables have their types.
TypeOK ==
  /\ height \in Height /\ next \in Height /\ buf \subseteq Block /\ ready \in BOOLEAN
  /\ deliver.pc \in {"wait", "pop", "commit", "panic", "aborted"} /\ deliver.blk \in Block
  /\ client.pc \in {"off", "recv", "push"} /\ client.seq \in 0..(MaxBlock + 1)
  /\ ae.pc \in {"sleep", "send", "await", "size", "push"}
  /\ ae.prev \in 0..(MaxBlock + 1) /\ ae.end \in Block /\ ae.todo \subseteq Block
  /\ ae.tries \in 0..(StateMaxRetries + 1)
  /\ responses \subseteq Message
  /\ respCh \in Seq(Message) /\ Len(respCh) =< StateChannelSize
  /\ adv \in [Peer -> Height]
  /\ skipped \in BOOLEAN
  /\ faults \in 0..MaxFaults

\* The ledger is only ever given its next block: whatever the order in which blocks arrive
\* from orderer, gossip and other peers, and across restarts, none is skipped or repeated.
\* The one exception is behind a payload that deliverPayloads popped and could not decode:
\* it is skipped, and the block behind it panics the peer.
CommitsInOrder == deliver.pc = "panic" => skipped

\* The delivering goroutine never sleeps on a buffer that holds the next block: a signal
\* drained with the last payload, or not sent because one was pending, is not missed.
NoLostWakeup == deliver.pc = "wait" /\ next \in buf => ready

\* A buffer over its limit holds the next block. Otherwise those who wait for room wait for
\* each other: the missing block could only come from one of them.
FullBufferDrains == ~HasRoom => next \in buf

\* The limit is checked before a block is added, so it may be exceeded, but only by one: the
\* two goroutines that wait for room add the same next block.
BufferBounded == Cardinality(buf) =< 2 * StateBlockBufferSize + 1

\* What sampleconfig/core.yaml says of the buffer: "The actual buffer size is bounded between
\* 0 and 2*blockBufferSize".
BufferAsDocumented == Cardinality(buf) =< 2 * StateBlockBufferSize

\* If anti-entropy is enabled then, again and again, this peer has reached the heights that
\* the others advertise, although messages are lost, answers come late and the peer restarts.
\* The exceptions are a VSCC failure, which stops the channel, and a payload that was popped
\* and discarded: it is not asked for again before the peer restarts.
CatchesUp ==
  StateEnabled => []<>(height >= maxAvailableLedgerHeight \/ deliver.pc = "aborted" \/ skipped)

=============================================================================
