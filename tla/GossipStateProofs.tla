--------------------------- MODULE GossipStateProofs ---------------------------
(***************************************************************************)
(* Proofs about GossipState for every set of peers, every buffer, batch    *)
(* and channel size, both modes of AddPayload, and with anti-entropy or    *)
(* without it: the ledger is given its blocks in order until a payload is  *)
(* discarded, no wake-up is lost, and, if all peers have all blocks, the   *)
(* payloads buffer is bounded and a full one drains.                       *)
(***************************************************************************)
EXTENDS GossipState, FiniteSetTheorems, WellFoundedInduction, TLAPS

Window == StateBlockBufferSize

\* The records that TypeOK describes field by field.
Typed ==
  /\ height \in Height /\ next \in Height /\ buf \in SUBSET Block /\ ready \in BOOLEAN
  /\ deliver \in [pc : {"wait", "pop", "commit", "panic", "aborted"}, blk : Block]
  /\ client \in [pc : {"off", "recv", "push"}, seq : 0..(MaxBlock + 1)]
  /\ ae \in [pc : {"sleep", "send", "await", "size", "push"}, prev : 0..(MaxBlock + 1),
             end : Block, tries : 0..(StateMaxRetries + 1), todo : SUBSET Block]
  /\ responses \in SUBSET Message
  /\ respCh \in Seq(Message) /\ Len(respCh) =< StateChannelSize
  /\ adv \in [Peer -> Height]
  /\ skipped \in BOOLEAN
  /\ faults \in 0..MaxFaults

\* Blocks that may be pushed are blocks of the channel.
PushTyped ==
  /\ client.pc = "push" => client.seq \in Block
  /\ ae.pc \in {"size", "push"} => ae.todo # {}

\* The buffer goes on behind the ledger, or behind the block being committed, unless a
\* payload was discarded: then it may be any way ahead.
NextOK ==
  /\ next >= height
  /\ deliver.pc = "commit" => deliver.blk < next
  /\ ~skipped => /\ deliver.pc \in {"wait", "pop"} => next = height
                 /\ deliver.pc = "commit" => deliver.blk = height /\ next = height + 1
  /\ \A b \in buf : b >= next

\* Without any assumption on the peers.
IInv ==
  /\ Typed
  /\ PushTyped
  /\ NextOK
  /\ CommitsInOrder
  /\ NoLostWakeup

-----------------------------------------------------------------------------
(* If every other peer can read all blocks (but perhaps not the genesis    *)
(* block), both goroutines that wait for room add blocks without a gap.    *)

AllBlocksReadable == \A p \in Peer : First[p] =< 1

\* All blocks from the next one up to b are in S.
FilledTo(b, S) == \A x \in Block : next =< x /\ x =< b => x \in S

\* Beyond the window, which limits gossip, the buffer has no gap.
BufferFilled == \A b \in buf : b >= height + Window => FilledTo(b, buf)

\* All before the block that the client gets next is in the buffer, or taken out of it.
ClientFilled ==
  client.pc \in {"recv", "push"} => FilledTo(client.seq - 1, buf)

\* The answers to the batch being asked for begin with its first block.
BatchFilled(m) ==
  m.cur => \A b \in m.blocks : ae.prev =< b /\ \A x \in Block : ae.prev =< x /\ x =< b => x \in m.blocks

\* The same for the batches of anti-entropy and the blocks it still has to add.
TransferFilled ==
  ae.pc # "sleep" =>
    /\ ae.prev >= 1
    /\ FilledTo(ae.prev - 1, buf)
    /\ \A b \in ae.todo : FilledTo(b, buf \cup ae.todo)
    /\ \A m \in responses : BatchFilled(m)
    /\ \A i \in 1..Len(respCh) : BatchFilled(respCh[i])

\* A block that is still to be added, after its goroutine found room, does find room.
RoomFor(seq) == seq >= next /\ seq \notin buf => HasRoom

RoomFound ==
  /\ client.pc = "push" => RoomFor(client.seq)
  /\ ae.pc = "push" => RoomFor(Min(ae.todo))

FillInv ==
  /\ BufferFilled
  /\ ClientFilled
  /\ TransferFilled
  /\ RoomFound
  /\ BufferBounded

-----------------------------------------------------------------------------
(* Facts about the operators. *)

\* A nonempty set of natural numbers has a least element, which Min returns.
LEMMA MinFacts ==
  ASSUME NEW S \in SUBSET Nat, S # {}
  PROVE  Min(S) \in S /\ \A n \in S : Min(S) =< n
<1> DEFINE R == {ss \in Nat \X Nat : ss[1] < ss[2]}
<1>1. IsWellFoundedOn(R, Nat)
  BY NatLessThanWellFounded DEF OpToRel
<1> HIDE DEF R
<1>2. PICK m \in S : \A n \in S : ~ (<<n, m>> \in R)
  BY <1>1, WFMin, Zenon
<1>3. \A n \in S : m =< n
  <2> SUFFICES ASSUME NEW n \in S PROVE ~ (n < m)
    OBVIOUS
  <2>1. n \in Nat /\ m \in Nat
    OBVIOUS
  <2> QED
    BY <1>2, <2>1 DEF R
<1> QED
  BY <1>3 DEF Min

\* A nonempty set of naturals with an upper bound has a greatest element: Max returns it.
LEMMA MaxFacts ==
  ASSUME NEW N \in Nat, NEW S \in SUBSET (0..N), S # {}
  PROVE  Max(S) \in S /\ \A n \in S : Max(S) >= n
<1> DEFINE T == {N - x : x \in S}
<1>1. T \in SUBSET Nat /\ T # {}
  <2>1. \A x \in S : N - x \in Nat
    OBVIOUS
  <2>2. PICK x \in S : TRUE
    OBVIOUS
  <2>3. N - x \in T
    BY <2>2
  <2> QED
    BY <2>1, <2>3
<1>2. Min(T) \in T /\ \A t \in T : Min(T) =< t
  BY <1>1, MinFacts
<1>3. PICK m \in S : Min(T) = N - m
  BY <1>2
<1>4. \A n \in S : m >= n
  <2> SUFFICES ASSUME NEW n \in S PROVE m >= n
    OBVIOUS
  <2>1. N - m =< N - n
    BY <1>2, <1>3
  <2> QED
    BY <2>1
<1> QED
  BY <1>4 DEF Max

\* What this peer finds as the greatest advertised height.
LEMMA MaxAvailableFacts ==
  ASSUME adv \in [Peer -> Height], height \in Height, height < maxAvailableLedgerHeight
  PROVE  maxAvailableLedgerHeight - 1 \in Block
<1> DEFINE S == {0} \cup {adv[p] : p \in Peer}
<1> USE GossipStateAssumption
<1>1. S \in SUBSET (0..(MaxBlock + 1)) /\ S # {} /\ MaxBlock + 1 \in Nat
  BY DEF Height
<1> HIDE DEF S
<1>2. Max(S) \in S
  BY <1>1, MaxFacts
<1>3. Max(S) \in 0..(MaxBlock + 1)
  BY <1>1, <1>2
<1>4. maxAvailableLedgerHeight = Max(S)
  BY DEF maxAvailableLedgerHeight, S
<1> QED
  BY <1>3, <1>4 DEF Height, Block

\* A push into the buffer: the block is in it afterwards, or was taken out of it before.
LEMMA PushFacts ==
  ASSUME buf \in SUBSET Block, next \in Nat, NEW seq \in Block, Push(seq)
  PROVE  /\ buf' \in SUBSET Block /\ next' = next
         /\ buf' = buf \/ (buf' = buf \cup {seq} /\ seq \notin buf /\ seq >= next)
         /\ seq >= next => seq \in buf'
<1>1. seq \in Nat
  BY GossipStateAssumption DEF Block
<1>2. CASE seq < next \/ seq \in buf
  <2>1. buf' = buf /\ next' = next
    BY <1>2 DEF Push
  <2>2. seq >= next => seq \in buf
    BY <1>1, <1>2
  <2> QED
    BY <2>1, <2>2
<1>3. CASE ~ (seq < next \/ seq \in buf)
  <2>1. buf' = buf \cup {seq} /\ next' = next
    BY <1>3 DEF Push
  <2>2. seq \notin buf /\ seq >= next
    BY <1>1, <1>3
  <2> QED
    BY <2>1, <2>2
<1> QED
  BY <1>2, <1>3

-----------------------------------------------------------------------------
(* Order of the blocks, and the ready channel. *)

\* The invariant holds when the provider is created.
LEMMA InitIInv == Init => IInv
<1> SUFFICES ASSUME Init PROVE IInv
  OBVIOUS
<1> USE GossipStateAssumption DEF Init
<1>1. \A p \in Peer : Min(Heights[p]) \in Height
  <2> SUFFICES ASSUME NEW p \in Peer PROVE Min(Heights[p]) \in Height
    OBVIOUS
  <2>1. Heights[p] \in SUBSET Height /\ Heights[p] # {}
    OBVIOUS
  <2>2. Heights[p] \in SUBSET Nat
    BY <2>1 DEF Height
  <2>3. Min(Heights[p]) \in Heights[p]
    BY <2>1, <2>2, MinFacts
  <2> QED
    BY <2>1, <2>3
<1>2. adv \in [Peer -> Height]
  BY <1>1
<1>3. Typed
  <2>1. height \in Height /\ next \in Height /\ 0 \in Block /\ 0 \in 0..(MaxBlock + 1)
        /\ 0 \in 0..(StateMaxRetries + 1) /\ faults \in 0..MaxFaults
    BY DEF Height, Block
  <2>2. deliver \in [pc : {"wait", "pop", "commit", "panic", "aborted"}, blk : Block]
    BY <2>1 DEF Deliver
  <2>3. client \in [pc : {"off", "recv", "push"}, seq : 0..(MaxBlock + 1)]
    BY <2>1 DEF Client
  <2>4. ae \in [pc : {"sleep", "send", "await", "size", "push"}, prev : 0..(MaxBlock + 1),
                end : Block, tries : 0..(StateMaxRetries + 1), todo : SUBSET Block]
    BY <2>1 DEF Asleep
  <2>5. respCh \in Seq(Message) /\ Len(respCh) =< StateChannelSize
    OBVIOUS
  <2>6. buf \in SUBSET Block /\ ready \in BOOLEAN /\ responses \in SUBSET Message
        /\ skipped \in BOOLEAN
    OBVIOUS
  <2> HIDE DEF Init
  <2> QED
    BY <1>2, <2>1, <2>2, <2>3, <2>4, <2>5, <2>6 DEF Typed
<1> QED
  BY <1>3 DEF IInv, PushTyped, NextOK, CommitsInOrder, NoLostWakeup, Deliver, Client, Asleep

\* A step that leaves ledger, buffer and delivering goroutine alone keeps the order.
LEMMA OrderUnchanged ==
  ASSUME IInv, Typed', PushTyped', UNCHANGED <<height, buf, next, ready, deliver, skipped>>
  PROVE  IInv'
BY DEF IInv, NextOK, CommitsInOrder, NoLostWakeup

\* So does a push, whoever makes it: it signals if it adds the next block.
LEMMA OrderPush ==
  ASSUME IInv, Typed', PushTyped', NEW seq \in Block, Push(seq),
         UNCHANGED <<height, deliver, skipped>>
  PROVE  IInv'
<1> USE DEF IInv
<1>0. seq \in Nat /\ next \in Nat /\ buf \in SUBSET Block /\ \A b \in Block : b \in Nat
  BY GossipStateAssumption DEF Block, Height, Typed
<1>1. CASE seq < next \/ seq \in buf
  <2>1. UNCHANGED <<buf, next, ready>>
    BY <1>1 DEF Push
  <2> QED
    BY <2>1, OrderUnchanged
<1>2. CASE ~ (seq < next \/ seq \in buf)
  <2>1. buf' = buf \cup {seq} /\ next' = next /\ ready' = (ready \/ seq = next)
    BY <1>2 DEF Push
  <2>2. NextOK'
    BY <1>0, <1>2, <2>1 DEF NextOK
  <2>3. NoLostWakeup'
    BY <2>1 DEF NoLostWakeup
  <2> QED
    BY <2>2, <2>3 DEF CommitsInOrder
<1> QED
  BY <1>1, <1>2

\* The messages of an earlier batch.
LEMMA StaleFacts ==
  ASSUME Typed
  PROVE  /\ AllStale(responses) \in SUBSET Message
         /\ \A m \in AllStale(responses) : ~ m.cur
         /\ ForgetBatch =>
              /\ responses' \in SUBSET Message /\ \A m \in responses' : ~ m.cur
              /\ respCh' \in Seq(Message) /\ Len(respCh') = Len(respCh)
              /\ \A i \in 1..Len(respCh') : ~ respCh'[i].cur
<1>1. \A p \in Peer : Stale(p) \in Message /\ ~ Stale(p).cur
  BY DEF Stale, Message
<1>2. \A m \in Message : m.peer \in Peer
  BY DEF Message
<1>3. AllStale(responses) \in SUBSET Message /\ \A m \in AllStale(responses) : ~ m.cur
  BY <1>1, <1>2 DEF AllStale, Typed
<1>4. ASSUME ForgetBatch
      PROVE  /\ respCh' \in Seq(Message) /\ Len(respCh') = Len(respCh)
             /\ \A i \in 1..Len(respCh') : ~ respCh'[i].cur
  <2> DEFINE n == Len(respCh)
  <2>1. respCh \in Seq(Message) /\ n \in Nat /\ DOMAIN respCh = 1..n
    BY DEF Typed
  <2>2. \A i \in 1..n : Stale(respCh[i].peer) \in Message /\ ~ Stale(respCh[i].peer).cur
    BY <1>1, <1>2, <2>1
  <2>3. respCh' = [i \in 1..n |-> Stale(respCh[i].peer)]
    BY <1>4, <2>1 DEF ForgetBatch
  <2> HIDE DEF n
  <2>4. respCh' \in [1..n -> Message]
    BY <2>2, <2>3
  <2>5. respCh' \in Seq(Message) /\ Len(respCh') = n
    BY <2>1, <2>4
  <2> QED
    BY <2>2, <2>3, <2>5 DEF n
<1> QED
  BY <1>3, <1>4 DEF ForgetBatch

\* The deliver client connects, disconnects and receives.
LEMMA ClientIInv ==
  ASSUME IInv, Connect \/ Disconnect \/ ReceiveBlock
  PROVE  IInv'
<1> USE GossipStateAssumption DEF IInv
<1>1. UNCHANGED <<height, buf, next, ready, deliver, ae, responses, respCh, adv, skipped, faults>>
  BY DEF Connect, Disconnect, ReceiveBlock, bufVars, netVars
<1>2. /\ client' \in [pc : {"off", "recv", "push"}, seq : 0..(MaxBlock + 1)]
      /\ client'.pc = "push" => client'.seq \in Block
  <2>1. height \in 0..(MaxBlock + 1) /\ client.seq \in 0..(MaxBlock + 1)
    BY DEF Typed, Height
  <2>2. CASE Connect
    BY <2>1, <2>2 DEF Connect, Client
  <2>3. CASE Disconnect
    BY <2>3 DEF Disconnect, Client
  <2>4. CASE ReceiveBlock
    <3>1. client.seq \in Block
      BY <2>1, <2>4 DEF ReceiveBlock, Block
    <3>2. client' = Client("push", client.seq) \/ client' = Client("off", 0)
      BY <2>4 DEF ReceiveBlock
    <3> QED
      BY <2>1, <3>1, <3>2 DEF Client
  <2> QED
    BY <2>2, <2>3, <2>4
<1>3. Typed' /\ PushTyped'
  BY <1>1, <1>2 DEF Typed, PushTyped
<1> QED
  BY <1>1, <1>3, OrderUnchanged

\* Heights are advertised, responses arrive or are lost.
LEMMA NetworkIInv ==
  ASSUME IInv,
         \/ \E p \in Peer : Advertise(p)
         \/ \E m \in responses : directMessage(m) \/ Lose(m)
  PROVE  IInv'
<1> USE GossipStateAssumption DEF IInv
<1>1. UNCHANGED <<height, buf, next, ready, deliver, ae, client, skipped>>
  BY DEF Advertise, directMessage, Lose, bufVars, netVars
<1>2. ASSUME NEW p \in Peer, Advertise(p) PROVE Typed' /\ PushTyped'
  <2>1. adv' \in [Peer -> Height]
    BY <1>2 DEF Advertise, Typed
  <2>2. UNCHANGED <<responses, respCh, faults>>
    BY <1>2 DEF Advertise, netVars
  <2> QED
    BY <1>1, <2>1, <2>2 DEF Typed, PushTyped
<1>3. ASSUME NEW m \in responses, Lose(m) PROVE Typed' /\ PushTyped'
  <2>1. responses' \in SUBSET Message /\ faults' \in 0..MaxFaults
    BY <1>3 DEF Lose, Fault, Typed
  <2>2. UNCHANGED <<respCh, adv>>
    BY <1>3 DEF Lose
  <2> QED
    BY <1>1, <2>1, <2>2 DEF Typed, PushTyped
<1>4. ASSUME NEW m \in responses, directMessage(m) PROVE Typed' /\ PushTyped'
  <2>1. responses' \in SUBSET Message /\ m \in Message
    BY <1>4 DEF directMessage, Typed
  <2>2. UNCHANGED <<adv, faults>>
    BY <1>4 DEF directMessage
  <2>3. respCh' \in Seq(Message) /\ Len(respCh') =< StateChannelSize
    <3>1. respCh \in Seq(Message) /\ Len(respCh) =< StateChannelSize /\ Len(respCh) \in Nat
      BY DEF Typed
    <3>2. CASE stateTransferActive
      <4>1. Len(respCh) < StateChannelSize /\ respCh' = Append(respCh, m)
        BY <1>4, <3>2 DEF directMessage
      <4> QED
        BY <2>1, <3>1, <4>1
    <3>3. CASE ~stateTransferActive
      BY <1>4, <3>1, <3>3 DEF directMessage
    <3> QED
      BY <3>2, <3>3
  <2> QED
    BY <1>1, <2>1, <2>2, <2>3 DEF Typed, PushTyped
<1>5. Typed' /\ PushTyped'
  BY <1>2, <1>3, <1>4
<1> QED
  BY <1>1, <1>5, OrderUnchanged

AERecord ==
  [pc : {"sleep", "send", "await", "size", "push"}, prev : 0..(MaxBlock + 1),
   end : Block, tries : 0..(StateMaxRetries + 1), todo : SUBSET Block]

\* The range of a request and the answers to it.
LEMMA RequestFacts ==
  ASSUME Typed, NEW p \in Peer, NEW m \in handleStateRequest(p, ae.prev, BatchEnd)
  PROVE  /\ m \in Message /\ m.cur
         /\ \A b \in m.blocks : ae.prev =< b
         /\ First[p] =< ae.prev =>
              \A b \in m.blocks : \A x \in Block : ae.prev =< x /\ x =< b => x \in m.blocks
<1> USE GossipStateAssumption
<1>1. BatchEnd \in Int /\ BatchEnd =< ae.end /\ ae.end \in Block /\ ae.prev \in 0..(MaxBlock + 1)
  BY DEF BatchEnd, Lesser, Typed, Block
<1>2. PICK h \in Heights[p] :
        m = [peer |-> p, blocks |-> {seq \in ae.prev..BatchEnd : First[p] =< seq /\ seq < h},
             cur |-> TRUE]
  BY DEF handleStateRequest
<1>3. m.blocks \in SUBSET Block
  BY <1>1, <1>2 DEF Block
<1>4. m \in Message /\ m.cur
  BY <1>2, <1>3 DEF Message
<1>5. h \in Nat /\ First[p] \in Nat /\ \A x \in Block : x \in Nat
  <2>1. Heights[p] \in SUBSET Height
    OBVIOUS
  <2> QED
    BY <2>1 DEF Height, Block
<1>6. \A b \in m.blocks : ae.prev =< b
  BY <1>1, <1>2
<1>7. ASSUME First[p] =< ae.prev, NEW b \in m.blocks, NEW x \in Block, ae.prev =< x, x =< b
      PROVE  x \in m.blocks
  <2>1. b \in ae.prev..BatchEnd /\ b < h
    BY <1>2
  <2>2. x \in ae.prev..BatchEnd /\ First[p] =< x /\ x < h
    BY <1>1, <1>5, <1>7, <2>1
  <2> QED
    BY <1>2, <2>2
<1> QED
  BY <1>4, <1>6, <1>7

\* The steps of anti-entropy that leave the buffer alone.
LEMMA AntiEntropyIInv ==
  ASSUME IInv,
         \/ CheckHeight \/ GiveUp \/ ResponseTimeout \/ TakeResponse \/ AntiEntropyFindsRoom
         \/ VerifyBlockFails
         \/ \E p \in Peer : SendRequest(p)
  PROVE  IInv'
<1> USE GossipStateAssumption DEF IInv
<1>1. UNCHANGED <<height, buf, next, ready, deliver, client, adv, skipped>>
  BY DEF CheckHeight, GiveUp, ResponseTimeout, TakeResponse, AntiEntropyFindsRoom,
     VerifyBlockFails, SendRequest, bufVars, netVars
<1>2. ae \in AERecord /\ responses \in SUBSET Message /\ respCh \in Seq(Message)
      /\ Len(respCh) =< StateChannelSize /\ faults \in 0..MaxFaults
  BY DEF Typed, AERecord
<1>3. ASSUME ae' \in AERecord, ae'.pc \in {"size", "push"} => ae'.todo # {},
             responses' \in SUBSET Message, respCh' \in Seq(Message),
             Len(respCh') =< StateChannelSize, faults' \in 0..MaxFaults
      PROVE  IInv'
  <2>1. Typed' /\ PushTyped'
    BY <1>1, <1>3 DEF Typed, PushTyped, AERecord
  <2> QED
    BY <1>1, <2>1, OrderUnchanged
<1>4. CASE CheckHeight
  <2>1. maxAvailableLedgerHeight - 1 \in Block
    BY <1>4, MaxAvailableFacts DEF CheckHeight, Typed
  <2>2. height \in 0..(MaxBlock + 1)
    BY DEF Typed, Height
  <2>3. ae' \in AERecord /\ ae'.pc = "send"
    BY <1>4, <2>1, <2>2 DEF CheckHeight, AERecord
  <2>4. faults' \in 0..MaxFaults
    BY <1>2, <1>4 DEF CheckHeight, Fault
  <2>5. ForgetBatch
    BY <1>4 DEF CheckHeight
  <2> QED
    BY <1>2, <1>3, <2>3, <2>4, <2>5, StaleFacts
<1>5. CASE GiveUp
  <2>1. ae' \in AERecord /\ ae'.pc = "sleep"
    BY <1>5 DEF GiveUp, Asleep, AERecord, Block
  <2> QED
    BY <1>2, <1>3, <1>5, <2>1 DEF GiveUp, netVars
<1>6. CASE ResponseTimeout
  <2>1. ae' \in AERecord /\ ae'.pc = "send"
    BY <1>2, <1>6 DEF ResponseTimeout, AERecord
  <2>2. faults' \in 0..MaxFaults
    BY <1>2, <1>6 DEF ResponseTimeout, Fault
  <2> QED
    BY <1>2, <1>3, <1>6, <2>1, <2>2 DEF ResponseTimeout, netVars
<1>7. CASE TakeResponse
  <2> DEFINE m == Head(respCh)
  <2>1. m \in Message /\ respCh' \in Seq(Message) /\ Len(respCh') =< StateChannelSize
    BY <1>2, <1>7 DEF TakeResponse
  <2>2. m.blocks \in SUBSET Block
    BY <2>1 DEF Message
  <2>3. CASE m.cur /\ m.blocks # {}
    <3>1. ae' = [ae EXCEPT !.pc = "size", !.todo = m.blocks]
      BY <1>7, <2>3 DEF TakeResponse
    <3> HIDE DEF m
    <3>2. ae' \in AERecord /\ ae'.todo # {}
      BY <1>2, <2>2, <2>3, <3>1 DEF AERecord
    <3> QED
      BY <1>2, <1>3, <1>7, <2>1, <3>2 DEF TakeResponse
  <2>4. CASE ~ (m.cur /\ m.blocks # {})
    <3>1. ae' = [ae EXCEPT !.pc = "send"]
      BY <1>7, <2>4 DEF TakeResponse
    <3>2. ae' \in AERecord /\ ae'.pc = "send"
      BY <1>2, <3>1 DEF AERecord
    <3> QED
      BY <1>2, <1>3, <1>7, <2>1, <3>2 DEF TakeResponse
  <2> QED
    BY <2>3, <2>4
<1>8. CASE AntiEntropyFindsRoom
  <2>1. ae' \in AERecord /\ ae'.todo = ae.todo /\ ae.todo # {}
    BY <1>2, <1>8 DEF AntiEntropyFindsRoom, AERecord, PushTyped
  <2> QED
    BY <1>2, <1>3, <1>8, <2>1 DEF AntiEntropyFindsRoom, netVars
<1>9. CASE VerifyBlockFails
  <2>1. ae' \in AERecord /\ ae'.pc = "send"
    BY <1>2, <1>9 DEF VerifyBlockFails, AERecord
  <2>2. faults' \in 0..MaxFaults
    BY <1>2, <1>9 DEF VerifyBlockFails, Fault
  <2> QED
    BY <1>2, <1>3, <1>9, <2>1, <2>2 DEF VerifyBlockFails, netVars
<1>10. ASSUME NEW p \in Peer, SendRequest(p) PROVE IInv'
  <2>0. ae.tries + 1 \in 0..(StateMaxRetries + 1)
    BY <1>2, <1>10 DEF SendRequest, AERecord
  <2>1. ae' \in AERecord /\ ae'.pc = "await"
    BY <1>2, <1>10, <2>0 DEF SendRequest, AERecord
  <2>2. PICK m \in handleStateRequest(p, ae.prev, BatchEnd) : responses' = responses \cup {m}
    BY <1>10 DEF SendRequest
  <2>3. m \in Message
    BY <2>2, RequestFacts
  <2> QED
    BY <1>2, <1>3, <1>10, <2>1, <2>2, <2>3 DEF SendRequest
<1> QED
  BY <1>4, <1>5, <1>6, <1>7, <1>8, <1>9, <1>10

\* Blocks are pushed: from gossip, by the client, by anti-entropy.
LEMMA PushersIInv ==
  ASSUME IInv, (\E seq \in Block : ReceiveGossip(seq)) \/ PushReceived \/ PushTransferred
  PROVE  IInv'
<1> USE GossipStateAssumption DEF IInv
<1>0. buf \in SUBSET Block /\ next \in Nat /\ ready \in BOOLEAN
  BY DEF Typed, Height
<1>1. ASSUME NEW seq \in Block, Push(seq)
      PROVE  buf' \in SUBSET Block /\ next' = next /\ ready' \in BOOLEAN
  <2>1. ready' \in BOOLEAN
    BY <1>0, <1>1 DEF Push
  <2> QED
    BY <1>0, <1>1, <2>1, PushFacts
<1>2. ASSUME NEW seq \in Block, ReceiveGossip(seq) PROVE IInv'
  <2>1. Push(seq) /\ UNCHANGED <<height, deliver, client, ae, responses, respCh, adv, skipped, faults>>
    BY <1>2 DEF ReceiveGossip, netVars
  <2>2. Typed' /\ PushTyped'
    BY <1>1, <2>1 DEF Typed, PushTyped
  <2> QED
    BY <2>1, <2>2, OrderPush
<1>3. CASE PushReceived
  <2>1. /\ Push(client.seq) /\ client.seq \in Block
        /\ client' = Client("recv", client.seq + 1)
        /\ UNCHANGED <<height, deliver, ae, responses, respCh, adv, skipped, faults>>
    BY <1>3 DEF PushReceived, netVars, PushTyped
  <2>2. client' \in [pc : {"off", "recv", "push"}, seq : 0..(MaxBlock + 1)] /\ client'.pc = "recv"
    BY <2>1 DEF Client, Block
  <2>3. Typed' /\ PushTyped'
    BY <1>1, <2>1, <2>2 DEF Typed, PushTyped
  <2> QED
    BY <2>1, <2>3, OrderPush
<1>4. CASE PushTransferred
  <2> DEFINE seq == Min(ae.todo)
             rest == ae.todo \ {seq}
  <2>1. ae \in AERecord /\ ae.todo \in SUBSET Block /\ ae.todo # {}
    BY <1>4 DEF PushTransferred, PushTyped, Typed, AERecord
  <2>2. seq \in Block
    BY <2>1, MinFacts DEF Block
  <2>3. /\ Push(seq) /\ UNCHANGED <<height, deliver, client, adv, skipped, faults>>
        /\ \/ /\ rest # {} /\ ae' = [ae EXCEPT !.pc = "size", !.todo = rest]
              /\ UNCHANGED <<responses, respCh>>
           \/ /\ ae' = [ae EXCEPT !.pc = "send", !.prev = seq + 1, !.tries = 0, !.todo = {}]
              /\ ForgetBatch
           \/ ae' = Asleep /\ UNCHANGED <<responses, respCh>>
    <3>1. seq < ae.end \/ seq >= ae.end
      BY <2>1, <2>2 DEF AERecord, Block
    <3> HIDE DEF seq
    <3>2. CASE rest # {}
      BY <1>4, <3>2 DEF PushTransferred, netVars, seq
    <3>3. CASE rest = {} /\ seq < ae.end
      BY <1>4, <3>3 DEF PushTransferred, netVars, seq
    <3>4. CASE rest = {} /\ seq >= ae.end /\ ~ (seq < ae.end)
      BY <1>4, <3>4 DEF PushTransferred, netVars, seq
    <3> QED
      BY <3>1, <3>2, <3>3, <3>4
  <2>4. rest \in SUBSET Block /\ seq + 1 \in 0..(MaxBlock + 1) /\ 0 \in 0..(StateMaxRetries + 1)
        /\ 0 \in Block /\ 0 \in 0..(MaxBlock + 1)
    BY <2>1, <2>2 DEF Block
  <2> HIDE DEF seq, rest
  <2>5. ae' \in AERecord /\ (ae'.pc \in {"size", "push"} => ae'.todo # {})
    <3>1. CASE rest # {} /\ ae' = [ae EXCEPT !.pc = "size", !.todo = rest]
      BY <2>1, <2>4, <3>1 DEF AERecord
    <3>2. CASE ae' = [ae EXCEPT !.pc = "send", !.prev = seq + 1, !.tries = 0, !.todo = {}]
      BY <2>1, <2>4, <3>2 DEF AERecord
    <3>3. CASE ae' = Asleep
      BY <2>4, <3>3 DEF AERecord, Asleep
    <3> QED
      BY <2>3, <3>1, <3>2, <3>3
  <2>6. responses' \in SUBSET Message /\ respCh' \in Seq(Message) /\ Len(respCh') =< StateChannelSize
    BY <2>3, StaleFacts DEF Typed
  <2>7. Typed' /\ PushTyped'
    BY <1>1, <2>2, <2>3, <2>5, <2>6 DEF Typed, PushTyped, AERecord
  <2> QED
    BY <2>2, <2>3, <2>7, OrderPush
<1> QED
  BY <1>2, <1>3, <1>4

\* When the process ends, all but the ledger is as it is at the start.
LEMMA EndedTyped ==
  ASSUME IInv, NEW pc \in {"wait", "panic"}, ProcessEnds(pc), UNCHANGED <<height, adv>>,
         next' \in Height, skipped' \in BOOLEAN, faults' \in 0..MaxFaults
  PROVE  /\ Typed' /\ PushTyped' /\ buf' = {} /\ ready' = FALSE
         /\ deliver' = [pc |-> pc, blk |-> 0] /\ deliver'.pc = pc
<1> USE GossipStateAssumption DEF IInv
<1>0. 0 \in Block
  BY DEF Block
<1>1. /\ buf' = {} /\ ready' = FALSE
      /\ deliver' = [pc |-> pc, blk |-> 0] /\ client' = [pc |-> "off", seq |-> 0]
      /\ ae' = Asleep /\ responses' = AllStale(responses) /\ respCh' = << >>
  BY DEF ProcessEnds, Deliver, Client
<1>2. ae' \in AERecord /\ ae'.pc = "sleep"
  BY <1>0, <1>1 DEF AERecord, Asleep
<1>3. respCh' \in Seq(Message) /\ Len(respCh') =< StateChannelSize
  BY <1>1
<1>4. client' \in [pc : {"off", "recv", "push"}, seq : 0..(MaxBlock + 1)] /\ client'.pc = "off"
  BY <1>1
<1>5. deliver' \in [pc : {"wait", "pop", "commit", "panic", "aborted"}, blk : Block]
      /\ deliver'.pc = pc
  BY <1>0, <1>1
<1>6. responses' \in SUBSET Message
  BY <1>1, StaleFacts
<1>7. height' \in Height /\ adv' \in [Peer -> Height]
  BY DEF Typed
<1>8. buf' \in SUBSET Block /\ ready' \in BOOLEAN
  BY <1>1
<1>9. Typed' /\ PushTyped'
  BY <1>2, <1>3, <1>4, <1>5, <1>6, <1>7, <1>8 DEF Typed, PushTyped, AERecord
<1> QED
  BY <1>1, <1>5, <1>9

\* The delivering goroutine, and a restart.
LEMMA DeliverIInv ==
  ASSUME IInv, DeliverStep \/ DiscardPayload \/ AbortProcessing \/ Restart
  PROVE  IInv'
<1> USE GossipStateAssumption DEF IInv
<1>1. height \in 1..(MaxBlock + 1) /\ next \in 1..(MaxBlock + 1) /\ buf \in SUBSET Block
      /\ 0 \in Block
  BY DEF Typed, Height, Block
<1>2. CASE Wake
  <2> USE <1>2 DEF Wake, Deliver, netVars
  <2>1. Typed' /\ PushTyped'
    BY <1>1 DEF Typed, PushTyped
  <2> QED
    BY <2>1 DEF NextOK, CommitsInOrder, NoLostWakeup
<1>3. CASE PopNext /\ next \in buf
  <2>1. /\ buf' = buf \ {next} /\ next' = next + 1 /\ ready' = (ready /\ buf' # {})
        /\ deliver' = [pc |-> "commit", blk |-> next] /\ deliver.pc = "pop"
        /\ UNCHANGED <<height, client, ae, responses, respCh, adv, skipped, faults>>
    BY <1>3 DEF PopNext, Pop, Deliver, netVars
  <2>2. next \in Block /\ next + 1 \in Height /\ ready' \in BOOLEAN
    BY <1>1, <1>3, <2>1 DEF Height, Block, Typed
  <2>3. Typed' /\ PushTyped'
    BY <1>1, <2>1, <2>2 DEF Typed, PushTyped
  <2>4. NextOK'
    <3>1. \A b \in buf' : b >= next'
      BY <1>1, <2>1 DEF NextOK, Block
    <3>2. next' >= height' /\ deliver'.blk < next' /\ deliver'.pc = "commit"
          /\ (~skipped' => deliver'.blk = height' /\ next' = height' + 1)
      BY <1>1, <2>1 DEF NextOK
    <3> QED
      BY <3>1, <3>2 DEF NextOK
  <2> QED
    BY <2>1, <2>3, <2>4 DEF CommitsInOrder, NoLostWakeup
<1>4. CASE PopNext /\ next \notin buf
  <2>1. /\ deliver' = [pc |-> "wait", blk |-> 0] /\ deliver.pc = "pop"
        /\ UNCHANGED <<height, buf, next, ready, client, ae, responses, respCh, adv, skipped, faults>>
    BY <1>4 DEF PopNext, Deliver, bufVars, netVars
  <2>2. Typed' /\ PushTyped'
    BY <1>1, <2>1 DEF Typed, PushTyped
  <2> QED
    BY <1>4, <2>1, <2>2 DEF NextOK, CommitsInOrder, NoLostWakeup
<1>5. CASE DiscardPayload
  <2>1. /\ buf' = buf \ {next} /\ next' = next + 1 /\ ready' = (ready /\ buf' # {})
        /\ deliver.pc = "pop" /\ next \in buf /\ skipped' = TRUE /\ faults' \in 0..MaxFaults
        /\ UNCHANGED <<height, deliver, client, ae, responses, respCh, adv>>
    BY <1>5 DEF DiscardPayload, Fault, Pop, netVars, Typed
  <2>2. next \in Block /\ next + 1 \in Height /\ ready' \in BOOLEAN /\ skipped' \in BOOLEAN
    BY <1>1, <2>1 DEF Height, Block, Typed
  <2>3. Typed' /\ PushTyped'
    BY <1>1, <2>1, <2>2 DEF Typed, PushTyped
  <2>4. NextOK'
    <3>1. \A b \in buf' : b >= next'
      BY <1>1, <2>1 DEF NextOK, Block
    <3>2. next' >= height' /\ deliver'.pc = "pop"
      BY <1>1, <2>1 DEF NextOK
    <3> QED
      BY <2>1, <3>1, <3>2 DEF NextOK
  <2> QED
    BY <2>1, <2>3, <2>4 DEF CommitsInOrder, NoLostWakeup
<1>6. CASE CommitBlock /\ deliver.blk = height
  <2>1. /\ deliver' = [pc |-> "pop", blk |-> 0] /\ deliver.pc = "commit" /\ height' = height + 1
        /\ UNCHANGED <<buf, next, ready, client, ae, responses, respCh, adv, skipped, faults>>
    BY <1>6 DEF CommitBlock, Deliver, bufVars, netVars
  <2>2. height' \in Height /\ next >= height'
    BY <1>1, <1>6, <2>1 DEF NextOK, Height
  <2>3. Typed' /\ PushTyped'
    BY <1>1, <2>1, <2>2 DEF Typed, PushTyped
  <2>4. ~skipped => next = height'
    BY <1>1, <2>1, <2>2 DEF NextOK
  <2>5. NextOK'
    BY <2>1, <2>2, <2>4 DEF NextOK
  <2> QED
    BY <2>1, <2>3, <2>5 DEF CommitsInOrder, NoLostWakeup
<1>7. CASE CommitBlock /\ deliver.blk # height
  <2>1. ProcessEnds("panic") /\ UNCHANGED <<height, next, adv, skipped, faults>>
        /\ deliver.pc = "commit"
    BY <1>7 DEF CommitBlock
  <2>2. next' \in Height /\ skipped' \in BOOLEAN /\ faults' \in 0..MaxFaults
    BY <2>1 DEF Typed
  <2>3. Typed' /\ PushTyped' /\ buf' = {} /\ deliver'.pc = "panic"
    BY <2>1, <2>2, EndedTyped
  <2>4. skipped
    BY <1>7, <2>1 DEF NextOK
  <2>5. NextOK'
    BY <2>1, <2>3, <2>4 DEF NextOK
  <2> QED
    BY <2>1, <2>3, <2>4, <2>5 DEF CommitsInOrder, NoLostWakeup
<1>8. CASE AbortProcessing
  <2>1. /\ deliver' = [pc |-> "aborted", blk |-> 0] /\ deliver.pc = "commit"
        /\ faults' \in 0..MaxFaults
        /\ UNCHANGED <<height, buf, next, ready, client, ae, responses, respCh, adv, skipped>>
    BY <1>8 DEF AbortProcessing, Fault, Deliver, bufVars, netVars, Typed
  <2>2. Typed' /\ PushTyped'
    BY <1>1, <2>1 DEF Typed, PushTyped
  <2> QED
    BY <2>1, <2>2 DEF NextOK, CommitsInOrder, NoLostWakeup
<1>9. CASE Restart
  <2>1. ProcessEnds("wait") /\ next' = height /\ skipped' = FALSE /\ UNCHANGED <<height, adv>>
        /\ faults' \in 0..MaxFaults
    BY <1>9 DEF Restart, Fault, Typed
  <2>2. next' \in Height /\ skipped' \in BOOLEAN
    BY <2>1 DEF Typed
  <2>3. Typed' /\ PushTyped' /\ buf' = {} /\ deliver'.pc = "wait"
    BY <2>1, <2>2, EndedTyped
  <2>4. NextOK'
    BY <1>1, <2>1, <2>3 DEF NextOK
  <2> QED
    BY <2>3, <2>4 DEF CommitsInOrder, NoLostWakeup
<1> QED
  BY <1>2, <1>3, <1>4, <1>5, <1>6, <1>7, <1>8, <1>9 DEF DeliverStep

\* A step that changes nothing.
LEMMA StutterIInv ==
  ASSUME IInv, UNCHANGED vars
  PROVE  IInv'
BY DEF IInv, vars, bufVars, netVars, Typed, PushTyped, NextOK, CommitsInOrder, NoLostWakeup

\* Every step keeps it.
LEMMA NextIInv == IInv /\ [Next]_vars => IInv'
<1> SUFFICES ASSUME IInv, [Next]_vars PROVE IInv'
  OBVIOUS
<1>1. CASE DeliverStep \/ DiscardPayload \/ AbortProcessing \/ Restart
  BY <1>1, DeliverIInv
<1>2. CASE (\E seq \in Block : ReceiveGossip(seq)) \/ PushReceived
  BY <1>2, PushersIInv
<1>3. CASE Connect \/ Disconnect \/ ReceiveBlock
  BY <1>3, ClientIInv
<1>4. CASE (\E p \in Peer : Advertise(p)) \/ (\E m \in responses : directMessage(m) \/ Lose(m))
  BY <1>4, NetworkIInv
<1>5. CASE AntiEntropyStep \/ ResponseTimeout \/ VerifyBlockFails
  BY <1>5, AntiEntropyIInv, PushersIInv DEF AntiEntropyStep
<1>6. CASE UNCHANGED vars
  BY <1>6, StutterIInv
<1> QED
  BY <1>1, <1>2, <1>3, <1>4, <1>5, <1>6 DEF Next

\* The invariant holds in every reachable state.
THEOREM Invariance == Spec => []IInv
BY InitIInv, NextIInv, PTL DEF Spec

\* Buffer, goroutines and messages have their types; the channels hold no more than they can.
THEOREM TypeCorrect == Spec => []TypeOK
<1>1. IInv => TypeOK
  BY DEF IInv, Typed, TypeOK
<1> QED
  BY Invariance, <1>1, PTL

\* Unless it has discarded a payload since the peer started, deliverPayloads gives the ledger
\* its next block and no other, in whatever order blocks arrive and across restarts:
\* StoreBlock does not panic.
THEOREM InOrder == Spec => []CommitsInOrder
<1>1. IInv => CommitsInOrder
  BY DEF IInv
<1> QED
  BY Invariance, <1>1, PTL

\* deliverPayloads never waits for a signal while the next block is in the payloads buffer,
\* although Pop drains the signal with the last payload.
THEOREM WakeupsKept == Spec => []NoLostWakeup
<1>1. IInv => NoLostWakeup
  BY DEF IInv
<1> QED
  BY Invariance, <1>1, PTL

-----------------------------------------------------------------------------
(* The limit of the buffer. *)

\* The buffer still has what it had from its next block on.
Kept == next' >= next /\ \A x \in Block : x \in buf /\ x >= next' => x \in buf'

\* Then what was filled is filled.
LEMMA FilledKept ==
  ASSUME IInv, IInv', Kept, NEW b \in Int, NEW T
  PROVE  /\ FilledTo(b, buf) => FilledTo(b, buf)'
         /\ FilledTo(b, buf \cup T) => (\A x \in Block : next' =< x /\ x =< b => x \in buf' \cup T)
<1>1. next \in Nat /\ next' \in Nat /\ \A x \in Block : x \in Nat
  BY GossipStateAssumption DEF IInv, Typed, Height, Block
<1>2. \A x \in Block : next' =< x => next =< x
  BY <1>1 DEF Kept
<1> QED
  BY <1>1, <1>2 DEF Kept, FilledTo

\* While a block of the window is missing, the whole buffer is in the window.
LEMMA WindowBound ==
  ASSUME IInv, BufferFilled, NEW z \in Block, z \notin buf, z >= next, z < height + Window
  PROVE  /\ \A b \in buf : b < height + Window
         /\ Cardinality(buf) =< Window /\ Cardinality(buf \cup {z}) =< Window
<1> USE GossipStateAssumption
<1> DEFINE I == height..(height + Window - 1)
<1>1. height \in Nat /\ next \in Nat /\ next >= height /\ Window \in Nat /\ z \in Nat
      /\ \A x \in Block : x \in Nat
  BY DEF IInv, Typed, Height, Block, Window, NextOK
<1>2. \A b \in buf : b < height + Window /\ b >= next /\ b \in Nat
  <2> SUFFICES ASSUME NEW b \in buf PROVE b < height + Window /\ b >= next /\ b \in Nat
    OBVIOUS
  <2>1. b \in Nat /\ b >= next
    BY <1>1 DEF IInv, Typed, NextOK
  <2>2. ASSUME b >= height + Window PROVE FALSE
    <3>1. FilledTo(b, buf)
      BY <2>2 DEF BufferFilled
    <3>2. z =< b
      BY <1>1, <2>1, <2>2
    <3> QED
      BY <3>1, <3>2 DEF FilledTo
  <2> QED
    BY <1>1, <2>1, <2>2
<1>3. buf \in SUBSET I /\ buf \cup {z} \in SUBSET I
  BY <1>1, <1>2
<1>4. IsFiniteSet(I) /\ Cardinality(I) = Window
  BY <1>1, FS_Interval DEF Window
<1> HIDE DEF I
<1>5. Cardinality(buf) =< Cardinality(I) /\ Cardinality(buf \cup {z}) =< Cardinality(I)
  BY <1>3, <1>4, FS_Subset
<1> QED
  BY <1>2, <1>4, <1>5

\* The buffer is a finite set.
LEMMA BufferFinite ==
  ASSUME IInv
  PROVE  IsFiniteSet(buf) /\ Cardinality(buf) \in Nat
<1>1. IsFiniteSet(Block)
  BY GossipStateAssumption, FS_Interval DEF Block
<1> QED
  BY <1>1, FS_Subset, FS_CardinalityType DEF IInv, Typed

\* Pushing a block before which nothing is missing, after room was found: the buffer stays
\* filled and within its bound, and another such push still has room, or is of this block.
LEMMA PushAtFrontier ==
  ASSUME IInv, IInv', BufferFilled, BufferBounded, height' = height,
         NEW seq \in Block, FilledTo(seq - 1, buf), RoomFor(seq), Push(seq)
  PROVE  /\ Kept /\ FilledTo(seq, buf)' /\ BufferFilled' /\ BufferBounded'
         /\ \A t \in Block : FilledTo(t - 1, buf) /\ RoomFor(t) => RoomFor(t)'
<1> USE GossipStateAssumption
<1>1. /\ height \in Nat /\ next \in Nat /\ Window \in Nat
      /\ \A x \in Block : x \in Nat
      /\ buf \in SUBSET Block /\ buf' \in SUBSET Block
  <2>1. height \in Height /\ next \in Height /\ buf \in SUBSET Block /\ buf' \in SUBSET Block
    BY DEF IInv, Typed
  <2> QED
    BY <2>1 DEF Height, Block, Window
<1>2. /\ next' = next
      /\ buf' = buf \/ (buf' = buf \cup {seq} /\ seq \notin buf /\ seq >= next)
      /\ seq >= next => seq \in buf'
  BY <1>1, PushFacts
<1>3. Kept
  BY <1>1, <1>2 DEF Kept
<1>4. FilledTo(seq, buf)'
  <2> SUFFICES ASSUME NEW x \in Block, next =< x, x =< seq PROVE x \in buf'
    BY <1>2 DEF FilledTo
  <2>1. CASE x = seq
    BY <1>2, <2>1
  <2>2. CASE x # seq
    <3>1. x =< seq - 1
      BY <1>1, <2>2
    <3>2. x \in buf
      BY <3>1 DEF FilledTo
    <3> QED
      BY <1>2, <3>2
  <2> QED
    BY <2>1, <2>2
<1>5. BufferFilled'
  <2> SUFFICES ASSUME NEW b \in buf', b >= height + Window PROVE FilledTo(b, buf)'
    BY DEF BufferFilled, Window
  <2>1. CASE b = seq
    BY <1>4, <2>1
  <2>2. CASE b \in buf
    <3>1. FilledTo(b, buf)
      BY <2>2 DEF BufferFilled
    <3> QED
      BY <1>1, <1>3, <2>2, <3>1, FilledKept
  <2> QED
    BY <1>2, <2>1, <2>2
<1>6. CASE buf' = buf
  BY <1>2, <1>3, <1>4, <1>5, <1>6 DEF BufferBounded, RoomFor, HasRoom
<1>7. CASE buf' = buf \cup {seq} /\ seq \notin buf /\ seq >= next
  <2>1. Cardinality(buf') = Cardinality(buf) + 1 /\ Cardinality(buf) \in Nat
    BY <1>7, BufferFinite, FS_AddElement
  <2>2. Cardinality(buf) =< 2 * StateBlockBufferSize
    BY <1>7 DEF RoomFor, HasRoom
  <2>3. BufferBounded'
    BY <2>1, <2>2 DEF BufferBounded
  <2>4. ASSUME NEW t \in Block, FilledTo(t - 1, buf), t >= next', t \notin buf'
        PROVE  FALSE
    <3>1. t # seq /\ t \notin buf /\ t \in Nat /\ seq \in Nat /\ t >= next
      BY <1>1, <1>2, <1>7, <2>4
    <3>2. CASE seq < t
      <4>1. seq =< t - 1
        BY <3>1, <3>2
      <4> QED
        BY <1>7, <2>4, <4>1 DEF FilledTo
    <3>3. CASE t < seq
      <4>1. t =< seq - 1
        BY <3>1, <3>3
      <4> QED
        BY <3>1, <4>1 DEF FilledTo
    <3> QED
      BY <3>1, <3>2, <3>3
  <2> QED
    BY <1>3, <1>4, <1>5, <2>3, <2>4 DEF RoomFor
<1> QED
  BY <1>2, <1>6, <1>7

\* At the start nothing is in the buffer and nobody has anything to add.
LEMMA InitFill == Init => FillInv
<1> SUFFICES ASSUME Init PROVE FillInv
  OBVIOUS
<1> USE GossipStateAssumption DEF Init
<1>1. BufferFilled /\ ClientFilled /\ TransferFilled /\ RoomFound
  BY DEF BufferFilled, ClientFilled, TransferFilled, RoomFound, Client, Asleep
<1>2. BufferBounded
  <2>1. Cardinality(buf) = 0
    BY FS_EmptySet
  <2> QED
    BY <2>1 DEF BufferBounded
<1> QED
  BY <1>1, <1>2 DEF FillInv

\* A step that leaves the buffer and the ledger alone.
LEMMA FillUnchanged ==
  ASSUME FillInv, UNCHANGED <<height, buf, next>>, ClientFilled', TransferFilled', RoomFound'
  PROVE  FillInv'
BY DEF FillInv, BufferFilled, BufferBounded, FilledTo

\* The part about the client when it does not move,
LEMMA ClientUnchanged ==
  ASSUME IInv, IInv', ClientFilled, Kept, UNCHANGED client
  PROVE  ClientFilled'
<1>1. client.seq - 1 \in Int
  BY DEF IInv, Typed
<1> QED
  BY <1>1, FilledKept DEF ClientFilled

\* and the part about anti-entropy when it does not.
LEMMA TransferUnchanged ==
  ASSUME IInv, IInv', TransferFilled, Kept, UNCHANGED <<ae, responses, respCh>>
  PROVE  TransferFilled'
<1> SUFFICES ASSUME ae.pc # "sleep" PROVE TransferFilled'
  BY DEF TransferFilled
<1>1. ae.prev - 1 \in Int /\ ae.todo \in SUBSET Block /\ \A b \in Block : b \in Int
  BY GossipStateAssumption DEF IInv, Typed, Block
<1>2. FilledTo(ae.prev - 1, buf)'
  BY <1>1, FilledKept DEF TransferFilled
<1>3. \A b \in ae.todo : FilledTo(b, buf \cup ae.todo)'
  BY <1>1, FilledKept DEF TransferFilled, FilledTo
<1>4. \A m \in responses : BatchFilled(m)'
  BY DEF TransferFilled, BatchFilled
<1>5. \A i \in 1..Len(respCh) : BatchFilled(respCh[i])'
  BY DEF TransferFilled, BatchFilled
<1> QED
  BY <1>2, <1>3, <1>4, <1>5 DEF TransferFilled

\* Before the first block that anti-entropy still has to add, nothing is missing.
LEMMA TransferFrontier ==
  ASSUME IInv, TransferFilled, ae.pc \in {"size", "push"}
  PROVE  /\ Min(ae.todo) \in ae.todo /\ Min(ae.todo) \in Block
         /\ \A b \in ae.todo : Min(ae.todo) =< b
         /\ FilledTo(Min(ae.todo) - 1, buf)
<1> DEFINE t == Min(ae.todo)
<1>1. ae.todo \in SUBSET Block /\ ae.todo # {} /\ \A x \in Block : x \in Nat
  BY GossipStateAssumption DEF IInv, Typed, PushTyped, Block
<1>2. t \in ae.todo /\ \A b \in ae.todo : t =< b
  BY <1>1, MinFacts
<1> HIDE DEF t
<1>3. FilledTo(t, buf \cup ae.todo)
  BY <1>2 DEF TransferFilled
<1>4. FilledTo(t - 1, buf)
  <2> SUFFICES ASSUME NEW x \in Block, next =< x, x =< t - 1 PROVE x \in buf
    BY DEF FilledTo
  <2>1. x =< t /\ x \notin ae.todo
    BY <1>1, <1>2
  <2> QED
    BY <1>3, <2>1 DEF FilledTo
<1> QED
  BY <1>1, <1>2, <1>4 DEF t

\* Gossip pushes within the window only.
LEMMA GossipFill ==
  ASSUME IInv, IInv', FillInv, NEW seq \in Block, ReceiveGossip(seq)
  PROVE  FillInv'
<1> USE GossipStateAssumption DEF FillInv
<1>1. /\ Push(seq) /\ InWindow(seq)
      /\ UNCHANGED <<height, deliver, client, ae, responses, respCh, adv, faults>>
  BY DEF ReceiveGossip, netVars
<1>2. buf \in SUBSET Block /\ next \in Nat /\ height \in Nat /\ Window \in Nat
      /\ \A x \in Block : x \in Nat
  <2>1. height \in Height /\ next \in Height /\ buf \in SUBSET Block
    BY DEF IInv, Typed
  <2> QED
    BY <2>1 DEF Height, Block, Window
<1>3. /\ next' = next
      /\ buf' = buf \/ (buf' = buf \cup {seq} /\ seq \notin buf /\ seq >= next)
  BY <1>1, <1>2, PushFacts
<1>4. Kept
  BY <1>2, <1>3 DEF Kept
<1>5. ClientFilled' /\ TransferFilled'
  BY <1>1, <1>4, ClientUnchanged, TransferUnchanged
<1>6. CASE buf' = buf
  <2>1. RoomFound'
    BY <1>1, <1>3, <1>6 DEF RoomFound, RoomFor, HasRoom
  <2> QED
    BY <1>1, <1>3, <1>5, <1>6, <2>1, FillUnchanged
<1>7. CASE buf' = buf \cup {seq} /\ seq \notin buf /\ seq >= next
  <2>1. seq < height + Window
    BY <1>1, <1>2 DEF InWindow, Window
  <2>2. (\A b \in buf : b < height + Window) /\ Cardinality(buf') =< Window
    BY <1>7, <2>1, WindowBound
  <2>3. BufferFilled'
    <3> SUFFICES ASSUME NEW b \in buf', b >= height + Window PROVE FALSE
      BY <1>1 DEF BufferFilled, Window
    <3> QED
      BY <1>2, <1>7, <2>1, <2>2
  <2>4. Cardinality(buf') \in Nat
    <3>1. IsFiniteSet(buf')
      BY <1>7, BufferFinite, FS_AddElement
    <3> QED
      BY <3>1, FS_CardinalityType
  <2>5. HasRoom' /\ BufferBounded'
    BY <1>2, <2>2, <2>4 DEF HasRoom, BufferBounded, Window
  <2>6. RoomFound'
    BY <2>5 DEF RoomFound, RoomFor
  <2> QED
    BY <1>5, <2>3, <2>5, <2>6
<1> QED
  BY <1>3, <1>6, <1>7

\* The client pushes the block it received.
LEMMA PushReceivedFill ==
  ASSUME IInv, IInv', FillInv, PushReceived
  PROVE  FillInv'
<1> USE GossipStateAssumption DEF FillInv
<1>1. /\ client.pc = "push" /\ client.seq \in Block /\ Push(client.seq)
      /\ client' = Client("recv", client.seq + 1)
      /\ UNCHANGED <<height, deliver, ae, responses, respCh, adv, faults>>
  BY DEF PushReceived, netVars, IInv, PushTyped
<1>2. PICK seq \in Block : seq = client.seq
  BY <1>1
<1>3. FilledTo(seq - 1, buf) /\ RoomFor(seq) /\ Push(seq)
  BY <1>1, <1>2 DEF ClientFilled, RoomFound
<1>4. /\ Kept /\ FilledTo(seq, buf)' /\ BufferFilled' /\ BufferBounded'
      /\ \A t \in Block : FilledTo(t - 1, buf) /\ RoomFor(t) => RoomFor(t)'
  BY <1>1, <1>3, PushAtFrontier
<1>5. client'.pc = "recv" /\ client'.seq - 1 = seq
  BY <1>1, <1>2 DEF Client, Block
<1>6. ClientFilled'
  BY <1>4, <1>5 DEF ClientFilled
<1>7. TransferFilled'
  BY <1>1, <1>4, TransferUnchanged
<1>8. RoomFound'
  <2> SUFFICES ASSUME ae.pc = "push" PROVE RoomFor(Min(ae.todo))'
    BY <1>1, <1>5 DEF RoomFound
  <2>1. PICK t \in Block : t = Min(ae.todo)
    BY TransferFrontier
  <2>2. FilledTo(t - 1, buf) /\ RoomFor(t)
    BY <2>1, TransferFrontier DEF RoomFound
  <2>3. RoomFor(t)'
    BY <1>4, <2>2
  <2>4. t = Min(ae'.todo)
    BY <1>1, <2>1
  <2> QED
    BY <2>3, <2>4
<1> QED
  BY <1>4, <1>6, <1>7, <1>8

\* Anti-entropy pushes the first block it has left; a new batch begins behind the last one.
LEMMA PushTransferredFill ==
  ASSUME IInv, IInv', FillInv, PushTransferred
  PROVE  FillInv'
<1> USE GossipStateAssumption DEF FillInv
<1>1. PICK seq \in Block : seq = Min(ae.todo)
  BY TransferFrontier DEF PushTransferred
<1> DEFINE rest == ae.todo \ {seq}
<1>2. /\ ae.pc = "push" /\ ae.todo \in SUBSET Block /\ seq \in ae.todo
      /\ \A b \in ae.todo : seq =< b
      /\ \A x \in Block : x \in Nat
      /\ ae \in AERecord /\ ae.end \in Block
  <2>1. ae \in AERecord /\ ae.todo \in SUBSET Block /\ ae.end \in Block
    BY DEF IInv, Typed, AERecord
  <2>2. \A x \in Block : x \in Nat
    BY DEF Block
  <2>3. ae.pc = "push"
    BY DEF PushTransferred
  <2>4. seq \in ae.todo /\ \A b \in ae.todo : seq =< b
    BY <1>1, <2>3, TransferFrontier
  <2> QED
    BY <2>1, <2>2, <2>3, <2>4
<1>3. FilledTo(seq - 1, buf) /\ RoomFor(seq) /\ Push(seq)
  BY <1>1, <1>2, TransferFrontier DEF RoomFound, PushTransferred
<1>4. /\ UNCHANGED <<height, deliver, client, adv, faults>>
      /\ \/ /\ rest # {} /\ ae' = [ae EXCEPT !.pc = "size", !.todo = rest]
            /\ UNCHANGED <<responses, respCh>>
         \/ /\ ae' = [ae EXCEPT !.pc = "send", !.prev = seq + 1, !.tries = 0, !.todo = {}]
            /\ ForgetBatch
         \/ ae' = Asleep /\ UNCHANGED <<responses, respCh>>
  <2>1. seq < ae.end \/ seq >= ae.end
    BY <1>2
  <2>2. CASE rest # {}
    BY <1>1, <2>2 DEF PushTransferred, netVars
  <2>3. CASE rest = {} /\ seq < ae.end
    BY <1>1, <2>3 DEF PushTransferred, netVars
  <2>4. CASE rest = {} /\ seq >= ae.end /\ ~ (seq < ae.end)
    BY <1>1, <2>4 DEF PushTransferred, netVars
  <2> QED
    BY <2>1, <2>2, <2>3, <2>4
<1>5. /\ Kept /\ FilledTo(seq, buf)' /\ BufferFilled' /\ BufferBounded'
      /\ \A t \in Block : FilledTo(t - 1, buf) /\ RoomFor(t) => RoomFor(t)'
  BY <1>3, <1>4, PushAtFrontier
<1>6. ClientFilled'
  BY <1>4, <1>5, ClientUnchanged
<1>7. RoomFound'
  <2>1. ae'.pc # "push"
    <3> HIDE DEF rest
    <3>1. CASE ae' = [ae EXCEPT !.pc = "size", !.todo = rest]
      BY <1>2, <3>1 DEF AERecord
    <3>2. CASE ae' = [ae EXCEPT !.pc = "send", !.prev = seq + 1, !.tries = 0, !.todo = {}]
      BY <1>2, <3>2 DEF AERecord
    <3>3. CASE ae' = Asleep
      BY <3>3 DEF Asleep
    <3> QED
      BY <1>4, <3>1, <3>2, <3>3
  <2>2. client'.pc = "push" => RoomFor(client.seq)'
    <3> SUFFICES ASSUME client.pc = "push" PROVE RoomFor(client.seq)'
      BY <1>4
    <3>1. PICK t \in Block : t = client.seq
      BY DEF IInv, PushTyped
    <3>2. FilledTo(t - 1, buf) /\ RoomFor(t)
      BY <3>1 DEF ClientFilled, RoomFound
    <3>3. RoomFor(t)' /\ t = client'.seq
      BY <1>4, <1>5, <3>1, <3>2
    <3> QED
      BY <3>3
  <2> QED
    BY <2>1, <2>2 DEF RoomFound
<1>8. TransferFilled'
  <2>1. CASE rest # {} /\ ae' = [ae EXCEPT !.pc = "size", !.todo = rest]
             /\ UNCHANGED <<responses, respCh>>
    <3>1. /\ ae'.prev = ae.prev /\ ae'.todo = rest /\ ae.prev >= 1 /\ ae.prev - 1 \in Int
      BY <1>2, <2>1 DEF IInv, Typed, TransferFilled
    <3>2. FilledTo(ae.prev - 1, buf)'
      <4>1. PICK k \in Int : k = ae.prev - 1
        BY <3>1
      <4>2. FilledTo(k, buf)'
        BY <1>2, <1>5, <4>1, FilledKept DEF TransferFilled
      <4>3. k = ae'.prev - 1
        BY <3>1, <4>1
      <4> QED
        BY <4>2, <4>3
    <3>3. \A b \in ae'.todo : FilledTo(b, buf \cup ae.todo)'
      <4> SUFFICES ASSUME NEW b \in rest, NEW x \in Block, next' =< x, x =< b
                   PROVE  x \in buf' \cup rest
        BY <3>1 DEF FilledTo
      <4>1. FilledTo(b, buf \cup ae.todo) /\ b \in Int
        <5>1. b \in ae.todo /\ b \in Nat
          BY <1>2
        <5>2. ae.pc # "sleep"
          BY <1>2
        <5>3. \A c \in ae.todo : FilledTo(c, buf \cup ae.todo)
          BY <5>2 DEF TransferFilled
        <5>4. FilledTo(b, buf \cup ae.todo)
          BY <5>1, <5>3, Zenon
        <5> QED
          BY <5>1, <5>4
      <4>2. x \in buf' \cup ae.todo
        BY <1>5, <4>1, FilledKept
      <4>3. x = seq => x \in buf'
        <5>1. seq =< seq
          BY <1>2
        <5> QED
          BY <1>5, <5>1 DEF FilledTo
      <4> QED
        BY <4>2, <4>3
    <3>4. \A m \in responses' : BatchFilled(m)'
      BY <1>2, <2>1, <3>1 DEF TransferFilled, BatchFilled
    <3>5. \A i \in 1..Len(respCh') : BatchFilled(respCh[i])'
      BY <1>2, <2>1, <3>1 DEF TransferFilled, BatchFilled
    <3> QED
      BY <3>1, <3>2, <3>3, <3>4, <3>5 DEF TransferFilled
  <2>2. CASE ae' = [ae EXCEPT !.pc = "send", !.prev = seq + 1, !.tries = 0, !.todo = {}]
             /\ ForgetBatch
    <3>1. ae'.prev = seq + 1 /\ ae'.todo = {} /\ ae'.prev >= 1 /\ ae'.prev - 1 = seq
      BY <1>2, <2>2 DEF AERecord
    <3>2. FilledTo(ae.prev - 1, buf)'
      BY <1>5, <3>1
    <3>3. (\A m \in responses' : ~ m.cur) /\ \A i \in 1..Len(respCh') : ~ respCh'[i].cur
      BY <2>2, StaleFacts DEF IInv
    <3> QED
      BY <3>1, <3>2, <3>3 DEF TransferFilled, BatchFilled
  <2>3. CASE ae' = Asleep
    BY <2>3 DEF TransferFilled, Asleep
  <2> QED
    BY <1>4, <2>1, <2>2, <2>3
<1> QED
  BY <1>5, <1>6, <1>7, <1>8

\* When the process ends, the buffer is empty, and there is no client and no transfer.
LEMMA EndedFill ==
  ASSUME NEW pc, ProcessEnds(pc)
  PROVE  FillInv'
<1> USE GossipStateAssumption
<1>1. buf' = {} /\ client'.pc = "off" /\ ae'.pc = "sleep"
  BY DEF ProcessEnds, Client, Asleep
<1>2. Cardinality(buf') = 0
  BY <1>1, FS_EmptySet
<1>3. BufferBounded'
  BY <1>2 DEF BufferBounded
<1> QED
  BY <1>1, <1>3 DEF FillInv, BufferFilled, ClientFilled, TransferFilled, RoomFound

\* Taking the next block out makes room, whether it is committed or discarded; a commit only
\* narrows what is beyond the window.
LEMMA DeliverFill ==
  ASSUME IInv, IInv', FillInv, DeliverStep \/ DiscardPayload \/ AbortProcessing,
         ~ ProcessEnds("panic")
  PROVE  FillInv'
<1> USE GossipStateAssumption DEF FillInv
<1>1. UNCHANGED <<client, ae, responses, respCh>>
  BY DEF DeliverStep, Wake, PopNext, DiscardPayload, CommitBlock, AbortProcessing, netVars
<1>2. next \in Nat /\ height \in Nat /\ Window \in Nat /\ \A x \in Block : x \in Nat
  BY DEF IInv, Typed, Height, Block, Window
<1>3. CASE (PopNext \/ DiscardPayload) /\ next \in buf
  <2>1. buf' = buf \ {next} /\ next' = next + 1 /\ height' = height
    BY <1>3 DEF PopNext, DiscardPayload, Pop
  <2>2. Kept
    BY <1>2, <2>1 DEF Kept
  <2>3. BufferFilled'
    <3> SUFFICES ASSUME NEW b \in buf', b >= height + Window PROVE FilledTo(b, buf)'
      BY <2>1 DEF BufferFilled, Window
    <3>1. b \in buf /\ b \in Int
      BY <1>2, <2>1 DEF IInv, Typed
    <3>2. FilledTo(b, buf)
      BY <3>1 DEF BufferFilled
    <3> QED
      BY <2>2, <3>1, <3>2, FilledKept
  <2>4. HasRoom' /\ BufferBounded'
    <3>1. Cardinality(buf') = Cardinality(buf) - 1 /\ Cardinality(buf) \in Nat
      BY <1>3, <2>1, BufferFinite, FS_RemoveElement
    <3> QED
      BY <3>1 DEF HasRoom, BufferBounded
  <2>5. RoomFound'
    BY <2>4 DEF RoomFound, RoomFor
  <2> QED
    BY <1>1, <2>2, <2>3, <2>4, <2>5, ClientUnchanged, TransferUnchanged
<1>4. CASE CommitBlock
  <2>1. UNCHANGED <<buf, next>> /\ (height' = height \/ height' = height + 1)
    BY <1>4 DEF CommitBlock, bufVars
  <2>2. Kept
    BY <1>2, <2>1 DEF Kept
  <2>3. BufferFilled'
    <3> SUFFICES ASSUME NEW b \in buf, b >= height' + Window PROVE FilledTo(b, buf)'
      BY <2>1 DEF BufferFilled, Window
    <3>0. b \in Nat
      BY <1>2 DEF IInv, Typed
    <3>1. b >= height + Window /\ b \in Int
      BY <1>2, <2>1, <3>0
    <3>2. FilledTo(b, buf)
      BY <3>1 DEF BufferFilled
    <3> QED
      BY <2>2, <3>1, <3>2, FilledKept
  <2>4. RoomFound' /\ BufferBounded'
    BY <1>1, <2>1 DEF RoomFound, RoomFor, HasRoom, BufferBounded
  <2> QED
    BY <1>1, <2>2, <2>3, <2>4, ClientUnchanged, TransferUnchanged
<1>5. CASE Wake \/ AbortProcessing \/ (PopNext /\ next \notin buf)
  <2>1. UNCHANGED <<height, buf, next>>
    BY <1>5 DEF Wake, AbortProcessing, PopNext, bufVars
  <2>2. Kept
    BY <1>2, <2>1 DEF Kept
  <2>3. RoomFound'
    BY <1>1, <2>1 DEF RoomFound, RoomFor, HasRoom
  <2> QED
    BY <1>1, <2>1, <2>2, <2>3, ClientUnchanged, TransferUnchanged, FillUnchanged
<1>6. DiscardPayload => next \in buf
  BY DEF DiscardPayload
<1> QED
  BY <1>3, <1>4, <1>5, <1>6 DEF DeliverStep

\* The client begins at the ledger height, before which nothing can be missing.
LEMMA ClientFill ==
  ASSUME IInv, IInv', FillInv, Connect \/ Disconnect \/ ReceiveBlock
  PROVE  FillInv'
<1> USE GossipStateAssumption DEF FillInv
<1>1. UNCHANGED <<height, buf, next, ae, responses, respCh>>
  BY DEF Connect, Disconnect, ReceiveBlock, bufVars, netVars
<1>2. /\ next \in Nat /\ height \in Nat /\ next >= height /\ Window \in Nat
      /\ \A x \in Block : x \in Nat
  BY DEF IInv, Typed, NextOK, Height, Block, Window
<1>3. Kept
  BY <1>1, <1>2 DEF Kept
<1>4. TransferFilled'
  BY <1>1, <1>3, TransferUnchanged
<1>5. ae'.pc = "push" => RoomFor(Min(ae.todo))'
  BY <1>1 DEF RoomFound, RoomFor, HasRoom
<1>6. CASE Connect
  <2>1. client'.pc = "recv" /\ client'.seq = height
    BY <1>6 DEF Connect, Client
  <2>2. ClientFilled'
    BY <1>1, <1>2, <2>1 DEF ClientFilled, FilledTo
  <2>3. RoomFound'
    BY <1>5, <2>1 DEF RoomFound
  <2> QED
    BY <1>1, <1>4, <2>2, <2>3, FillUnchanged
<1>7. CASE client'.pc = "off"
  <2>1. ClientFilled' /\ RoomFound'
    BY <1>5, <1>7 DEF ClientFilled, RoomFound
  <2> QED
    BY <1>1, <1>4, <2>1, FillUnchanged
<1>8. CASE ReceiveBlock /\ client'.pc # "off"
  <2>1. /\ client' = [pc |-> "push", seq |-> client.seq] /\ client.pc = "recv"
        /\ BlockingMode => HasRoom
        /\ BlockingMode \/ InWindow(client.seq)
    BY <1>8 DEF ReceiveBlock, Client
  <2>2. ClientFilled'
    BY <1>1, <2>1 DEF ClientFilled, FilledTo
  <2>3. PICK s \in Block : s = client.seq /\ s = client'.seq
    BY <2>1 DEF IInv, PushTyped
  <2>4. RoomFor(s)
    <3>1. CASE BlockingMode
      BY <2>1, <3>1 DEF RoomFor
    <3>2. CASE InWindow(s)
      <4> SUFFICES ASSUME s >= next, s \notin buf PROVE HasRoom
        BY DEF RoomFor
      <4>1. s < height + Window
        BY <1>2, <3>2 DEF InWindow, Window
      <4>2. Cardinality(buf) =< Window /\ Cardinality(buf) \in Nat
        BY <4>1, WindowBound, BufferFinite
      <4> QED
        BY <1>2, <4>2 DEF HasRoom, Window
    <3> QED
      BY <2>1, <2>3, <3>1, <3>2
  <2>5. RoomFor(s)'
    BY <1>1, <2>4 DEF RoomFor, HasRoom
  <2>6. RoomFound'
    BY <1>5, <2>3, <2>5 DEF RoomFound
  <2> QED
    BY <1>1, <1>4, <2>2, <2>6, FillUnchanged
<1>9. Disconnect => client'.pc = "off"
  BY DEF Disconnect, Client
<1> QED
  BY <1>6, <1>7, <1>8, <1>9

\* Messages move to the channel or are lost.
LEMMA NetworkFill ==
  ASSUME IInv, IInv', FillInv,
         \/ \E p \in Peer : Advertise(p)
         \/ \E m \in responses : directMessage(m) \/ Lose(m)
  PROVE  FillInv'
<1> USE GossipStateAssumption DEF FillInv
<1>1. UNCHANGED <<height, buf, next, client, ae>>
  BY DEF Advertise, directMessage, Lose, bufVars, netVars
<1>2. Kept
  BY <1>1 DEF Kept, IInv, Typed, Height
<1>3. ClientFilled' /\ RoomFound'
  <2>1. ClientFilled'
    BY <1>1, <1>2, ClientUnchanged
  <2>2. RoomFound'
    BY <1>1 DEF RoomFound, RoomFor, HasRoom
  <2> QED
    BY <2>1, <2>2
<1>4. TransferFilled'
  <2> SUFFICES ASSUME ae.pc # "sleep" PROVE TransferFilled'
    BY <1>1 DEF TransferFilled
  <2>1. (\A m \in responses : BatchFilled(m)) /\ \A i \in 1..Len(respCh) : BatchFilled(respCh[i])
    BY DEF TransferFilled
  <2>2. respCh \in Seq(Message)
    BY DEF IInv, Typed
  <2>3. /\ \A m \in responses' : BatchFilled(m)
        /\ \A i \in 1..Len(respCh') : BatchFilled(respCh'[i])
    <3>1. ASSUME NEW p \in Peer, Advertise(p) PROVE UNCHANGED <<responses, respCh>>
      BY <3>1 DEF Advertise, netVars
    <3>2. ASSUME NEW m \in responses, Lose(m)
          PROVE  responses' \in SUBSET responses /\ respCh' = respCh
      BY <3>2 DEF Lose
    <3>3. ASSUME NEW m \in responses, directMessage(m)
          PROVE  /\ responses' \in SUBSET responses
                 /\ respCh' = Append(respCh, m)
      BY <3>3 DEF directMessage, stateTransferActive
    <3>4. ASSUME NEW m \in responses, respCh' = Append(respCh, m)
          PROVE  \A i \in 1..Len(respCh') : BatchFilled(respCh'[i])
      <4>1. /\ Len(respCh') = Len(respCh) + 1 /\ Len(respCh) \in Nat
            /\ \A i \in 1..Len(respCh) : respCh'[i] = respCh[i]
            /\ respCh'[Len(respCh) + 1] = m
        BY <2>2, <3>4
      <4> SUFFICES ASSUME NEW i \in 1..Len(respCh') PROVE BatchFilled(respCh'[i])
        OBVIOUS
      <4>2. i \in 1..Len(respCh) \/ i = Len(respCh) + 1
        BY <4>1
      <4>3. BatchFilled(m)
        BY <2>1
      <4> QED
        BY <2>1, <4>1, <4>2, <4>3
    <3> QED
      BY <2>1, <3>1, <3>2, <3>3, <3>4
  <2>4. /\ \A m \in responses' : BatchFilled(m)'
        /\ \A i \in 1..Len(respCh') : BatchFilled(respCh[i])'
    BY <1>1, <2>3 DEF BatchFilled
  <2> QED
    BY <1>1, <2>4 DEF TransferFilled, FilledTo
<1> QED
  BY <1>1, <1>3, <1>4, FillUnchanged

\* Batches begin where the last one ended, their answers have no gap, and blocks are added
\* only after room was found.
LEMMA AntiEntropyFill ==
  ASSUME AllBlocksReadable, IInv, IInv', FillInv,
         \/ CheckHeight \/ GiveUp \/ ResponseTimeout \/ TakeResponse \/ AntiEntropyFindsRoom
         \/ VerifyBlockFails
         \/ \E p \in Peer : SendRequest(p)
  PROVE  FillInv'
<1> USE GossipStateAssumption DEF FillInv
<1>1. UNCHANGED <<height, buf, next, client>>
  BY DEF CheckHeight, GiveUp, ResponseTimeout, TakeResponse, AntiEntropyFindsRoom,
     VerifyBlockFails, SendRequest, bufVars, netVars
<1>2. /\ next \in Nat /\ height \in Nat /\ height >= 1 /\ next >= height
      /\ \A x \in Block : x \in Nat
      /\ ae \in AERecord /\ respCh \in Seq(Message)
  <2>1. height \in Height /\ next \in Height /\ ae \in AERecord /\ respCh \in Seq(Message)
    BY DEF IInv, Typed, AERecord
  <2>2. height \in Nat /\ height >= 1 /\ next \in Nat /\ \A x \in Block : x \in Nat
    BY <2>1 DEF Height, Block
  <2> QED
    BY <2>1, <2>2 DEF IInv, NextOK
<1>3. Kept
  BY <1>1, <1>2 DEF Kept
<1>4. ClientFilled' /\ (client'.pc = "push" => RoomFor(client.seq)')
  <2>1. ClientFilled'
    BY <1>1, <1>3, ClientUnchanged
  <2> QED
    BY <1>1, <2>1 DEF RoomFound, RoomFor, HasRoom
<1>5. ASSUME TransferFilled', ae'.pc = "push" => RoomFor(Min(ae.todo))'
      PROVE  FillInv'
  BY <1>1, <1>4, <1>5, FillUnchanged DEF RoomFound
<1>6. CASE CheckHeight
  <2>1. ae'.prev = height /\ ae'.todo = {} /\ ae'.pc = "send" /\ ForgetBatch
    BY <1>6 DEF CheckHeight
  <2>2. FilledTo(ae.prev - 1, buf)'
    BY <1>1, <1>2, <2>1 DEF FilledTo
  <2>3. (\A m \in responses' : ~ m.cur) /\ \A i \in 1..Len(respCh') : ~ respCh'[i].cur
    BY <2>1, StaleFacts DEF IInv
  <2>4. TransferFilled'
    BY <1>2, <2>1, <2>2, <2>3 DEF TransferFilled, BatchFilled
  <2> QED
    BY <1>5, <2>1, <2>4
<1>7. CASE GiveUp
  <2>1. ae'.pc = "sleep"
    BY <1>7 DEF GiveUp, Asleep
  <2> QED
    BY <1>5, <2>1 DEF TransferFilled
<1>8. ASSUME ae.pc # "sleep", ae'.prev = ae.prev, ae'.todo = ae.todo \/ ae'.todo = {},
             \A m \in responses' : BatchFilled(m),
             \A i \in 1..Len(respCh') : BatchFilled(respCh'[i])
      PROVE  TransferFilled'
  <2>1. ae.prev >= 1 /\ FilledTo(ae.prev - 1, buf)
        /\ \A b \in ae.todo : FilledTo(b, buf \cup ae.todo)
    BY <1>8 DEF TransferFilled
  <2>2. FilledTo(ae.prev - 1, buf)'
    BY <1>1, <1>8, <2>1 DEF FilledTo
  <2>3. \A b \in ae'.todo : FilledTo(b, buf \cup ae.todo)'
    BY <1>1, <1>8, <2>1 DEF FilledTo
  <2>4. /\ \A m \in responses' : BatchFilled(m)'
        /\ \A i \in 1..Len(respCh') : BatchFilled(respCh[i])'
    BY <1>8 DEF BatchFilled
  <2> QED
    BY <1>8, <2>1, <2>2, <2>3, <2>4 DEF TransferFilled
<1>9. ae.pc # "sleep" =>
        /\ \A m \in responses : BatchFilled(m)
        /\ \A i \in 1..Len(respCh) : BatchFilled(respCh[i])
  BY DEF TransferFilled
<1>10. CASE ResponseTimeout \/ VerifyBlockFails
  <2>1. UNCHANGED <<responses, respCh>> /\ ae.pc # "sleep"
    BY <1>10 DEF ResponseTimeout, VerifyBlockFails, netVars
  <2>2. ae'.prev = ae.prev /\ (ae'.todo = ae.todo \/ ae'.todo = {}) /\ ae'.pc = "send"
    BY <1>2, <1>10 DEF ResponseTimeout, VerifyBlockFails, AERecord
  <2>3. TransferFilled'
    BY <1>8, <1>9, <2>1, <2>2
  <2> QED
    BY <1>5, <2>2, <2>3
<1>11. CASE AntiEntropyFindsRoom
  <2>1. UNCHANGED <<responses, respCh>> /\ ae.pc # "sleep" /\ HasRoom
    BY <1>11 DEF AntiEntropyFindsRoom, netVars
  <2>2. ae'.prev = ae.prev /\ ae'.todo = ae.todo
    BY <1>2, <1>11 DEF AntiEntropyFindsRoom, AERecord
  <2>3. TransferFilled'
    BY <1>8, <1>9, <2>1, <2>2
  <2>4. RoomFor(Min(ae.todo))'
    BY <1>1, <2>1 DEF RoomFor, HasRoom
  <2> QED
    BY <1>5, <2>3, <2>4
<1>12. ASSUME NEW p \in Peer, SendRequest(p) PROVE FillInv'
  <2>1. ae'.prev = ae.prev /\ ae'.todo = ae.todo /\ ae'.pc = "await" /\ ae.pc # "sleep"
    BY <1>2, <1>12 DEF SendRequest, AERecord
  <2>2. PICK m \in handleStateRequest(p, ae.prev, BatchEnd) :
          responses' = responses \cup {m} /\ respCh' = respCh
    BY <1>12 DEF SendRequest
  <2>3. First[p] =< ae.prev
    <3>1. First[p] =< 1 /\ ae.prev >= 1 /\ First[p] \in Nat /\ ae.prev \in Nat
      BY <1>2, <2>1 DEF AllBlocksReadable, TransferFilled, AERecord, Block
    <3> QED
      BY <3>1
  <2>4. /\ \A b \in m.blocks : ae.prev =< b
        /\ \A b \in m.blocks : \A x \in Block : ae.prev =< x /\ x =< b => x \in m.blocks
    BY <2>2, <2>3, RequestFacts DEF IInv
  <2>5. BatchFilled(m)
    BY <2>4 DEF BatchFilled
  <2>6. TransferFilled'
    BY <1>8, <1>9, <2>1, <2>2, <2>5
  <2> QED
    BY <1>5, <2>1, <2>6
<1>13. CASE TakeResponse
  <2>1. /\ ae.pc = "await" /\ respCh # << >> /\ respCh' = Tail(respCh) /\ responses' = responses
    BY <1>13 DEF TakeResponse
  <2>2. PICK m \in Message : m = Head(respCh)
    BY <1>2, <2>1
  <2>3. ae' = IF m.cur /\ m.blocks # {} THEN [ae EXCEPT !.pc = "size", !.todo = m.blocks]
              ELSE [ae EXCEPT !.pc = "send"]
    BY <1>13, <2>2 DEF TakeResponse
  <2>4. /\ BatchFilled(m)
        /\ \A i \in 1..Len(respCh') : BatchFilled(respCh'[i])
    <3>1. /\ Len(respCh) \in Nat /\ Len(respCh) >= 1 /\ m = respCh[1]
          /\ Len(respCh') = Len(respCh) - 1
          /\ \A i \in 1..Len(respCh') : respCh'[i] = respCh[i + 1] /\ i + 1 \in 1..Len(respCh)
      BY <1>2, <2>1, <2>2
    <3>2. 1 \in 1..Len(respCh)
      BY <3>1
    <3> QED
      BY <1>9, <2>1, <3>1, <3>2
  <2>5. CASE ~ (m.cur /\ m.blocks # {})
    <3>1. ae'.prev = ae.prev /\ ae'.todo = ae.todo /\ ae'.pc = "send"
      BY <1>2, <2>3, <2>5 DEF AERecord
    <3>2. TransferFilled'
      BY <1>8, <1>9, <2>1, <2>4, <3>1
    <3> QED
      BY <1>5, <3>1, <3>2
  <2>6. CASE m.cur /\ m.blocks # {}
    <3>1. ae'.prev = ae.prev /\ ae'.todo = m.blocks /\ ae'.pc = "size"
      BY <1>2, <2>3, <2>6 DEF AERecord
    <3>2. m.blocks \in SUBSET Block /\ ae.prev \in Nat
      BY <1>2, <2>2 DEF Message, AERecord
    <3>3. ae.prev >= 1 /\ FilledTo(ae.prev - 1, buf)
      BY <2>1 DEF TransferFilled
    <3>4. FilledTo(ae.prev - 1, buf)'
      BY <1>1, <3>1, <3>3 DEF FilledTo
    <3>5. \A b \in ae'.todo : FilledTo(b, buf \cup ae.todo)'
      <4> SUFFICES ASSUME NEW b \in m.blocks, NEW x \in Block, next =< x, x =< b
                   PROVE  x \in buf \cup m.blocks
        BY <1>1, <3>1 DEF FilledTo
      <4>1. CASE ae.prev =< x
        BY <2>4, <2>6, <4>1 DEF BatchFilled
      <4>2. CASE ~ (ae.prev =< x)
        <5>1. x =< ae.prev - 1
          BY <1>2, <3>2, <4>2
        <5> QED
          BY <3>3, <5>1 DEF FilledTo
      <4> QED
        BY <4>1, <4>2
    <3>6. /\ \A r \in responses' : BatchFilled(r)'
          /\ \A i \in 1..Len(respCh') : BatchFilled(respCh[i])'
      BY <1>9, <2>1, <2>4, <3>1 DEF BatchFilled
    <3>7. TransferFilled'
      BY <3>1, <3>3, <3>4, <3>5, <3>6 DEF TransferFilled
    <3> QED
      BY <1>5, <3>1, <3>7
  <2> QED
    BY <2>5, <2>6
<1> QED
  BY <1>6, <1>7, <1>10, <1>11, <1>12, <1>13

\* Every step keeps the buffer filled and bounded.
LEMMA NextFill ==
  ASSUME AllBlocksReadable, IInv, IInv', FillInv, [Next]_vars
  PROVE  FillInv'
<1>1. CASE DeliverStep \/ DiscardPayload \/ AbortProcessing
  BY <1>1, DeliverFill, EndedFill
<1>2. CASE Restart
  BY <1>2, EndedFill DEF Restart
<1>3. CASE \E seq \in Block : ReceiveGossip(seq)
  BY <1>3, GossipFill
<1>4. CASE Connect \/ Disconnect \/ ReceiveBlock
  BY <1>4, ClientFill
<1>5. CASE PushReceived
  BY <1>5, PushReceivedFill
<1>6. CASE (\E p \in Peer : Advertise(p)) \/ (\E m \in responses : directMessage(m) \/ Lose(m))
  BY <1>6, NetworkFill
<1>7. CASE AntiEntropyStep \/ ResponseTimeout \/ VerifyBlockFails
  BY <1>7, AntiEntropyFill, PushTransferredFill DEF AntiEntropyStep
<1>8. CASE UNCHANGED vars
  <2>1. UNCHANGED <<height, buf, next, client, ae, responses, respCh>>
    BY <1>8 DEF vars, bufVars, netVars
  <2>2. Kept
    BY <2>1 DEF Kept, IInv, Typed, Height
  <2>3. RoomFound'
    BY <2>1 DEF FillInv, RoomFound, RoomFor, HasRoom
  <2> QED
    BY <2>1, <2>2, <2>3, ClientUnchanged, TransferUnchanged, FillUnchanged DEF FillInv
<1> QED
  BY <1>1, <1>2, <1>3, <1>4, <1>5, <1>6, <1>7, <1>8 DEF Next

\* With peers that have all blocks, the buffer has no gap beyond the window of gossip, and
\* neither the client nor anti-entropy is ever about to add a block behind a gap.
THEOREM FillInvariance == ASSUME AllBlocksReadable PROVE Spec => []FillInv
<1>1. IInv /\ IInv' /\ FillInv /\ [Next]_vars => FillInv'
  BY NextFill
<1> QED
  BY <1>1, Invariance, InitFill, PTL DEF Spec

\* With peers that have all blocks, the payloads buffer exceeds its limit by one block at
\* most, although addPayload checks the limit before its Push and two goroutines may have
\* passed the check.
THEOREM BufferLimit == ASSUME AllBlocksReadable PROVE Spec => []BufferBounded
<1>1. FillInv => BufferBounded
  BY DEF FillInv
<1> QED
  BY FillInvariance, <1>1, PTL

\* With peers that have all blocks, a payloads buffer over its limit holds the next block:
\* those who wait for room in addPayload never wait for each other.
THEOREM FullDrains == ASSUME AllBlocksReadable PROVE Spec => []FullBufferDrains
<1>1. IInv /\ FillInv => FullBufferDrains
  <2> SUFFICES ASSUME IInv, FillInv, ~ HasRoom, next \notin buf PROVE FALSE
    BY DEF FullBufferDrains
  <2> USE GossipStateAssumption
  <2>1. /\ next \in Nat /\ height \in Nat /\ next >= height /\ Window \in Nat
        /\ Window = StateBlockBufferSize
    BY DEF IInv, Typed, NextOK, Height, Window
  <2>2. Cardinality(buf) \in Nat /\ Cardinality(buf) > 2 * Window
    BY <2>1, BufferFinite DEF HasRoom
  <2>3. buf # {}
    <3>1. Cardinality(buf) # 0
      BY <2>1, <2>2
    <3>2. Cardinality({}) = 0
      BY FS_EmptySet
    <3> QED
      BY <3>1, <3>2, Zenon
  <2>4. PICK b \in buf : TRUE
    BY <2>3
  <2>5. b \in Block /\ b \in Nat /\ b >= next
    BY DEF IInv, Typed, NextOK, Block
  <2>6. next \in Block
    BY <2>1, <2>5 DEF Block
  <2>7. CASE next < height + Window
    <3>1. PICK z \in Block : z = next
      BY <2>6
    <3>2. z \notin buf /\ z >= next /\ z < height + Window
      BY <2>1, <2>7, <3>1
    <3>3. Cardinality(buf) =< Window
      BY <3>2, WindowBound DEF FillInv
    <3> QED
      BY <2>1, <2>2, <3>3
  <2>8. CASE next >= height + Window
    <3>1. b >= height + Window
      BY <2>1, <2>5, <2>8
    <3>2. FilledTo(b, buf)
      BY <3>1 DEF FillInv, BufferFilled
    <3> QED
      BY <2>1, <2>5, <2>6, <3>2 DEF FilledTo
  <2> QED
    BY <2>1, <2>7, <2>8
<1> QED
  BY FillInvariance, Invariance, <1>1, PTL
=============================================================================
