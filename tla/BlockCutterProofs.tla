--------------------------- MODULE BlockCutterProofs ---------------------------
(***************************************************************************)
(* What the block cutter guarantees for every limit and every message: the *)
(* table in the comment of Ordered (blockcutter.go:53-73), and the limits  *)
(* on the pending batch.  The sizes of a batch and a message are taken not *)
(* to wrap a uint32: PreferredMaxBytes is below half of it.                *)
(***************************************************************************)
EXTENDS BlockCutter, TLAPS

\* A message that is larger than the preferred size gets a batch of its own, after
\* the pending one.
LEMMA IsolatedFacts ==
  ASSUME NEW r, NEW msg \in Message, ReceiverOK(r)
  PROVE  /\ ReceiverOK(Isolated(r, msg).receiver)
         /\ Len(Isolated(r, msg).batches) \in 1..2
         /\ ~Isolated(r, msg).pending
         /\ Isolated(r, msg).receiver.batch = << >>
<1>1. EmptyReceiver.batch = << >> /\ EmptyReceiver.bytes = 0
  BY DEF EmptyReceiver
<1>2. ReceiverOK(EmptyReceiver)
  BY <1>1, BlockCutterAssumption DEF ReceiverOK
<1>3. Isolated(r, msg).receiver = EmptyReceiver /\ ~Isolated(r, msg).pending
  BY DEF Isolated
<1>4. Len(Isolated(r, msg).batches) \in 1..2
  BY DEF Isolated
<1> QED BY <1>1, <1>2, <1>3, <1>4

\* A sum of sizes that does not reach the number of values of a uint32 does not wrap.
LEMMA NoWrap ==
  ASSUME NEW a \in Nat, NEW n \in Nat, a < n
  PROVE  a % n = a
<1>1. n > 0
  OBVIOUS
<1> QED BY <1>1

\* What appending a message that fits into an open batch gives: old is the batch the
\* message joins.
LEMMA AppendFacts ==
  ASSUME NEW old, NEW msg \in Message, ReceiverOK(old),
         old.bytes + msg =< PreferredMaxBytes
  PROVE  LET new == [batch |-> Append(old.batch, msg), bytes |-> old.bytes + msg]
         IN  /\ new.batch # << >>
             /\ Len(new.batch) = Len(old.batch) + 1
             /\ Len(new.batch) < MaxMessageCount => ReceiverOK(new)
<1> DEFINE new == [batch |-> Append(old.batch, msg), bytes |-> old.bytes + msg]
<1>1. /\ old.batch \in Seq(Message) /\ old.bytes \in Nat /\ msg \in Nat
      /\ PreferredMaxBytes \in Nat /\ MaxMessageCount \in Nat
  BY BlockCutterAssumption DEF ReceiverOK, Message
<1>2. new.batch = Append(old.batch, msg) /\ new.bytes = old.bytes + msg
  OBVIOUS
<1> HIDE DEF new
<1>3. new.batch \in Seq(Message) /\ Len(new.batch) = Len(old.batch) + 1
  BY <1>1, <1>2
<1>4. new.batch # << >>
  <2>1. Len(new.batch) # 0
    BY <1>1, <1>3
  <2> QED BY <2>1
<1>5. Len(new.batch) < MaxMessageCount => ReceiverOK(new)
  BY <1>1, <1>2, <1>3, <1>4 DEF ReceiverOK
<1> QED BY <1>3, <1>4, <1>5 DEF new

\* A message that fits is appended, after the pending batch was cut if both together
\* exceed the preferred size; a full batch is cut. Both never happen together.
LEMMA EnqueuedFacts ==
  ASSUME NEW r, NEW msg \in Message, ReceiverOK(r), msg =< PreferredMaxBytes,
         2 * PreferredMaxBytes < UintSize
  PROVE  /\ ReceiverOK(Enqueued(r, msg).receiver)
         /\ Len(Enqueued(r, msg).batches) \in 0..1
         /\ Enqueued(r, msg).pending <=> Enqueued(r, msg).receiver.batch # << >>
         /\ Enqueued(r, msg).batches = << >> => Enqueued(r, msg).pending
<1> DEFINE joined(old) == [batch |-> Append(old.batch, msg), bytes |-> old.bytes + msg]
<1>1. EmptyReceiver.batch = << >> /\ EmptyReceiver.bytes = 0
  BY DEF EmptyReceiver
<1>2. /\ msg \in Nat /\ r.bytes \in Nat /\ r.batch \in Seq(Message)
      /\ PreferredMaxBytes \in Nat /\ UintSize \in Nat /\ MaxMessageCount \in Nat \ {0}
      /\ r.bytes =< PreferredMaxBytes
      /\ Len(r.batch) < MaxMessageCount
      /\ r.batch = << >> => r.bytes = 0
  BY BlockCutterAssumption DEF Message, ReceiverOK
<1>3. (r.bytes + msg) % UintSize = r.bytes + msg
  <2>1. r.bytes + msg \in Nat /\ r.bytes + msg < UintSize
    BY <1>2
  <2> QED BY <1>2, <2>1, NoWrap
<1>4. (EmptyReceiver.bytes + msg) % UintSize = EmptyReceiver.bytes + msg
  <2>1. EmptyReceiver.bytes + msg = msg /\ msg < UintSize
    BY <1>1, <1>2
  <2> QED BY <1>2, <2>1, NoWrap
<1>5. ReceiverOK(EmptyReceiver)
  BY <1>1, <1>2 DEF ReceiverOK
<1>6. CASE r.bytes + msg > PreferredMaxBytes
  <2> DEFINE new == joined(EmptyReceiver)
  <2>1. r.batch # << >>
    BY <1>2, <1>6
  <2>2. Len(r.batch) > 0
    BY <1>2, <2>1
  <2>3. /\ new.batch # << >> /\ Len(new.batch) = 1
        /\ Len(new.batch) < MaxMessageCount => ReceiverOK(new)
    <3>1. EmptyReceiver.bytes + msg =< PreferredMaxBytes
      BY <1>1, <1>2
    <3>2. /\ new.batch # << >> /\ Len(new.batch) = Len(EmptyReceiver.batch) + 1
          /\ Len(new.batch) < MaxMessageCount => ReceiverOK(new)
      BY ONLY <1>5, <3>1, msg \in Message, AppendFacts
    <3>3. Len(EmptyReceiver.batch) = 0
      BY <1>1
    <3> QED BY ONLY <3>2, <3>3
  <2>4. ~(Len(new.batch) >= MaxMessageCount) /\ Len(new.batch) < MaxMessageCount
    BY <1>2, <2>2, <2>3
  <2>5. Enqueued(r, msg) = [batches |-> <<r.batch>> \o << >>, pending |-> TRUE, receiver |-> new]
    BY <1>3, <1>4, <1>6, <2>4 DEF Enqueued
  <2> HIDE DEF new
  <2>6. /\ Enqueued(r, msg).batches = <<r.batch>> \o << >>
        /\ Enqueued(r, msg).pending
        /\ Enqueued(r, msg).receiver = new
    BY <2>5
  <2>7. Len(<<r.batch>> \o << >>) = 1
    OBVIOUS
  <2> QED BY <2>3, <2>4, <2>6, <2>7
<1>7. CASE r.bytes + msg =< PreferredMaxBytes
  <2> DEFINE new == joined(r)
  <2>0. ~(r.bytes + msg > PreferredMaxBytes)
    BY <1>2, <1>7
  <2>1. /\ new.batch # << >> /\ Len(new.batch) \in Nat
        /\ Len(new.batch) < MaxMessageCount => ReceiverOK(new)
    <3>1. /\ new.batch # << >> /\ Len(new.batch) = Len(r.batch) + 1
          /\ Len(new.batch) < MaxMessageCount => ReceiverOK(new)
      BY ONLY ReceiverOK(r), <1>7, msg \in Message, AppendFacts
    <3>2. Len(r.batch) \in Nat
      BY <1>2
    <3> QED BY ONLY <3>1, <3>2
  <2>2. CASE Len(new.batch) >= MaxMessageCount
    <3>1. Enqueued(r, msg) = [batches |-> << >> \o <<new.batch>>, pending |-> FALSE,
                              receiver |-> EmptyReceiver]
      BY <1>3, <2>0, <2>2 DEF Enqueued
    <3> HIDE DEF new
    <3>2. /\ Enqueued(r, msg).batches = << >> \o <<new.batch>>
          /\ ~Enqueued(r, msg).pending
          /\ Enqueued(r, msg).receiver = EmptyReceiver
      BY <3>1
    <3>3. Len(<< >> \o <<new.batch>>) = 1
      OBVIOUS
    <3>4. << >> \o <<new.batch>> # << >>
      BY <3>3
    <3> QED BY <1>1, <1>5, <3>2, <3>3, <3>4
  <2>3. CASE ~(Len(new.batch) >= MaxMessageCount)
    <3>0. Len(new.batch) < MaxMessageCount
      BY <1>2, <2>1, <2>3
    <3>1. Enqueued(r, msg) = [batches |-> << >> \o << >>, pending |-> TRUE, receiver |-> new]
      BY <1>3, <2>0, <2>3 DEF Enqueued
    <3> HIDE DEF new
    <3>2. /\ Enqueued(r, msg).batches = << >> \o << >>
          /\ Enqueued(r, msg).pending
          /\ Enqueued(r, msg).receiver = new
      BY <3>1
    <3>3. Len(<< >> \o << >>) = 0
      OBVIOUS
    <3> QED BY <2>1, <3>0, <3>2, <3>3
  <2> QED BY <2>2, <2>3
<1> QED BY <1>2, <1>6, <1>7

\* Ordered keeps the pending batch within both limits and answers only with the four
\* combinations of batches and pending that its comment lists: never nothing at all,
\* never two batches with messages pending, never more than two batches.
THEOREM OrderedContract ==
  ASSUME NEW r, NEW msg \in Message, ReceiverOK(r), 2 * PreferredMaxBytes < UintSize
  PROVE  /\ ReceiverOK(Ordered(r, msg).receiver)
         /\ Len(Ordered(r, msg).batches) \in 0..2
         /\ Ordered(r, msg).pending <=> Ordered(r, msg).receiver.batch # << >>
         /\ Ordered(r, msg).batches = << >> => Ordered(r, msg).pending
         /\ Len(Ordered(r, msg).batches) = 2 => ~Ordered(r, msg).pending
<1>0. msg \in Nat /\ PreferredMaxBytes \in Nat
  BY BlockCutterAssumption DEF Message
<1>1. CASE msg > PreferredMaxBytes
  <2>1. Ordered(r, msg) = Isolated(r, msg)
    BY <1>1 DEF Ordered
  <2>2. Isolated(r, msg).batches # << >>
    BY IsolatedFacts
  <2> QED BY <2>1, <2>2, IsolatedFacts
<1>2. CASE msg =< PreferredMaxBytes
  <2>1. Ordered(r, msg) = Enqueued(r, msg)
    BY <1>0, <1>2 DEF Ordered
  <2>2. /\ ReceiverOK(Enqueued(r, msg).receiver)
        /\ Len(Enqueued(r, msg).batches) \in 0..1
        /\ Enqueued(r, msg).pending <=> Enqueued(r, msg).receiver.batch # << >>
        /\ Enqueued(r, msg).batches = << >> => Enqueued(r, msg).pending
    BY <1>2, EnqueuedFacts
  <2>3. Len(Enqueued(r, msg).batches) # 2 /\ Len(Enqueued(r, msg).batches) \in 0..2
    BY ONLY <2>2
  <2> QED BY <2>1, <2>2, <2>3
<1> QED BY <1>0, <1>1, <1>2
=============================================================================
