------------------------------ MODULE BlockCutter ------------------------------
(***************************************************************************)
(* How the ordering service groups messages into batches                   *)
(* (orderer/common/blockcutter/blockcutter.go).  A message is its size in  *)
(* bytes; the receiver is the pending batch and its size.                  *)
(***************************************************************************)
EXTENDS Integers, Sequences

CONSTANTS
  MaxMessageCount,    \* BatchSize.MaxMessageCount
  PreferredMaxBytes,  \* BatchSize.PreferredMaxBytes
  UintSize            \* the number of values of a uint32

ASSUME BlockCutterAssumption ==
  /\ MaxMessageCount \in Nat \ {0}
  /\ PreferredMaxBytes \in Nat \ {0}
  /\ UintSize \in Nat \ {0}
  /\ PreferredMaxBytes < UintSize

Message == 0..(UintSize - 1)

\* The receiver after Cut.
EmptyReceiver == [batch |-> << >>, bytes |-> 0]

Isolated(r, msg) ==
  [batches |-> (IF r.batch = << >> THEN << >> ELSE <<r.batch>>) \o <<<<msg>>>>,
   pending |-> FALSE,
   receiver |-> EmptyReceiver]

Enqueued(r, msg) ==
  LET overflow == (r.bytes + msg) % UintSize > PreferredMaxBytes
      old == IF overflow THEN EmptyReceiver ELSE r
      new == [batch |-> Append(old.batch, msg), bytes |-> (old.bytes + msg) % UintSize]
      full == Len(new.batch) >= MaxMessageCount
  IN [batches |-> (IF overflow THEN <<r.batch>> ELSE << >>)
                  \o (IF full THEN <<new.batch>> ELSE << >>),
      pending |-> ~full,
      receiver |-> IF full THEN EmptyReceiver ELSE new]

Ordered(r, msg) ==
  IF msg > PreferredMaxBytes THEN Isolated(r, msg) ELSE Enqueued(r, msg)

-----------------------------------------------------------------------------
\* What holds of the receiver between two messages: the pending batch is not
\* full, fits into the preferred size and its size is known.
ReceiverOK(r) ==
  /\ r.batch \in Seq(Message)
  /\ r.bytes \in 0..PreferredMaxBytes
  /\ Len(r.batch) < MaxMessageCount
  /\ r.batch = << >> => r.bytes = 0
=============================================================================
