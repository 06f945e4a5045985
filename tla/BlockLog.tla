------------------------------- MODULE BlockLog -------------------------------
(***************************************************************************)
(* What a block store promises to the ledgers of peers and orderers: the   *)
(* blocks it holds have consecutive numbers, grow one at a time, survive   *)
(* every crash once they can be read, and all of them can be read whenever *)
(* the store is open.  BlockStore implements this module.                  *)
(***************************************************************************)
EXTENDS Integers

CONSTANT FirstBlock   \* the number of the first block the store holds

VARIABLES
  stored,   \* numbers of the blocks on disk
  height,   \* the next block number, as the open store reports it
  open      \* the store is open

vars == <<stored, height, open>>

Init == stored = {} /\ height = FirstBlock /\ ~open

\* Whatever the last run left on disk is complete and can be read.
Open ==
  /\ ~open
  /\ open'
  /\ stored = FirstBlock..(height' - 1)
  /\ height' >= FirstBlock
  /\ stored' = stored

\* A block is durable first and is reported next.
Store ==
  /\ open
  /\ height \notin stored
  /\ stored' = stored \cup {height}
  /\ UNCHANGED <<height, open>>

Report ==
  /\ open
  /\ height \in stored
  /\ height' = height + 1
  /\ UNCHANGED <<stored, open>>

\* A block that was not reported yet is taken back after a failed write.
TakeBack ==
  /\ open
  /\ height \in stored
  /\ stored' = stored \ {height}
  /\ UNCHANGED height
  /\ ~open'

Stop == open /\ ~open' /\ UNCHANGED <<stored, height>>

\* Rollback and reset remove blocks from the end, in any number of steps.
Truncate(n) ==
  /\ ~open
  /\ stored' = {b \in stored : b < n}
  /\ UNCHANGED <<height, open>>

Next ==
  \/ Open \/ Store \/ Report \/ TakeBack \/ Stop
  \/ \E n \in {b \in stored : b > 0} : Truncate(n)

Spec == Init /\ [][Next]_vars
=============================================================================
