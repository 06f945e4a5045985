------------------------------ MODULE LedgerAPI ------------------------------
(***************************************************************************)
(* What a peer's ledger promises to the endorser, to the deliver service   *)
(* and to the committer that feeds it: an append-only log of blocks, a     *)
(* state database that queries read, and block retrieval APIs.  Nothing    *)
(* here mentions the four stores the promise is implemented with, or how a *)
(* crash leaves them; KVLedger implements this module (see KVLedger!API).  *)
(***************************************************************************)
EXTENDS Naturals, Sequences

CONSTANT Outcome    \* what the commit of a block can do (its valid writes)

VARIABLES
  log,       \* the durable blocks, as the outcome of each
  view,      \* the blocks whose writes a state query sees
  height,    \* the height the block retrieval APIs report
  open       \* the ledger is open

vars == <<log, view, height, open>>

Init ==
  /\ log \in Seq(Outcome)
  /\ view = << >>
  /\ height = 0
  /\ open = FALSE

\* Opening always exposes the complete log, whatever the last crash left.
Open ==
  /\ ~open
  /\ open' = TRUE
  /\ view' = log
  /\ height' = Len(log)
  /\ log' = log

\* One block at a time: the next one waits until the last is fully exposed.
Append1(o) ==
  /\ open
  /\ view = log
  /\ height = Len(log)
  /\ log' = Append(log, o)
  /\ UNCHANGED <<view, height, open>>

ApplyState ==
  /\ open
  /\ view # log
  /\ view' = log
  /\ UNCHANGED <<log, height, open>>

\* A block can be read only after its writes can be queried.
ExposeBlock ==
  /\ open
  /\ view = log
  /\ height # Len(log)
  /\ height' = Len(log)
  /\ UNCHANGED <<log, view, open>>

Stop ==
  /\ open
  /\ open' = FALSE
  /\ view' = << >>
  /\ height' = 0
  /\ log' = log

\* The offline commands (peer node rollback, peer node reset).
Truncate(n) ==
  /\ ~open
  /\ log' = SubSeq(log, 1, n)
  /\ UNCHANGED <<view, height, open>>

Next ==
  \/ Open
  \/ \E o \in Outcome : Append1(o)
  \/ ApplyState
  \/ ExposeBlock
  \/ Stop
  \/ \E n \in 1..Len(log) : Truncate(n)

Spec == Init /\ [][Next]_vars
=============================================================================
