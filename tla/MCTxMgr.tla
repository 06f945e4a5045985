-------------------------------- MODULE MCTxMgr --------------------------------
(* Instances of TxMgr for TLC. *)
EXTENDS TxMgr, TLC

Get(k) == [op |-> "get", key |-> k]
Range(s, e, n) == [op |-> "range", start |-> s, end |-> e, n |-> n]
PutState(k) == [op |-> "put", key |-> k]
Delete(k) == [op |-> "delete", key |-> k]
SetMeta(k) == [op |-> "setMeta", key |-> k]
DeleteMeta(k) == [op |-> "deleteMeta", key |-> k]

CC(i, ops) == [id |-> i, ops |-> ops]

\* Two keys: write skew, a full and a partial range scan, blind writes, metadata.
SomeChaincodes == {
  CC(1, <<PutState(1), SetMeta(1)>>),
  CC(2, <<Get(1), PutState(2)>>),
  CC(3, <<Get(2), PutState(1)>>),
  CC(4, <<Range(1, 3, 3), Get(1)>>),
  CC(5, <<Range(1, 3, 1), PutState(2)>>),
  CC(6, <<Delete(1)>>),
  CC(7, <<SetMeta(1), DeleteMeta(2)>>) }

\* Three keys: scans that stop at, before and after the last key, writes that
\* create, change and delete keys at either end of a scan, point reads, and
\* metadata of keys that a scan or a transaction before may have deleted.
RangeChaincodes == {
  CC(1, <<PutState(1), PutState(3)>>),
  CC(2, <<Range(1, 4, 2), PutState(2)>>),
  CC(3, <<Range(1, 3, 3), Delete(3)>>),
  CC(4, <<Delete(1), SetMeta(2)>>),
  CC(5, <<Range(2, 4, 1), Delete(2)>>),
  CC(6, <<Range(1, 4, 4), PutState(1)>>),
  CC(7, <<Get(2), DeleteMeta(2)>>) }

Symmetry == Permutations(Client)
=============================================================================
