----------------------------- MODULE MCPvtData -----------------------------
(* Blocks that write, delete or purge, one key or two. *)
EXTENDS PvtData

CONSTANTS k1, k2

Put == [kind |-> "put", keys |-> {k1, k2}, elg |-> FALSE]
Put1 == [kind |-> "put", keys |-> {k1}, elg |-> FALSE]
Delete == [kind |-> "del", keys |-> {k1}, elg |-> FALSE]
Purge == [kind |-> "purge", keys |-> {k1}, elg |-> FALSE]
Upgrade == [kind |-> "put", keys |-> {}, elg |-> TRUE]
UpgradePut1 == [kind |-> "put", keys |-> {k1}, elg |-> TRUE]

MCChains == {<<Put, Purge, Upgrade>>, <<Put, UpgradePut1>>, <<Put, Delete>>, <<Put, Put1>>}
PurgeChains == {<<Put, Purge>>}
=============================================================================
