------------------------------ MODULE MCKVLedger ------------------------------
(* Instances of KVLedger for TLC. Two block outcomes let stores that        *)
(* disagree about a block be told apart.                                    *)
EXTENDS KVLedger
=============================================================================
