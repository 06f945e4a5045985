------------------------------ MODULE MCBlockStore ------------------------------
EXTENDS BlockStore

\* Two blocks share the first file, the third has one of its own.
MCBlockSize == [n \in 0..MaxBlock |-> IF n = 2 THEN 2 ELSE 1]
=============================================================================
