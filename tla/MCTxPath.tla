------------------------------ MODULE MCTxPath ------------------------------
EXTENDS TxPath, TLC

\* Queues and key objects are interchangeable.
Symmetry == Permutations(Queue) \cup Permutations(Key)
=============================================================================
