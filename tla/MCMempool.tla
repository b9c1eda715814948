----------------------------- MODULE MCMempool -----------------------------
(* Instances of Mempool for TLC. *)
EXTENDS Mempool

CONSTANTS t1, s1

\* One transaction: it pays the account's only other subaddress and spends
\* its output 1, so a scan may find it for either reason or for none.
PaysOne == [t \in {t1} |-> s1]
RingsOne == [t \in {t1} |-> {1}]
=============================================================================
