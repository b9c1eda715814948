----------------------------- MODULE MCPowSync -----------------------------
(* Instances of PowSync for TLC. *)
EXTENDS PowSync

\* A chain, one that leaves it above the checkpoint, and a forged one.
MCChains == {<<"g", "a1", "a2", "a3", "a4", "a5">>,
             <<"g", "a1", "a2", "a3", "b4", "b5">>,
             <<"g", "a1", "a2", "a3", "f4", "f5">>}
AsChain(s) == [h \in 0..MaxHeight |-> s[h + 1]]
ThreeChains == {AsChain(s) : s \in MCChains}
MCHash == UNION {{s[i] : i \in DOMAIN s} : s \in MCChains}
=============================================================================
