--------------------------- MODULE MCRestAccounts ---------------------------
(***************************************************************************)
(* RestAccounts for TLC: a chain of two blocks, two connections, and three *)
(* addresses of which two share a view key and two a spend key.            *)
(***************************************************************************)
EXTENDS RestAccounts, TLC

MCHash == {"g", "a1", "x"}
MCChains == {[h \in 0..MaxHeight |-> <<"g", "a1">>[h + 1]]}
Alice == [view |-> "va", spend |-> "sa"]
AliceView == [view |-> "va", spend |-> "sb"]
AliceSpend == [view |-> "vc", spend |-> "sa"]
MCAddress == {Alice, AliceView, AliceSpend}
MCPayments == [h \in MCHash |-> IF h = "a1" THEN {[address |-> Alice, output |-> 1]} ELSE {}]
MCInputs == [h \in MCHash |-> {}]

\* The connections are interchangeable.
MCSymmetry == Permutations(Conn)
=============================================================================
