----------------------------- MODULE MCStorage -----------------------------
(***************************************************************************)
(* Instances of Storage for TLC.                                           *)
(***************************************************************************)
EXTENDS Storage

MCHash == {"g", "a1", "a2", "a3", "a4", "b2", "b3", "b4", "x"}

\* Two forks that part after block 1, cut to the height bound.
ForkA == [h \in 0..MaxHeight |-> <<"g", "a1", "a2", "a3", "a4">>[h + 1]]
ForkB == [h \in 0..MaxHeight |-> <<"g", "a1", "b2", "b3", "b4">>[h + 1]]
MCChains == {ForkA, ForkB}

\* The same with a common block 2, for a checkpoint that leaves a gap.
LateForkB == [h \in 0..MaxHeight |-> <<"g", "a1", "a2", "b3", "b4">>[h + 1]]
LateChains == {ForkA, LateForkB}

\* Two accounts that share nothing, one that has Alice's spend key and one
\* that has Alice's view key.
Alice == [view |-> "va", spend |-> "sa"]
Bob == [view |-> "vb", spend |-> "sb"]
AliceSpend == [view |-> "vc", spend |-> "sa"]
AliceView == [view |-> "va", spend |-> "sb"]

OneAddress == {Alice}
TwoAddresses == {Alice, Bob}
SharedKeys == {Alice, AliceSpend, AliceView}

\* Output 2 is Alice's on one fork and Bob's on the other; both forks spend
\* output 1 with the same image.
MCPayments ==
    [h \in MCHash |->
        CASE h = "a1" -> {[address |-> Alice, output |-> 1]}
          [] h = "a3" -> {[address |-> Alice, output |-> 2]}
          [] h = "b3" /\ Bob \in Address -> {[address |-> Bob, output |-> 2]}
          [] OTHER -> {}]
MCInputs ==
    [h \in MCHash |->
        CASE h \in {"a3", "b3"} -> {[source |-> 1, image |-> "i"]}
          [] h \in {"a4", "b4"} -> {[source |-> 2, image |-> "j"]}
          [] OTHER -> {}]
=============================================================================
