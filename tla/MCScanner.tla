----------------------------- MODULE MCScanner -----------------------------
(***************************************************************************)
(* Instances of Scanner for TLC.                                           *)
(***************************************************************************)
EXTENDS Scanner

A == <<"a1", "a2", "a3", "a4", "a5", "a6">>
B == <<"b1", "b2", "b3", "b4", "b5", "b6">>
MCHash == {"g"} \cup {A[i] : i \in 1..6} \cup {B[i] : i \in 1..6}

\* Two forks that part after the checkpoint.
ForkA == [h \in 0..MaxHeight |-> IF h = 0 THEN "g" ELSE A[h]]
ForkB == [h \in 0..MaxHeight |-> IF h <= Checkpoint THEN ForkA[h] ELSE B[h]]
OneChain == {ForkA}
TwoChains == {ForkA, ForkB}

Alice == [view |-> "va", spend |-> "sa"]
Bob == [view |-> "vb", spend |-> "sb"]
OneAddress == {Alice}
TwoAddresses == {Alice, Bob}

\* The first block in which the forks differ, if there is one.
Parting == IF Checkpoint < MaxHeight THEN Checkpoint + 1 ELSE 3

\* Alice is paid in the block below the checkpoint.  She, or Bob where there
\* is one, is paid in one fork where they part.  Both outputs are spent later
\* in both.
MCPayments ==
    [h \in MCHash |->
        CASE h = A[Checkpoint - 1] -> {[address |-> Alice, output |-> 1]}
          [] h = A[Parting] ->
                {[address |-> IF Bob \in Address THEN Bob ELSE Alice,
                  output |-> 2]}
          [] OTHER -> {}]
MCInputs ==
    [h \in MCHash |->
        CASE h \in {A[Parting], B[Parting]} -> {[source |-> 1, image |-> "i"]}
          [] h \in {A[Parting + 1], B[Parting + 1]} ->
                {[source |-> 2, image |-> "j"]}
          [] OTHER -> {}]

Kinds == {"extend", "reorg", "error", "timeout", "crash", "add", "status",
          "rescan", "rollback"}

Setting(kinds, steps, addresses, threads) ==
    [kinds |-> kinds, steps |-> steps, addresses |-> addresses,
     threads |-> threads]

\* One account and everything that may happen to it; two accounts of one
\* thread, of which the administrator takes one away; and two threads, of
\* which one fails.
Settings ==
    {Setting(Kinds, 5, {Alice}, {1}),
     Setting({"add", "status", "rescan"}, 5, {Alice, Bob}, {1}),
     Setting({"add", "error", "status", "extend"}, 4, {Alice, Bob}, {1, 2})}

ReplaceSettings == {Setting({"add", "rescan", "status"}, 5, {Alice, Bob}, {1})}
RescanSettings == {Setting({"add", "rescan", "extend"}, 3, {Alice}, {1})}
ReorgSettings == {Setting({"reorg"}, 1, {Alice}, {1})}
=============================================================================
