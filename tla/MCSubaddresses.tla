--------------------------- MODULE MCSubaddresses ---------------------------
(***************************************************************************)
(* Instances of Subaddresses for TLC.                                      *)
(***************************************************************************)
EXTENDS Subaddresses

Entry(major, r) == [major |-> major, ranges |-> r]

\* All valid rows of at most two ranges, for major index 0, and one request
\* for two major indexes.
MinorRange == {r \in Index \X Index : r[1] <= r[2]}
Rows == {r \in {<<>>} \cup {<<x>> : x \in MinorRange} \cup (MinorRange \X MinorRange) :
            CheckSubaddressDict(r)}
AllDicts == {<<Entry(0, r)>> : r \in Rows} \cup
            {<<Entry(0, <<<<0, 1>>>>), Entry(1, <<<<0, 0>>>>)>>}
\* Ranges that touch, lie within or span what lookaheads and the other requests
\* store, and one for a second major index.
FewDicts == {<<Entry(0, <<<<0, 0>>, <<2, 3>>>>)>>}

\* One request that goes past the last major index, and one whose last minor
\* index wraps.
ProvisionMany == {[major |-> UInt32Max, minor |-> 0, n_major |-> 2, n_minor |-> 1],
                  [major |-> 0, minor |-> UInt32Max, n_major |-> 1, n_minor |-> 2]}

Look(major, minor) == [major |-> major, minor |-> minor]
Ask(height, look) == [height |-> height, lookahead |-> look]
AskSome == {Ask(0, Look(1, 2)), Ask(1, Look(0, 0)), Ask(1, Look(2, 2))}
LookSome == {Look(1, 1)}
Nothing == {}

\* Alice does everything, bob only gets an account and fills it.
Everything == {"add", "create", "import", "upsert", "provision", "shrink", "rescan", "scan"}
AliceMost == (Everything \X {"alice"}) \cup ({"create", "upsert"} \X {"bob"})
AddAndUpsert == {"add", "upsert"} \X {"alice"}

Pay(a, major, minor) == [address |-> a, major |-> major, minor |-> minor]
NoPayments == [h \in 1..MaxHeight |-> <<>>]
\* Payments to ever higher subaddresses; the second of block 1 is recognised
\* only because the first one extended the lookahead.
Climbing ==
    [h \in 1..MaxHeight |->
        IF h = 1 THEN <<Pay("alice", 0, 1), Pay("alice", 0, 2)>>
        ELSE <<Pay("alice", 1, 1)>>]
=============================================================================
