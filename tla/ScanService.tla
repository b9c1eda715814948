---------------------------- MODULE ScanService ----------------------------
(***************************************************************************)
(* What the scanning half of monero-lws promises, whoever does the work:   *)
(* every account is scanned block by block from its start height on.  The  *)
(* blocks whose outputs are stored for an account are exactly those after  *)
(* its start height up to its scan height; a check-in moves accounts       *)
(* forward without a gap, and only a rollback moves them back.             *)
(***************************************************************************)
EXTENDS Naturals

CONSTANTS
    Account,     \* account ids
    MaxHeight    \* bound: the highest block

Height == 0..MaxHeight

VARIABLES
    db,   \* db[a]: [status, start, scan, found], found being the blocks
          \* whose rows are stored for the account
    top   \* the daemon's height

Row == [status : {"absent", "active", "inactive"}, start : Height,
        scan : Height, found : SUBSET Height]

Contiguous(r) == r.found = (r.start + 1)..r.scan

Init ==
    /\ top \in Height
    /\ db \in [Account -> {r \in Row : Contiguous(r)}]

\* The accounts of S reach height h together.
Advance(S, h) ==
    /\ \A a \in S : db[a].status # "absent" /\ db[a].scan < h
    /\ h <= top
    /\ db' = [a \in Account |->
                IF a \in S
                  THEN [db[a] EXCEPT !.scan = h,
                                     !.found = @ \cup (db[a].scan + 1)..h]
                  ELSE db[a]]
    /\ UNCHANGED top

\* The administrator adds an account or changes its status.
Administer(a, status) ==
    /\ \/ db[a].status = "absent"
             /\ \E h \in Height : db' = [db EXCEPT ![a] =
                   [status |-> status, start |-> h, scan |-> h, found |-> {}]]
       \/ db[a].status # "absent" /\ db' = [db EXCEPT ![a].status = status]
    /\ UNCHANGED top

\* Blocks from h on are taken back.
Rollback(h) ==
    /\ h \in 1..top
    /\ db' = [a \in Account |->
                IF db[a].scan < h THEN db[a]
                ELSE [db[a] EXCEPT
                        !.scan = h - 1,
                        !.start = IF @ < h THEN @ ELSE h - 1,
                        !.found = {b \in @ : b < h}]]
    /\ UNCHANGED top

Extend == top' \in (top + 1)..MaxHeight /\ UNCHANGED db

Next ==
    \/ \E S \in SUBSET Account, h \in Height : Advance(S, h)
    \/ \E a \in Account, s \in {"active", "inactive"} : Administer(a, s)
    \/ \E h \in Height : Rollback(h)
    \/ Extend

Spec == Init /\ [][Next]_<<db, top>>
=============================================================================
