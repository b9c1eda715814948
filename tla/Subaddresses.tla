---------------------------- MODULE Subaddresses ----------------------------
(***************************************************************************)
(* The subaddresses of monero-lws (src/db/storage.cpp): for each account   *)
(* the index rows by which a scan recognises a payment to a subaddress,    *)
(* and the ranges of indexes that are listed to the wallet.  Wallets add   *)
(* ranges (upsert_subaddresses); accounts with a lookahead get them when   *)
(* they are created or imported (do_lookahead) and whenever a scan finds a *)
(* payment to a subaddress (update_lookahead).                             *)
(*                                                                         *)
(* Every function is one LMDB transaction.  The callers that go on after   *)
(* max_subaddresses commit what do_upsert wrote before it failed.          *)
(***************************************************************************)
EXTENDS Integers, Sequences, FiniteSets

CONSTANTS
    UInt32Max,         \* bound: the largest major or minor index
    MaxSubaddresses,   \* the --max-subaddresses option
    MaxHeight,         \* bound: the highest block
    AccountId,         \* bound: 1..n, the ids that may be given out
    Address,           \* account addresses
    Paid,              \* Paid[h]: the payments of block h, in order
    Asked,             \* bound: heights and lookaheads of creations and imports
    Lookaheads,        \* bound: lookaheads that wallets shrink to
    Dicts,             \* bound: what wallets ask to be upserted
    Provisions,        \* bound: what wallets ask provision_subaddrs for
    AskedHeights,      \* bound: heights of additions, rescans and rollbacks
    Environment        \* which operations happen, and for which addresses

Height == 0..MaxHeight
Index == 0..UInt32Max
Lookahead == [major : Index, minor : Index]
Payment == [address : Address, major : Index, minor : Index]

\* check_subaddress_dict: ranges are ordered and do not touch.
CheckSubaddressDict(ranges) ==
    /\ \A i \in DOMAIN ranges : ranges[i][1] <= ranges[i][2]
    /\ \A i \in 1..(Len(ranges) - 1) : ranges[i][2] + 1 < ranges[i + 1][1]

ASSUME BoundsAssumption ==
    /\ UInt32Max \in Nat /\ MaxSubaddresses \in Nat /\ MaxHeight \in Nat \ {0}
    /\ IsFiniteSet(AccountId) /\ AccountId = 1..Cardinality(AccountId)
    /\ Paid \in [1..MaxHeight -> Seq(Payment)]
    /\ Lookaheads \subseteq Lookahead /\ AskedHeights \subseteq Height
    /\ Asked \subseteq [height : Height, lookahead : Lookahead]
    /\ Provisions \subseteq [major : Index, minor : Index, n_major : Index, n_minor : Index]

\* What wallets send has been read by the checks of read_bytes.
ASSUME DictAssumption ==
    /\ Dicts \subseteq Seq([major : Index, ranges : Seq(Index \X Index)])
    /\ \A d \in Dicts : \A i \in DOMAIN d : CheckSubaddressDict(d[i].ranges)

VARIABLES
    accounts,  \* id, address, start and scan height, lookahead, and
               \* lookahead_fail, the height where a lookahead failed, or 0
    requests,  \* creation and import requests
    ranges,    \* subaddress_ranges: ranges[id][major], <<>> for no row
    indexes,   \* subaddress_indexes: the id, and the account address, major
               \* and minor index that the row's public key is derived from
    outputs,   \* the outputs of an account: their height and recipient
    batches,   \* blocks in the hands of scan threads
    raced      \* history: what a scan thread had found, and not found again
               \* since, when a rescan or an import changed the lookahead
               \* or took its failure back

vars == <<accounts, requests, ranges, indexes, outputs, batches, raced>>

Account == [id : AccountId, address : Address, start : Height, scan : Height,
            lookahead : Lookahead, fail : Height]
NoLookahead == [major |-> 0, minor |-> 0]
Found == [id : AccountId, height : Height, major : Index, minor : Index]

TypeOK ==
    /\ accounts \subseteq Account
    /\ \A q \in requests : q.address \in Address /\ q.lookahead \in Lookahead
    /\ \A id \in AccountId, m \in Index :
          \A i \in DOMAIN ranges[id][m] : ranges[id][m][i] \in Index \X Index
    /\ indexes \subseteq [id : AccountId, address : Address,
                          major : Index, minor : Index]
    /\ outputs \subseteq Found /\ raced \subseteq Found
    /\ \A b \in batches : b.found \subseteq Found /\ b.base \in Height

Init ==
    /\ accounts = {} /\ requests = {}
    /\ ranges = [id \in AccountId |-> [m \in Index |-> <<>>]]
    /\ indexes = {} /\ outputs = {} /\ batches = {} /\ raced = {}

Larger(a, b) == IF a >= b THEN a ELSE b
Smaller(a, b) == IF a <= b THEN a ELSE b

\* add_and_clamp: saturating addition of 32-bit indexes.
AddAndClamp(a, b) == Smaller(a + b, UInt32Max)

-----------------------------------------------------------------------------
(* do_upsert *)

Size(r) == r[2] - r[1] + 1

\* Mutant: the size of a range is taken for one less than it is.
CheckMaxRangeShort(m, new) ==
    IF ~m.ok \/ m.count + Size(new) - 1 > MaxSubaddresses
    THEN [m EXCEPT !.ok = FALSE]
    ELSE [m EXCEPT !.count = @ + Size(new) - 1]

\* check_max_range on a range that is new.
CheckMaxRange(m, new) ==
    IF ~m.ok \/ m.count + Size(new) > MaxSubaddresses THEN [m EXCEPT !.ok = FALSE]
    ELSE [m EXCEPT !.count = @ + Size(new)]

\* The stored ranges at the front of old that end before new begins.
Before(old, new) ==
    CHOOSE k \in 0..Len(old) :
        /\ \A i \in 1..k : old[i][2] + 1 < new[1]
        /\ k < Len(old) => old[k + 1][2] + 1 >= new[1]

\* One new range is merged into the stored ones, of which m.merged have been
\* passed and m.old are left.  An overlapping stored range is extended in
\* place and stays at the front of m.old.
MergeRange(m, new) ==
    LET k == Before(m.old, new)
        old == SubSeq(m.old, k + 1, Len(m.old))
        first == Head(old)
        next == [m EXCEPT !.old = old, !.merged = @ \o SubSeq(m.old, 1, k)]
        front == IF new[1] < first[1]
                 THEN CheckMaxRange(next, <<new[1], first[1] - 1>>) ELSE next
        back == IF first[2] < new[2]
                THEN CheckMaxRange(front, <<first[2] + 1, new[2]>>) ELSE front IN
    IF old = <<>> \/ new[2] + 1 < first[1]
      THEN CheckMaxRange([next EXCEPT !.merged = Append(@, new)], new)
      ELSE [back EXCEPT !.old = <<<<Smaller(new[1], first[1]),
                                    Larger(new[2], first[2])>>>> \o Tail(old)]

\* The minor indexes in a row of ranges.
Minors(row) == UNION {row[i][1]..row[i][2] : i \in DOMAIN row}

\* Mutant: the last index of each range gets no row.
IndexRowsShort(id, address, major, row) ==
    {[id |-> id, address |-> address, major |-> major, minor |-> i] :
        i \in UNION {row[k][1]..(row[k][2] - 1) : k \in DOMAIN row}}

IndexRows(id, address, major, row) ==
    {[id |-> id, address |-> address, major |-> major, minor |-> i] :
        i \in Minors(row)}

\* Mutant: the stored ranges behind the last new one are not kept.
RowOfMerged(m) == m.merged

\* What is put back: the merged ranges, and the stored ones behind them.
RowOf(m) == m.merged \o m.old

\* The new ranges are merged one after the other.
MergeRanges(old, count, new) ==
    LET after[i \in 0..Len(new)] ==
            IF i = 0 THEN [ok |-> TRUE, count |-> count, merged |-> <<>>, old |-> old]
                     ELSE MergeRange(after[i - 1], new[i]) IN
    after[Len(new)]

\* One major index.  The stored row is deleted before it is merged, and put
\* back at the end: a failure between leaves none.
UpsertMajor(u, id, address, entry) ==
    LET m == MergeRanges(u.ranges[entry.major], u.count, entry.ranges) IN
    IF ~u.ok THEN u
    ELSE IF ~CheckSubaddressDict(entry.ranges) THEN [u EXCEPT !.ok = FALSE]
    ELSE IF ~m.ok THEN [u EXCEPT !.ok = FALSE, !.ranges[entry.major] = <<>>]
    ELSE [ok |-> TRUE, count |-> m.count,
          ranges |-> [u.ranges EXCEPT ![entry.major] = RowOf(m)],
          indexes |-> u.indexes \cup IndexRows(id, address, entry.major, RowOf(m))]

\* do_upsert: whether it succeeds, and the tables it leaves.
DoUpsert(id, address, dict) ==
    LET count == Cardinality({r \in indexes : r.id = id})
        after[i \in 0..Len(dict)] ==
            IF i = 0 THEN [ok |-> count <= MaxSubaddresses, count |-> count,
                           ranges |-> ranges[id], indexes |-> indexes]
                     ELSE UpsertMajor(after[i - 1], id, address, dict[i]) IN
    after[Len(dict)]

Write(id, u) ==
    /\ ranges' = [ranges EXCEPT ![id] = u.ranges]
    /\ indexes' = u.indexes

\* upsert_subaddresses: an error aborts the transaction.
UpsertSubaddresses(a, dict) ==
    /\ LET u == DoUpsert(a.id, a.address, dict) IN u.ok /\ Write(a.id, u)
    /\ UNCHANGED <<accounts, requests, outputs, batches, raced>>

\* The handler of upsert_subaddrs.
UpsertSubaddrs(a, dict) == MaxSubaddresses > 0 /\ UpsertSubaddresses(a, dict)

TooMany(major, minor) ==
    major * minor > UInt32Max \/ major * minor > MaxSubaddresses

Wrap(i) == i % (UInt32Max + 1)

\* The dictionary provision_subaddrs makes, sorted as upsert_subaddresses
\* sorts it.  Both indexes are 32 bits wide: a major index beyond the last goes
\* on at 0, and a last minor index that wraps gives a range do_upsert refuses.
ProvisionDict(p) ==
    LET wrapped == Larger(0, p.major + p.n_major - 1 - UInt32Max) IN
    [i \in 1..p.n_major |->
        [major |-> IF i <= wrapped THEN i - 1 ELSE p.major + (i - wrapped) - 1,
         ranges |-> <<<<p.minor, Wrap(p.minor + p.n_minor - 1)>>>>]]

\* The handler of provision_subaddrs.
ProvisionSubaddrs(a, p) ==
    /\ p.n_major > 0 /\ p.n_minor > 0
    /\ ~TooMany(p.n_major, p.n_minor)
    /\ UpsertSubaddresses(a, ProvisionDict(p))

-----------------------------------------------------------------------------
(* Lookahead *)

\* The dictionary 0..n-1 with the range 0..last(i) for each major index i.
DictTo(n, last(_)) ==
    [i \in 1..n |-> [major |-> i - 1, ranges |-> <<<<0, last(i - 1)>>>>]]

Untouched(id) == [ok |-> FALSE, ranges |-> ranges[id], indexes |-> indexes]

\* do_lookahead for an account with the outputs in kept.
DoLookahead(id, address, look, kept) ==
    LET subs == {o \in kept : o.id = id /\ (o.major # 0 \/ o.minor # 0)}
        needed(o) == AddAndClamp(o.major, look.major)
        n == CHOOSE k \in Index :
                /\ k >= look.major /\ \A o \in subs : k >= needed(o)
                /\ k = look.major \/ \E o \in subs : k = needed(o)
        lasts(i) == {AddAndClamp(look.minor - 1, o.minor) :
                        o \in {s \in subs : s.major = i}}
        last(i) == IF lasts(i) = {} THEN look.minor - 1
                   ELSE CHOOSE x \in lasts(i) : \A y \in lasts(i) : x >= y
        total[i \in 0..n] ==
            IF i = 0 THEN 0
            ELSE total[i - 1] + IF lasts(i - 1) = {} THEN look.minor
                                                     ELSE last(i - 1) IN
    IF look.major = 0 \/ look.minor = 0 THEN [Untouched(id) EXCEPT !.ok = TRUE]
    ELSE IF TooMany(look.major, look.minor) \/ total[n] > MaxSubaddresses
            \/ \E o \in subs : TooMany(needed(o), look.minor)
      THEN Untouched(id)
    ELSE DoUpsert(id, address, DictTo(n, last))

\* The account after a lookahead that ended with u.
LookaheadDone(a, look, u) ==
    [a EXCEPT !.lookahead = look,
              !.fail = IF u.ok THEN @ ELSE Larger(1, a.start)]

\* The last minor index that is needed in the major index of a match.
Fresh(match, look) == AddAndClamp(match.minor, look.minor - 1)

\* update_lookahead for a match that a scan found at the given height.
UpdateLookahead(a, height, match) ==
    LET look == a.lookahead
        dict == DictTo(AddAndClamp(match.major, look.major),
                       LAMBDA i : IF i = match.major THEN Fresh(match, look)
                                                     ELSE look.minor - 1)
        u == IF TooMany(look.major, look.minor) THEN Untouched(a.id)
             ELSE DoUpsert(a.id, a.address, dict)
        failed == Larger(1, IF a.fail = 0 THEN height
                                          ELSE Smaller(a.fail, height)) IN
    IF look.major = 0 \/ look.minor = 0
      THEN UNCHANGED <<accounts, ranges, indexes>>
      ELSE /\ Write(a.id, u)
           /\ accounts' = IF u.ok THEN accounts
                          ELSE (accounts \ {a}) \cup {[a EXCEPT !.fail = failed]}

\* shrink_lookahead
ShrinkLookahead(a, look) ==
    /\ a.fail = 0
    /\ look.major <= a.lookahead.major /\ look.minor <= a.lookahead.minor
    /\ accounts' = (accounts \ {a}) \cup {[a EXCEPT !.lookahead = look]}
    /\ UNCHANGED <<requests, ranges, indexes, outputs, batches, raced>>

-----------------------------------------------------------------------------
(* Accounts *)

NextId == Cardinality(accounts) + 1
Exists(address) == \E a \in accounts : a.address = address

NewAccount(address, height) ==
    [id |-> NextId, address |-> address, start |-> height, scan |-> height,
     lookahead |-> NoLookahead, fail |-> 0]

\* add_account, the command of the administrator: no lookahead.
AddAccount(address, height) ==
    /\ NextId \in AccountId /\ ~Exists(address)
    /\ accounts' = accounts \cup {NewAccount(address, height)}
    /\ UNCHANGED <<requests, ranges, indexes, outputs, batches, raced>>

CreationRequest(address, height, look) ==
    /\ ~Exists(address)
    /\ ~ \E q \in requests : q.type = "create" /\ q.address = address
    /\ requests' = requests \cup {[type |-> "create", address |-> address,
                                   height |-> height, lookahead |-> look]}
    /\ UNCHANGED <<accounts, ranges, indexes, outputs, batches, raced>>

ImportRequest(a, height, look) ==
    /\ ~ \E q \in requests : q.type = "import_scan" /\ q.address = a.address
    /\ requests' = requests \cup {[type |-> "import_scan", address |-> a.address,
                                   height |-> height, lookahead |-> look]}
    /\ UNCHANGED <<accounts, ranges, indexes, outputs, batches, raced>>

\* create_accounts: the lookahead is done before the account is added, which
\* the address index may refuse.
CreateAccount(q) ==
    LET a == NewAccount(q.address, q.height)
        u == DoLookahead(a.id, a.address, q.lookahead, outputs) IN
    /\ q.type = "create" /\ NextId \in AccountId
    /\ requests' = requests \ {q}
    /\ IF q.lookahead = NoLookahead THEN UNCHANGED <<ranges, indexes>>
                                    ELSE Write(a.id, u)
    /\ accounts' = IF Exists(q.address) THEN accounts
                   ELSE IF q.lookahead = NoLookahead THEN accounts \cup {a}
                   ELSE accounts \cup {LookaheadDone(a, q.lookahead, u)}
    /\ UNCHANGED <<outputs, batches, raced>>

\* Mutant: the failure is forgotten by every rescan.
ClearFailAlways(a, height) == 0

\* A rescan from below the failure repeats what failed.
ClearFail(a, height) == IF height <= a.fail THEN 0 ELSE a.fail

\* What scan threads have found for an account and not checked in.
Held(id) == UNION {b.found : b \in {c \in batches : c.id = id}}

\* change_height, for a rescan (no lookahead) or an accepted import.  It reads
\* the stored outputs, whatever scan threads hold.
ChangeHeight(a, height, look) ==
    LET b == [a EXCEPT !.scan = Smaller(height, a.scan),
                       !.start = Smaller(height, a.start),
                       !.fail = ClearFail(a, height)]
        kept == {o \in outputs : o.id # a.id \/ o.height < height}
        u == DoLookahead(a.id, a.address, look, kept)
        c == IF look = NoLookahead THEN b ELSE LookaheadDone(b, look, u) IN
    /\ outputs' = kept
    /\ accounts' = (accounts \ {a}) \cup {c}
    /\ IF look = NoLookahead THEN UNCHANGED <<ranges, indexes>> ELSE Write(a.id, u)
    /\ raced' = IF c.lookahead = a.lookahead /\ c.fail = a.fail THEN raced
                ELSE raced \cup Held(a.id)

Rescan(a, height) ==
    /\ ChangeHeight(a, height, NoLookahead)
    /\ UNCHANGED <<requests, batches>>

ImportAccount(q) ==
    /\ q.type = "import_scan"
    /\ requests' = requests \ {q}
    /\ \E a \in accounts : /\ a.address = q.address
                           /\ ChangeHeight(a, q.height, q.lookahead)
    /\ UNCHANGED batches

\* rollback_accounts: a reorganisation or the administrator's rollback.
RollbackAccounts(height) ==
    LET affected == {a \in accounts : a.scan >= height}
        below == Larger(height, 1) - 1 IN
    /\ accounts' = (accounts \ affected) \cup
          {[a EXCEPT !.scan = below, !.start = Smaller(below, a.start)] :
              a \in affected}
    /\ outputs' = {o \in outputs :
                     o.height < height \/ \A a \in affected : a.id # o.id}
    /\ UNCHANGED <<requests, ranges, indexes, batches, raced>>

-----------------------------------------------------------------------------
(* A scan thread, one output at a time. *)

Load(a) ==
    /\ \A b \in batches : b.id # a.id
    /\ \E last \in (a.scan + 1)..MaxHeight :
          batches' = batches \cup {[id |-> a.id, base |-> a.scan, last |-> last,
                                    height |-> a.scan + 1, next |-> 1,
                                    found |-> {}]}
    /\ UNCHANGED <<accounts, requests, ranges, indexes, outputs, raced>>

NextOutput(b) ==
    IF b.next < Len(Paid[b.height]) THEN [b EXCEPT !.next = @ + 1]
    ELSE [b EXCEPT !.next = 1, !.height = @ + 1]

\* ownership_test on one output: the primary address, or an index row of the
\* account with the output's public key (find_subaddress).
ScanOutput(b) ==
    LET p == Paid[b.height][b.next]
        o == [id |-> b.id, height |-> b.height, major |-> p.major, minor |-> p.minor] IN
    /\ b.height <= b.last
    /\ \E a \in accounts :
          /\ a.id = b.id
          /\ IF \/ Paid[b.height] = <<>>
                \/ p.address # a.address
                \/ /\ p.major # 0 \/ p.minor # 0
                   /\ [id |-> a.id, address |-> p.address, major |-> p.major,
                       minor |-> p.minor] \notin indexes
               THEN /\ batches' = (batches \ {b}) \cup {NextOutput(b)}
                    /\ UNCHANGED <<accounts, ranges, indexes, raced>>
               ELSE /\ batches' = (batches \ {b}) \cup
                                  {[NextOutput(b) EXCEPT !.found = @ \cup {o}]}
                    /\ raced' = raced \ {o}
                    /\ IF p.major = 0 /\ p.minor = 0
                         THEN UNCHANGED <<accounts, ranges, indexes>>
                         ELSE UpdateLookahead(a, b.height, p)
    /\ UNCHANGED <<requests, outputs>>

\* storage::update: a batch from above the account's scan height is dropped.
CheckIn(b) ==
    /\ b.height > b.last
    /\ batches' = batches \ {b}
    /\ \E a \in accounts :
          /\ a.id = b.id
          /\ IF b.base <= a.scan /\ a.scan < b.last
               THEN /\ accounts' = (accounts \ {a}) \cup
                                   {[a EXCEPT !.scan = b.last]}
                    /\ outputs' = outputs \cup b.found
               ELSE UNCHANGED <<accounts, outputs>>
    /\ UNCHANGED <<requests, ranges, indexes, raced>>

\* The threads are reset: a reorganisation, an error, a crash.
Reset(b) ==
    /\ batches' = batches \ {b}
    /\ UNCHANGED <<accounts, requests, ranges, indexes, outputs, raced>>

-----------------------------------------------------------------------------

Wallet ==
    \/ \E address \in Address :
          \/ /\ <<"add", address>> \in Environment
             /\ \E h \in AskedHeights : AddAccount(address, h)
          \/ /\ <<"create", address>> \in Environment
             /\ \E q \in Asked : CreationRequest(address, q.height, q.lookahead)
    \/ \E a \in accounts :
          \/ /\ <<"upsert", a.address>> \in Environment
             /\ \E d \in Dicts : UpsertSubaddrs(a, d)
          \/ /\ <<"provision", a.address>> \in Environment
             /\ \E p \in Provisions : ProvisionSubaddrs(a, p)
          \/ /\ <<"shrink", a.address>> \in Environment
             /\ \E look \in Lookaheads : ShrinkLookahead(a, look)
          \/ /\ <<"rescan", a.address>> \in Environment
             /\ \E h \in AskedHeights : Rescan(a, h)
          \/ /\ <<"import", a.address>> \in Environment
             /\ \E q \in Asked : ImportRequest(a, q.height, q.lookahead)

Accept ==
    \E q \in requests : CreateAccount(q) \/ ImportAccount(q)

Scan ==
    \/ \E a \in accounts : <<"scan", a.address>> \in Environment /\ Load(a)
    \/ \E b \in batches : ScanOutput(b) \/ CheckIn(b) \/ Reset(b)
    \/ \E h \in AskedHeights : RollbackAccounts(h)

Next == Wallet \/ Accept \/ Scan

Spec == Init /\ [][Next]_vars

-----------------------------------------------------------------------------
(* Properties *)

Listed(a) == UNION {{<<m, i>> : i \in Minors(ranges[a.id][m])} : m \in Index}
Findable(a) == {<<r.major, r.minor>> :
                   r \in {s \in indexes : s.id = a.id /\ s.address = a.address}}

\* The rows of an id are for more addresses than its account's: create_accounts
\* was refused an address that existed, and kept what its lookahead had written
\* under the id that the next account then got.
Mixed(id, address) == \E r \in indexes : r.id = id /\ r.address # address

\* No account has more subaddresses than --max-subaddresses, although each
\* upsert counts only the parts of a range it takes for new: unless a refused
\* creation left ranges under its id, whose rows are then written once more
\* and not counted.
WithinLimit ==
    \A a \in accounts :
        \/ Mixed(a.id, a.address)
        \/ Cardinality({r \in indexes : r.id = a.id}) <= MaxSubaddresses

\* Every subaddress listed to the wallet (get_subaddresses) is one the scan
\* of that account recognises (find_subaddress), although an upsert that fails
\* part way is kept, and ranges and rows are written apart: unless a refused
\* creation of another account left its ranges and rows under the id.
ListedAreFound ==
    \A a \in accounts :
        Mixed(a.id, a.address) \/ Listed(a) \subseteq Findable(a)

\* A successful upsert, whatever is stored, adds exactly what was asked for
\* to the ranges and to the index rows (under the id that a refused creation
\* used, it also completes the rows of what that creation listed).
UpsertExact ==
    \A a \in accounts : \A d \in Dicts :
        LET u == DoUpsert(a.id, a.address, d)
            wanted(m) == UNION {Minors(d[i].ranges) :
                                  i \in {j \in DOMAIN d : d[j].major = m}} IN
        u.ok =>
          /\ \A m \in Index :
                Minors(u.ranges[m]) = Minors(ranges[a.id][m]) \cup wanted(m)
          /\ \A r \in u.indexes \ indexes :
                /\ r.id = a.id
                /\ r.minor \in wanted(r.major) \/ Mixed(a.id, a.address)

\* Every stored row of ranges passes check_subaddress_dict, as it must to be
\* written in the answer to get_subaddrs.
RangesWellFormed ==
    \A id \in AccountId : \A m \in Index : CheckSubaddressDict(ranges[id][m])

\* The indexes within the lookahead of an output.
Window(a, o) ==
    {w \in Index \X Index :
        /\ w[1] < AddAndClamp(o.major, a.lookahead.major)
        /\ w[2] <= IF w[1] = o.major THEN AddAndClamp(o.minor, a.lookahead.minor - 1)
                                     ELSE a.lookahead.minor - 1}

\* An account whose lookahead is not reported as failed recognises every
\* subaddress within its lookahead of each subaddress that received an
\* output: no sequence of matches, failures, rescans, imports, upserts and
\* rollbacks leaves a hole in which a payment would be missed silently.  The
\* one exception is an output that a scan thread held while change_height
\* changed the lookahead or took its failure back: the lookahead is redone for
\* stored outputs only, and the check-in of that thread does not redo it.
LookaheadCovers ==
    \A a \in accounts :
        a.fail = 0 /\ a.lookahead.major > 0 /\ a.lookahead.minor > 0 =>
            \A o \in outputs \ raced :
                o.id = a.id /\ (o.major # 0 \/ o.minor # 0) =>
                    Window(a, o) \subseteq Findable(a)
=============================================================================
