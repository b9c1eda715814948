------------------------------ MODULE Storage ------------------------------
(***************************************************************************)
(* The LMDB database of monero-lws (src/db/storage.cpp): the local copy of *)
(* the block hashes, the accounts with their two indexes, the outputs,     *)
(* spends and key images found for them, and the queue of account          *)
(* requests.  Every write function of db::storage runs in one LMDB write   *)
(* transaction (try_write), so each is one atomic action here.  A call     *)
(* that returns an error aborts its transaction and changes nothing: an    *)
(* error path is a guard that is not satisfied.                            *)
(*                                                                         *)
(* A table is the set of its rows; a cursor lookup is an existential over  *)
(* that set, matching exactly the fields the table's comparator looks at.  *)
(* The blocks table, one row per height, is a function of the height.      *)
(*                                                                         *)
(* Next is the most general caller that keeps to the contract of the       *)
(* functions: the hashes given to sync_chain and update are a segment of   *)
(* a chain the daemon may be on, and the accounts given to update carry    *)
(* what those blocks pay them.  Scanner.tla shows the scanner to be such   *)
(* a caller.                                                               *)
(***************************************************************************)
EXTENDS Integers, FiniteSets

CONSTANTS
    MaxHeight,        \* bound: the highest block height
    Hash,             \* block hashes; a hash stands for the whole block
    NoBlock,          \* no row in the blocks table
    Chains,           \* the chains the daemon may be on
    Checkpoint,       \* height of the last hard-coded checkpoint
    CheckpointHash,   \* and its hash
    Regtest,          \* the --regtest option
    Address,          \* account addresses: records with fields view, spend
    AccountId,        \* bound: account ids that may be given out
    OutputId,         \* global output indexes
    Image,            \* key images
    Payments,         \* Payments[hash]: the outputs created by that block
    Inputs,           \* Inputs[hash]: the ring members used by that block
    CreateQueueMax,   \* the --create-queue-max option
    AskedHeights      \* bound: heights that requests and commands ask for

Height == 0..MaxHeight

(***************************************************************************)
(* The daemon's chains agree below every block they share, no two heights  *)
(* share a hash, and all start with the same genesis block.  Outside       *)
(* regtest the daemon itself enforces the checkpoints.                     *)
(***************************************************************************)
ASSUME HeightAssumption ==
    /\ MaxHeight \in Nat
    /\ Checkpoint \in Height
    /\ AccountId \subseteq Nat \ {0}
    /\ CreateQueueMax \in Nat
    /\ AskedHeights \subseteq Height

ASSUME ChainAssumption ==
    /\ Chains \subseteq [Height -> Hash]
    /\ Chains # {}
    /\ \A c, d \in Chains : c[0] = d[0]
    /\ \A c, d \in Chains : \A h, k \in Height : c[h] = d[k] => h = k
    /\ \A c, d \in Chains : \A h \in Height :
          c[h] = d[h] => \A k \in 0..h : c[k] = d[k]

ASSUME CheckpointAssumption ==
    /\ CheckpointHash \in Hash
    /\ NoBlock \notin Hash
    /\ Regtest \in BOOLEAN
    /\ IF Regtest THEN \A c \in Chains, h \in Height : c[h] # CheckpointHash
                  ELSE \A c \in Chains : c[Checkpoint] = CheckpointHash

(***************************************************************************)
(* On one chain an output index is created once, and a ring member is used *)
(* with a given key image once.  Two forks may reuse an output index.      *)
(***************************************************************************)
ASSUME TransactionAssumption ==
    /\ Payments \in [Hash -> SUBSET [address : Address, output : OutputId]]
    /\ Inputs \in [Hash -> SUBSET [source : OutputId, image : Image]]
    /\ \A c \in Chains : \A h, k \in Height :
          \A p \in Payments[c[h]], q \in Payments[c[k]] :
             p.output = q.output => p = q /\ h = k
    /\ \A c \in Chains : \A h, k \in Height :
          \A i \in Inputs[c[h]], j \in Inputs[c[k]] : i = j => h = k

Status == {"active", "inactive", "hidden"}
Flags == {"default_account", "admin_account"}
RequestType == {"create", "import_scan"}

AccountRow == [id : AccountId, address : Address, status : Status,
               scan : Height, start : Height]
ByAddressRow == [address : Address, id : AccountId, status : Status]
ByHeightRow == [height : Height, id : AccountId, status : Status]
OutputRow == [id : AccountId, height : Height, hash : Hash, output : OutputId]
SpendRow == [id : AccountId, height : Height, hash : Hash,
             source : OutputId, image : Image]
ImageRow == [source : OutputId, image : Image]
RequestRow == [type : RequestType, address : Address, start : Height,
               flags : Flags]

VARIABLES
    blocks,       \* blocks_by_id: Height -> hash, NoBlock where no row is
    accounts,     \* accounts by (status, id)
    accounts_ba,  \* accounts_by_address, compared on the view key only
    accounts_bh,  \* accounts_by_height, by (scan height, id)
    outputs,      \* outputs by account id, height, transaction
    spends,       \* spends by account id, height, transaction, image, source
    images,       \* key images by output id
    requests,     \* requests by type, compared on the spend key only
    lost          \* history: <<id, height>> whose rows change_height dropped
                  \* although the scan does not return to that height

vars == <<blocks, accounts, accounts_ba, accounts_bh, outputs, spends,
          images, requests, lost>>

TypeOK ==
    /\ blocks \in [Height -> Hash \cup {NoBlock}]
    /\ accounts \subseteq AccountRow
    /\ accounts_ba \subseteq ByAddressRow
    /\ accounts_bh \subseteq ByHeightRow
    /\ outputs \subseteq OutputRow
    /\ spends \subseteq SpendRow
    /\ images \subseteq ImageRow
    /\ requests \subseteq RequestRow
    /\ lost \subseteq (AccountId \X Height)

-----------------------------------------------------------------------------
(* Lookups *)

Stored(h) == blocks[h] # NoBlock

\* The last row of the blocks table (MDB_LAST_DUP).
IsTip(t) == Stored(t) /\ \A h \in Height : h > t => ~Stored(h)

Min(a, b) == IF a <= b THEN a ELSE b

\* Rows of accounts_by_address that a lookup of the address finds.
ByAddress(address) == {r \in accounts_ba : r.address.view = address.view}

\* Rows of the request queue that a lookup of the address finds.
FindRequest(type, address) ==
    {q \in requests : q.type = type /\ q.address.spend = address.spend}

\* The account row an index row names.
Named(r) == {a \in accounts : a.id = r.id /\ a.status = r.status}

\* Mutant: find_last_id looks at the active accounts only.
IsLastActiveId(i) ==
    /\ \A a \in accounts : a.status = "active" => a.id <= i
    /\ i = 0 \/ \E a \in accounts : a.status = "active" /\ a.id = i

\* find_last_id: the largest id under any status, zero when there is none.
IsLastId(i) ==
    /\ \A a \in accounts : a.id <= i
    /\ i = 0 \/ \E a \in accounts : a.id = i

ImageOf(s) == [source |-> s.source, image |-> s.image]

\* Mutant: the images of deleted spends are kept.
ImagesKept(rows) == images

\* The key images that are left when rows of the spends table go.
ImagesWithout(rows) == images \ {ImageOf(s) : s \in rows}

\* mdb_cursor_get on the images table must find each image to delete.
CanDelete(rows) ==
    /\ \A s \in rows : ImageOf(s) \in images
    /\ \A s, t \in rows : ImageOf(s) = ImageOf(t) => s = t

-----------------------------------------------------------------------------
(* Opening the database: check_blockchain. *)

Genesis == (CHOOSE c \in Chains : TRUE)[0]

InitialBlocks ==
    [h \in Height |-> IF h = 0 THEN Genesis
                      ELSE IF h = Checkpoint THEN CheckpointHash
                      ELSE NoBlock]

Init ==
    /\ blocks = InitialBlocks
    /\ accounts = {} /\ accounts_ba = {} /\ accounts_bh = {}
    /\ outputs = {} /\ spends = {} /\ images = {}
    /\ requests = {} /\ lost = {}

\* A restart of the server on a database whose blocks table is empty, which
\* a rollback to height 0 leaves behind.
Open ==
    /\ \A h \in Height : ~Stored(h)
    /\ blocks' = InitialBlocks
    /\ UNCHANGED <<accounts, accounts_ba, accounts_bh, outputs, spends,
                   images, requests, lost>>

-----------------------------------------------------------------------------
(* The chain: rollback, sync_chain. *)

Affected(a, h) ==
    \E b \in accounts_bh : b.height >= h /\ b.id = a.id /\ b.status = a.status

\* Mutant: no test for height zero.
RollbackBelowZero(h) == h - 1

RollbackHeight(h) == IF h = 0 THEN 0 ELSE h - 1

RolledBack(a, h) ==
    IF Affected(a, h)
      THEN [a EXCEPT !.scan = RollbackHeight(h),
                     !.start = Min(RollbackHeight(h), a.start)]
      ELSE a

\* Mutant: rows at the height itself are kept.
DroppedAbove(rows, h) ==
    {r \in rows : r.height > h
                  /\ \E b \in accounts_bh : b.height >= h /\ b.id = r.id}

\* Rows of accounts at or above h: deleted by rollback_outputs/_spends.
Dropped(rows, h) ==
    {r \in rows : r.height >= h
                  /\ \E b \in accounts_bh : b.height >= h /\ b.id = r.id}

\* The part of rollback_chain that follows the deletion of block rows.
RollbackAccounts(h) ==
    /\ CanDelete(Dropped(spends, h))
    /\ accounts' = {RolledBack(a, h) : a \in accounts}
    /\ accounts_bh' = {b \in accounts_bh : b.height < h}
                      \cup {[b EXCEPT !.height = RollbackHeight(h)] :
                               b \in {r \in accounts_bh : r.height >= h}}
    /\ outputs' = outputs \ Dropped(outputs, h)
    /\ spends' = spends \ Dropped(spends, h)
    /\ images' = ImagesWithout(Dropped(spends, h))
    /\ lost' = {l \in lost : l[2] < h}
    /\ UNCHANGED <<accounts_ba, requests>>

\* storage::rollback, the admin command.
Rollback(h) ==
    /\ Stored(h)
    /\ blocks' = [k \in Height |-> IF k < h THEN blocks[k] ELSE NoBlock]
    /\ RollbackAccounts(h)

\* The walk of sync_chain compares the row that follows height k - 1 with
\* the daemon's hash for height k.
Diverges(chain, k) ==
    \E j \in Height :
        /\ j >= k /\ Stored(j)
        /\ \A i \in k..(j - 1) : ~Stored(i)
        /\ blocks[j] # chain[k]

FirstDivergence(chain, height, last, k) ==
    /\ k \in (height + 1)..last
    /\ Diverges(chain, k)
    /\ \A i \in (height + 1)..(k - 1) : ~Diverges(chain, i)

\* Mutant: the rows after the daemon's last hash survive a rollback.
SyncChainKeepsTail(height, last, chain) ==
    /\ Stored(height)
    /\ blocks[height] = chain[height]
    /\ \E k \in Height :
          /\ FirstDivergence(chain, height, last, k)
          /\ Regtest \/ Checkpoint < k
          /\ blocks' = [h \in Height |-> IF h \in k..last THEN chain[h]
                                                         ELSE blocks[h]]
          /\ RollbackAccounts(k)

\* Mutant: the last checkpoint does not bound a rollback.
SyncChainUnbounded(height, last, chain) ==
    /\ Stored(height)
    /\ blocks[height] = chain[height]
    /\ \E k \in Height :
          /\ FirstDivergence(chain, height, last, k)
          /\ blocks' = [h \in Height |-> IF h < k THEN blocks[h]
                                         ELSE IF h <= last THEN chain[h]
                                         ELSE NoBlock]
          /\ RollbackAccounts(k)

\* storage::sync_chain on the daemon's hashes chain[height..last].
SyncChain(height, last, chain) ==
    /\ Stored(height)
    /\ blocks[height] = chain[height]
    /\ \/ /\ \A k \in (height + 1)..last : ~Diverges(chain, k)
          /\ blocks' = [h \in Height |-> IF h \in height..last THEN chain[h]
                                                               ELSE blocks[h]]
          /\ UNCHANGED <<accounts, accounts_ba, accounts_bh, outputs, spends,
                         images, requests, lost>>
       \/ \E k \in Height :
          /\ FirstDivergence(chain, height, last, k)
          /\ Regtest \/ Checkpoint < k
          /\ blocks' = [h \in Height |-> IF h < k THEN blocks[h]
                                         ELSE IF h <= last THEN chain[h]
                                         ELSE NoBlock]
          /\ RollbackAccounts(k)

-----------------------------------------------------------------------------
(* Accounts: add_account, change_status, change_height, rescan. *)

InitialStatus(flags) ==
    IF flags = "admin_account" THEN "hidden" ELSE "active"

\* Mutant: the height index always says active.
DoAddActiveAccount(id, address, height, status) ==
    /\ ByAddress(address) = {}
    /\ accounts_ba' = accounts_ba \cup
          {[address |-> address, id |-> id, status |-> status]}
    /\ accounts_bh' = accounts_bh \cup
          {[height |-> height, id |-> id, status |-> "active"]}
    /\ accounts' = accounts \cup
          {[id |-> id, address |-> address, status |-> status,
            scan |-> height, start |-> height]}

\* do_add_account: the address index refuses a view key it already holds.
DoAddAccount(id, address, height, status) ==
    /\ ByAddress(address) = {}
    /\ accounts_ba' = accounts_ba \cup
          {[address |-> address, id |-> id, status |-> status]}
    /\ accounts_bh' = accounts_bh \cup
          {[height |-> height, id |-> id, status |-> status]}
    /\ accounts' = accounts \cup
          {[id |-> id, address |-> address, status |-> status,
            scan |-> height, start |-> height]}

AddAccount(address, flags) ==
    /\ \E tip \in Height, i \in AccountId :
          /\ IsTip(tip)
          /\ IsLastId(i - 1)
          /\ DoAddAccount(i, address, tip, InitialStatus(flags))
    /\ UNCHANGED <<blocks, outputs, spends, images, requests, lost>>

ChangeStatus(status, address) ==
    /\ \E r \in ByAddress(address) : \E a \in Named(r) :
       \E b \in accounts_bh :
          /\ r.status # status
          /\ b.height = a.scan /\ b.id = a.id
          /\ accounts_ba' = (accounts_ba \ {r})
                            \cup {[r EXCEPT !.status = status]}
          /\ accounts' = (accounts \ {a}) \cup {[a EXCEPT !.status = status]}
          /\ accounts_bh' = (accounts_bh \ {b})
                            \cup {[b EXCEPT !.status = status]}
    /\ UNCHANGED <<blocks, outputs, spends, images, requests, lost>>

\* Rows of one account at or above a height.
Above(rows, id, height) == {r \in rows : r.id = id /\ r.height >= height}

\* change_height: shared by rescan and by an accepted import request.
ChangeHeight(height, address) ==
    \E r \in ByAddress(address) : \E a \in Named(r) : \E b \in accounts_bh :
       /\ b.height = a.scan /\ b.id = a.id
       /\ CanDelete(Above(spends, a.id, height))
       /\ accounts' = (accounts \ {a}) \cup
             {[a EXCEPT !.scan = Min(height, a.scan),
                        !.start = Min(height, a.start)]}
       /\ accounts_bh' = (accounts_bh \ {b}) \cup
             {[height |-> Min(height, a.scan), id |-> r.id,
               status |-> r.status]}
       /\ outputs' = outputs \ Above(outputs, a.id, height)
       /\ spends' = spends \ Above(spends, a.id, height)
       /\ images' = ImagesWithout(Above(spends, a.id, height))
       /\ lost' = {l \in lost : l[1] # a.id \/ l[2] < height} \cup
             (IF a.start < height /\ height <= a.scan
                THEN {<<a.id, height>>} ELSE {})

Rescan(height, address) ==
    /\ \E tip \in Height : IsTip(tip) /\ height <= tip
    /\ ChangeHeight(height, address)
    /\ UNCHANGED <<blocks, accounts_ba, requests>>

-----------------------------------------------------------------------------
(* The request queue. *)

CreationRequest(address, flags) ==
    /\ ByAddress(address) = {}
    /\ Cardinality({q \in requests : q.type = "create"}) < CreateQueueMax
    /\ FindRequest("create", address) = {}
    /\ \E tip \in Height :
          /\ IsTip(tip)
          /\ requests' = requests \cup
                {[type |-> "create", address |-> address, start |-> tip,
                  flags |-> flags]}
    /\ UNCHANGED <<blocks, accounts, accounts_ba, accounts_bh, outputs, spends,
                   images, lost>>

ImportRequest(address, height) ==
    /\ ByAddress(address) # {}
    /\ FindRequest("import_scan", address) = {}
    /\ requests' = requests \cup
          {[type |-> "import_scan", address |-> address, start |-> height,
            flags |-> "default_account"]}
    /\ UNCHANGED <<blocks, accounts, accounts_ba, accounts_bh, outputs, spends,
                   images, lost>>

\* accept_requests(create): the request is deleted even when the account
\* exists already or the request's view key is not that of the address.
CreateAccount(address) ==
    /\ \E q \in FindRequest("create", address) :
          /\ requests' = requests \ {q}
          /\ IF q.address.view = address.view /\ ByAddress(address) = {}
               THEN \E i \in AccountId :
                       /\ IsLastId(i - 1)
                       /\ DoAddAccount(i, address, q.start,
                                       InitialStatus(q.flags))
               ELSE UNCHANGED <<accounts, accounts_ba, accounts_bh>>
    /\ UNCHANGED <<blocks, outputs, spends, images, lost>>

\* accept_requests(import_scan)
ImportAccount(address) ==
    /\ \E q \in FindRequest("import_scan", address) :
          /\ requests' = requests \ {q}
          /\ IF ByAddress(address) # {}
               THEN ChangeHeight(q.start, address)
               ELSE UNCHANGED <<accounts, accounts_bh, outputs, spends, images,
                                lost>>
    /\ UNCHANGED <<blocks, accounts_ba>>

RejectRequest(type, address) ==
    /\ \E q \in FindRequest(type, address) : requests' = requests \ {q}
    /\ UNCHANGED <<blocks, accounts, accounts_ba, accounts_bh, outputs, spends,
                   images, lost>>

-----------------------------------------------------------------------------
(* update: the check-in of a scanner. *)

\* Above the last checkpoint the hashes must extend the local chain; below
\* it only a row that happens to be stored is compared.
Verified(last) == Regtest \/ Checkpoint <= last

\* Mutant: the first hash may lie above the stored chain.
ChainAcceptedAnywhere(height, last, chain) ==
    IF Verified(last)
      THEN \E tip \in Height :
              /\ IsTip(tip)
              /\ blocks[Min(tip, last)] = chain[Min(tip, last)]
      ELSE Stored(last) => blocks[last] = chain[last]

ChainAccepted(height, last, chain) ==
    IF Verified(last)
      THEN \E tip \in Height :
              /\ IsTip(tip)
              /\ height <= tip
              /\ Stored(Min(tip, last))
              /\ blocks[Min(tip, last)] = chain[Min(tip, last)]
      ELSE Stored(last) => blocks[last] = chain[last]

\* Does update find row a for the scanned account u?
Finds(u, a) ==
    /\ a.id = u.id
    /\ \/ a.status = "active"
       \/ /\ \A x \in accounts : x.id = u.id => x.status # "active"
          /\ \E r \in ByAddress(u.address) : r.status = a.status

\* Counted in accounts_updated: the check-in is not ahead of the database.
Counts(u, a) == Finds(u, a) /\ u.scan <= a.scan

\* Does the check-in of u bring row a forward to height last?
Stores(u, a, last) == Counts(u, a) /\ a.scan < last

StoredUsers(users, last) == {u \in users : \E a \in accounts : Stores(u, a, last)}

Advanced(users, last) ==
    {a \in accounts : \E u \in users : Stores(u, a, last)}

\* update(height, chain[height..last], users).  An element of users is an
\* in-memory account: id, address, the height it was scanned to when these
\* blocks were fetched, and the rows found for it in them.
Update(height, last, chain, users) ==
    /\ ChainAccepted(height, last, chain)
    /\ blocks' = [h \in Height |->
                     IF /\ Verified(last)
                        /\ h \in height..last
                        /\ \A k \in Height : k >= h => ~Stored(k)
                       THEN chain[h] ELSE blocks[h]]
    /\ accounts' = {IF a \in Advanced(users, last) THEN [a EXCEPT !.scan = last]
                                                    ELSE a : a \in accounts}
    /\ accounts_bh' =
          {b \in accounts_bh : ~ \E a \in Advanced(users, last) :
                                   b.height = a.scan /\ b.id = a.id}
          \cup {[height |-> last, id |-> a.id, status |-> a.status] :
                   a \in Advanced(users, last)}
    /\ outputs' = outputs \cup
                  UNION {u.outputs : u \in StoredUsers(users, last)}
    /\ spends' = spends \cup UNION {u.spends : u \in StoredUsers(users, last)}
    /\ images' = images \cup
          {ImageOf(s) : s \in UNION {u.spends : u \in StoredUsers(users, last)}}
    /\ lost' = {l \in lost : ~ \E u \in StoredUsers(users, last) :
                                  l[1] = u.id /\ u.scan < l[2]}
    /\ UNCHANGED <<accounts_ba, requests>>

\* accounts_updated = users.size()
AllCounted(users) == \A u \in users : \E a \in accounts : Counts(u, a)

-----------------------------------------------------------------------------
(* What a scan of the blocks lo+1..hi of a chain finds for an account:      *)
(* the ownership_test of src/util/ownership_test.cpp over those blocks.     *)

PaidRows(id, address, chain, lo, hi) ==
    UNION {{[id |-> id, height |-> h, hash |-> chain[h], output |-> p.output] :
               p \in {q \in Payments[chain[h]] : q.address = address}} :
              h \in (lo + 1)..hi}

SpentRows(id, chain, lo, hi, known) ==
    UNION {{[id |-> id, height |-> h, hash |-> chain[h],
             source |-> i.source, image |-> i.image] :
               i \in {j \in Inputs[chain[h]] : j.source \in known}} :
              h \in (lo + 1)..hi}

\* The output indexes that pay an address below a height of the chain.
Owned(address, chain, h) ==
    {p.output : p \in {q \in UNION {Payments[chain[k]] : k \in 0..(h - 1)} :
                         q.address = address}}

-----------------------------------------------------------------------------
(* The most general caller. *)

\* A scanner that loaded account a when it was scanned to height s, that
\* knows the outputs in known, and that was given the blocks up to last.
ScannedUser(a, s, chain, last, known) ==
    [id |-> a.id, address |-> a.address, scan |-> s,
     outputs |-> PaidRows(a.id, a.address, chain, s, last),
     spends |-> {r \in SpentRows(a.id, chain, s, last, known) :
                    r.source \in Owned(a.address, chain, r.height)}]

\* Scanners fetch from height 1 when the first account is at height 0, and
\* pass the hash of block 1 for that of the genesis block.
FromGenesis(chain) == [chain EXCEPT ![0] = chain[IF MaxHeight = 0 THEN 0 ELSE 1]]

\* The check-in of the accounts in some, each loaded at height s[a], with the
\* blocks up to last of the chain c.
CheckInOf(c, height, last, some, known, s) ==
    /\ \A a \in some : a.start <= s[a]
    /\ \E chain \in {c, FromGenesis(c)} :
          /\ height # 0 => chain = c
          /\ Update(height, last, chain,
                    {ScannedUser(a, s[a], c, last, known) : a \in some})

CallUpdate ==
    \E c \in Chains : \E height \in Height : \E last \in height..MaxHeight :
    \E some \in SUBSET accounts : \E known \in SUBSET OutputId :
    \E s \in [some -> height..MaxHeight] :
       CheckInOf(c, height, last, some, known, s)

CallSyncChain ==
    \E c \in Chains : \E height \in Height : \E last \in height..MaxHeight :
       SyncChain(height, last, c)

Next ==
    \/ Open
    \/ \E h \in AskedHeights : Rollback(h)
    \/ CallSyncChain
    \/ \E address \in Address :
          \/ \E flags \in Flags :
                AddAccount(address, flags) \/ CreationRequest(address, flags)
          \/ \E status \in Status : ChangeStatus(status, address)
          \/ \E height \in AskedHeights :
                Rescan(height, address) \/ ImportRequest(address, height)
          \/ CreateAccount(address)
          \/ ImportAccount(address)
          \/ \E type \in RequestType : RejectRequest(type, address)
    \/ CallUpdate

Spec == Init /\ [][Next]_vars

-----------------------------------------------------------------------------
(* Properties *)

\* Account ids and view keys are unique: an id is never handed out twice and
\* the view key index never admits a second account (find_last_id,
\* do_add_account).
KeysUnique ==
    \A a, b \in accounts :
        a.id = b.id \/ a.address.view = b.address.view => a = b

\* The two secondary indexes hold exactly one row for every account, with
\* the account's current status and scan height, after every operation that
\* moves an account (change_status, change_height, update, rollbacks).  A
\* lookup through an index therefore never misses the row it names.
IndexesAgree ==
    /\ accounts_ba = {[address |-> a.address, id |-> a.id,
                       status |-> a.status] : a \in accounts}
    /\ accounts_bh = {[height |-> a.scan, id |-> a.id,
                       status |-> a.status] : a \in accounts}

\* The key images table holds exactly the images of the stored spends, each
\* for one spend: otherwise rollback_spends would fail on a missing image
\* and no reorganisation could be applied any more.
ImagesAgree ==
    /\ images = {ImageOf(s) : s \in spends}
    /\ \A s, t \in spends : ImageOf(s) = ImageOf(t) => s = t

OnChain(c) == \A h \in Height : Stored(h) => blocks[h] = c[h]

\* The stored block hashes all lie on one chain of the daemon: a
\* reorganisation never leaves a mixture of two forks behind.  (A regtest
\* database still has the main network's checkpoint until its first sync.)
BlocksOnOneChain ==
    (\E c \in Chains : OnChain(c)) \/ (Regtest /\ blocks = InitialBlocks)

\* The outputs stored for an account are exactly the payments to it in the
\* blocks after its start height up to its scan height.
OutputsOnChain(c) ==
    \A a \in accounts :
        {o \in outputs : o.id = a.id} =
            {o \in PaidRows(a.id, a.address, c, a.start, a.scan) :
                <<a.id, o.height>> \notin lost}

\* Every stored spend is an input of a block the account was scanned over,
\* and its source is an earlier output of that account.
SpendsOnChain(c) ==
    \A s \in spends : \E a \in accounts :
        /\ a.id = s.id
        /\ s.height \in (a.start + 1)..a.scan
        /\ s.hash = c[s.height]
        /\ ImageOf(s) \in Inputs[s.hash]
        /\ s.source \in Owned(a.address, c, s.height)

\* What is stored for the accounts agrees with the stored chain: through any
\* sequence of check-ins, reorganisations, rescans, rollbacks and imports, an
\* account has every output of the blocks it was scanned over and none from
\* a block that is no longer on the chain.  The blocks in lost are the
\* exception: see EveryScannedBlockStored.
AccountsOnChain ==
    \E c \in Chains :
        /\ OnChain(c) \/ (Regtest /\ blocks = InitialBlocks)
        /\ OutputsOnChain(c)
        /\ SpendsOnChain(c)

\* Rows above the checkpoint have no gap, so that the lookup of any block
\* hash between the checkpoint and the tip succeeds (do_get_block_hash in
\* update is unwrapped without a check).
NoGapAboveCheckpoint ==
    \A h, k \in Height : Checkpoint <= h /\ h < k /\ Stored(k) => Stored(h)

\* An account that was scanned at all is not ahead of the chain it was
\* checked against, except below the checkpoint where nothing is compared.
ScannedBelowTip ==
    \A a \in accounts :
        a.start < a.scan =>
            \/ \E h \in Height : a.scan <= h /\ Stored(h)
            \/ ~Regtest /\ a.scan < Checkpoint

\* What update relies on when it compares the block at the lower of the tip and
\* the last block of a batch: that block is stored, and the batch does not start
\* above the tip, so that the unsigned offset into it cannot wrap.
TipComparable == NoGapAboveCheckpoint /\ ScannedBelowTip

\* A step that adds block hashes (a synchronisation or a check-in) never
\* rewrites or drops a block at or below the last checkpoint, nor takes an
\* account back below it: only the rollback command does.
CheckpointFinal ==
    [][ (~Regtest /\ \E h \in Height : ~Stored(h) /\ blocks'[h] # NoBlock)
           => /\ \A h \in 0..Checkpoint : Stored(h) => blocks'[h] = blocks[h]
              /\ \A a \in accounts, b \in accounts' :
                    a.id = b.id => b.scan >= Min(a.scan, Checkpoint) ]_vars

\* A block that was scanned stays reflected in the account's rows: whatever a
\* rescan or import deletes at or above its height is scanned again before
\* the scan height passes it.
EveryScannedBlockStored ==
    \E c \in Chains :
        /\ OnChain(c) \/ (Regtest /\ blocks = InitialBlocks)
        /\ \A a \in accounts :
              PaidRows(a.id, a.address, c, a.start, a.scan) \subseteq outputs
=============================================================================
