--------------------------- MODULE StorageProofs ---------------------------
(***************************************************************************)
(* Proofs about the database, Storage, and about its callers in the REST   *)
(* server, RestAccounts, for every height bound, set of chains, checkpoint,*)
(* set of addresses, account ids and connections, and all payments in the  *)
(* blocks, in three parts.                                                 *)
(*                                                                         *)
(* Part 1, the tables: types, keys, indexes, and the stored chain.         *)
(* Part 2, the accounts: scan heights stay comparable with the stored      *)
(* chain, the checkpoint is final, and the outputs, spends and key images  *)
(* are those of the stored chain through every reorganisation, rescan and  *)
(* check-in.                                                               *)
(* Part 3, the REST handlers: they are callers of the database that keep   *)
(* to its contract, so what parts 1 and 2 prove of it holds under them;    *)
(* and an answer that reports a login or an import as done is true when it *)
(* is sent.                                                                *)
(***************************************************************************)
EXTENDS RestAccounts, TLAPS, WellFoundedInduction

(* Part 1: the tables *)

-----------------------------------------------------------------------------
(* The helpers *)

\* A clamped or rolled back height is a height.
LEMMA HeightTypes ==
    /\ \A a, b \in Height : Min(a, b) \in Height /\ Min(a, b) <= a
                            /\ Min(a, b) <= b
    /\ \A h \in Height : RollbackHeight(h) \in Height /\ RollbackHeight(h) <= h
  BY HeightAssumption DEF Height, Min, RollbackHeight

\* Chains give a hash to every height; the first is the genesis block.
LEMMA ChainTypes ==
    /\ \A c \in Chains : c \in [Height -> Hash]
    /\ \A c \in Chains : c[0] = Genesis
    /\ Genesis \in Hash
    /\ 0 \in Height
<1>1. 0 \in Height
  BY HeightAssumption DEF Height
<1>2. \A c \in Chains : c \in [Height -> Hash]
  BY ChainAssumption
<1>3. PICK d \in Chains : Genesis = d[0]
  BY ChainAssumption DEF Genesis
<1> QED
  BY <1>1, <1>2, <1>3, ChainAssumption

\* What a scan of a chain finds are rows of the outputs table...
LEMMA PaidRowsType ==
    ASSUME NEW id \in AccountId, NEW address \in Address, NEW c \in Chains,
           NEW lo \in Height, NEW hi \in Height
    PROVE  PaidRows(id, address, c, lo, hi) \subseteq OutputRow
<1> SUFFICES ASSUME NEW h \in (lo + 1)..hi, NEW p \in Payments[c[h]]
             PROVE  [id |-> id, height |-> h, hash |-> c[h],
                     output |-> p.output] \in OutputRow
  BY DEF PaidRows
<1>1. h \in Height
  BY HeightAssumption DEF Height
<1>2. c[h] \in Hash
  BY <1>1, ChainTypes
<1>3. p.output \in OutputId
  BY <1>2, TransactionAssumption
<1> QED
  BY <1>1, <1>2, <1>3 DEF OutputRow

\* ... and of the spends table.
LEMMA SpentRowsType ==
    ASSUME NEW id \in AccountId, NEW c \in Chains, NEW lo \in Height,
           NEW hi \in Height, NEW known
    PROVE  SpentRows(id, c, lo, hi, known) \subseteq SpendRow
<1> SUFFICES ASSUME NEW h \in (lo + 1)..hi, NEW i \in Inputs[c[h]]
             PROVE  [id |-> id, height |-> h, hash |-> c[h],
                     source |-> i.source, image |-> i.image] \in SpendRow
  BY DEF SpentRows
<1>1. h \in Height
  BY HeightAssumption DEF Height
<1>2. c[h] \in Hash
  BY <1>1, ChainTypes
<1>3. i \in [source : OutputId, image : Image]
  BY <1>2, TransactionAssumption
<1> QED
  BY <1>1, <1>2, <1>3 DEF SpendRow

\* The image of a spend is a row of the images table.
LEMMA ImageOfType == \A s \in SpendRow : ImageOf(s) \in ImageRow
  BY DEF SpendRow, ImageRow, ImageOf

\* A freshly opened database is well typed.
LEMMA InitialBlocksType == InitialBlocks \in [Height -> Hash \cup {NoBlock}]
  BY ChainTypes, CheckpointAssumption DEF InitialBlocks

\* Rolling accounts back keeps every table typed.
LEMMA RollbackAccountsType ==
    ASSUME TypeOK, NEW h \in Height, RollbackAccounts(h),
           blocks' \in [Height -> Hash \cup {NoBlock}]
    PROVE  TypeOK'
<1>1. \A a \in accounts : RolledBack(a, h) \in AccountRow
  BY HeightTypes DEF TypeOK, AccountRow, RolledBack
<1>2. accounts' \subseteq AccountRow
  BY <1>1 DEF RollbackAccounts
<1>3. accounts_bh' \subseteq ByHeightRow
  BY HeightTypes DEF TypeOK, RollbackAccounts, ByHeightRow
<1>4. /\ outputs' \subseteq OutputRow /\ spends' \subseteq SpendRow
      /\ images' \subseteq ImageRow /\ lost' \subseteq (AccountId \X Height)
      /\ accounts_ba' \subseteq ByAddressRow /\ requests' \subseteq RequestRow
  BY DEF TypeOK, RollbackAccounts, ImagesWithout
<1> QED
  BY <1>2, <1>3, <1>4 DEF TypeOK

-----------------------------------------------------------------------------
(* Types *)

\* sync_chain stores hashes of the daemon's chain.
LEMMA SyncChainType ==
    ASSUME TypeOK, NEW c \in Chains, NEW height \in Height, NEW last \in Height,
           SyncChain(height, last, c)
    PROVE  TypeOK'
<1>1. CASE /\ blocks' = [h \in Height |-> IF h \in height..last THEN c[h]
                                                               ELSE blocks[h]]
           /\ UNCHANGED <<accounts, accounts_ba, accounts_bh, outputs, spends,
                          images, requests, lost>>
  BY <1>1, ChainTypes DEF TypeOK
<1>2. CASE \E k \in Height :
              /\ blocks' = [h \in Height |-> IF h < k THEN blocks[h]
                                             ELSE IF h <= last THEN c[h]
                                             ELSE NoBlock]
              /\ RollbackAccounts(k)
  BY <1>2, ChainTypes, RollbackAccountsType DEF TypeOK
<1> QED
  BY <1>1, <1>2 DEF SyncChain

\* change_height, of rescan and import_scan
LEMMA ChangeHeightType ==
    ASSUME TypeOK, NEW height \in Height, NEW address \in Address,
           ChangeHeight(height, address)
    PROVE  /\ accounts' \subseteq AccountRow
           /\ accounts_bh' \subseteq ByHeightRow
           /\ outputs' \subseteq OutputRow /\ spends' \subseteq SpendRow
           /\ images' \subseteq ImageRow /\ lost' \subseteq (AccountId \X Height)
<1>1. PICK r \in ByAddress(address) : \E a \in Named(r) : \E b \in accounts_bh :
             /\ b.height = a.scan /\ b.id = a.id
             /\ CanDelete(Above(spends, a.id, height))
             /\ accounts' = (accounts \ {a}) \cup
                   {[a EXCEPT !.scan = Min(height, a.scan),
                              !.start = Min(height, a.start)]}
             /\ accounts_bh' = (accounts_bh \ {b}) \cup
                   {[height |-> Min(height, a.scan), id |-> r.id,
                     status |-> r.status]}
             /\ outputs' = outputs \ Above(outputs, a.id, height)
             /\ spends' = spends \ Above(spends, a.id, height)
             /\ images' = ImagesWithout(Above(spends, a.id, height))
             /\ lost' = {l \in lost : l[1] # a.id \/ l[2] < height} \cup
                   (IF a.start < height /\ height <= a.scan
                      THEN {<<a.id, height>>} ELSE {})
  BY Zenon DEF ChangeHeight
<1>2. PICK a \in Named(r) : \E b \in accounts_bh :
             /\ accounts' = (accounts \ {a}) \cup
                   {[a EXCEPT !.scan = Min(height, a.scan),
                              !.start = Min(height, a.start)]}
             /\ accounts_bh' = (accounts_bh \ {b}) \cup
                   {[height |-> Min(height, a.scan), id |-> r.id,
                     status |-> r.status]}
             /\ outputs' = outputs \ Above(outputs, a.id, height)
             /\ spends' = spends \ Above(spends, a.id, height)
             /\ images' = ImagesWithout(Above(spends, a.id, height))
             /\ lost' = {l \in lost : l[1] # a.id \/ l[2] < height} \cup
                   (IF a.start < height /\ height <= a.scan
                      THEN {<<a.id, height>>} ELSE {})
  BY <1>1
<1>3. r \in ByAddressRow /\ a \in AccountRow
  BY DEF TypeOK, ByAddress, Named
<1>4. Min(height, a.scan) \in Height /\ Min(height, a.start) \in Height
  BY <1>3, HeightTypes DEF AccountRow
<1>5. [a EXCEPT !.scan = Min(height, a.scan), !.start = Min(height, a.start)]
         \in AccountRow
  BY <1>3, <1>4 DEF AccountRow
<1>6. [height |-> Min(height, a.scan), id |-> r.id, status |-> r.status]
         \in ByHeightRow
  BY <1>3, <1>4 DEF ByAddressRow, ByHeightRow
<1>7. <<a.id, height>> \in AccountId \X Height
  BY <1>3 DEF AccountRow
<1> QED
  BY <1>2, <1>5, <1>6, <1>7 DEF TypeOK, ImagesWithout

\* do_add_account, of add_account and an accepted creation request
LEMMA DoAddAccountType ==
    ASSUME TypeOK, NEW id \in AccountId, NEW address \in Address,
           NEW height \in Height, NEW flags \in Flags,
           DoAddAccount(id, address, height, InitialStatus(flags))
    PROVE  /\ accounts' \subseteq AccountRow
           /\ accounts_ba' \subseteq ByAddressRow
           /\ accounts_bh' \subseteq ByHeightRow
<1>1. InitialStatus(flags) \in Status
  BY DEF InitialStatus, Status
<1> QED
  BY <1>1 DEF TypeOK, DoAddAccount, AccountRow, ByAddressRow, ByHeightRow

\* A check-in stores typed rows when it is given typed rows.
LEMMA UpdateType ==
    ASSUME TypeOK, NEW height \in Height, NEW last \in Height, NEW chain,
           chain \in [Height -> Hash], NEW users,
           \A u \in users : /\ u.outputs \subseteq OutputRow
                             /\ u.spends \subseteq SpendRow,
           Update(height, last, chain, users)
    PROVE  TypeOK'
<1>1. blocks' \in [Height -> Hash \cup {NoBlock}]
  BY DEF Update, TypeOK
<1>2. accounts' \subseteq AccountRow
  BY DEF Update, TypeOK, AccountRow
<1>3. accounts_bh' \subseteq ByHeightRow
  BY DEF Update, TypeOK, ByHeightRow, Advanced, AccountRow
<1>4. outputs' \subseteq OutputRow /\ spends' \subseteq SpendRow
  BY DEF Update, TypeOK, StoredUsers
<1>5. images' \subseteq ImageRow
  BY ImageOfType DEF Update, TypeOK, StoredUsers
<1>6. /\ lost' \subseteq (AccountId \X Height)
      /\ accounts_ba' \subseteq ByAddressRow /\ requests' \subseteq RequestRow
  BY DEF Update, TypeOK
<1> QED
  BY <1>1, <1>2, <1>3, <1>4, <1>5, <1>6 DEF TypeOK

\* The rows that a scanner hands to update are typed.
LEMMA CallUpdateType ==
    ASSUME TypeOK, CallUpdate PROVE TypeOK'
<1>1. PICK c \in Chains, height \in Height :
        \E last \in height..MaxHeight : \E some \in SUBSET accounts :
        \E known \in SUBSET OutputId : \E s \in [some -> height..MaxHeight] :
           CheckInOf(c, height, last, some, known, s)
  BY Zenon DEF CallUpdate
<1>2. PICK last \in height..MaxHeight, some \in SUBSET accounts,
           known \in SUBSET OutputId : \E s \in [some -> height..MaxHeight] :
           CheckInOf(c, height, last, some, known, s)
  BY <1>1, Zenon
<1>3. PICK s \in [some -> height..MaxHeight] :
           CheckInOf(c, height, last, some, known, s)
  BY <1>2, Zenon
<1>4. PICK chain \in {c, FromGenesis(c)} :
           Update(height, last, chain,
                  {ScannedUser(a, s[a], c, last, known) : a \in some})
  BY <1>3, Zenon DEF CheckInOf
<1>5. last \in Height
  BY HeightAssumption DEF Height
<1>6. chain \in [Height -> Hash]
  <2>1. c \in [Height -> Hash]
    BY ChainTypes
  <2>2. FromGenesis(c) \in [Height -> Hash]
    BY <2>1, HeightAssumption DEF FromGenesis, Height
  <2> QED
    BY <2>1, <2>2
<1>7. \A a \in some : /\ a.id \in AccountId /\ a.address \in Address
                       /\ s[a] \in Height
  BY HeightAssumption DEF TypeOK, AccountRow, Height
<1>8. ASSUME NEW u \in {ScannedUser(a, s[a], c, last, known) : a \in some}
      PROVE  u.outputs \subseteq OutputRow /\ u.spends \subseteq SpendRow
  <2>1. PICK a \in some : u = ScannedUser(a, s[a], c, last, known)
    BY <1>8
  <2>2. PaidRows(a.id, a.address, c, s[a], last) \subseteq OutputRow
    BY <1>5, <1>7, PaidRowsType
  <2>3. SpentRows(a.id, c, s[a], last, known) \subseteq SpendRow
    BY <1>5, <1>7, SpentRowsType
  <2> QED
    BY <2>1, <2>2, <2>3 DEF ScannedUser
<1> QED
  BY <1>4, <1>5, <1>6, <1>8, UpdateType

\* Type correctness is inductive on its own.
LEMMA TypeStep == TypeOK /\ [Next]_vars => TypeOK'
<1> SUFFICES ASSUME TypeOK, [Next]_vars PROVE TypeOK'
  OBVIOUS
<1>1. CASE UNCHANGED vars
  BY <1>1 DEF TypeOK, vars
<1>2. CASE Open
  BY <1>2, InitialBlocksType DEF TypeOK, Open
<1>3. ASSUME NEW h \in AskedHeights, Rollback(h) PROVE TypeOK'
  <2>1. h \in Height
    BY HeightAssumption
  <2>2. blocks' \in [Height -> Hash \cup {NoBlock}]
    BY <1>3 DEF TypeOK, Rollback
  <2> QED
    BY <1>3, <2>1, <2>2, RollbackAccountsType DEF Rollback
<1>4. CASE CallSyncChain
  <2>1. PICK c \in Chains, height \in Height : \E last \in height..MaxHeight :
              SyncChain(height, last, c)
    BY <1>4, Zenon DEF CallSyncChain
  <2>2. PICK last \in height..MaxHeight : SyncChain(height, last, c)
    BY <2>1, Zenon
  <2>3. last \in Height
    BY HeightAssumption DEF Height
  <2> QED
    BY <2>2, <2>3, SyncChainType
<1>5. CASE CallUpdate
  BY <1>5, CallUpdateType
<1>6. ASSUME NEW address \in Address, NEW flags \in Flags,
             AddAccount(address, flags)
      PROVE  TypeOK'
  <2>1. PICK tip \in Height, i \in AccountId :
              DoAddAccount(i, address, tip, InitialStatus(flags))
    BY <1>6, Zenon DEF AddAccount
  <2>2. /\ accounts' \subseteq AccountRow
        /\ accounts_ba' \subseteq ByAddressRow
        /\ accounts_bh' \subseteq ByHeightRow
    BY <2>1, DoAddAccountType
  <2> QED
    BY <1>6, <2>2 DEF TypeOK, AddAccount
<1>7. ASSUME NEW address \in Address, NEW flags \in Flags,
             CreationRequest(address, flags)
      PROVE  TypeOK'
  BY <1>7 DEF TypeOK, CreationRequest, RequestRow, RequestType
<1>8. ASSUME NEW address \in Address, NEW status \in Status,
             ChangeStatus(status, address)
      PROVE  TypeOK'
  <2>1. \A r \in ByAddress(address) :
           /\ r \in ByAddressRow
           /\ [r EXCEPT !.status = status] \in ByAddressRow
           /\ \A a \in Named(r) : [a EXCEPT !.status = status] \in AccountRow
    BY DEF TypeOK, ByAddress, Named, ByAddressRow, AccountRow
  <2>2. \A b \in accounts_bh : [b EXCEPT !.status = status] \in ByHeightRow
    BY DEF TypeOK, ByHeightRow
  <2>3. /\ accounts' \subseteq AccountRow
        /\ accounts_ba' \subseteq ByAddressRow
        /\ accounts_bh' \subseteq ByHeightRow
    BY <1>8, <2>1, <2>2 DEF TypeOK, ChangeStatus
  <2> QED
    BY <1>8, <2>3 DEF TypeOK, ChangeStatus
<1>9. ASSUME NEW address \in Address, NEW height \in AskedHeights,
             Rescan(height, address)
      PROVE  TypeOK'
  <2>1. height \in Height
    BY HeightAssumption
  <2> QED
    BY <1>9, <2>1, ChangeHeightType DEF TypeOK, Rescan
<1>10. ASSUME NEW address \in Address, NEW height \in AskedHeights,
              ImportRequest(address, height)
       PROVE  TypeOK'
  BY <1>10, HeightAssumption
     DEF TypeOK, ImportRequest, RequestRow, RequestType, Flags
<1>11. ASSUME NEW address \in Address, CreateAccount(address) PROVE TypeOK'
  <2>1. PICK q \in FindRequest("create", address) :
          /\ requests' = requests \ {q}
          /\ IF q.address.view = address.view /\ ByAddress(address) = {}
               THEN \E i \in AccountId :
                       /\ IsLastId(i - 1)
                       /\ DoAddAccount(i, address, q.start,
                                       InitialStatus(q.flags))
               ELSE UNCHANGED <<accounts, accounts_ba, accounts_bh>>
    BY <1>11, Zenon DEF CreateAccount
  <2>2. q.start \in Height /\ q.flags \in Flags
    BY DEF TypeOK, FindRequest, RequestRow
  <2>3. /\ accounts' \subseteq AccountRow
        /\ accounts_ba' \subseteq ByAddressRow
        /\ accounts_bh' \subseteq ByHeightRow
    BY <2>1, <2>2, DoAddAccountType DEF TypeOK
  <2> QED
    BY <1>11, <2>1, <2>3 DEF TypeOK, CreateAccount
<1>12. ASSUME NEW address \in Address, ImportAccount(address) PROVE TypeOK'
  <2>1. PICK q \in FindRequest("import_scan", address) :
          /\ requests' = requests \ {q}
          /\ IF ByAddress(address) # {}
               THEN ChangeHeight(q.start, address)
               ELSE UNCHANGED <<accounts, accounts_bh, outputs, spends, images,
                                lost>>
    BY <1>12, Zenon DEF ImportAccount
  <2>2. q.start \in Height
    BY DEF TypeOK, FindRequest, RequestRow
  <2> QED
    BY <1>12, <2>1, <2>2, ChangeHeightType DEF TypeOK, ImportAccount
<1>13. ASSUME NEW address \in Address, NEW type \in RequestType,
              RejectRequest(type, address)
       PROVE  TypeOK'
  BY <1>13 DEF TypeOK, RejectRequest
<1> QED
  BY <1>1, <1>2, <1>3, <1>4, <1>5, <1>6, <1>7, <1>8, <1>9, <1>10, <1>11,
     <1>12, <1>13 DEF Next

\* Every table keeps its type: no rollback, clamped height or check-in takes a
\* height outside the chain, and every row found by a scan is a row.
THEOREM TypeCorrect == Spec => []TypeOK
<1>1. Init => TypeOK
  BY InitialBlocksType DEF Init, TypeOK
<1> QED
  BY <1>1, TypeStep, PTL DEF Spec

-----------------------------------------------------------------------------
(* The indexes *)

\* The rows of the two indexes that belong to an account.
BA(a) == [address |-> a.address, id |-> a.id, status |-> a.status]
BH(a) == [height |-> a.scan, id |-> a.id, status |-> a.status]

(***************************************************************************)
(* KeysUnique and IndexesAgree need each other: a row found by its id in   *)
(* an index is the one to be moved only because ids are unique, and a view *)
(* key absent from the index is new only because the index is complete.    *)
(***************************************************************************)
IndexInv == TypeOK /\ KeysUnique /\ IndexesAgree

\* The index rows are those of the accounts, one by one.
LEMMA IndexRows ==
    ASSUME IndexInv
    PROVE  /\ accounts_ba = {BA(a) : a \in accounts}
           /\ accounts_bh = {BH(a) : a \in accounts}
           /\ \A a, b \in accounts : a.id = b.id => a = b
           /\ \A a \in accounts : a \in AccountRow
  BY DEF IndexInv, IndexesAgree, KeysUnique, TypeOK, BA, BH

\* Both indexes follow when every account a is replaced by its new version
\* f[a], which has the same id and address.
LEMMA IndexesKept ==
    ASSUME IndexInv, NEW f, DOMAIN f = accounts,
           \A a \in accounts : f[a].id = a.id /\ f[a].address = a.address,
           accounts' = {f[a] : a \in accounts},
           accounts_ba' = {BA(f[a]) : a \in accounts},
           accounts_bh' = {BH(f[a]) : a \in accounts}
    PROVE  KeysUnique' /\ IndexesAgree'
<1>1. KeysUnique'
  BY DEF IndexInv, KeysUnique
<1>2. accounts_ba' = {BA(a) : a \in accounts'}
  OBVIOUS
<1>3. accounts_bh' = {BH(a) : a \in accounts'}
  OBVIOUS
<1> QED
  BY <1>1, <1>2, <1>3 DEF IndexesAgree, BA, BH

\* rollback_accounts visits exactly the accounts at or above the height.
LEMMA AffectedIff ==
    ASSUME IndexInv, NEW a \in accounts, NEW h \in Height
    PROVE  Affected(a, h) <=> a.scan >= h
<1>1. BH(a) \in accounts_bh
  BY IndexRows
<1>2. ASSUME NEW b \in accounts_bh, b.id = a.id PROVE b = BH(a)
  <2>1. PICK x \in accounts : b = BH(x)
    BY <1>2, IndexRows
  <2>2. x.id = a.id
    BY <1>2, <2>1 DEF BH
  <2> QED
    BY <2>1, <2>2, IndexRows
<1>3. BH(a).height = a.scan /\ BH(a).id = a.id /\ BH(a).status = a.status
  BY DEF BH
<1>4. Affected(a, h) <=> BH(a).height >= h
  BY <1>1, <1>2, <1>3 DEF Affected
<1> QED
  BY <1>3, <1>4

\* rollback_chain moves accounts and index rows alike.
LEMMA RollbackIndexes ==
    ASSUME IndexInv, NEW h \in Height, RollbackAccounts(h)
    PROVE  KeysUnique' /\ IndexesAgree'
<1> DEFINE f == [a \in accounts |-> RolledBack(a, h)]
<1>1. \A a \in accounts : a \in AccountRow
  BY IndexRows
<1>2. \A a \in accounts :
         /\ f[a].id = a.id /\ f[a].address = a.address
         /\ f[a].status = a.status
         /\ f[a].scan = IF a.scan >= h THEN RollbackHeight(h) ELSE a.scan
  BY <1>1, AffectedIff DEF RolledBack, AccountRow
<1>3. accounts' = {f[a] : a \in accounts}
  BY DEF RollbackAccounts
<1>4. accounts_ba' = {BA(f[a]) : a \in accounts}
  BY <1>2, IndexRows DEF RollbackAccounts, BA
<1>5. accounts_bh' = {BH(f[a]) : a \in accounts}
  <2>1. ASSUME NEW a \in accounts
        PROVE  BH(f[a]) = IF BH(a).height < h THEN BH(a)
                          ELSE [BH(a) EXCEPT !.height = RollbackHeight(h)]
    <3>1. BH(a).height = a.scan
      BY DEF BH
    <3>2. a.scan \in Int /\ h \in Int
      BY <1>1, HeightAssumption DEF AccountRow, Height
    <3>3. CASE a.scan < h
      BY <1>2, <3>1, <3>2, <3>3 DEF BH
    <3>4. CASE a.scan >= h
      BY <1>2, <3>1, <3>2, <3>4 DEF BH
    <3> QED
      BY <3>2, <3>3, <3>4
  <2>2. \A b \in accounts_bh : b.height < h \/ b.height >= h
    BY HeightAssumption DEF IndexInv, TypeOK, ByHeightRow, Height
  <2>3. accounts_bh' = {IF b.height < h THEN b
                        ELSE [b EXCEPT !.height = RollbackHeight(h)] :
                           b \in accounts_bh}
    BY <2>2, HeightAssumption
       DEF RollbackAccounts, IndexInv, TypeOK, ByHeightRow, Height
  <2> QED
    BY <2>1, <2>3, IndexRows
<1> HIDE DEF f
<1>6. DOMAIN f = accounts
  BY DEF f
<1> QED
  BY <1>2, <1>3, <1>4, <1>5, <1>6, IndexesKept

\* One account is replaced by n, together with its two index rows.
LEMMA ReplaceOne ==
    ASSUME IndexInv, NEW a \in accounts, NEW n,
           n.id = a.id, n.address = a.address,
           accounts' = (accounts \ {a}) \cup {n},
           accounts_ba' = (accounts_ba \ {BA(a)}) \cup {BA(n)},
           accounts_bh' = (accounts_bh \ {BH(a)}) \cup {BH(n)}
    PROVE  KeysUnique' /\ IndexesAgree'
<1> DEFINE f == [x \in accounts |-> IF x = a THEN n ELSE x]
<1>1. \A x \in accounts : x # a => BA(x) # BA(a) /\ BH(x) # BH(a)
  <2>1. \A x \in accounts : x # a => x.id # a.id
    BY IndexRows
  <2> QED
    BY <2>1 DEF BA, BH
<1>2. \A x \in accounts : f[x].id = x.id /\ f[x].address = x.address
  OBVIOUS
<1>3. accounts' = {f[x] : x \in accounts}
  OBVIOUS
<1>4. accounts_ba' = {BA(f[x]) : x \in accounts}
  BY <1>1, IndexRows
<1>5. accounts_bh' = {BH(f[x]) : x \in accounts}
  BY <1>1, IndexRows
<1> HIDE DEF f
<1>6. DOMAIN f = accounts
  BY DEF f
<1> QED
  BY <1>2, <1>3, <1>4, <1>5, <1>6, IndexesKept

\* The row that the address index names, and the one found by height and id.
LEMMA NamedRows ==
    ASSUME IndexInv, NEW address, NEW r \in ByAddress(address),
           NEW a \in Named(r), NEW b \in accounts_bh,
           b.height = a.scan, b.id = a.id
    PROVE  a \in accounts /\ r = BA(a) /\ b = BH(a)
<1>1. a \in accounts /\ a.id = r.id
  BY DEF Named
<1>2. PICK x \in accounts : r = BA(x)
  BY IndexRows DEF ByAddress
<1>3. PICK y \in accounts : b = BH(y)
  BY IndexRows
<1>4. x.id = a.id /\ y.id = a.id
  BY <1>1, <1>2, <1>3 DEF BA, BH
<1> QED
  BY <1>1, <1>2, <1>3, <1>4, IndexRows

\* change_status rewrites the account and both index rows.
LEMMA ChangeStatusIndexes ==
    ASSUME IndexInv, NEW status, NEW address, ChangeStatus(status, address)
    PROVE  KeysUnique' /\ IndexesAgree'
<1>1. PICK r, a, b :
       /\ r \in ByAddress(address) /\ a \in Named(r) /\ b \in accounts_bh
       /\ b.height = a.scan /\ b.id = a.id
       /\ accounts_ba' = (accounts_ba \ {r})
                         \cup {[r EXCEPT !.status = status]}
       /\ accounts' = (accounts \ {a}) \cup {[a EXCEPT !.status = status]}
       /\ accounts_bh' = (accounts_bh \ {b})
                         \cup {[b EXCEPT !.status = status]}
  BY Zenon DEF ChangeStatus
<1>2. a \in accounts /\ r = BA(a) /\ b = BH(a)
  BY <1>1, NamedRows
<1> DEFINE n == [a EXCEPT !.status = status]
<1>3. a \in AccountRow
  BY <1>2, IndexRows
<1>4. /\ n.id = a.id /\ n.address = a.address
      /\ BA(n) = [r EXCEPT !.status = status]
      /\ BH(n) = [b EXCEPT !.status = status]
  BY <1>2, <1>3 DEF AccountRow, BA, BH
<1> HIDE DEF n
<1>5. accounts' = (accounts \ {a}) \cup {n}
  BY <1>1 DEF n
<1> QED
  BY <1>1, <1>2, <1>4, <1>5, ReplaceOne

\* change_height moves the account and its row in the height index.
LEMMA ChangeHeightIndexes ==
    ASSUME IndexInv, NEW height, NEW address, ChangeHeight(height, address),
           UNCHANGED accounts_ba
    PROVE  KeysUnique' /\ IndexesAgree'
<1>1. PICK r, a, b :
       /\ r \in ByAddress(address) /\ a \in Named(r) /\ b \in accounts_bh
       /\ b.height = a.scan /\ b.id = a.id
       /\ accounts' = (accounts \ {a}) \cup
             {[a EXCEPT !.scan = Min(height, a.scan),
                        !.start = Min(height, a.start)]}
       /\ accounts_bh' = (accounts_bh \ {b}) \cup
             {[height |-> Min(height, a.scan), id |-> r.id,
               status |-> r.status]}
  BY Zenon DEF ChangeHeight
<1>2. a \in accounts /\ r = BA(a) /\ b = BH(a)
  BY <1>1, NamedRows
<1> DEFINE n == [a EXCEPT !.scan = Min(height, a.scan),
                          !.start = Min(height, a.start)]
<1>3. a \in AccountRow
  BY <1>2, IndexRows
<1>4. /\ n.id = a.id /\ n.address = a.address
      /\ BA(n) = r
      /\ BH(n) = [height |-> Min(height, a.scan), id |-> r.id,
                  status |-> r.status]
  BY <1>2, <1>3 DEF AccountRow, BA, BH
<1> HIDE DEF n
<1>5. accounts_ba' = (accounts_ba \ {BA(a)}) \cup {BA(n)}
  <2>1. r \in accounts_ba
    BY <1>1 DEF ByAddress
  <2> QED
    BY <1>2, <1>4, <2>1
<1>6. accounts' = (accounts \ {a}) \cup {n}
  BY <1>1 DEF n
<1> QED
  BY <1>1, <1>2, <1>4, <1>5, <1>6, ReplaceOne

\* do_add_account, with the id after the last one, adds one row to each table.
LEMMA DoAddAccountIndexes ==
    ASSUME IndexInv, NEW id \in AccountId, NEW address, NEW height, NEW status,
           IsLastId(id - 1), DoAddAccount(id, address, height, status)
    PROVE  KeysUnique' /\ IndexesAgree'
<1> DEFINE n == [id |-> id, address |-> address, status |-> status,
                 scan |-> height, start |-> height]
<1>1. /\ accounts' = accounts \cup {n}
      /\ accounts_ba' = accounts_ba \cup {BA(n)}
      /\ accounts_bh' = accounts_bh \cup {BH(n)}
  BY DEF DoAddAccount, BA, BH
<1>2. n.id = id /\ n.address = address
  OBVIOUS
<1> HIDE DEF n
<1>3. \A a \in accounts : a.id # id
  <2>1. id \in Int /\ \A a \in accounts : a.id \in Int
    <3>1. AccountId \subseteq Int
      BY HeightAssumption
    <3>2. \A a \in accounts : a.id \in AccountId
      BY IndexRows DEF AccountRow
    <3> QED
      BY <3>1, <3>2
  <2>2. \A a \in accounts : a.id <= id - 1
    BY DEF IsLastId
  <2> QED
    BY <2>1, <2>2
<1>4. \A a \in accounts : a.address.view # address.view
  <2>1. \A a \in accounts : BA(a) \in accounts_ba /\ BA(a).address = a.address
    BY IndexRows DEF BA
  <2>2. \A r \in accounts_ba : r.address.view # address.view
    BY DEF DoAddAccount, ByAddress
  <2> QED
    BY <2>1, <2>2
<1>5. KeysUnique'
  BY <1>1, <1>2, <1>3, <1>4 DEF KeysUnique, IndexInv
<1>6. IndexesAgree'
  BY <1>1, IndexRows DEF IndexesAgree, BA, BH
<1> QED
  BY <1>5, <1>6

\* update: the row it deletes from the height index is that of the account.
LEMMA UpdateIndexes ==
    ASSUME IndexInv, NEW height, NEW last, NEW chain, NEW users,
           Update(height, last, chain, users)
    PROVE  KeysUnique' /\ IndexesAgree'
<1> DEFINE adv == Advanced(users, last)
           f == [a \in accounts |-> IF a \in adv THEN [a EXCEPT !.scan = last]
                                                 ELSE a]
<1>1. \A a \in accounts :
         /\ f[a].id = a.id /\ f[a].address = a.address
         /\ f[a].status = a.status
         /\ f[a].scan = IF a \in adv THEN last ELSE a.scan
  BY IndexRows DEF AccountRow
<1>2. accounts' = {f[a] : a \in accounts}
  BY DEF Update
<1>3. accounts_ba' = {BA(f[a]) : a \in accounts}
  BY <1>1, IndexRows DEF Update, BA
<1>4. adv \subseteq accounts
  BY DEF Advanced
<1>5. accounts_bh' = {BH(f[a]) : a \in accounts}
  <2>1. accounts_bh' =
           {b \in accounts_bh : ~ \E a \in adv : b.height = a.scan /\ b.id = a.id}
           \cup {[height |-> last, id |-> a.id, status |-> a.status] : a \in adv}
    BY DEF Update
  <2>2. \A a \in accounts :
           BH(f[a]) = IF a \in adv
                        THEN [height |-> last, id |-> a.id, status |-> a.status]
                        ELSE BH(a)
    BY <1>1 DEF BH
  <2>3. \A x \in accounts :
           (\E a \in adv : BH(x).height = a.scan /\ BH(x).id = a.id) <=> x \in adv
    BY <1>4, IndexRows DEF BH
  <2> HIDE DEF f, adv
  <2>4. {b \in accounts_bh : ~ \E a \in adv : b.height = a.scan /\ b.id = a.id}
           = {BH(x) : x \in accounts \ adv}
    BY <2>3, IndexRows
  <2>5. {BH(x) : x \in accounts \ adv} = {BH(f[x]) : x \in accounts \ adv}
    BY <2>2
  <2>6. {[height |-> last, id |-> a.id, status |-> a.status] : a \in adv}
           = {BH(f[a]) : a \in adv}
    BY <1>4, <2>2
  <2> HIDE DEF BH
  <2> QED
    BY <1>4, <2>1, <2>4, <2>5, <2>6
<1>6. DOMAIN f = accounts
  OBVIOUS
<1> HIDE DEF f, adv
<1> QED
  BY <1>1, <1>2, <1>3, <1>5, <1>6, IndexesKept

\* Every operation preserves the index invariant.
LEMMA IndexStep == IndexInv /\ [Next]_vars => IndexInv'
<1> SUFFICES ASSUME IndexInv, [Next]_vars PROVE KeysUnique' /\ IndexesAgree'
  BY TypeStep DEF IndexInv
<1>1. CASE UNCHANGED <<accounts, accounts_ba, accounts_bh>>
  BY <1>1 DEF IndexInv, KeysUnique, IndexesAgree
<1>2. ASSUME NEW h \in AskedHeights, Rollback(h)
      PROVE  KeysUnique' /\ IndexesAgree'
  BY <1>2, HeightAssumption, RollbackIndexes DEF Rollback
<1>3. CASE CallSyncChain
  <2>1. PICK c \in Chains, height \in Height : \E last \in height..MaxHeight :
              SyncChain(height, last, c)
    BY <1>3, Zenon DEF CallSyncChain
  <2>2. PICK last \in height..MaxHeight : SyncChain(height, last, c)
    BY <2>1, Zenon
  <2>3. CASE \E k \in Height : RollbackAccounts(k)
    BY <2>3, RollbackIndexes
  <2> QED
    BY <1>1, <2>2, <2>3 DEF SyncChain
<1>4. CASE CallUpdate
  <2>1. PICK height, last, chain, users : Update(height, last, chain, users)
    BY <1>4, Zenon DEF CallUpdate, CheckInOf
  <2> QED
    BY <2>1, UpdateIndexes
<1>5. ASSUME NEW address \in Address, NEW flags \in Flags,
             AddAccount(address, flags)
      PROVE  KeysUnique' /\ IndexesAgree'
  BY <1>5, DoAddAccountIndexes DEF AddAccount
<1>6. ASSUME NEW address \in Address, NEW status \in Status,
             ChangeStatus(status, address)
      PROVE  KeysUnique' /\ IndexesAgree'
  BY <1>6, ChangeStatusIndexes
<1>7. ASSUME NEW address \in Address, NEW height \in AskedHeights,
             Rescan(height, address)
      PROVE  KeysUnique' /\ IndexesAgree'
  BY <1>7, ChangeHeightIndexes DEF Rescan
<1>8. ASSUME NEW address \in Address, CreateAccount(address)
      PROVE  KeysUnique' /\ IndexesAgree'
  <2>1. \/ \E i \in AccountId : \E start, status :
              IsLastId(i - 1) /\ DoAddAccount(i, address, start, status)
        \/ UNCHANGED <<accounts, accounts_ba, accounts_bh>>
    BY <1>8, Zenon DEF CreateAccount
  <2> QED
    BY <1>1, <2>1, DoAddAccountIndexes
<1>9. ASSUME NEW address \in Address, ImportAccount(address)
      PROVE  KeysUnique' /\ IndexesAgree'
  <2>1. /\ UNCHANGED accounts_ba
        /\ \/ \E start : ChangeHeight(start, address)
           \/ UNCHANGED <<accounts, accounts_bh>>
    BY <1>9, Zenon DEF ImportAccount
  <2> QED
    BY <1>1, <2>1, ChangeHeightIndexes
<1>10. CASE UNCHANGED vars
  BY <1>1, <1>10 DEF vars
<1>11. CASE Open
  BY <1>1, <1>11 DEF Open
<1>12. ASSUME NEW address \in Address, NEW flags \in Flags,
              CreationRequest(address, flags)
       PROVE  KeysUnique' /\ IndexesAgree'
  BY <1>1, <1>12 DEF CreationRequest
<1>13. ASSUME NEW address \in Address, NEW height \in AskedHeights,
              ImportRequest(address, height)
       PROVE  KeysUnique' /\ IndexesAgree'
  BY <1>1, <1>13 DEF ImportRequest
<1>14. ASSUME NEW address \in Address, NEW type \in RequestType,
              RejectRequest(type, address)
       PROVE  KeysUnique' /\ IndexesAgree'
  BY <1>1, <1>14 DEF RejectRequest
<1> QED
  BY <1>2, <1>3, <1>4, <1>5, <1>6, <1>7, <1>8, <1>9, <1>10, <1>11, <1>12,
     <1>13, <1>14 DEF Next

\* The index invariant holds in every reachable state of the database.
LEMMA IndexInvariant == Spec => []IndexInv
<1>1. Init => IndexInv
  <2>1. Init => TypeOK
    BY InitialBlocksType DEF Init, TypeOK
  <2> QED
    BY <2>1 DEF Init, IndexInv, KeysUnique, IndexesAgree
<1> QED
  BY <1>1, IndexStep, PTL DEF Spec

\* Account ids and view keys stay unique through every sequence of creations,
\* status changes, check-ins and rollbacks.
THEOREM KeysAreUnique == Spec => []KeysUnique
<1>1. IndexInv => KeysUnique
  BY DEF IndexInv
<1> QED
  BY <1>1, IndexInvariant, PTL

\* Both secondary indexes hold exactly one row for every account, with its
\* current status and scan height.
THEOREM IndexesComplete == Spec => []IndexesAgree
<1>1. IndexInv => IndexesAgree
  BY DEF IndexInv
<1> QED
  BY <1>1, IndexInvariant, PTL

-----------------------------------------------------------------------------
(* The chain *)

ChainInv == TypeOK /\ BlocksOnOneChain

\* A non-empty set of natural numbers has a least element.
LEMMA LeastNatural ==
    ASSUME NEW T, T \subseteq Nat, T # {}
    PROVE  \E x \in T : \A y \in T : x <= y
<1> DEFINE R == OpToRel(<, Nat)
<1>1. IsWellFoundedOn(R, Nat)
  BY NatLessThanWellFounded
<1>2. \A x, y \in Nat : <<y, x>> \in R <=> y < x
  BY DEF OpToRel
<1> HIDE DEF R
<1>3. PICK x \in T : \A y \in T : ~ (<<y, x>> \in R)
  BY <1>1, WFMin
<1>4. \A y \in T : y \in Nat /\ x \in Nat /\ ~(y < x)
  BY <1>2, <1>3
<1>5. \A y \in T : x <= y
  BY <1>4
<1> QED
  BY <1>5

\* Two chains that share a hash share it at one height, and all below.
LEMMA ChainsAgree ==
    ASSUME NEW c \in Chains, NEW d \in Chains, NEW h \in Height,
           NEW k \in Height, c[h] = d[k]
    PROVE  h = k /\ \A j \in Height : j <= h => c[j] = d[j]
<1>1. h = k
  BY ChainAssumption
<1>2. \A j \in 0..h : c[j] = d[j]
  BY <1>1, ChainAssumption
<1> QED
  BY <1>1, <1>2, HeightAssumption DEF Height

\* sync_chain leaves the hashes on one of the two chains: the walk has
\* compared every row that it keeps.
LEMMA SyncChainOnChain ==
    ASSUME TypeOK, NEW c \in Chains, OnChain(c), NEW d \in Chains,
           NEW height \in Height, NEW last \in Height, height <= last,
           SyncChain(height, last, d)
    PROVE  \E e \in Chains : OnChain(e)'
<1> USE HeightAssumption DEF Height
<1>1. c[height] = d[height]
  BY DEF SyncChain, OnChain
<1>2. \A j \in Height : j <= height => c[j] = d[j]
  BY <1>1, ChainsAgree
<1>3. CASE /\ \A k \in (height + 1)..last : ~Diverges(d, k)
           /\ blocks' = [h \in Height |-> IF h \in height..last THEN d[h]
                                                               ELSE blocks[h]]
  <2>1. CASE \A j \in Height : j > last => ~Stored(j)
    <3>1. OnChain(d)'
      BY <1>2, <1>3, <2>1 DEF OnChain, Stored
    <3> QED
      BY <3>1
  <2>2. CASE \E j \in Height : j > last /\ Stored(j)
    <3>1. Stored(last) /\ blocks[last] = d[last]
      <4>1. CASE last = height
        BY <4>1 DEF SyncChain
      <4>2. CASE last > height
        <5>1. PICK j \in Height : /\ j >= last /\ Stored(j)
                                  /\ \A i \in last..(j - 1) : ~Stored(i)
          <6> DEFINE T == {j \in Height : j >= last /\ Stored(j)}
          <6>1. T \subseteq Nat /\ T # {}
            BY <2>2
          <6> HIDE DEF T
          <6>2. PICK j \in T : \A i \in T : j <= i
            BY <6>1, LeastNatural
          <6>3. /\ j \in Height /\ j >= last /\ Stored(j)
                /\ \A i \in last..(j - 1) : i \in Height /\ i \notin T
            BY <6>2 DEF T
          <6> QED
            BY <6>3 DEF T
        <5>2. blocks[j] = d[last]
          BY <1>3, <4>2, <5>1 DEF Diverges
        <5>3. blocks[j] = c[j]
          BY <5>1 DEF OnChain
        <5>4. c[j] = d[last]
          BY <5>2, <5>3
        <5>5. j = last
          BY <5>4, ChainAssumption
        <5> QED
          BY <5>1, <5>2, <5>5
      <4> QED
        BY <4>1, <4>2
    <3>2. c[last] = d[last]
      BY <3>1 DEF OnChain
    <3>3. \A j \in Height : j <= last => c[j] = d[j]
      BY <3>2, ChainsAgree
    <3>4. OnChain(c)'
      BY <1>3, <3>3 DEF OnChain, Stored
    <3> QED
      BY <3>4
  <2> QED
    BY <2>1, <2>2
<1>4. CASE \E k \in Height :
              /\ FirstDivergence(d, height, last, k)
              /\ blocks' = [h \in Height |-> IF h < k THEN blocks[h]
                                             ELSE IF h <= last THEN d[h]
                                             ELSE NoBlock]
  <2>1. PICK k \in Height :
              /\ FirstDivergence(d, height, last, k)
              /\ blocks' = [h \in Height |-> IF h < k THEN blocks[h]
                                             ELSE IF h <= last THEN d[h]
                                             ELSE NoBlock]
    BY <1>4
  <2>2. ASSUME NEW h \in Height, height < h, h < k, Stored(h)
        PROVE  blocks[h] = d[h]
    <3>1. ~Diverges(d, h)
      BY <2>1, <2>2 DEF FirstDivergence
    <3> QED
      BY <2>2, <3>1 DEF Diverges
  <2>3. \A h \in Height : h < k /\ Stored(h) => blocks[h] = d[h]
    BY <1>2, <2>2 DEF OnChain
  <2>4. OnChain(d)'
    BY <2>1, <2>3 DEF OnChain, Stored
  <2> QED
    BY <2>4
<1> QED
  BY <1>3, <1>4 DEF SyncChain

\* A hash that a scanner passes for a height above 0 is that of its chain.
LEMMA PassedHash ==
    ASSUME NEW d \in Chains, NEW chain \in {d, FromGenesis(d)},
           NEW h \in Height, h # 0
    PROVE  chain[h] = d[h]
<1>1. CASE chain = d
  BY <1>1
<1>2. CASE chain = FromGenesis(d)
  BY <1>2, ChainTypes DEF FromGenesis
<1> QED
  BY <1>1, <1>2

\* update appends only to a stored tip that its hashes agree with.
LEMMA UpdateOnChain ==
    ASSUME TypeOK, NEW c \in Chains, OnChain(c), NEW d \in Chains,
           NEW height \in Height, NEW last \in Height, height <= last,
           NEW chain \in {d, FromGenesis(d)}, NEW users,
           Update(height, last, chain, users)
    PROVE  \E e \in Chains : OnChain(e)'
<1> USE HeightAssumption DEF Height
<1>1. blocks' = [h \in Height |->
                    IF /\ Verified(last)
                       /\ h \in height..last
                       /\ \A k \in Height : k >= h => ~Stored(k)
                      THEN chain[h] ELSE blocks[h]]
  BY DEF Update
<1>2. CASE ~Verified(last)
  <2>1. OnChain(c)'
    BY <1>1, <1>2 DEF OnChain, Stored
  <2> QED
    BY <2>1
<1>3. CASE Verified(last)
  <2>1. PICK tip \in Height : /\ IsTip(tip)
                              /\ blocks[Min(tip, last)] = chain[Min(tip, last)]
    BY <1>3 DEF Update, ChainAccepted
  <2>2. CASE last <= tip
    <3>1. \A h \in Height : blocks'[h] = blocks[h]
      BY <1>1, <2>1, <2>2 DEF IsTip
    <3>2. OnChain(c)'
      BY <3>1 DEF OnChain, Stored
    <3> QED
      BY <3>2
  <2>3. CASE tip < last
    <3>1. blocks[tip] = chain[tip] /\ blocks[tip] = c[tip]
      BY <2>1, <2>3 DEF Min, IsTip, OnChain
    <3>2. c[tip] = d[tip]
      <4>1. CASE chain = d
        BY <3>1, <4>1
      <4>2. CASE tip # 0
        BY <3>1, <4>2, PassedHash
      <4>3. CASE chain = FromGenesis(d) /\ tip = 0
        <5>1. chain[0] = d[1] /\ 1 \in Height
          BY <2>3, <4>3, ChainTypes DEF FromGenesis
        <5>2. c[0] = d[1]
          BY <3>1, <4>3, <5>1
        <5>3. 0 = 1
          BY <5>1, <5>2, ChainAssumption
        <5> QED
          BY <5>3
      <4> QED
        BY <4>1, <4>2, <4>3
    <3>3. \A j \in Height : j <= tip => c[j] = d[j]
      BY <3>2, ChainAssumption
    <3>4. ASSUME NEW h \in Height, blocks'[h] # NoBlock PROVE blocks'[h] = d[h]
      <4>1. CASE h <= tip
        BY <1>1, <2>1, <3>3, <3>4, <4>1 DEF IsTip, OnChain, Stored
      <4>2. CASE h > tip
        <5>1. blocks'[h] = chain[h]
          BY <1>1, <2>1, <3>4, <4>2 DEF IsTip, Stored
        <5> QED
          BY <4>2, <5>1, PassedHash
      <4> QED
        BY <4>1, <4>2
    <3>5. OnChain(d)'
      BY <3>4 DEF OnChain, Stored
    <3> QED
      BY <3>5
  <2> QED
    BY <2>2, <2>3
<1> QED
  BY <1>2, <1>3

\* A regtest database before its first synchronisation: genesis and the main
\* network's checkpoint, which is on no chain of the daemon.
Fresh == Regtest /\ blocks = InitialBlocks /\ Checkpoint # 0

\* It has just these two rows.
LEMMA FreshRows ==
    ASSUME Fresh
    PROVE  /\ \A h \in Height : Stored(h) <=> (h = 0 \/ h = Checkpoint)
           /\ blocks[0] = Genesis
           /\ \A c \in Chains, h \in Height : blocks[Checkpoint] # c[h]
  BY HeightAssumption, ChainTypes, CheckpointAssumption
     DEF Fresh, InitialBlocks, Stored

\* The first synchronisation of such a database finds the checkpoint row to
\* diverge and drops it, or stores nothing.
LEMMA FreshSync ==
    ASSUME Fresh, NEW d \in Chains, NEW height \in Height, NEW last \in Height,
           height <= last, SyncChain(height, last, d)
    PROVE  blocks' = blocks \/ OnChain(d)'
<1>1. height = 0
  BY FreshRows DEF SyncChain
<1>2. \A k \in Height : FirstDivergence(d, height, last, k) => k >= 1
  BY <1>1, HeightAssumption DEF FirstDivergence, Height
<1>3. ASSUME 1 \in Height PROVE Diverges(d, 1)
  <2>1. /\ Checkpoint \in Height /\ Checkpoint >= 1 /\ Stored(Checkpoint)
        /\ blocks[Checkpoint] # d[1]
    BY <1>3, FreshRows, HeightAssumption DEF Fresh, Height
  <2>2. \A i \in 1..(Checkpoint - 1) : ~Stored(i)
    BY FreshRows, HeightAssumption DEF Height
  <2> QED
    BY <2>1, <2>2 DEF Diverges
<1>4. d[0] = blocks[0]
  BY FreshRows, ChainTypes
<1>5. CASE /\ \A k \in (height + 1)..last : ~Diverges(d, k)
           /\ blocks' = [h \in Height |-> IF h \in height..last THEN d[h]
                                                               ELSE blocks[h]]
  <2>1. last = 0
    BY <1>1, <1>3, <1>5, HeightAssumption DEF Height
  <2>2. blocks' = [h \in Height |-> blocks[h]]
    BY <1>1, <1>4, <1>5, <2>1, HeightAssumption DEF Height
  <2> QED
    BY <2>2 DEF Fresh, InitialBlocks
<1>6. CASE \E k \in Height :
              /\ FirstDivergence(d, height, last, k)
              /\ blocks' = [h \in Height |-> IF h < k THEN blocks[h]
                                             ELSE IF h <= last THEN d[h]
                                             ELSE NoBlock]
  <2>1. PICK k \in Height :
              /\ FirstDivergence(d, height, last, k)
              /\ blocks' = [h \in Height |-> IF h < k THEN blocks[h]
                                             ELSE IF h <= last THEN d[h]
                                             ELSE NoBlock]
    BY <1>6
  <2>2. k = 1
    <3>1. k \in Nat /\ k >= 1 /\ 1 \in Height
      BY <1>2, <2>1, HeightAssumption DEF Height
    <3>2. Diverges(d, 1)
      BY <1>3, <3>1
    <3>3. \A i \in 1..(k - 1) : ~Diverges(d, i)
      BY <1>1, <2>1 DEF FirstDivergence
    <3> QED
      BY <3>1, <3>2, <3>3
  <2>3. \A h \in Height : blocks'[h] # NoBlock => blocks'[h] = d[h]
    BY <1>4, <2>1, <2>2, HeightAssumption DEF Height
  <2> QED
    BY <2>3 DEF OnChain, Stored
<1> QED
  BY <1>5, <1>6 DEF SyncChain

\* No check-in can be appended to the foreign checkpoint.
LEMMA FreshUpdate ==
    ASSUME Fresh, NEW d \in Chains, NEW height \in Height, NEW last \in Height,
           NEW chain \in {d, FromGenesis(d)}, NEW users,
           Update(height, last, chain, users)
    PROVE  blocks' = blocks
<1> USE HeightAssumption DEF Height
<1>1. PICK tip \in Height : /\ IsTip(tip)
                            /\ blocks[Min(tip, last)] = chain[Min(tip, last)]
  BY DEF Update, ChainAccepted, Verified, Fresh
<1>2. tip = Checkpoint
  BY <1>1, FreshRows DEF IsTip
<1>3. last < Checkpoint
  <2>1. SUFFICES ASSUME last >= Checkpoint PROVE FALSE
    OBVIOUS
  <2>2. blocks[Checkpoint] = chain[Checkpoint]
    BY <1>1, <1>2, <2>1 DEF Min
  <2>3. chain[Checkpoint] = d[Checkpoint]
    BY PassedHash DEF Fresh
  <2> QED
    BY <2>2, <2>3, FreshRows
<1>4. \A h \in Height : h \in height..last => \E k \in Height : k >= h /\ Stored(k)
  BY <1>1, <1>2, <1>3 DEF IsTip
<1>5. blocks' = [h \in Height |-> blocks[h]]
  BY <1>4 DEF Update
<1> QED
  BY <1>5 DEF Fresh, InitialBlocks

\* An empty or freshly opened database satisfies the chain invariant.
LEMMA OpenOnChain ==
    ASSUME blocks' = InitialBlocks
    PROVE  BlocksOnOneChain'
<1>1. CASE Regtest
  BY <1>1 DEF BlocksOnOneChain, InitialBlocks, Genesis
<1>2. CASE ~Regtest
  <2>1. PICK c \in Chains : TRUE
    BY ChainAssumption
  <2>2. c[0] = Genesis /\ c[Checkpoint] = CheckpointHash
    BY <1>2, ChainTypes, CheckpointAssumption
  <2>3. OnChain(c)'
    BY <2>2 DEF OnChain, Stored, InitialBlocks
  <2> QED
    BY <2>3 DEF BlocksOnOneChain
<1> QED
  BY <1>1, <1>2

\* A truncation of the stored chain, by the rollback command.
LEMMA RollbackOnChain ==
    ASSUME TypeOK, BlocksOnOneChain, NEW h \in Height, Rollback(h)
    PROVE  BlocksOnOneChain'
<1>1. blocks' = [k \in Height |-> IF k < h THEN blocks[k] ELSE NoBlock]
  BY DEF Rollback
<1>2. CASE \E c \in Chains : OnChain(c)
  <2>1. PICK c \in Chains : OnChain(c)
    BY <1>2
  <2>2. OnChain(c)'
    BY <1>1, <2>1 DEF OnChain, Stored
  <2> QED
    BY <2>2 DEF BlocksOnOneChain
<1>3. CASE Regtest /\ blocks = InitialBlocks
  <2>1. PICK c \in Chains : TRUE
    BY ChainAssumption
  <2>2. c[0] = Genesis
    BY ChainTypes
  <2>3. \A k \in Height : k < h /\ blocks[k] # NoBlock => k = 0
    BY <1>3, HeightAssumption DEF Rollback, Stored, InitialBlocks, Height
  <2>4. blocks[0] = Genesis
    BY <1>3, ChainTypes DEF InitialBlocks
  <2>5. OnChain(c)'
    BY <1>1, <2>2, <2>3, <2>4 DEF OnChain, Stored
  <2> QED
    BY <2>5 DEF BlocksOnOneChain
<1> QED
  BY <1>2, <1>3 DEF BlocksOnOneChain

\* The two forms of the invariant: on a chain, or fresh.
LEMMA OnChainOrFresh ==
    ASSUME BlocksOnOneChain
    PROVE  (\E c \in Chains : OnChain(c)) \/ Fresh
<1>1. ASSUME Regtest, blocks = InitialBlocks, Checkpoint = 0
      PROVE  \E c \in Chains : OnChain(c)
  <2>1. PICK c \in Chains : TRUE
    BY ChainAssumption
  <2>2. c[0] = Genesis
    BY ChainTypes
  <2>3. OnChain(c)
    BY <1>1, <2>2 DEF OnChain, Stored, InitialBlocks
  <2> QED
    BY <2>3
<1> QED
  BY <1>1 DEF BlocksOnOneChain, Fresh

\* Every operation preserves the chain invariant.
LEMMA ChainStep == ChainInv /\ [Next]_vars => ChainInv'
<1> SUFFICES ASSUME ChainInv, [Next]_vars PROVE BlocksOnOneChain'
  BY TypeStep DEF ChainInv
<1>1. CASE UNCHANGED blocks
  BY <1>1 DEF ChainInv, BlocksOnOneChain, OnChain, Stored, InitialBlocks, Genesis
<1>2. CASE Open
  BY <1>2, OpenOnChain DEF Open
<1>3. ASSUME NEW h \in AskedHeights, Rollback(h) PROVE BlocksOnOneChain'
  BY <1>3, RollbackOnChain, HeightAssumption DEF ChainInv
<1>4. CASE CallSyncChain
  <2>1. PICK d \in Chains, height \in Height : \E last \in height..MaxHeight :
              SyncChain(height, last, d)
    BY <1>4, Zenon DEF CallSyncChain
  <2>2. PICK last \in height..MaxHeight : SyncChain(height, last, d)
    BY <2>1, Zenon
  <2>3. last \in Height /\ height <= last
    BY HeightAssumption DEF Height
  <2>4. CASE \E c \in Chains : OnChain(c)
    <3>1. \E e \in Chains : OnChain(e)'
      BY <2>2, <2>3, <2>4, SyncChainOnChain DEF ChainInv
    <3> QED
      BY <3>1 DEF BlocksOnOneChain
  <2>5. CASE Fresh
    <3>1. blocks' = blocks \/ OnChain(d)'
      BY <2>2, <2>3, <2>5, FreshSync
    <3> QED
      BY <1>1, <3>1 DEF BlocksOnOneChain
  <2> QED
    BY <2>4, <2>5, OnChainOrFresh DEF ChainInv
<1>5. CASE CallUpdate
  <2>1. PICK d, height, last, some, known, s :
          /\ d \in Chains /\ height \in Height /\ last \in height..MaxHeight
          /\ CheckInOf(d, height, last, some, known, s)
    BY <1>5, Zenon DEF CallUpdate
  <2>2. PICK chain \in {d, FromGenesis(d)} :
          Update(height, last, chain,
                 {ScannedUser(a, s[a], d, last, known) : a \in some})
    BY <2>1, Zenon DEF CheckInOf
  <2> DEFINE users == {ScannedUser(a, s[a], d, last, known) : a \in some}
  <2>3. Update(height, last, chain, users)
    BY <2>2
  <2> HIDE DEF users
  <2>4. /\ d \in Chains /\ height \in Height
        /\ last \in Height /\ height <= last
    BY <2>1, HeightAssumption DEF Height
  <2>5. CASE \E c \in Chains : OnChain(c)
    <3>1. PICK c \in Chains : OnChain(c)
      BY <2>5
    <3>2. \E e \in Chains : OnChain(e)'
      BY <2>3, <2>4, <3>1, UpdateOnChain DEF ChainInv
    <3> QED
      BY <3>2 DEF BlocksOnOneChain
  <2>6. CASE Fresh
    <3>1. blocks' = blocks
      BY <2>3, <2>4, <2>6, FreshUpdate
    <3> QED
      BY <1>1, <3>1
  <2> QED
    BY <2>5, <2>6, OnChainOrFresh DEF ChainInv
<1>6. ASSUME NEW address \in Address,
             \/ \E flags \in Flags :
                   AddAccount(address, flags) \/ CreationRequest(address, flags)
             \/ \E status \in Status : ChangeStatus(status, address)
             \/ \E height \in AskedHeights :
                   Rescan(height, address) \/ ImportRequest(address, height)
             \/ CreateAccount(address)
             \/ ImportAccount(address)
             \/ \E type \in RequestType : RejectRequest(type, address)
      PROVE  BlocksOnOneChain'
  <2>1. UNCHANGED blocks
    BY <1>6 DEF AddAccount, CreationRequest, ChangeStatus, Rescan, ImportRequest,
                CreateAccount, ImportAccount, RejectRequest
  <2> QED
    BY <1>1, <2>1
<1>7. CASE UNCHANGED vars
  BY <1>1, <1>7 DEF vars
<1> QED
  BY <1>2, <1>3, <1>4, <1>5, <1>6, <1>7 DEF Next

\* The stored block hashes lie on one chain of the daemon, through every
\* sequence of synchronisations, check-ins, reorganisations and rollbacks:
\* sync_chain and update never leave a mixture of two forks.
THEOREM StoredChainIsOneChain == Spec => []BlocksOnOneChain
<1>1. Init => ChainInv
  <2>1. Init => TypeOK
    BY InitialBlocksType DEF Init, TypeOK
  <2>2. Init => BlocksOnOneChain
    <3> SUFFICES ASSUME Init PROVE BlocksOnOneChain
      OBVIOUS
    <3>1. CASE Regtest
      BY <3>1 DEF Init, BlocksOnOneChain
    <3>2. CASE ~Regtest
      <4>1. PICK c \in Chains : TRUE
        BY ChainAssumption
      <4>2. c[0] = Genesis /\ c[Checkpoint] = CheckpointHash
        BY <3>2, ChainTypes, CheckpointAssumption
      <4>3. OnChain(c)
        BY <4>2 DEF Init, OnChain, Stored, InitialBlocks
      <4> QED
        BY <4>3 DEF BlocksOnOneChain
    <3> QED
      BY <3>1, <3>2
  <2> QED
    BY <2>1, <2>2 DEF ChainInv
<1>2. ChainInv => BlocksOnOneChain
  BY DEF ChainInv
<1> QED
  BY <1>1, <1>2, ChainStep, PTL DEF Spec

-----------------------------------------------------------------------------
(* Part 2: the accounts *)

-----------------------------------------------------------------------------
(* What each operation does to an account *)

\* n is the account a with its scan and start heights changed.
Moved(a, n, scan, start) ==
    /\ n.id = a.id /\ n.address = a.address
    /\ n.scan = scan /\ n.start = start

\* Heights are integers between 0 and the bound.
LEMMA AccountHeights ==
    ASSUME IndexInv, NEW a \in accounts
    PROVE  /\ a.scan \in Height /\ a.start \in Height
           /\ a.scan \in Int /\ a.start \in Int
           /\ a.id \in AccountId /\ a.address \in Address /\ a.id \in Int
<1>1. a \in AccountRow
  BY IndexRows
<1>2. AccountId \subseteq Int
  BY HeightAssumption
<1>3. /\ a.scan \in Height /\ a.start \in Height
      /\ a.id \in AccountId /\ a.address \in Address
  BY <1>1 DEF AccountRow
<1>4. a.scan \in Int /\ a.start \in Int
  BY <1>3, HeightAssumption DEF Height
<1> QED
  BY <1>2, <1>3, <1>4

\* rollback_accounts takes the accounts at or above the height back below it.
LEMMA RollbackMoves ==
    ASSUME IndexInv, NEW h \in Height, RollbackAccounts(h)
    PROVE  /\ \A n \in accounts' : \E a \in accounts :
                 Moved(a, n, IF a.scan >= h THEN RollbackHeight(h) ELSE a.scan,
                       IF a.scan >= h THEN Min(RollbackHeight(h), a.start)
                                      ELSE a.start)
           /\ \A a \in accounts : \E n \in accounts' : n.id = a.id
<1>1. ASSUME NEW a \in accounts
      PROVE  Moved(a, RolledBack(a, h),
                   IF a.scan >= h THEN RollbackHeight(h) ELSE a.scan,
                   IF a.scan >= h THEN Min(RollbackHeight(h), a.start)
                                  ELSE a.start)
  BY IndexRows, AffectedIff DEF RolledBack, Moved, AccountRow
<1>2. accounts' = {RolledBack(a, h) : a \in accounts}
  BY DEF RollbackAccounts
<1> HIDE DEF RolledBack
<1>3. \A a \in accounts : RolledBack(a, h).id = a.id
  BY <1>1 DEF Moved
<1> QED
  BY <1>1, <1>2, <1>3

\* change_height moves one account, down to the height when it was above.
LEMMA ChangeHeightMoves ==
    ASSUME IndexInv, NEW height \in Height, NEW address, ChangeHeight(height, address)
    PROVE  \E a \in accounts, n \in accounts' :
              /\ Moved(a, n, Min(height, a.scan), Min(height, a.start))
              /\ accounts' = (accounts \ {a}) \cup {n}
              /\ CanDelete(Above(spends, a.id, height))
              /\ outputs' = outputs \ Above(outputs, a.id, height)
              /\ spends' = spends \ Above(spends, a.id, height)
              /\ images' = ImagesWithout(Above(spends, a.id, height))
              /\ lost' = {l \in lost : l[1] # a.id \/ l[2] < height} \cup
                    (IF a.start < height /\ height <= a.scan
                       THEN {<<a.id, height>>} ELSE {})
<1>1. PICK a \in accounts :
       /\ CanDelete(Above(spends, a.id, height))
       /\ accounts' = (accounts \ {a}) \cup
             {[a EXCEPT !.scan = Min(height, a.scan),
                        !.start = Min(height, a.start)]}
       /\ outputs' = outputs \ Above(outputs, a.id, height)
       /\ spends' = spends \ Above(spends, a.id, height)
       /\ images' = ImagesWithout(Above(spends, a.id, height))
       /\ lost' = {l \in lost : l[1] # a.id \/ l[2] < height} \cup
             (IF a.start < height /\ height <= a.scan
                THEN {<<a.id, height>>} ELSE {})
  BY Zenon DEF ChangeHeight, Named
<1> DEFINE n == [a EXCEPT !.scan = Min(height, a.scan),
                          !.start = Min(height, a.start)]
<1>2. Moved(a, n, Min(height, a.scan), Min(height, a.start))
  BY IndexRows DEF Moved, AccountRow
<1> HIDE DEF n
<1>3. accounts' = (accounts \ {a}) \cup {n}
  BY <1>1 DEF n
<1> QED
  BY <1>1, <1>2, <1>3, Zenon

\* do_add_account adds one account that was scanned over nothing, under an id
\* that no account has.
LEMMA DoAddAccountAdds ==
    ASSUME IndexInv, NEW id \in AccountId, NEW address, NEW height, NEW status,
           IsLastId(id - 1), DoAddAccount(id, address, height, status)
    PROVE  \E n : /\ accounts' = accounts \cup {n}
                  /\ n.id = id /\ n.scan = height /\ n.start = height
                  /\ \A a \in accounts : a.id # id
<1> DEFINE n == [id |-> id, address |-> address, status |-> status,
                 scan |-> height, start |-> height]
<1>1. accounts' = accounts \cup {n}
  BY DEF DoAddAccount
<1>2. n.id = id /\ n.scan = height /\ n.start = height
  OBVIOUS
<1>3. \A a \in accounts : a.id # id
  <2>1. id \in Int
    BY HeightAssumption
  <2>2. \A a \in accounts : a.id \in Int
    BY AccountHeights
  <2>3. \A a \in accounts : a.id <= id - 1
    BY DEF IsLastId
  <2> QED
    BY <2>1, <2>2, <2>3
<1> QED
  BY <1>1, <1>2, <1>3

\* change_status moves no account.
LEMMA ChangeStatusMoves ==
    ASSUME IndexInv, NEW status, NEW address, ChangeStatus(status, address)
    PROVE  \E a \in accounts, n \in accounts' :
              /\ Moved(a, n, a.scan, a.start)
              /\ accounts' = (accounts \ {a}) \cup {n}
<1>1. PICK a \in accounts :
         accounts' = (accounts \ {a}) \cup {[a EXCEPT !.status = status]}
  BY Zenon DEF ChangeStatus, Named
<1>2. Moved(a, [a EXCEPT !.status = status], a.scan, a.start)
  BY IndexRows DEF Moved, AccountRow
<1> QED
  BY <1>1, <1>2, Zenon

\* update takes the accounts it advances to its last block.
LEMMA UpdateMoves ==
    ASSUME IndexInv, NEW height, NEW last, NEW chain, NEW users,
           Update(height, last, chain, users)
    PROVE  /\ \A n \in accounts' : \E a \in accounts :
                 Moved(a, n, IF a \in Advanced(users, last) THEN last ELSE a.scan,
                       a.start)
           /\ \A a \in accounts : \E n \in accounts' : n.id = a.id
<1> DEFINE new(a) == IF a \in Advanced(users, last) THEN [a EXCEPT !.scan = last]
                                                    ELSE a
<1>1. \A a \in accounts :
         Moved(a, new(a), IF a \in Advanced(users, last) THEN last ELSE a.scan,
               a.start)
  BY IndexRows DEF Moved, AccountRow
<1>2. accounts' = {new(a) : a \in accounts}
  BY DEF Update
<1> HIDE DEF new
<1>3. \A a \in accounts : new(a).id = a.id
  BY <1>1 DEF Moved
<1> QED
  BY <1>1, <1>2, <1>3

-----------------------------------------------------------------------------
(* The tip *)

\* The stored rows have no gap from height b on.
NoGapFrom(b) == \A h, k \in Height : b <= h /\ h < k /\ Stored(k) => Stored(h)

\* No account was scanned over any block.
Unscanned == \A a \in accounts : a.start >= a.scan

\* A scan height that does not lie ahead of the stored chain.
Reached(scan) == \/ \E h \in Height : scan <= h /\ Stored(h)
                 \/ ~Regtest /\ scan < Checkpoint

(***************************************************************************)
(* TipComparable is not inductive in a regtest database, where the rows    *)
(* below the checkpoint matter too: a rollback below the foreign           *)
(* checkpoint must not leave an account above the rows that remain.        *)
(* There the rows have no gap at all, except in a fresh database, where no *)
(* account was scanned yet.                                                *)
(***************************************************************************)
RegtestRows == Regtest => NoGapFrom(0) \/ (Fresh /\ Unscanned)

TipInv == IndexInv /\ NoGapAboveCheckpoint /\ ScannedBelowTip /\ RegtestRows

\* The first part of TipComparable in terms of NoGapFrom.
LEMMA NoGapIsFrom == NoGapAboveCheckpoint <=> NoGapFrom(Checkpoint)
  BY DEF NoGapAboveCheckpoint, NoGapFrom

\* A truncation leaves no gap.
LEMMA RollbackNoGap ==
    ASSUME NEW b \in Height, NoGapFrom(b), NEW h \in Height, Rollback(h)
    PROVE  NoGapFrom(b)'
  BY HeightAssumption DEF NoGapFrom, Stored, Rollback, Height

\* sync_chain writes rows that join the row it starts from.
LEMMA SyncChainNoGap ==
    ASSUME NEW b \in Height, NoGapFrom(b), NEW c \in Chains, NEW height \in Height,
           NEW last \in Height, height <= last, SyncChain(height, last, c)
    PROVE  NoGapFrom(b)'
<1> USE HeightAssumption DEF Height
<1>1. \A h \in Height : c[h] # NoBlock
  BY ChainTypes, CheckpointAssumption
<1>2. CASE blocks' = [h \in Height |-> IF h \in height..last THEN c[h]
                                                            ELSE blocks[h]]
  <2>1. Stored(height)
    BY DEF SyncChain
  <2>2. \A h \in Height : blocks'[h] # NoBlock <=> h \in height..last \/ Stored(h)
    BY <1>1, <1>2 DEF Stored
  <2> QED
    BY <2>1, <2>2 DEF NoGapFrom, Stored
<1>3. CASE \E k \in Height :
              /\ FirstDivergence(c, height, last, k)
              /\ blocks' = [h \in Height |-> IF h < k THEN blocks[h]
                                             ELSE IF h <= last THEN c[h]
                                             ELSE NoBlock]
  <2>1. PICK k \in Height :
              /\ FirstDivergence(c, height, last, k)
              /\ blocks' = [h \in Height |-> IF h < k THEN blocks[h]
                                             ELSE IF h <= last THEN c[h]
                                             ELSE NoBlock]
    BY <1>3
  <2>2. \E j \in Height : j >= k /\ Stored(j)
    BY <2>1 DEF FirstDivergence, Diverges
  <2>3. \A h \in Height : b <= h /\ h < k => Stored(h)
    BY <2>2 DEF NoGapFrom
  <2>4. \A h \in Height : blocks'[h] # NoBlock
                            <=> IF h < k THEN Stored(h) ELSE h <= last
    BY <1>1, <2>1 DEF Stored
  <2> QED
    BY <2>3, <2>4 DEF NoGapFrom, Stored
<1> QED
  BY <1>2, <1>3 DEF SyncChain

\* update appends from the tip on.
LEMMA UpdateNoGap ==
    ASSUME NEW b \in Height, NoGapFrom(b), NEW height \in Height, NEW last \in Height,
           NEW chain \in [Height -> Hash], NEW users,
           Update(height, last, chain, users)
    PROVE  /\ NoGapFrom(b)'
           /\ \A h \in Height : Stored(h) => blocks'[h] = blocks[h]
           /\ height <= last => Reached(last)'
<1> USE HeightAssumption DEF Height
<1>1. blocks' = [h \in Height |->
                    IF /\ Verified(last)
                       /\ h \in height..last
                       /\ \A k \in Height : k >= h => ~Stored(k)
                      THEN chain[h] ELSE blocks[h]]
  BY DEF Update
<1>2. CASE ~Verified(last)
  <2>1. \A h \in Height : blocks'[h] = blocks[h]
    BY <1>1, <1>2
  <2>2. ~Regtest /\ last < Checkpoint
    BY <1>2 DEF Verified
  <2> QED
    BY <2>1, <2>2 DEF NoGapFrom, Stored, Reached
<1>3. CASE Verified(last)
  <2>1. PICK tip \in Height : IsTip(tip) /\ height <= tip
    BY <1>3 DEF Update, ChainAccepted
  <2>2. \A h \in Height : chain[h] # NoBlock
    BY CheckpointAssumption
  <2>3. \A h \in Height : (\A k \in Height : k >= h => ~Stored(k)) <=> h > tip
    BY <2>1 DEF IsTip
  <2>4. \A h \in Height : blocks'[h] = IF h \in height..last /\ h > tip THEN chain[h]
                                                                      ELSE blocks[h]
    BY <1>1, <1>3, <2>3
  <2>5. \A h \in Height :
           blocks'[h] # NoBlock <=> Stored(h) \/ (h \in height..last /\ h > tip)
    BY <2>2, <2>4 DEF Stored
  <2>6. Stored(tip) /\ \A h \in Height : Stored(h) => h <= tip
    BY <2>1 DEF IsTip
  <2>7. NoGapFrom(b)'
    <3> SUFFICES ASSUME NEW h \in Height, NEW k \in Height, b <= h, h < k,
                        blocks'[k] # NoBlock
                 PROVE  blocks'[h] # NoBlock
      BY DEF NoGapFrom, Stored
    <3>1. CASE h > tip
      BY <2>1, <2>5, <2>6, <3>1
    <3>2. CASE h <= tip
      BY <2>5, <2>6, <3>2 DEF NoGapFrom
    <3> QED
      BY <3>1, <3>2
  <2>8. height <= last => Reached(last)'
    <3>1. CASE last <= tip
      BY <2>5, <2>6, <3>1 DEF Reached, Stored
    <3>2. CASE last > tip
      BY <2>5, <3>2 DEF Reached, Stored
    <3> QED
      BY <3>1, <3>2
  <2> QED
    BY <2>4, <2>6, <2>7, <2>8
<1> QED
  BY <1>2, <1>3

\* In a fresh database a check-in advances no account.
LEMMA FreshAdvances ==
    ASSUME Fresh, IndexInv, NEW d \in Chains, NEW height \in Height,
           NEW last \in Height, NEW chain \in {d, FromGenesis(d)}, NEW users,
           Update(height, last, chain, users)
    PROVE  Advanced(users, last) = {}
<1> USE HeightAssumption DEF Height
<1>1. PICK tip \in Height : /\ IsTip(tip) /\ Stored(Min(tip, last))
                            /\ blocks[Min(tip, last)] = chain[Min(tip, last)]
  BY DEF Update, ChainAccepted, Verified, Fresh
<1>2. tip = Checkpoint
  BY <1>1, FreshRows DEF IsTip
<1>3. last = 0
  <2>1. CASE last >= Checkpoint
    <3>1. blocks[Checkpoint] = chain[Checkpoint]
      BY <1>1, <1>2, <2>1 DEF Min
    <3>2. chain[Checkpoint] = d[Checkpoint]
      BY PassedHash DEF Fresh
    <3> QED
      BY <3>1, <3>2, FreshRows
  <2>2. CASE last < Checkpoint
    BY <1>1, <1>2, <2>2, FreshRows DEF Min
  <2> QED
    BY <2>1, <2>2
<1>4. \A a \in accounts : ~(a.scan < last)
  BY <1>3, AccountHeights
<1> QED
  BY <1>4 DEF Advanced, Stores

\* A rollback of accounts that were scanned over nothing leaves them so.
LEMMA RollbackUnscanned ==
    ASSUME IndexInv, Unscanned, NEW h \in Height, RollbackAccounts(h)
    PROVE  Unscanned'
<1> USE HeightAssumption DEF Height
<1> SUFFICES ASSUME NEW n \in accounts' PROVE n.start >= n.scan
  BY DEF Unscanned
<1>1. PICK a \in accounts :
         Moved(a, n, IF a.scan >= h THEN RollbackHeight(h) ELSE a.scan,
               IF a.scan >= h THEN Min(RollbackHeight(h), a.start)
                              ELSE a.start)
  BY RollbackMoves
<1>2. a.start >= a.scan
  BY DEF Unscanned
<1> QED
  BY <1>1, <1>2, AccountHeights, HeightTypes DEF Moved, Min, RollbackHeight

\* The rollback command leaves every scanned account at a row that remains.
LEMMA RollbackTip ==
    ASSUME TipInv, NEW h \in Height, Rollback(h)
    PROVE  ScannedBelowTip' /\ RegtestRows'
<1> USE HeightAssumption DEF Height
<1>1. /\ blocks' = [k \in Height |-> IF k < h THEN blocks[k] ELSE NoBlock]
      /\ Stored(h) /\ RollbackAccounts(h)
  BY DEF Rollback
<1>2. \A k \in Height : blocks'[k] # NoBlock <=> k < h /\ Stored(k)
  BY <1>1 DEF Stored
<1>3. CASE Fresh /\ Unscanned
  <2>1. h = 0 \/ h = Checkpoint
    BY <1>1, <1>3, FreshRows
  <2>2. \A k \in Height : blocks'[k] # NoBlock => k = 0
    BY <1>2, <1>3, <2>1, FreshRows
  <2>3. NoGapFrom(0)'
    BY <2>2 DEF NoGapFrom, Stored
  <2>4. \A n \in accounts' : n.start >= n.scan
    BY <1>1, <1>3, RollbackUnscanned DEF TipInv, Unscanned
  <2>5. ScannedBelowTip'
    <3> SUFFICES ASSUME NEW n \in accounts', n.start < n.scan PROVE FALSE
      BY DEF ScannedBelowTip
    <3>1. n.start \in Int /\ n.scan \in Int
      <4>1. TypeOK'
        BY <1>1, RollbackAccountsType DEF TipInv, IndexInv, TypeOK
      <4> QED
        BY <4>1 DEF TypeOK, AccountRow
    <3> QED
      BY <2>4, <3>1
  <2> QED
    BY <2>3, <2>5 DEF RegtestRows
<1>4. CASE Regtest => NoGapFrom(0)
  <2>1. RegtestRows'
    BY <1>4, RollbackNoGap DEF RegtestRows
  <2>2. ASSUME NEW n \in accounts', n.start < n.scan PROVE Reached(n.scan)'
    <3>1. PICK a \in accounts :
             Moved(a, n, IF a.scan >= h THEN RollbackHeight(h) ELSE a.scan,
                   IF a.scan >= h THEN Min(RollbackHeight(h), a.start)
                                  ELSE a.start)
      BY <1>1, RollbackMoves DEF TipInv
    <3>2. n.scan \in Height /\ n.scan < h
      <4>1. CASE a.scan >= h
        <5>1. h # 0
          BY <2>2, <3>1, <4>1, AccountHeights
             DEF Moved, TipInv, Min, RollbackHeight
        <5> QED
          BY <3>1, <4>1, <5>1, HeightTypes DEF Moved, RollbackHeight
      <4>2. CASE a.scan < h
        BY <3>1, <4>2, AccountHeights DEF Moved, TipInv
      <4> QED
        BY <4>1, <4>2, AccountHeights DEF TipInv
    <3>3. CASE Regtest \/ n.scan >= Checkpoint
      <4>1. Stored(n.scan)
        BY <1>1, <1>4, <3>2, <3>3 DEF NoGapFrom, NoGapAboveCheckpoint, TipInv
      <4>2. blocks'[n.scan] # NoBlock
        BY <1>2, <3>2, <4>1
      <4> QED
        BY <3>2, <4>2 DEF Reached, Stored
    <3>4. CASE ~Regtest /\ n.scan < Checkpoint
      BY <3>4 DEF Reached
    <3> QED
      BY <3>2, <3>3, <3>4
  <2>3. ScannedBelowTip'
    BY <2>2 DEF ScannedBelowTip, Reached
  <2> QED
    BY <2>1, <2>3
<1> QED
  BY <1>3, <1>4 DEF TipInv, RegtestRows

\* The walk of a first synchronisation finds the foreign checkpoint at once.
LEMMA FreshDiverges ==
    ASSUME Fresh, NEW d \in Chains, 1 \in Height
    PROVE  Diverges(d, 1)
<1>1. /\ Checkpoint \in Height /\ Checkpoint >= 1 /\ Stored(Checkpoint)
      /\ blocks[Checkpoint] # d[1]
  BY FreshRows, HeightAssumption DEF Fresh, Height
<1>2. \A i \in 1..(Checkpoint - 1) : ~Stored(i)
  BY FreshRows, HeightAssumption DEF Height
<1> QED
  BY <1>1, <1>2 DEF Diverges

\* The first synchronisation of a regtest database stores rows without a gap,
\* or changes nothing.
LEMMA FreshSyncRows ==
    ASSUME Fresh, NEW d \in Chains, NEW height \in Height, NEW last \in Height,
           height <= last, SyncChain(height, last, d)
    PROVE  UNCHANGED <<blocks, accounts>> \/ NoGapFrom(0)'
<1> USE HeightAssumption DEF Height
<1>1. height = 0
  BY FreshRows DEF SyncChain
<1>2. d[0] = blocks[0] /\ Stored(0)
  BY FreshRows, ChainTypes
<1>3. \A h \in Height : d[h] # NoBlock
  BY ChainTypes, CheckpointAssumption
<1>4. CASE /\ \A k \in (height + 1)..last : ~Diverges(d, k)
           /\ blocks' = [h \in Height |-> IF h \in height..last THEN d[h]
                                                               ELSE blocks[h]]
           /\ UNCHANGED accounts
  <2>1. last = 0
    BY <1>1, <1>4, FreshDiverges
  <2>2. blocks' = [h \in Height |-> blocks[h]]
    BY <1>1, <1>2, <1>4, <2>1
  <2> QED
    BY <1>4, <2>2 DEF Fresh, InitialBlocks
<1>5. CASE \E k \in Height :
              /\ FirstDivergence(d, height, last, k)
              /\ blocks' = [h \in Height |-> IF h < k THEN blocks[h]
                                             ELSE IF h <= last THEN d[h]
                                             ELSE NoBlock]
  <2>1. PICK k \in Height :
              /\ FirstDivergence(d, height, last, k)
              /\ blocks' = [h \in Height |-> IF h < k THEN blocks[h]
                                             ELSE IF h <= last THEN d[h]
                                             ELSE NoBlock]
    BY <1>5
  <2>2. k = 1
    <3>1. k >= 1 /\ 1 \in Height
      BY <1>1, <2>1 DEF FirstDivergence
    <3>2. \A i \in 1..(k - 1) : ~Diverges(d, i)
      BY <1>1, <2>1 DEF FirstDivergence
    <3> QED
      BY <3>1, <3>2, FreshDiverges
  <2>3. \A h \in Height : blocks'[h] # NoBlock <=> h = 0 \/ h <= last
    BY <1>2, <1>3, <2>1, <2>2 DEF Stored
  <2> QED
    BY <2>3 DEF NoGapFrom, Stored
<1> QED
  BY <1>4, <1>5 DEF SyncChain

\* A reorganisation leaves every account at or below the first new block.
LEMMA SyncChainTip ==
    ASSUME TipInv, NEW d \in Chains, NEW height \in Height, NEW last \in Height,
           height <= last, SyncChain(height, last, d)
    PROVE  ScannedBelowTip' /\ RegtestRows'
<1> USE HeightAssumption DEF Height
<1>1. \A h \in Height : d[h] # NoBlock
  BY ChainTypes, CheckpointAssumption
<1>2. RegtestRows'
  <2>1. CASE Regtest => NoGapFrom(0)
    BY <2>1, SyncChainNoGap DEF RegtestRows
  <2>2. CASE Fresh /\ Unscanned
    <3>1. UNCHANGED <<blocks, accounts>> \/ NoGapFrom(0)'
      BY <2>2, FreshSyncRows
    <3>2. UNCHANGED <<blocks, accounts>> => Fresh' /\ Unscanned'
      BY <2>2 DEF Fresh, Unscanned, InitialBlocks, Genesis
    <3> QED
      BY <3>1, <3>2 DEF RegtestRows
  <2> QED
    BY <2>1, <2>2 DEF TipInv, RegtestRows
<1>3. CASE /\ blocks' = [h \in Height |-> IF h \in height..last THEN d[h]
                                                               ELSE blocks[h]]
           /\ UNCHANGED accounts
  <2>1. \A h \in Height : Stored(h) => blocks'[h] # NoBlock
    BY <1>1, <1>3 DEF Stored
  <2>2. ScannedBelowTip'
    BY <1>3, <2>1 DEF ScannedBelowTip, TipInv, Stored
  <2> QED
    BY <1>2, <2>2
<1>4. CASE \E k \in Height :
              /\ FirstDivergence(d, height, last, k)
              /\ blocks' = [h \in Height |-> IF h < k THEN blocks[h]
                                             ELSE IF h <= last THEN d[h]
                                             ELSE NoBlock]
              /\ RollbackAccounts(k)
  <2>1. PICK k \in Height :
              /\ FirstDivergence(d, height, last, k)
              /\ blocks' = [h \in Height |-> IF h < k THEN blocks[h]
                                             ELSE IF h <= last THEN d[h]
                                             ELSE NoBlock]
              /\ RollbackAccounts(k)
    BY <1>4
  <2>2. k <= last
    BY <2>1 DEF FirstDivergence
  <2>3. blocks'[k] # NoBlock
    BY <1>1, <2>1, <2>2
  <2>4. ASSUME NEW n \in accounts' PROVE n.scan <= k
    <3>1. PICK a \in accounts :
             Moved(a, n, IF a.scan >= k THEN RollbackHeight(k) ELSE a.scan,
                   IF a.scan >= k THEN Min(RollbackHeight(k), a.start)
                                  ELSE a.start)
      BY <2>1, RollbackMoves DEF TipInv
    <3>2. a.scan \in Int
      BY AccountHeights DEF TipInv
    <3>3. RollbackHeight(k) <= k
      BY HeightTypes
    <3> QED
      BY <3>1, <3>2, <3>3 DEF Moved
  <2>5. ScannedBelowTip'
    BY <2>3, <2>4 DEF ScannedBelowTip, Stored
  <2> QED
    BY <1>2, <2>5
<1> QED
  BY <1>3, <1>4 DEF SyncChain

\* A check-in takes an account to the last block it stored or compared.
LEMMA UpdateTip ==
    ASSUME TipInv, NEW d \in Chains, NEW height \in Height, NEW last \in Height,
           height <= last, NEW chain \in {d, FromGenesis(d)}, NEW users,
           Update(height, last, chain, users)
    PROVE  NoGapAboveCheckpoint' /\ ScannedBelowTip' /\ RegtestRows'
<1>1. chain \in [Height -> Hash] /\ Checkpoint \in Height /\ 0 \in Height
  BY ChainTypes, HeightAssumption DEF FromGenesis, Height
<1>2. /\ NoGapFrom(Checkpoint)'
      /\ \A h \in Height : Stored(h) => blocks'[h] = blocks[h]
      /\ Reached(last)'
  BY <1>1, UpdateNoGap, NoGapIsFrom DEF TipInv
<1>3. ASSUME NEW n \in accounts', n.start < n.scan PROVE Reached(n.scan)'
  <2>1. PICK a \in accounts :
           Moved(a, n, IF a \in Advanced(users, last) THEN last ELSE a.scan,
                 a.start)
    BY UpdateMoves DEF TipInv
  <2>2. CASE n.scan = last
    BY <1>2, <2>2
  <2>3. CASE n.scan = a.scan /\ n.start = a.start
    BY <1>2, <1>3, <2>3 DEF TipInv, ScannedBelowTip, Reached, Stored
  <2> QED
    BY <2>1, <2>2, <2>3 DEF Moved
<1>4. ScannedBelowTip'
  BY <1>3 DEF ScannedBelowTip, Reached
<1>5. RegtestRows'
  <2>1. CASE Regtest => NoGapFrom(0)
    BY <1>1, <2>1, UpdateNoGap DEF RegtestRows
  <2>2. CASE Fresh /\ Unscanned
    <3>1. blocks' = blocks
      BY <2>2, FreshUpdate
    <3>2. Advanced(users, last) = {}
      BY <2>2, FreshAdvances DEF TipInv
    <3>3. ASSUME NEW n \in accounts' PROVE n.start >= n.scan
      <4>1. PICK a \in accounts :
               Moved(a, n, IF a \in Advanced(users, last) THEN last ELSE a.scan,
                     a.start)
        BY UpdateMoves DEF TipInv
      <4> QED
        BY <2>2, <3>2, <4>1 DEF Moved, Unscanned
    <3>4. Fresh'
      BY <2>2, <3>1 DEF Fresh, InitialBlocks, Genesis
    <3> QED
      BY <3>3, <3>4 DEF RegtestRows, Unscanned
  <2> QED
    BY <2>1, <2>2 DEF TipInv, RegtestRows
<1> QED
  BY <1>2, <1>4, <1>5, NoGapIsFrom DEF NoGapAboveCheckpoint, NoGapFrom

\* Every account of the new state was scanned over nothing, or over no more
\* than an account of the old one.
Shrinks ==
    \A n \in accounts' :
        /\ n.start \in Int /\ n.scan \in Int
        /\ \/ n.start >= n.scan
           \/ \E a \in accounts : a.start <= n.start /\ n.scan <= a.scan

\* No account is scanned over anything then if none was.
LEMMA UnscannedKept ==
    ASSUME IndexInv, Unscanned, Shrinks
    PROVE  Unscanned'
<1> SUFFICES ASSUME NEW n \in accounts' PROVE n.start >= n.scan
  BY DEF Unscanned
<1>1. n.start \in Int /\ n.scan \in Int
  BY DEF Shrinks
<1>2. ASSUME NEW a \in accounts, a.start <= n.start, n.scan <= a.scan
      PROVE  n.start >= n.scan
  BY <1>1, <1>2, AccountHeights DEF Unscanned
<1> QED
  BY <1>2 DEF Shrinks

\* The clauses about heights follow too.
LEMMA HeightsKept ==
    ASSUME TipInv, UNCHANGED blocks, Shrinks
    PROVE  NoGapAboveCheckpoint' /\ ScannedBelowTip' /\ RegtestRows'
<1> USE HeightAssumption DEF Height
<1>1. NoGapAboveCheckpoint'
  BY DEF TipInv, NoGapAboveCheckpoint, Stored
<1>2. ASSUME NEW n \in accounts', n.start < n.scan PROVE Reached(n.scan)'
  <2>1. n.start \in Int /\ n.scan \in Int
    BY DEF Shrinks
  <2>2. PICK a \in accounts : a.start <= n.start /\ n.scan <= a.scan
    BY <1>2, <2>1 DEF Shrinks
  <2>3. a.scan \in Int /\ a.start \in Int
    BY AccountHeights DEF TipInv
  <2>4. Reached(a.scan)
    BY <1>2, <2>1, <2>2, <2>3 DEF TipInv, ScannedBelowTip, Reached
  <2> QED
    BY <2>1, <2>2, <2>3, <2>4 DEF Reached, Stored
<1>3. ScannedBelowTip'
  BY <1>2 DEF ScannedBelowTip, Reached
<1>4. RegtestRows'
  <2>1. CASE Regtest => NoGapFrom(0)
    BY <2>1 DEF RegtestRows, NoGapFrom, Stored
  <2>2. CASE Fresh /\ Unscanned
    <3>1. Unscanned'
      BY <2>2, UnscannedKept DEF TipInv
    <3>2. Fresh'
      BY <2>2 DEF Fresh, InitialBlocks, Genesis
    <3> QED
      BY <3>1, <3>2 DEF RegtestRows
  <2> QED
    BY <2>1, <2>2 DEF TipInv, RegtestRows
<1> QED
  BY <1>1, <1>3, <1>4

\* Accounts that are left alone are scanned over no more.
LEMMA SameShrinks ==
    ASSUME IndexInv
    PROVE  \A x \in accounts : /\ x.start <= x.start /\ x.scan <= x.scan
                               /\ x.start \in Int /\ x.scan \in Int
  BY AccountHeights

\* change_height scans an account over less.
LEMMA ChangeHeightShrinks ==
    ASSUME IndexInv, NEW height \in Height, NEW address,
           ChangeHeight(height, address)
    PROVE  Shrinks
<1>1. PICK a \in accounts, n \in accounts' :
         /\ Moved(a, n, Min(height, a.scan), Min(height, a.start))
         /\ accounts' = (accounts \ {a}) \cup {n}
  BY ChangeHeightMoves
<1>2. /\ a.scan \in Int /\ a.start \in Int /\ height \in Int
  BY AccountHeights, HeightAssumption DEF Height
<1>3. /\ n.start \in Int /\ n.scan \in Int
      /\ n.start >= n.scan \/ (a.start <= n.start /\ n.scan <= a.scan)
  BY <1>1, <1>2 DEF Moved, Min
<1> QED
  BY <1>1, <1>3, SameShrinks DEF Shrinks

\* A new account was scanned over nothing.
LEMMA AddShrinks ==
    ASSUME IndexInv, NEW id \in AccountId, NEW address, NEW height \in Height,
           NEW status, IsLastId(id - 1), DoAddAccount(id, address, height, status)
    PROVE  Shrinks
<1>1. PICK n : /\ accounts' = accounts \cup {n}
               /\ n.scan = height /\ n.start = height
  BY DoAddAccountAdds
<1>2. height \in Int
  BY HeightAssumption DEF Height
<1> QED
  BY <1>1, <1>2, SameShrinks DEF Shrinks

\* A change of status moves no account.
LEMMA ChangeStatusShrinks ==
    ASSUME IndexInv, NEW status, NEW address, ChangeStatus(status, address)
    PROVE  Shrinks
<1>1. PICK a \in accounts, n \in accounts' :
         /\ Moved(a, n, a.scan, a.start)
         /\ accounts' = (accounts \ {a}) \cup {n}
  BY ChangeStatusMoves
<1> QED
  BY <1>1, SameShrinks DEF Moved, Shrinks

\* An empty database has only accounts that were never scanned, or scanned
\* below the checkpoint.
LEMMA OpenTip ==
    ASSUME TipInv, Open
    PROVE  NoGapAboveCheckpoint' /\ ScannedBelowTip' /\ RegtestRows'
<1> USE HeightAssumption DEF Height
<1>1. /\ \A h \in Height : ~Stored(h)
      /\ blocks' = InitialBlocks /\ accounts' = accounts
  BY DEF Open
<1>2. \A h \in Height : blocks'[h] # NoBlock => h = 0 \/ h = Checkpoint
  BY <1>1 DEF InitialBlocks
<1>3. NoGapAboveCheckpoint'
  BY <1>2 DEF NoGapAboveCheckpoint, Stored
<1>4. \A a \in accounts : a.start < a.scan => ~Regtest /\ a.scan < Checkpoint
  BY <1>1 DEF TipInv, ScannedBelowTip
<1>5. ScannedBelowTip'
  BY <1>1, <1>4 DEF ScannedBelowTip
<1>6. RegtestRows'
  <2>1. CASE Checkpoint = 0
    BY <1>2, <2>1 DEF RegtestRows, NoGapFrom, Stored
  <2>2. CASE Regtest /\ Checkpoint # 0
    <3>1. Fresh'
      BY <1>1, <2>2 DEF Fresh, InitialBlocks, Genesis
    <3>2. \A a \in accounts : a.start >= a.scan
      BY <1>4, <2>2, AccountHeights DEF TipInv
    <3> QED
      BY <1>1, <3>1, <3>2 DEF RegtestRows, Unscanned
  <2> QED
    BY <2>1, <2>2 DEF RegtestRows
<1> QED
  BY <1>3, <1>5, <1>6

\* The steps of the database by what they change: requests are not looked at.
LEMMA StepKinds ==
    ASSUME TypeOK, [Next]_vars
    PROVE  \/ Open
           \/ \E h \in Height : Rollback(h)
           \/ \E c \in Chains, height \in Height, last \in Height :
                 height <= last /\ SyncChain(height, last, c)
           \/ \E c \in Chains, height \in Height, last \in Height :
              \E some \in SUBSET accounts, known \in SUBSET OutputId :
              \E s \in [some -> Height] :
                 height <= last /\ CheckInOf(c, height, last, some, known, s)
           \/ \E id \in AccountId, address \in Address, height \in Height : \E status :
                 /\ IsLastId(id - 1) /\ DoAddAccount(id, address, height, status)
                 /\ UNCHANGED <<blocks, outputs, spends, images, lost>>
           \/ \E status, address : ChangeStatus(status, address)
           \/ \E height \in Height, address \in Address :
                 ChangeHeight(height, address) /\ UNCHANGED <<blocks, accounts_ba>>
           \/ UNCHANGED <<blocks, accounts, accounts_ba, accounts_bh, outputs,
                          spends, images, lost>>
<1>1. CASE UNCHANGED vars
  BY <1>1 DEF vars
<1>2. CASE Open
  BY <1>2
<1>3. ASSUME NEW h \in AskedHeights, Rollback(h) PROVE \E k \in Height : Rollback(k)
  BY <1>3, HeightAssumption
<1>4. CASE CallSyncChain
  <2>1. PICK c \in Chains, height \in Height : \E last \in height..MaxHeight :
              SyncChain(height, last, c)
    BY <1>4, Zenon DEF CallSyncChain
  <2>2. PICK last \in height..MaxHeight : SyncChain(height, last, c)
    BY <2>1, Zenon
  <2>3. last \in Height /\ height <= last
    BY HeightAssumption DEF Height
  <2> QED
    BY <2>2, <2>3, Zenon
<1>5. CASE CallUpdate
  <2>1. PICK c \in Chains, height \in Height :
          \E last \in height..MaxHeight : \E some \in SUBSET accounts :
          \E known \in SUBSET OutputId : \E s \in [some -> height..MaxHeight] :
             CheckInOf(c, height, last, some, known, s)
    BY <1>5, Zenon DEF CallUpdate
  <2>2. PICK last \in height..MaxHeight, some \in SUBSET accounts,
             known \in SUBSET OutputId : \E s \in [some -> height..MaxHeight] :
             CheckInOf(c, height, last, some, known, s)
    BY <2>1, Zenon
  <2>3. PICK s \in [some -> height..MaxHeight] :
             CheckInOf(c, height, last, some, known, s)
    BY <2>2, Zenon
  <2>4. last \in Height /\ height <= last
    BY HeightAssumption DEF Height
  <2>5. s \in [some -> Height]
    BY HeightAssumption DEF Height
  <2> QED
    BY <2>3, <2>4, <2>5, Zenon
<1>6. ASSUME NEW address \in Address, NEW flags \in Flags,
             AddAccount(address, flags)
      PROVE  \E id \in AccountId, height \in Height : \E status :
                /\ IsLastId(id - 1) /\ DoAddAccount(id, address, height, status)
                /\ UNCHANGED <<blocks, outputs, spends, images, lost>>
  BY <1>6, Zenon DEF AddAccount
<1>7. ASSUME NEW address \in Address, NEW flags \in Flags,
             CreationRequest(address, flags)
      PROVE  UNCHANGED <<blocks, accounts, accounts_ba, accounts_bh, outputs,
                         spends, images, lost>>
  BY <1>7 DEF CreationRequest
<1>8. ASSUME NEW address \in Address, NEW height \in AskedHeights,
             Rescan(height, address)
      PROVE  /\ height \in Height
             /\ ChangeHeight(height, address) /\ UNCHANGED <<blocks, accounts_ba>>
  BY <1>8, HeightAssumption DEF Rescan
<1>9. ASSUME NEW address \in Address, NEW height \in AskedHeights,
             ImportRequest(address, height)
      PROVE  UNCHANGED <<blocks, accounts, accounts_ba, accounts_bh, outputs,
                         spends, images, lost>>
  BY <1>9 DEF ImportRequest
<1>10. ASSUME NEW address \in Address, CreateAccount(address)
       PROVE  \/ \E id \in AccountId, height \in Height : \E status :
                    /\ IsLastId(id - 1) /\ DoAddAccount(id, address, height, status)
                    /\ UNCHANGED <<blocks, outputs, spends, images, lost>>
              \/ UNCHANGED <<blocks, accounts, accounts_ba, accounts_bh, outputs,
                             spends, images, lost>>
  <2>1. PICK q \in FindRequest("create", address) :
            IF q.address.view = address.view /\ ByAddress(address) = {}
              THEN \E i \in AccountId :
                      /\ IsLastId(i - 1)
                      /\ DoAddAccount(i, address, q.start,
                                      InitialStatus(q.flags))
              ELSE UNCHANGED <<accounts, accounts_ba, accounts_bh>>
    BY <1>10, Zenon DEF CreateAccount
  <2>2. q.start \in Height
    BY DEF TypeOK, FindRequest, RequestRow
  <2>3. UNCHANGED <<blocks, outputs, spends, images, lost>>
    BY <1>10 DEF CreateAccount
  <2>4. CASE UNCHANGED <<accounts, accounts_ba, accounts_bh>>
    BY <2>3, <2>4
  <2>5. CASE \E i \in AccountId :
                /\ IsLastId(i - 1)
                /\ DoAddAccount(i, address, q.start, InitialStatus(q.flags))
    BY <2>2, <2>3, <2>5, Zenon
  <2> QED
    BY <2>1, <2>4, <2>5, Zenon
<1>11. ASSUME NEW address \in Address, ImportAccount(address)
       PROVE  \/ \E height \in Height :
                    ChangeHeight(height, address) /\ UNCHANGED <<blocks, accounts_ba>>
              \/ UNCHANGED <<blocks, accounts, accounts_ba, accounts_bh, outputs,
                             spends, images, lost>>
  <2>1. PICK q \in FindRequest("import_scan", address) :
            IF ByAddress(address) # {}
              THEN ChangeHeight(q.start, address)
              ELSE UNCHANGED <<accounts, accounts_bh, outputs, spends, images,
                               lost>>
    BY <1>11, Zenon DEF ImportAccount
  <2>2. q.start \in Height
    BY DEF TypeOK, FindRequest, RequestRow
  <2>3. UNCHANGED <<blocks, accounts_ba>>
    BY <1>11 DEF ImportAccount
  <2>4. CASE ChangeHeight(q.start, address)
    BY <2>2, <2>3, <2>4, Zenon
  <2>5. CASE UNCHANGED <<accounts, accounts_bh, outputs, spends, images, lost>>
    BY <2>3, <2>5
  <2> QED
    BY <2>1, <2>4, <2>5, Zenon
<1>12. ASSUME NEW address \in Address, NEW type \in RequestType,
              RejectRequest(type, address)
       PROVE  UNCHANGED <<blocks, accounts, accounts_ba, accounts_bh, outputs,
                          spends, images, lost>>
  BY <1>12 DEF RejectRequest
<1> QED
  BY <1>1, <1>2, <1>3, <1>4, <1>5, <1>6, <1>7, <1>8, <1>9, <1>10, <1>11, <1>12,
     Zenon DEF Next

\* Every operation preserves the tip invariant.
LEMMA TipStep == TipInv /\ [Next]_vars => TipInv'
<1> SUFFICES ASSUME TipInv, [Next]_vars
             PROVE  NoGapAboveCheckpoint' /\ ScannedBelowTip' /\ RegtestRows'
  BY IndexStep DEF TipInv
<1>1. TypeOK /\ Checkpoint \in Height
  BY HeightAssumption DEF TipInv, IndexInv
<1>2. CASE Open
  BY <1>2, OpenTip
<1>3. ASSUME NEW h \in Height, Rollback(h)
      PROVE  NoGapAboveCheckpoint' /\ ScannedBelowTip' /\ RegtestRows'
  <2>1. NoGapFrom(Checkpoint)'
    BY <1>1, <1>3, RollbackNoGap, NoGapIsFrom DEF TipInv
  <2> QED
    BY <1>3, <2>1, RollbackTip DEF NoGapAboveCheckpoint, NoGapFrom
<1>4. ASSUME NEW c \in Chains, NEW height \in Height, NEW last \in Height,
             height <= last, SyncChain(height, last, c)
      PROVE  NoGapAboveCheckpoint' /\ ScannedBelowTip' /\ RegtestRows'
  <2>1. NoGapFrom(Checkpoint)'
    BY <1>1, <1>4, SyncChainNoGap, NoGapIsFrom DEF TipInv
  <2> QED
    BY <1>4, <2>1, SyncChainTip DEF NoGapAboveCheckpoint, NoGapFrom
<1>5. ASSUME NEW c \in Chains, NEW height \in Height, NEW last \in Height,
             NEW some, NEW known, NEW s,
             height <= last, CheckInOf(c, height, last, some, known, s)
      PROVE  NoGapAboveCheckpoint' /\ ScannedBelowTip' /\ RegtestRows'
  <2>1. PICK chain \in {c, FromGenesis(c)} : \E users :
          Update(height, last, chain, users)
    BY <1>5, Zenon DEF CheckInOf
  <2>2. PICK users : Update(height, last, chain, users)
    BY <2>1
  <2> QED
    BY <1>5, <2>2, UpdateTip
<1>6. ASSUME NEW id \in AccountId, NEW address, NEW height \in Height, NEW status,
             IsLastId(id - 1), DoAddAccount(id, address, height, status),
             UNCHANGED blocks
      PROVE  NoGapAboveCheckpoint' /\ ScannedBelowTip' /\ RegtestRows'
  BY <1>6, AddShrinks, HeightsKept DEF TipInv
<1>7. ASSUME NEW status, NEW address, ChangeStatus(status, address)
      PROVE  NoGapAboveCheckpoint' /\ ScannedBelowTip' /\ RegtestRows'
  BY <1>7, ChangeStatusShrinks, HeightsKept DEF TipInv, ChangeStatus
<1>8. ASSUME NEW height \in Height, NEW address, ChangeHeight(height, address),
             UNCHANGED blocks
      PROVE  NoGapAboveCheckpoint' /\ ScannedBelowTip' /\ RegtestRows'
  BY <1>8, ChangeHeightShrinks, HeightsKept DEF TipInv
<1>9. CASE UNCHANGED <<blocks, accounts>>
  <2>1. Shrinks
    BY <1>9, SameShrinks DEF Shrinks, TipInv
  <2> QED
    BY <1>9, <2>1, HeightsKept
<1> QED
  BY <1>1, <1>2, <1>3, <1>4, <1>5, <1>6, <1>7, <1>8, <1>9, StepKinds, Zenon

\* The tip invariant holds in every reachable state of the database.
LEMMA TipInvariant == Spec => []TipInv
<1>1. Init => TipInv
  <2> SUFFICES ASSUME Init PROVE TipInv
    OBVIOUS
  <2>1. IndexInv
    BY InitialBlocksType DEF Init, TypeOK, IndexInv, KeysUnique, IndexesAgree
  <2>2. \A h \in Height : Stored(h) => h = 0 \/ h = Checkpoint
    BY DEF Init, InitialBlocks, Stored
  <2>3. NoGapAboveCheckpoint
    BY <2>2, HeightAssumption DEF NoGapAboveCheckpoint, Height
  <2>4. ScannedBelowTip /\ Unscanned
    BY DEF Init, ScannedBelowTip, Unscanned
  <2>5. RegtestRows
    <3>1. CASE Checkpoint = 0
      BY <2>2, <3>1, HeightAssumption DEF RegtestRows, NoGapFrom, Height
    <3>2. CASE Checkpoint # 0
      BY <2>4, <3>2 DEF RegtestRows, Fresh, Init
    <3> QED
      BY <3>1, <3>2
  <2> QED
    BY <2>1, <2>3, <2>4, <2>5 DEF TipInv
<1> QED
  BY <1>1, TipStep, PTL DEF Spec

\* update may compare the block at the lower of the tip and its last block:
\* rows above the checkpoint have no gap and no scanned account is ahead of
\* the stored chain, through every rollback and reorganisation.
THEOREM TipIsComparable == Spec => []TipComparable
<1>1. TipInv => TipComparable
  BY DEF TipInv, TipComparable
<1> QED
  BY <1>1, TipInvariant, PTL

-----------------------------------------------------------------------------
(* The checkpoint *)

\* Scan heights only rise, or fall to a height that is not below the checkpoint.
ScansKept ==
    \A a \in accounts, b \in accounts' :
        a.id = b.id => b.scan >= Min(a.scan, Checkpoint)

\* Without a divergence sync_chain only adds rows.
LEMMA SyncKeepsRows ==
    ASSUME NEW c, NEW height \in Height, NEW last \in Height,
           blocks[height] = c[height],
           \A k \in (height + 1)..last : ~Diverges(c, k),
           \A h \in Height : blocks'[h] = IF h \in height..last THEN c[h]
                                                               ELSE blocks[h]
    PROVE  \A h \in Height : Stored(h) => blocks'[h] = blocks[h]
<1> USE HeightAssumption DEF Height
<1> SUFFICES ASSUME NEW h \in Height, Stored(h) PROVE blocks'[h] = blocks[h]
  OBVIOUS
<1>1. CASE h = height
  BY <1>1
<1>2. CASE h \in (height + 1)..last
  <2>1. ~Diverges(c, h)
    BY <1>2
  <2>2. blocks[h] = c[h]
    BY <2>1 DEF Diverges
  <2> QED
    BY <1>2, <2>2
<1>3. CASE h \notin height..last
  BY <1>3
<1> QED
  BY <1>1, <1>2, <1>3

\* With unique ids it is enough that every new row comes from an old one.
LEMMA ScansFollow ==
    ASSUME IndexInv,
           \A n \in accounts' : \E a \in accounts :
              n.id = a.id /\ n.scan >= Min(a.scan, Checkpoint)
    PROVE  ScansKept
  BY IndexRows DEF ScansKept

\* A step that stores a block neither rewrites a row at or below the
\* checkpoint nor takes an account back below it.
LEMMA CheckpointStep ==
    ASSUME IndexInv, [Next]_vars, ~Regtest,
           \E h \in Height : ~Stored(h) /\ blocks'[h] # NoBlock
    PROVE  /\ \A h \in 0..Checkpoint : Stored(h) => blocks'[h] = blocks[h]
           /\ ScansKept
<1> USE HeightAssumption DEF Height
<1>1. TypeOK /\ \A h \in 0..Checkpoint : h \in Height
  BY DEF IndexInv
<1>2. \A a \in accounts : a.id = a.id /\ a.scan >= Min(a.scan, Checkpoint)
  BY AccountHeights DEF Min
<1>3. CASE Open
  <2>1. ScansKept
    BY <1>2, <1>3, ScansFollow DEF Open
  <2> QED
    BY <1>1, <1>3, <2>1 DEF Open
<1>4. ASSUME NEW h \in Height, Rollback(h) PROVE FALSE
  BY <1>4 DEF Rollback, Stored
<1>5. ASSUME NEW c \in Chains, NEW height \in Height, NEW last \in Height,
             height <= last, SyncChain(height, last, c)
      PROVE  /\ \A h \in 0..Checkpoint : Stored(h) => blocks'[h] = blocks[h]
             /\ ScansKept
  <2>1. CASE /\ \A k \in (height + 1)..last : ~Diverges(c, k)
             /\ blocks' = [h \in Height |-> IF h \in height..last THEN c[h]
                                                                 ELSE blocks[h]]
             /\ UNCHANGED accounts
    <3>1. \A h \in Height : Stored(h) => blocks'[h] = blocks[h]
      <4>1. blocks[height] = c[height]
        BY <1>5 DEF SyncChain
      <4>2. \A h \in Height : blocks'[h] = IF h \in height..last THEN c[h]
                                                               ELSE blocks[h]
        BY <2>1
      <4> QED
        BY <2>1, <4>1, <4>2, SyncKeepsRows
    <3>2. ScansKept
      BY <1>2, <2>1, ScansFollow
    <3> QED
      BY <1>1, <3>1, <3>2
  <2>2. ASSUME NEW k \in Height, Checkpoint < k,
               blocks' = [h \in Height |-> IF h < k THEN blocks[h]
                                           ELSE IF h <= last THEN c[h]
                                           ELSE NoBlock],
               RollbackAccounts(k)
        PROVE  /\ \A h \in 0..Checkpoint : Stored(h) => blocks'[h] = blocks[h]
               /\ ScansKept
    <3>1. ASSUME NEW n \in accounts'
          PROVE  \E a \in accounts : n.id = a.id /\ n.scan >= Min(a.scan, Checkpoint)
      <4>1. PICK a \in accounts :
             Moved(a, n, IF a.scan >= k THEN RollbackHeight(k) ELSE a.scan,
                   IF a.scan >= k THEN Min(RollbackHeight(k), a.start)
                                  ELSE a.start)
        BY <2>2, RollbackMoves
      <4>2. a.scan \in Int
        BY AccountHeights
      <4>3. RollbackHeight(k) >= Checkpoint
        BY <2>2 DEF RollbackHeight
      <4> QED
        BY <4>1, <4>2, <4>3 DEF Moved, Min, RollbackHeight
    <3>2. ScansKept
      BY <3>1, ScansFollow
    <3> QED
      BY <1>1, <2>2, <3>2
  <2> QED
    BY <1>5, <2>1, <2>2 DEF SyncChain
<1>6. ASSUME NEW c \in Chains, NEW height \in Height, NEW last \in Height,
             NEW some, NEW known, NEW s,
             height <= last, CheckInOf(c, height, last, some, known, s)
      PROVE  /\ \A h \in 0..Checkpoint : Stored(h) => blocks'[h] = blocks[h]
             /\ ScansKept
  <2>1. PICK chain, users : Update(height, last, chain, users)
    BY <1>6, Zenon DEF CheckInOf
  <2>2. \A h \in Height : Stored(h) => blocks'[h] = blocks[h]
    BY <2>1 DEF Update
  <2>3. ASSUME NEW n \in accounts'
        PROVE  \E a \in accounts : n.id = a.id /\ n.scan >= Min(a.scan, Checkpoint)
    <3>1. PICK a \in accounts :
             Moved(a, n, IF a \in Advanced(users, last) THEN last ELSE a.scan,
                   a.start)
      BY <2>1, UpdateMoves
    <3>2. a \in Advanced(users, last) => a.scan < last
      BY DEF Advanced, Stores
    <3>3. a.scan \in Int
      BY AccountHeights
    <3> QED
      BY <3>1, <3>2, <3>3 DEF Moved, Min
  <2>4. ScansKept
    BY <2>3, ScansFollow
  <2> QED
    BY <1>1, <2>2, <2>4
<1>7. CASE UNCHANGED blocks
  BY <1>7 DEF Stored
<1>8. ASSUME NEW status, NEW address, ChangeStatus(status, address)
      PROVE  UNCHANGED blocks
  BY <1>8 DEF ChangeStatus
<1> QED
  BY <1>1, <1>3, <1>4, <1>5, <1>6, <1>7, <1>8, StepKinds, Zenon

\* Outside regtest, a synchronisation or a check-in never rewrites or drops a
\* block at or below the last checkpoint, nor takes an account back below it.
THEOREM CheckpointIsFinal == Spec => CheckpointFinal
<1>1. IndexInv /\ [Next]_vars =>
        [(~Regtest /\ \E h \in Height : ~Stored(h) /\ blocks'[h] # NoBlock)
           => /\ \A h \in 0..Checkpoint : Stored(h) => blocks'[h] = blocks[h]
              /\ \A a \in accounts, b \in accounts' :
                    a.id = b.id => b.scan >= Min(a.scan, Checkpoint)]_vars
  BY CheckpointStep DEF ScansKept
<1> QED
  BY <1>1, IndexInvariant, PTL DEF Spec, CheckpointFinal

-----------------------------------------------------------------------------
(* The rows of the accounts *)

\* o is the row of a payment to the address in some block of the chain.
PaidRow(o, id, address, c) ==
    \E h \in Height : \E p \in Payments[c[h]] :
        /\ p.address = address
        /\ o = [id |-> id, height |-> h, hash |-> c[h], output |-> p.output]

\* s is an input of the chain that spends an earlier payment to the address.
SpentRow(s, address, c) ==
    /\ s.hash = c[s.height]
    /\ ImageOf(s) \in Inputs[s.hash]
    /\ s.source \in Owned(address, c, s.height)

\* OutputsOnChain(c), row by row.
OutputsHeld(c) ==
    \A a \in accounts : \A o :
        o \in outputs /\ o.id = a.id
          <=> /\ PaidRow(o, a.id, a.address, c)
              /\ a.start < o.height /\ o.height <= a.scan
              /\ <<a.id, o.height>> \notin lost

\* SpendsOnChain(c) with the heights apart.
SpendsHeld(c) ==
    \A s \in spends : \E a \in accounts :
        /\ a.id = s.id
        /\ a.start < s.height /\ s.height <= a.scan
        /\ SpentRow(s, a.address, c)

\* Every stored output belongs to an account.
OutputsOwned == \A o \in outputs : \E a \in accounts : a.id = o.id

\* The key images are those of the stored spends.
ImagesHeld == images = {ImageOf(s) : s \in spends}

(***************************************************************************)
(* The inductive invariant.  AccountsOnChain alone is not inductive: a new *)
(* account must not find rows under its id (OutputsOwned), a batch is      *)
(* compared only at the tip, so the scanned blocks must lie below it       *)
(* (TipInv), and rows are found by id, so ids must be unique (IndexInv).   *)
(***************************************************************************)
RowsOn(c) ==
    (OnChain(c) \/ (Fresh /\ Unscanned)) /\ OutputsHeld(c) /\ SpendsHeld(c)

AccountInv ==
    /\ TipInv /\ BlocksOnOneChain
    /\ OutputsOwned /\ ImagesHeld
    /\ \E c \in Chains : RowsOn(c)

\* A paid row has the id it is asked for and a height of the chain.
LEMMA PaidRowFields ==
    ASSUME NEW o, NEW id, NEW address, NEW c, PaidRow(o, id, address, c)
    PROVE  o.id = id /\ o.height \in Height
  BY DEF PaidRow

\* What a scan finds are the paid rows of the heights it went over.
LEMMA PaidRowsIff ==
    ASSUME NEW id, NEW address, NEW c, NEW lo \in Height, NEW hi \in Height, NEW o
    PROVE  o \in PaidRows(id, address, c, lo, hi)
              <=> PaidRow(o, id, address, c) /\ lo < o.height /\ o.height <= hi
<1> USE HeightAssumption DEF Height
<1>1. ASSUME o \in PaidRows(id, address, c, lo, hi)
      PROVE  PaidRow(o, id, address, c) /\ lo < o.height /\ o.height <= hi
  <2>1. PICK h \in (lo + 1)..hi : \E p \in Payments[c[h]] :
           /\ p.address = address
           /\ o = [id |-> id, height |-> h, hash |-> c[h], output |-> p.output]
    BY <1>1 DEF PaidRows
  <2>2. h \in Height /\ o.height = h
    BY <2>1
  <2> QED
    BY <2>1, <2>2 DEF PaidRow
<1>2. ASSUME PaidRow(o, id, address, c), lo < o.height, o.height <= hi
      PROVE  o \in PaidRows(id, address, c, lo, hi)
  <2>1. PICK h \in Height : \E p \in Payments[c[h]] :
           /\ p.address = address
           /\ o = [id |-> id, height |-> h, hash |-> c[h], output |-> p.output]
    BY <1>2 DEF PaidRow
  <2>2. h \in (lo + 1)..hi
    BY <1>2, <2>1
  <2> QED
    BY <2>1, <2>2 DEF PaidRows
<1> QED
  BY <1>1, <1>2

\* Chains that agree up to a row have it in common.
LEMMA PaidRowSame ==
    ASSUME NEW o, NEW id, NEW address, NEW c, NEW d, c[o.height] = d[o.height],
           PaidRow(o, id, address, c)
    PROVE  PaidRow(o, id, address, d)
<1>1. PICK h \in Height : \E p \in Payments[c[h]] :
         /\ p.address = address
         /\ o = [id |-> id, height |-> h, hash |-> c[h], output |-> p.output]
  BY DEF PaidRow
<1>2. c[h] = d[h]
  BY <1>1
<1> QED
  BY <1>1, <1>2 DEF PaidRow

\* The same for spends: what was owned before is common to both chains.
LEMMA SpentRowSame ==
    ASSUME NEW s, s.height \in Height, NEW address, NEW c, NEW d,
           \A h \in Height : h <= s.height => c[h] = d[h],
           SpentRow(s, address, c)
    PROVE  SpentRow(s, address, d)
<1>1. \A k \in 0..(s.height - 1) : Payments[c[k]] = Payments[d[k]]
  BY HeightAssumption DEF Height
<1>2. Owned(address, c, s.height) = Owned(address, d, s.height)
  BY <1>1 DEF Owned
<1>3. c[s.height] = d[s.height]
  BY HeightAssumption DEF Height
<1> QED
  BY <1>2, <1>3 DEF SpentRow

\* OutputsHeld and SpendsHeld are OutputsOnChain and SpendsOnChain.
LEMMA HeldIffOnChain ==
    ASSUME IndexInv, NEW c
    PROVE  /\ OutputsHeld(c) <=> OutputsOnChain(c)
           /\ SpendsHeld(c) <=> SpendsOnChain(c)
<1>1. ASSUME NEW a \in accounts
      PROVE  (\A o : o \in outputs /\ o.id = a.id
                 <=> /\ PaidRow(o, a.id, a.address, c)
                     /\ a.start < o.height /\ o.height <= a.scan
                     /\ <<a.id, o.height>> \notin lost)
             <=> {o \in outputs : o.id = a.id} =
                    {o \in PaidRows(a.id, a.address, c, a.start, a.scan) :
                       <<a.id, o.height>> \notin lost}
  <2>1. \A o : o \in PaidRows(a.id, a.address, c, a.start, a.scan)
                 <=> /\ PaidRow(o, a.id, a.address, c)
                     /\ a.start < o.height /\ o.height <= a.scan
    BY AccountHeights, PaidRowsIff
  <2> QED
    BY <2>1
<1>2. OutputsHeld(c) <=> OutputsOnChain(c)
  BY <1>1 DEF OutputsHeld, OutputsOnChain
<1>3. ASSUME NEW s \in spends, NEW a \in accounts
      PROVE  a.start < s.height /\ s.height <= a.scan
                <=> s.height \in (a.start + 1)..a.scan
  <2>1. s.height \in Int
    BY HeightAssumption DEF IndexInv, TypeOK, SpendRow, Height
  <2> QED
    BY <2>1, AccountHeights
<1>4. SpendsHeld(c) <=> SpendsOnChain(c)
  BY <1>3 DEF SpendsHeld, SpendsOnChain, SpentRow
<1> QED
  BY <1>2, <1>4

\* The rows are on another chain too that agrees over the scanned blocks.
LEMMA SwapChain ==
    ASSUME IndexInv, NEW c, NEW d, OutputsHeld(c), SpendsHeld(c),
           \A a \in accounts : a.start < a.scan =>
              \A h \in Height : h <= a.scan => c[h] = d[h]
    PROVE  OutputsHeld(d) /\ SpendsHeld(d)
<1> USE HeightAssumption DEF Height
<1>1. ASSUME NEW a \in accounts, NEW o, o.height \in Height,
             a.start < o.height, o.height <= a.scan
      PROVE  PaidRow(o, a.id, a.address, c) <=> PaidRow(o, a.id, a.address, d)
  <2>1. c[o.height] = d[o.height]
    BY <1>1, AccountHeights
  <2> QED
    BY <2>1, PaidRowSame
<1>2. \A a \in accounts : \A o :
         /\ PaidRow(o, a.id, a.address, c) => o.height \in Height
         /\ PaidRow(o, a.id, a.address, d) => o.height \in Height
  BY PaidRowFields, Zenon
<1>3. OutputsHeld(d)
  BY <1>1, <1>2 DEF OutputsHeld
<1>4. ASSUME NEW s \in spends
      PROVE  \E a \in accounts : /\ a.id = s.id
                                 /\ a.start < s.height /\ s.height <= a.scan
                                 /\ SpentRow(s, a.address, d)
  <2>1. PICK a \in accounts : /\ a.id = s.id
                              /\ a.start < s.height /\ s.height <= a.scan
                              /\ SpentRow(s, a.address, c)
    BY DEF SpendsHeld
  <2>2. s.height \in Height
    BY DEF IndexInv, TypeOK, SpendRow
  <2>3. \A h \in Height : h <= s.height => c[h] = d[h]
    BY <2>1, <2>2, AccountHeights
  <2>4. SpentRow(s, a.address, d)
    BY <2>1, <2>2, <2>3, SpentRowSame
  <2> QED
    BY <2>1, <2>4
<1>5. SpendsHeld(d)
  BY <1>4 DEF SpendsHeld
<1> QED
  BY <1>3, <1>5

\* An output index pays one address on a chain.
LEMMA OwnedOnce ==
    ASSUME NEW c \in Chains, NEW x, NEW y, NEW h \in Height, NEW k \in Height,
           NEW o, o \in Owned(x, c, h), o \in Owned(y, c, k)
    PROVE  x = y
<1> USE HeightAssumption DEF Height
<1>1. PICK i \in 0..(h - 1) : \E p \in Payments[c[i]] : p.address = x /\ p.output = o
  BY DEF Owned
<1>2. PICK j \in 0..(k - 1) : \E p \in Payments[c[j]] : p.address = y /\ p.output = o
  BY DEF Owned
<1>3. i \in Height /\ j \in Height
  OBVIOUS
<1>4. PICK p \in Payments[c[i]] : p.address = x /\ p.output = o
  BY <1>1
<1>5. PICK q \in Payments[c[j]] : q.address = y /\ q.output = o
  BY <1>2
<1>6. p = q
  BY <1>3, <1>4, <1>5, TransactionAssumption
<1> QED
  BY <1>4, <1>5, <1>6

\* No two stored spends share a key image and source: one chain uses the pair
\* once, and its source pays one account.
LEMMA SpendsDistinct ==
    ASSUME IndexInv, NEW c \in Chains, SpendsHeld(c),
           NEW s \in spends, NEW t \in spends, ImageOf(s) = ImageOf(t)
    PROVE  s = t
<1>1. s \in SpendRow /\ t \in SpendRow
  BY DEF IndexInv, TypeOK
<1>2. s.source = t.source /\ s.image = t.image
  BY DEF ImageOf
<1>3. PICK a \in accounts : a.id = s.id /\ SpentRow(s, a.address, c)
  BY DEF SpendsHeld
<1>4. PICK b \in accounts : b.id = t.id /\ SpentRow(t, b.address, c)
  BY DEF SpendsHeld
<1>5. s.height \in Height /\ t.height \in Height
  BY <1>1 DEF SpendRow
<1>6. ImageOf(s) \in Inputs[c[s.height]] /\ ImageOf(s) \in Inputs[c[t.height]]
  BY <1>3, <1>4 DEF SpentRow
<1>7. s.height = t.height
  BY <1>5, <1>6, TransactionAssumption
<1>8. s.hash = t.hash
  BY <1>3, <1>4, <1>7 DEF SpentRow
<1>9. a.address = b.address
  BY <1>2, <1>3, <1>4, <1>5, OwnedOnce DEF SpentRow
<1>10. s.id = t.id
  BY <1>3, <1>4, <1>9 DEF IndexInv, KeysUnique
<1> QED
  BY <1>1, <1>2, <1>7, <1>8, <1>10 DEF SpendRow

\* Deleting spends with their images leaves the images of the others.
LEMMA ImagesFollow ==
    ASSUME IndexInv, ImagesHeld, NEW c \in Chains, SpendsHeld(c),
           NEW rows, rows \subseteq spends,
           spends' = spends \ rows, images' = ImagesWithout(rows)
    PROVE  ImagesHeld'
<1>1. \A s, t \in spends : ImageOf(s) = ImageOf(t) => s = t
  BY SpendsDistinct
<1>2. images' = {ImageOf(s) : s \in spends} \ {ImageOf(s) : s \in rows}
  BY DEF ImagesWithout, ImagesHeld
<1>3. images' = {ImageOf(s) : s \in spends \ rows}
  BY <1>1, <1>2
<1> QED
  BY <1>3 DEF ImagesHeld, ImageOf

\* rollback_outputs and rollback_spends delete an account's rows from h on.
LEMMA DroppedIff ==
    ASSUME IndexInv, NEW rows, NEW r \in rows, NEW h \in Height,
           NEW a \in accounts, a.id = r.id
    PROVE  r \in Dropped(rows, h) <=> r.height >= h /\ a.scan >= h
<1>1. BH(a) \in accounts_bh /\ BH(a).height = a.scan /\ BH(a).id = a.id
  BY IndexRows DEF BH
<1>2. ASSUME NEW b \in accounts_bh, b.id = a.id PROVE b = BH(a)
  <2>1. PICK x \in accounts : b = BH(x)
    BY IndexRows
  <2>2. x.id = a.id
    BY <1>2, <2>1 DEF BH
  <2> QED
    BY <2>1, <2>2, IndexRows
<1> QED
  BY <1>1, <1>2 DEF Dropped

\* A rollback to h keeps exactly the rows below h; they are on every chain
\* that agrees below h.
LEMMA RollbackRows ==
    ASSUME IndexInv, OutputsOwned, ImagesHeld, NEW c \in Chains, NEW e \in Chains,
           OutputsHeld(c), SpendsHeld(c), NEW h \in Height, RollbackAccounts(h),
           \A k \in Height : k < h => c[k] = e[k]
    PROVE  OutputsOwned' /\ ImagesHeld' /\ OutputsHeld(e)' /\ SpendsHeld(e)'
<1> USE HeightAssumption DEF Height
<1>1. /\ outputs' = outputs \ Dropped(outputs, h)
      /\ spends' = spends \ Dropped(spends, h)
      /\ images' = ImagesWithout(Dropped(spends, h))
      /\ lost' = {l \in lost : l[2] < h}
  BY DEF RollbackAccounts
<1>2. \A o \in outputs : o.height \in Int
  BY DEF IndexInv, TypeOK, OutputRow
<1>3. \A s \in spends : s.height \in Height
  BY DEF IndexInv, TypeOK, SpendRow
<1>4. ASSUME NEW n \in accounts', NEW a \in accounts,
             Moved(a, n, IF a.scan >= h THEN RollbackHeight(h) ELSE a.scan,
                   IF a.scan >= h THEN Min(RollbackHeight(h), a.start)
                                  ELSE a.start),
             NEW k \in Int
      PROVE  n.start < k /\ k <= n.scan <=> a.start < k /\ k <= a.scan /\ k < h
  <2>1. a.scan \in Int /\ a.start \in Int /\ 0 <= a.start
    BY AccountHeights
  <2> QED
    BY <1>4, <2>1 DEF Moved, Min, RollbackHeight
<1>5. ASSUME NEW n \in accounts', NEW o
      PROVE  o \in outputs' /\ o.id = n.id
               <=> /\ PaidRow(o, n.id, n.address, e)
                   /\ n.start < o.height /\ o.height <= n.scan
                   /\ <<n.id, o.height>> \notin lost'
  <2>1. PICK a \in accounts :
           Moved(a, n, IF a.scan >= h THEN RollbackHeight(h) ELSE a.scan,
                 IF a.scan >= h THEN Min(RollbackHeight(h), a.start)
                                ELSE a.start)
    BY RollbackMoves
  <2>2. n.id = a.id /\ n.address = a.address
    BY <2>1 DEF Moved
  <2>3. o \in outputs /\ o.id = a.id
          <=> /\ PaidRow(o, a.id, a.address, c)
              /\ a.start < o.height /\ o.height <= a.scan
              /\ <<a.id, o.height>> \notin lost
    BY DEF OutputsHeld
  <2>4. ASSUME o.height \in Height
        PROVE  n.start < o.height /\ o.height <= n.scan
                  <=> a.start < o.height /\ o.height <= a.scan /\ o.height < h
    BY <1>4, <2>1, <2>4
  <2>5. ASSUME o \in outputs, o.id = a.id
        PROVE  o \in outputs' <=> o.height < h
    <3>1. o.height <= a.scan /\ o.height \in Int /\ a.scan \in Int
      BY <1>2, <2>3, <2>5, AccountHeights
    <3>2. o \in Dropped(outputs, h) <=> o.height >= h /\ a.scan >= h
      BY <2>5, DroppedIff
    <3> QED
      BY <1>1, <2>5, <3>1, <3>2
  <2>6. PaidRow(o, a.id, a.address, c) => o.height \in Height
    BY PaidRowFields
  <2>7. PaidRow(o, a.id, a.address, e) => o.height \in Height
    BY PaidRowFields
  <2>8. o.height \in Height /\ o.height < h =>
          (PaidRow(o, a.id, a.address, c) <=> PaidRow(o, a.id, a.address, e))
    BY PaidRowSame
  <2>9. o.height < h => (<<a.id, o.height>> \in lost' <=> <<a.id, o.height>> \in lost)
    BY <1>1
  <2>10. o \in outputs' => o \in outputs
    BY <1>1
  <2> QED
    BY <2>2, <2>3, <2>4, <2>5, <2>6, <2>7, <2>8, <2>9, <2>10
<1>6. OutputsHeld(e)'
  BY <1>5 DEF OutputsHeld, PaidRow
<1>7. ASSUME NEW s \in spends'
      PROVE  \E n \in accounts' : /\ n.id = s.id
                                  /\ n.start < s.height /\ s.height <= n.scan
                                  /\ SpentRow(s, n.address, e)
  <2>1. s \in spends /\ s \notin Dropped(spends, h)
    BY <1>1, <1>7
  <2>2. PICK a \in accounts : /\ a.id = s.id
                              /\ a.start < s.height /\ s.height <= a.scan
                              /\ SpentRow(s, a.address, c)
    BY <2>1 DEF SpendsHeld
  <2>3. s.height < h
    BY <1>3, <2>1, <2>2, DroppedIff, AccountHeights
  <2>4. PICK n \in accounts' : n.id = a.id
    BY RollbackMoves
  <2>5. PICK x \in accounts :
           Moved(x, n, IF x.scan >= h THEN RollbackHeight(h) ELSE x.scan,
                 IF x.scan >= h THEN Min(RollbackHeight(h), x.start)
                                ELSE x.start)
    BY RollbackMoves
  <2>6. x = a
    BY <2>4, <2>5, IndexRows DEF Moved
  <2>7. n.start < s.height /\ s.height <= n.scan
    BY <1>3, <1>4, <2>1, <2>2, <2>3, <2>5, <2>6
  <2>8. SpentRow(s, a.address, e)
    BY <1>3, <2>1, <2>2, <2>3, SpentRowSame
  <2> QED
    BY <2>2, <2>4, <2>5, <2>6, <2>7, <2>8 DEF Moved
<1>8. SpendsHeld(e)'
  BY <1>7 DEF SpendsHeld, SpentRow, Owned, ImageOf
<1>9. OutputsOwned'
  BY <1>1, RollbackMoves DEF OutputsOwned
<1>10. ImagesHeld'
  BY <1>1, ImagesFollow DEF Dropped
<1> QED
  BY <1>6, <1>8, <1>9, <1>10

\* change_height keeps the rows of the account below the height, and notes the
\* height itself as lost when the scan does not return to it.
LEMMA ChangeHeightRows ==
    ASSUME IndexInv, OutputsOwned, ImagesHeld, NEW c \in Chains,
           OutputsHeld(c), SpendsHeld(c), NEW height \in Height, NEW address,
           ChangeHeight(height, address)
    PROVE  OutputsOwned' /\ ImagesHeld' /\ OutputsHeld(c)' /\ SpendsHeld(c)'
<1> USE HeightAssumption DEF Height
<1>1. PICK a \in accounts, n \in accounts' :
              /\ Moved(a, n, Min(height, a.scan), Min(height, a.start))
              /\ accounts' = (accounts \ {a}) \cup {n}
              /\ outputs' = outputs \ Above(outputs, a.id, height)
              /\ spends' = spends \ Above(spends, a.id, height)
              /\ images' = ImagesWithout(Above(spends, a.id, height))
              /\ lost' = {l \in lost : l[1] # a.id \/ l[2] < height} \cup
                    (IF a.start < height /\ height <= a.scan
                       THEN {<<a.id, height>>} ELSE {})
  BY ChangeHeightMoves
<1>2. \A o \in outputs : o.height \in Int
  BY DEF IndexInv, TypeOK, OutputRow
<1>3. \A s \in spends : s.height \in Int
  BY DEF IndexInv, TypeOK, SpendRow
<1>4. a.scan \in Int /\ a.start \in Int
  BY AccountHeights
<1>5. /\ n.id = a.id /\ n.address = a.address
      /\ n.scan = Min(height, a.scan) /\ n.start = Min(height, a.start)
  BY <1>1 DEF Moved
<1>6. ASSUME NEW x \in accounts, x # a PROVE x.id # a.id
  BY <1>6, IndexRows
<1>7. ASSUME NEW x \in accounts, x # a, NEW o
      PROVE  o \in outputs' /\ o.id = x.id
               <=> /\ PaidRow(o, x.id, x.address, c)
                   /\ x.start < o.height /\ o.height <= x.scan
                   /\ <<x.id, o.height>> \notin lost'
  <2>1. o \in outputs /\ o.id = x.id
          <=> /\ PaidRow(o, x.id, x.address, c)
              /\ x.start < o.height /\ o.height <= x.scan
              /\ <<x.id, o.height>> \notin lost
    BY DEF OutputsHeld
  <2>2. o.id = x.id => (o \in outputs' <=> o \in outputs)
    BY <1>1, <1>6, <1>7 DEF Above
  <2>3. <<x.id, o.height>> \in lost' <=> <<x.id, o.height>> \in lost
    BY <1>1, <1>6, <1>7
  <2> QED
    BY <2>1, <2>2, <2>3
<1>8. ASSUME NEW o
      PROVE  o \in outputs' /\ o.id = n.id
               <=> /\ PaidRow(o, n.id, n.address, c)
                   /\ n.start < o.height /\ o.height <= n.scan
                   /\ <<n.id, o.height>> \notin lost'
  <2>1. o \in outputs /\ o.id = a.id
          <=> /\ PaidRow(o, a.id, a.address, c)
              /\ a.start < o.height /\ o.height <= a.scan
              /\ <<a.id, o.height>> \notin lost
    BY DEF OutputsHeld
  <2>2. PaidRow(o, a.id, a.address, c) => o.height \in Int
    BY PaidRowFields
  <2>3. o \in outputs /\ o.id = a.id => (o \in outputs' <=> o.height < height)
    BY <1>1, <1>2 DEF Above
  <2>4. o \in outputs' => o \in outputs
    BY <1>1
  <2>5. <<a.id, o.height>> \in lost'
          <=> \/ <<a.id, o.height>> \in lost /\ o.height < height
              \/ a.start < height /\ height <= a.scan /\ o.height = height
    BY <1>1
  <2>6. ASSUME o.height \in Int
        PROVE  /\ n.start < o.height /\ o.height <= n.scan
               /\ ~(a.start < height /\ height <= a.scan /\ o.height = height)
               <=> a.start < o.height /\ o.height <= a.scan /\ o.height < height
    BY <1>4, <1>5, <2>6 DEF Min
  <2> QED
    BY <1>5, <2>1, <2>2, <2>3, <2>4, <2>5, <2>6
<1>9. OutputsHeld(c)'
  <2>1. ASSUME NEW x \in accounts', NEW o
        PROVE  o \in outputs' /\ o.id = x.id
               <=> /\ PaidRow(o, x.id, x.address, c)
                   /\ x.start < o.height /\ o.height <= x.scan
                   /\ <<x.id, o.height>> \notin lost'
    BY <1>1, <1>7, <1>8
  <2> QED
    BY <2>1 DEF OutputsHeld, PaidRow
<1>10. ASSUME NEW s \in spends'
       PROVE  \E x \in accounts' : /\ x.id = s.id
                                   /\ x.start < s.height /\ s.height <= x.scan
                                   /\ SpentRow(s, x.address, c)
  <2>1. s \in spends /\ ~(s.id = a.id /\ s.height >= height)
    BY <1>1, <1>10 DEF Above
  <2>2. PICK x \in accounts : /\ x.id = s.id
                              /\ x.start < s.height /\ s.height <= x.scan
                              /\ SpentRow(s, x.address, c)
    BY <2>1 DEF SpendsHeld
  <2>3. CASE x # a
    BY <1>1, <2>2, <2>3
  <2>4. CASE x = a
    <3>1. n.start < s.height /\ s.height <= n.scan
      BY <1>3, <1>4, <1>5, <2>1, <2>2, <2>4 DEF Min
    <3> QED
      BY <1>1, <1>5, <2>2, <2>4, <3>1
  <2> QED
    BY <2>3, <2>4
<1>11. SpendsHeld(c)'
  BY <1>10 DEF SpendsHeld, SpentRow, Owned, ImageOf
<1>12. OutputsOwned'
  BY <1>1, <1>5 DEF OutputsOwned
<1>13. ImagesHeld'
  BY <1>1, ImagesFollow DEF Above
<1> QED
  BY <1>9, <1>11, <1>12, <1>13

\* A new account has no rows, and finds none under its id.
LEMMA AddRows ==
    ASSUME IndexInv, OutputsOwned, ImagesHeld, NEW c \in Chains,
           OutputsHeld(c), SpendsHeld(c),
           NEW id \in AccountId, NEW address, NEW height \in Height, NEW status,
           IsLastId(id - 1), DoAddAccount(id, address, height, status),
           UNCHANGED <<outputs, spends, images, lost>>
    PROVE  OutputsOwned' /\ ImagesHeld' /\ OutputsHeld(c)' /\ SpendsHeld(c)'
<1> USE HeightAssumption DEF Height
<1>1. PICK n : /\ accounts' = accounts \cup {n}
               /\ n.id = id /\ n.scan = height /\ n.start = height
               /\ \A a \in accounts : a.id # id
  BY DoAddAccountAdds
<1>2. OutputsOwned' /\ ImagesHeld'
  BY <1>1 DEF OutputsOwned, ImagesHeld, ImageOf
<1>3. ASSUME NEW o
      PROVE  /\ ~(o \in outputs /\ o.id = n.id)
             /\ ~(PaidRow(o, n.id, n.address, c)
                  /\ n.start < o.height /\ o.height <= n.scan)
  <2>1. ~(o \in outputs /\ o.id = n.id)
    BY <1>1 DEF OutputsOwned
  <2>2. PaidRow(o, n.id, n.address, c) => o.height \in Height
    BY PaidRowFields
  <2> QED
    BY <1>1, <2>1, <2>2
<1>4. OutputsHeld(c)'
  <2>1. ASSUME NEW x \in accounts', NEW o
        PROVE  o \in outputs' /\ o.id = x.id
               <=> /\ PaidRow(o, x.id, x.address, c)
                   /\ x.start < o.height /\ o.height <= x.scan
                   /\ <<x.id, o.height>> \notin lost'
    <3>1. CASE x = n
      BY <1>3, <3>1
    <3>2. CASE x \in accounts
      BY <3>2 DEF OutputsHeld
    <3> QED
      BY <1>1, <3>1, <3>2
  <2> QED
    BY <2>1 DEF OutputsHeld, PaidRow
<1>5. SpendsHeld(c)'
  <2>1. ASSUME NEW s \in spends'
        PROVE  \E x \in accounts' : /\ x.id = s.id
                                    /\ x.start < s.height /\ s.height <= x.scan
                                    /\ SpentRow(s, x.address, c)
    BY <1>1, <2>1 DEF SpendsHeld
  <2> QED
    BY <2>1 DEF SpendsHeld, SpentRow, Owned, ImageOf
<1> QED
  BY <1>2, <1>4, <1>5

\* A status says nothing about the rows.
LEMMA ChangeStatusRows ==
    ASSUME IndexInv, OutputsOwned, ImagesHeld, NEW c \in Chains,
           OutputsHeld(c), SpendsHeld(c),
           NEW status, NEW address, ChangeStatus(status, address)
    PROVE  OutputsOwned' /\ ImagesHeld' /\ OutputsHeld(c)' /\ SpendsHeld(c)'
<1>1. PICK a \in accounts, n \in accounts' :
         /\ Moved(a, n, a.scan, a.start)
         /\ accounts' = (accounts \ {a}) \cup {n}
  BY ChangeStatusMoves
<1>2. UNCHANGED <<outputs, spends, images, lost>>
  BY DEF ChangeStatus
<1>3. /\ n.id = a.id /\ n.address = a.address
      /\ n.scan = a.scan /\ n.start = a.start
  BY <1>1 DEF Moved
<1>4. OutputsOwned' /\ ImagesHeld'
  BY <1>1, <1>2, <1>3 DEF OutputsOwned, ImagesHeld, ImageOf
<1>5. OutputsHeld(c)'
  <2>1. ASSUME NEW x \in accounts', NEW o
        PROVE  o \in outputs' /\ o.id = x.id
               <=> /\ PaidRow(o, x.id, x.address, c)
                   /\ x.start < o.height /\ o.height <= x.scan
                   /\ <<x.id, o.height>> \notin lost'
    <3>1. CASE x = n
      BY <1>2, <1>3, <3>1 DEF OutputsHeld
    <3>2. CASE x \in accounts
      BY <1>2, <3>2 DEF OutputsHeld
    <3> QED
      BY <1>1, <3>1, <3>2
  <2> QED
    BY <2>1 DEF OutputsHeld, PaidRow
<1>6. SpendsHeld(c)'
  <2>1. ASSUME NEW s \in spends'
        PROVE  \E x \in accounts' : /\ x.id = s.id
                                    /\ x.start < s.height /\ s.height <= x.scan
                                    /\ SpentRow(s, x.address, c)
    BY <1>1, <1>2, <1>3, <2>1 DEF SpendsHeld
  <2> QED
    BY <2>1 DEF SpendsHeld, SpentRow, Owned, ImageOf
<1> QED
  BY <1>4, <1>5, <1>6

\* The accounts that a check-in hands to update.
ScannedUsers(some, s, d, last, known) ==
    {ScannedUser(a, s[a], d, last, known) : a \in some}

\* update stores the rows of exactly the accounts that it advances, each found
\* again by its id and scanned from a height it had reached: they complete what
\* the account has up to its new scan height, on the chain e of the database.
LEMMA UpdateRows ==
    ASSUME IndexInv, OutputsOwned, ImagesHeld, NEW e \in Chains,
           OutputsHeld(e), SpendsHeld(e), NEW d \in Chains,
           NEW height, NEW last \in Height, NEW chain,
           \A h \in Height : h <= last => e[h] = d[h],
           NEW some \in SUBSET accounts, NEW known, NEW s \in [some -> Height],
           \A a \in some : a.start <= s[a],
           Update(height, last, chain, ScannedUsers(some, s, d, last, known))
    PROVE  OutputsOwned' /\ ImagesHeld' /\ OutputsHeld(e)' /\ SpendsHeld(e)'
<1> USE HeightAssumption DEF Height
<1> DEFINE user(a) == ScannedUser(a, s[a], d, last, known)
           users == {user(a) : a \in some}
           adv == Advanced(users, last)
           paid(a) == PaidRows(a.id, a.address, d, s[a], last)
           spent(a) == {r \in SpentRows(a.id, d, s[a], last, known) :
                          r.source \in Owned(a.address, d, r.height)}
<1>1. /\ \A a \in adv : a \in some /\ s[a] <= a.scan /\ a.scan < last
      /\ StoredUsers(users, last) = {user(a) : a \in adv}
  <2>1. \A a \in some : user(a).id = a.id /\ user(a).scan = s[a]
    BY DEF ScannedUser
  <2> HIDE DEF user
  <2>2. ASSUME NEW a \in some, NEW x \in accounts, Stores(user(a), x, last)
        PROVE  x = a /\ s[a] <= a.scan /\ a.scan < last
    BY <2>1, <2>2, IndexRows DEF Stores, Counts, Finds
  <2>3. \A a \in adv : /\ a \in some /\ s[a] <= a.scan /\ a.scan < last
                       /\ Stores(user(a), a, last)
    BY <2>2 DEF Advanced
  <2>4. StoredUsers(users, last) = {user(a) : a \in adv}
    BY <2>2, <2>3 DEF StoredUsers, Advanced
  <2> QED
    BY <2>3, <2>4
<1>2. \A a \in adv : /\ user(a).id = a.id /\ user(a).scan = s[a]
                     /\ user(a).outputs = paid(a) /\ user(a).spends = spent(a)
  BY DEF ScannedUser
<1>3. Update(height, last, chain, users)
  BY DEF ScannedUsers
<1> HIDE DEF user, users, adv, paid, spent
<1>4. /\ outputs' = outputs \cup UNION {paid(a) : a \in adv}
      /\ spends' = spends \cup UNION {spent(a) : a \in adv}
      /\ images' = images \cup {ImageOf(r) : r \in UNION {spent(a) : a \in adv}}
      /\ lost' = {l \in lost : ~ \E a \in adv : l[1] = a.id /\ s[a] < l[2]}
  <2>1. UNION {u.outputs : u \in StoredUsers(users, last)}
           = UNION {paid(a) : a \in adv}
    BY <1>1, <1>2
  <2>2. UNION {u.spends : u \in StoredUsers(users, last)}
           = UNION {spent(a) : a \in adv}
    BY <1>1, <1>2
  <2>3. \A l : (\E u \in StoredUsers(users, last) : l[1] = u.id /\ u.scan < l[2])
                  <=> \E a \in adv : l[1] = a.id /\ s[a] < l[2]
    BY <1>1, <1>2
  <2> QED
    BY <1>3, <2>1, <2>2, <2>3 DEF Update
<1>5. ASSUME NEW a \in adv
      PROVE  /\ a \in accounts /\ a.scan \in Int /\ a.start \in Int
             /\ s[a] \in Height /\ a.start <= s[a] /\ s[a] <= a.scan
             /\ a.scan < last
  BY <1>1, AccountHeights
<1>6. ASSUME NEW a \in adv, NEW o
      PROVE  o \in paid(a) <=> /\ PaidRow(o, a.id, a.address, e)
                               /\ s[a] < o.height /\ o.height <= last
  <2>1. o \in paid(a) <=> /\ PaidRow(o, a.id, a.address, d)
                          /\ s[a] < o.height /\ o.height <= last
    BY <1>5, PaidRowsIff DEF paid
  <2>2. /\ PaidRow(o, a.id, a.address, d) => o.height \in Height
        /\ PaidRow(o, a.id, a.address, e) => o.height \in Height
    BY PaidRowFields, Zenon
  <2>3. o.height \in Height /\ o.height <= last =>
          (PaidRow(o, a.id, a.address, d) <=> PaidRow(o, a.id, a.address, e))
    BY PaidRowSame
  <2> QED
    BY <2>1, <2>2, <2>3
<1>7. ASSUME NEW a \in adv, NEW o \in paid(a) PROVE o.id = a.id
  BY <1>6, PaidRowFields
<1>8. ASSUME NEW n \in accounts', NEW o
      PROVE  o \in outputs' /\ o.id = n.id
               <=> /\ PaidRow(o, n.id, n.address, e)
                   /\ n.start < o.height /\ o.height <= n.scan
                   /\ <<n.id, o.height>> \notin lost'
  <2>1. PICK a \in accounts :
           Moved(a, n, IF a \in adv THEN last ELSE a.scan, a.start)
    BY <1>3, UpdateMoves DEF adv
  <2>2. /\ n.id = a.id /\ n.address = a.address /\ n.start = a.start
        /\ n.scan = IF a \in adv THEN last ELSE a.scan
    BY <2>1 DEF Moved
  <2>3. o \in outputs /\ o.id = a.id
          <=> /\ PaidRow(o, a.id, a.address, e)
              /\ a.start < o.height /\ o.height <= a.scan
              /\ <<a.id, o.height>> \notin lost
    BY DEF OutputsHeld
  <2>4. \A x \in adv : x.id = a.id => x = a
    BY <1>5, IndexRows
  <2>5. CASE a \notin adv
    <3>1. o.id = a.id => (o \in outputs' <=> o \in outputs)
      BY <1>4, <1>7, <2>4, <2>5
    <3>2. <<a.id, o.height>> \in lost' <=> <<a.id, o.height>> \in lost
      BY <1>4, <2>4, <2>5
    <3> QED
      BY <2>2, <2>3, <2>5, <3>1, <3>2
  <2>6. CASE a \in adv
    <3>1. o.id = a.id => (o \in outputs' <=> o \in outputs \/ o \in paid(a))
      BY <1>4, <1>7, <2>4, <2>6
    <3>2. <<a.id, o.height>> \in lost'
            <=> <<a.id, o.height>> \in lost /\ ~(s[a] < o.height)
      BY <1>4, <2>4, <2>6
    <3>3. PaidRow(o, a.id, a.address, e) => o.height \in Int /\ o.id = a.id
      BY PaidRowFields
    <3>4. o \in paid(a) <=> /\ PaidRow(o, a.id, a.address, e)
                            /\ s[a] < o.height /\ o.height <= last
      BY <1>6, <2>6
    <3> QED
      BY <1>5, <2>2, <2>3, <2>6, <3>1, <3>2, <3>3, <3>4
  <2> QED
    BY <2>5, <2>6
<1>9. OutputsHeld(e)'
  BY <1>8 DEF OutputsHeld, PaidRow
<1>10. ASSUME NEW a \in adv, NEW r \in spent(a)
       PROVE  /\ r.id = a.id /\ s[a] < r.height /\ r.height <= last
              /\ SpentRow(r, a.address, e)
  <2>1. PICK h \in (s[a] + 1)..last : \E i \in Inputs[d[h]] :
           r = [id |-> a.id, height |-> h, hash |-> d[h],
                source |-> i.source, image |-> i.image]
    BY DEF spent, SpentRows
  <2>2. PICK i \in Inputs[d[h]] :
           r = [id |-> a.id, height |-> h, hash |-> d[h],
                source |-> i.source, image |-> i.image]
    BY <2>1
  <2>3. h \in Height /\ s[a] < h /\ h <= last
    BY <1>5
  <2>4. d[h] \in Hash
    BY <2>3, ChainTypes
  <2>5. i \in [source : OutputId, image : Image]
    BY <2>2, <2>4, TransactionAssumption
  <2>6. ImageOf(r) = i
    BY <2>2, <2>5 DEF ImageOf
  <2>7. r.source \in Owned(a.address, d, r.height)
    BY DEF spent
  <2>8. SpentRow(r, a.address, d)
    BY <2>2, <2>6, <2>7 DEF SpentRow
  <2>9. SpentRow(r, a.address, e)
    <3>1. r.height \in Height /\ \A k \in Height : k <= r.height => d[k] = e[k]
      BY <2>2, <2>3
    <3> QED
      BY <2>8, <3>1, SpentRowSame
  <2> QED
    BY <2>2, <2>3, <2>9
<1>11. ASSUME NEW a \in accounts
       PROVE  \E n \in accounts' :
                 /\ n.id = a.id /\ n.address = a.address /\ n.start = a.start
                 /\ n.scan = IF a \in adv THEN last ELSE a.scan
  <2>1. PICK n \in accounts' : n.id = a.id
    BY <1>3, UpdateMoves
  <2>2. PICK x \in accounts :
           Moved(x, n, IF x \in adv THEN last ELSE x.scan, x.start)
    BY <1>3, UpdateMoves DEF adv
  <2>3. x = a
    BY <2>1, <2>2, IndexRows DEF Moved
  <2> QED
    BY <2>2, <2>3 DEF Moved
<1>12. ASSUME NEW r \in spends'
       PROVE  \E n \in accounts' : /\ n.id = r.id
                                   /\ n.start < r.height /\ r.height <= n.scan
                                   /\ SpentRow(r, n.address, e)
  <2>1. CASE r \in spends
    <3>1. PICK a \in accounts : /\ a.id = r.id
                                /\ a.start < r.height /\ r.height <= a.scan
                                /\ SpentRow(r, a.address, e)
      BY <2>1 DEF SpendsHeld
    <3>2. r.height \in Int
      BY <2>1 DEF IndexInv, TypeOK, SpendRow
    <3> QED
      BY <1>5, <1>11, <3>1, <3>2
  <2>2. ASSUME NEW a \in adv, r \in spent(a)
        PROVE  \E n \in accounts' : /\ n.id = r.id
                                    /\ n.start < r.height /\ r.height <= n.scan
                                    /\ SpentRow(r, n.address, e)
    <3>1. r.height \in Int
      BY <1>5, <2>2 DEF spent, SpentRows
    <3> QED
      BY <1>5, <1>10, <1>11, <2>2, <3>1
  <2> QED
    BY <1>4, <2>1, <2>2
<1>13. SpendsHeld(e)'
  BY <1>12 DEF SpendsHeld, SpentRow, Owned, ImageOf
<1>14. OutputsOwned'
  BY <1>4, <1>5, <1>7, <1>11 DEF OutputsOwned
<1>15. ImagesHeld'
  BY <1>4 DEF ImagesHeld, ImageOf
<1> QED
  BY <1>9, <1>13, <1>14, <1>15

\* A chain of the new state that keeps the stored rows agrees with the old one
\* over every scanned block: these lie below a stored row or the checkpoint.
LEMMA SameScanned ==
    ASSUME TipInv, NEW c \in Chains, NEW e \in Chains, OnChain(c), OnChain(e)',
           \A h \in Height : Stored(h) => blocks'[h] = blocks[h]
    PROVE  \A a \in accounts : a.start < a.scan =>
              \A h \in Height : h <= a.scan => c[h] = e[h]
<1> USE HeightAssumption DEF Height
<1> SUFFICES ASSUME NEW a \in accounts, a.start < a.scan
             PROVE  \A h \in Height : h <= a.scan => c[h] = e[h]
  OBVIOUS
<1>1. a.scan \in Int
  BY AccountHeights DEF TipInv
<1>2. CASE \E h \in Height : a.scan <= h /\ Stored(h)
  <2>1. PICK k \in Height : a.scan <= k /\ Stored(k)
    BY <1>2
  <2>2. c[k] = e[k]
    BY <2>1 DEF OnChain, Stored
  <2>3. \A h \in Height : h <= k => c[h] = e[h]
    BY <2>2, ChainsAgree
  <2> QED
    BY <1>1, <2>1, <2>3
<1>3. CASE ~Regtest /\ a.scan < Checkpoint
  <2>1. c[Checkpoint] = e[Checkpoint] /\ Checkpoint \in Height
    BY <1>3, CheckpointAssumption
  <2>2. \A h \in Height : h <= Checkpoint => c[h] = e[h]
    BY <2>1, ChainsAgree
  <2> QED
    BY <1>1, <1>3, <2>2
<1> QED
  BY <1>2, <1>3 DEF TipInv, ScannedBelowTip

\* What every step has to show about the rows.
RowsFollow == OutputsOwned' /\ ImagesHeld' /\ \E e \in Chains : RowsOn(e)'

\* sync_chain: without a divergence the rows stay; with one, those below the
\* divergence stay, where both chains agree.
LEMMA SyncChainRows ==
    ASSUME AccountInv, NEW d \in Chains, NEW height \in Height, NEW last \in Height,
           height <= last, SyncChain(height, last, d)
    PROVE  RowsFollow
<1> USE HeightAssumption DEF Height
<1>1. PICK c \in Chains : RowsOn(c)
  BY DEF AccountInv
<1>2. IndexInv /\ TypeOK /\ OutputsOwned /\ ImagesHeld /\ TipInv
  BY DEF AccountInv, TipInv, IndexInv
<1>3. OutputsHeld(c) /\ SpendsHeld(c)
  BY <1>1 DEF RowsOn
<1>4. CASE /\ \A k \in (height + 1)..last : ~Diverges(d, k)
           /\ blocks' = [h \in Height |-> IF h \in height..last THEN d[h]
                                                               ELSE blocks[h]]
           /\ UNCHANGED <<accounts, accounts_ba, accounts_bh, outputs, spends,
                          images, requests, lost>>
  <2>1. \A h \in Height : Stored(h) => blocks'[h] = blocks[h]
    <3>1. blocks[height] = d[height]
      BY DEF SyncChain
    <3>2. \A h \in Height : blocks'[h] = IF h \in height..last THEN d[h]
                                                             ELSE blocks[h]
      BY <1>4
    <3> QED
      BY <1>4, <3>1, <3>2, SyncKeepsRows
  <2>2. \E e \in Chains : /\ OnChain(e)' \/ (Fresh /\ Unscanned)'
                          /\ OutputsHeld(e) /\ SpendsHeld(e)
    <3>1. CASE OnChain(c)
      <4>1. PICK e \in Chains : OnChain(e)'
        BY <1>2, <3>1, SyncChainOnChain
      <4>2. \A a \in accounts : a.start < a.scan =>
               \A h \in Height : h <= a.scan => c[h] = e[h]
        BY <1>2, <2>1, <3>1, <4>1, SameScanned
      <4>3. OutputsHeld(e) /\ SpendsHeld(e)
        BY <1>2, <1>3, <4>2, SwapChain
      <4> QED
        BY <4>1, <4>3
    <3>2. CASE Fresh /\ Unscanned
      <4>1. last = 0
        <5>1. height = 0
          BY <3>2, FreshRows DEF SyncChain
        <5> QED
          BY <1>4, <3>2, <5>1, FreshDiverges
      <4>2. d[0] = blocks[0] /\ height = 0
        BY <3>2, <4>1, FreshRows, ChainTypes
      <4>3. blocks' = [h \in Height |-> blocks[h]]
        BY <1>4, <4>1, <4>2
      <4>4. Fresh'
        BY <3>2, <4>3 DEF Fresh, InitialBlocks, Genesis
      <4>5. Unscanned'
        BY <1>4, <3>2 DEF Unscanned
      <4> QED
        BY <1>3, <4>4, <4>5
    <3> QED
      BY <1>1, <3>1, <3>2 DEF RowsOn
  <2>3. PICK e \in Chains : /\ OnChain(e)' \/ (Fresh /\ Unscanned)'
                            /\ OutputsHeld(e) /\ SpendsHeld(e)
    BY <2>2
  <2>4. OutputsHeld(e)' /\ SpendsHeld(e)'
    BY <1>4, <2>3 DEF OutputsHeld, SpendsHeld, PaidRow, SpentRow, Owned, ImageOf
  <2>5. OutputsOwned' /\ ImagesHeld'
    BY <1>2, <1>4 DEF OutputsOwned, ImagesHeld, ImageOf
  <2> QED
    BY <2>3, <2>4, <2>5 DEF RowsFollow, RowsOn
<1>5. CASE \E k \in Height :
              /\ FirstDivergence(d, height, last, k)
              /\ Regtest \/ Checkpoint < k
              /\ blocks' = [h \in Height |-> IF h < k THEN blocks[h]
                                             ELSE IF h <= last THEN d[h]
                                             ELSE NoBlock]
              /\ RollbackAccounts(k)
  <2>1. PICK k \in Height :
              /\ FirstDivergence(d, height, last, k)
              /\ Regtest \/ Checkpoint < k
              /\ blocks' = [h \in Height |-> IF h < k THEN blocks[h]
                                             ELSE IF h <= last THEN d[h]
                                             ELSE NoBlock]
              /\ RollbackAccounts(k)
    BY <1>5
  <2>2. k >= 1 /\ \E j \in Height : j >= k /\ Stored(j)
    BY <2>1 DEF FirstDivergence, Diverges
  <2>3. CASE OnChain(c)
    <3>1. PICK e \in Chains : OnChain(e)'
      BY <1>2, <2>3, SyncChainOnChain
    <3>2. k - 1 \in Height /\ Stored(k - 1)
      <4>1. Regtest => NoGapFrom(0)
        <5>1. ~Fresh
          BY <2>3, FreshRows DEF OnChain
        <5> QED
          BY <1>2, <5>1 DEF TipInv, RegtestRows
      <4>2. NoGapAboveCheckpoint
        BY <1>2 DEF TipInv
      <4> QED
        BY <2>1, <2>2, <4>1, <4>2 DEF NoGapFrom, NoGapAboveCheckpoint
    <3>3. blocks'[k - 1] = blocks[k - 1]
      BY <2>1, <3>2
    <3>4. c[k - 1] = e[k - 1]
      BY <2>3, <3>1, <3>2, <3>3 DEF OnChain, Stored
    <3>5. \A h \in Height : h < k => c[h] = e[h]
      <4>1. \A h \in Height : h <= k - 1 => c[h] = e[h]
        BY <3>2, <3>4, ChainsAgree
      <4> QED
        BY <4>1
    <3>6. OutputsOwned' /\ ImagesHeld' /\ OutputsHeld(e)' /\ SpendsHeld(e)'
      BY <1>2, <1>3, <2>1, <3>5, RollbackRows
    <3> QED
      BY <3>1, <3>6 DEF RowsFollow, RowsOn
  <2>4. CASE Fresh /\ Unscanned
    <3>1. blocks' = blocks \/ OnChain(d)'
      BY <2>4, FreshSync
    <3>2. \A a \in accounts : ~(a.start < a.scan)
      BY <1>2, <2>4, AccountHeights DEF Unscanned
    <3>3. OutputsHeld(d) /\ SpendsHeld(d)
      BY <1>2, <1>3, <3>2, SwapChain
    <3>4. OutputsOwned' /\ ImagesHeld' /\ OutputsHeld(d)' /\ SpendsHeld(d)'
      BY <1>2, <2>1, <3>3, RollbackRows
    <3>5. blocks' = blocks => Fresh'
      BY <2>4 DEF Fresh, InitialBlocks, Genesis
    <3>6. Unscanned'
      BY <1>2, <2>1, <2>4, RollbackUnscanned
    <3> QED
      BY <3>1, <3>4, <3>5, <3>6 DEF RowsFollow, RowsOn
  <2> QED
    BY <1>1, <2>3, <2>4 DEF RowsOn
<1> QED
  BY <1>4, <1>5 DEF SyncChain

\* A batch that update accepts is the database's chain up to its last block.
LEMMA AcceptedAgrees ==
    ASSUME TypeOK, NEW d \in Chains, NEW e \in Chains, NEW height \in Height,
           NEW last \in Height, height <= last,
           NEW chain \in {d, FromGenesis(d)}, NEW users,
           Update(height, last, chain, users), OnChain(e)'
    PROVE  \A h \in Height : h <= last => e[h] = d[h]
<1> USE HeightAssumption DEF Height
<1>1. CASE ~Verified(last)
  <2>1. ~Regtest /\ last < Checkpoint
    BY <1>1 DEF Verified
  <2>2. e[Checkpoint] = d[Checkpoint]
    BY <2>1, CheckpointAssumption
  <2>3. \A h \in Height : h <= Checkpoint => e[h] = d[h]
    BY <2>2, ChainsAgree
  <2> QED
    BY <2>1, <2>3
<1>2. CASE Verified(last)
  <2>1. PICK tip \in Height : /\ IsTip(tip) /\ Stored(Min(tip, last))
                              /\ blocks[Min(tip, last)] = chain[Min(tip, last)]
    BY <1>2 DEF Update, ChainAccepted
  <2>2. chain[last] \in Hash
    BY ChainTypes DEF FromGenesis
  <2>3. blocks'[last] = chain[last]
    <3>1. CASE last <= tip
      <4>1. blocks[last] = chain[last]
        BY <2>1, <3>1 DEF Min
      <4>2. blocks'[last] = blocks[last]
        BY <2>1, <3>1 DEF Update, IsTip
      <4> QED
        BY <4>1, <4>2
    <3>2. CASE tip < last
      BY <1>2, <2>1, <3>2 DEF Update, IsTip
    <3> QED
      BY <3>1, <3>2
  <2>4. e[last] = chain[last]
    BY <2>2, <2>3, CheckpointAssumption DEF OnChain, Stored
  <2>5. e[last] = d[last]
    <3>1. CASE last # 0
      BY <2>4, <3>1, PassedHash
    <3>2. CASE last = 0
      BY <3>2, ChainAssumption
    <3> QED
      BY <3>1, <3>2
  <2> QED
    BY <2>5, ChainsAgree
<1> QED
  BY <1>1, <1>2

\* update: the batch continues the chain of the database, and the rows found
\* in it continue those of the accounts.
LEMMA CheckInRows ==
    ASSUME AccountInv, NEW d \in Chains, NEW height \in Height, NEW last \in Height,
           NEW some \in SUBSET accounts, NEW known \in SUBSET OutputId,
           NEW s \in [some -> Height], height <= last,
           CheckInOf(d, height, last, some, known, s)
    PROVE  RowsFollow
<1>1. PICK c \in Chains : RowsOn(c)
  BY DEF AccountInv
<1>2. IndexInv /\ TypeOK /\ OutputsOwned /\ ImagesHeld /\ TipInv
  BY DEF AccountInv, TipInv, IndexInv
<1>3. OutputsHeld(c) /\ SpendsHeld(c)
  BY <1>1 DEF RowsOn
<1>4. PICK chain \in {d, FromGenesis(d)} :
         Update(height, last, chain,
                {ScannedUser(a, s[a], d, last, known) : a \in some})
  BY Zenon DEF CheckInOf
<1> DEFINE users == ScannedUsers(some, s, d, last, known)
<1>5. Update(height, last, chain, users)
  BY <1>4 DEF ScannedUsers
<1>6. \A a \in some : a.start <= s[a]
  BY Zenon DEF CheckInOf
<1> HIDE DEF users
<1>7. \A h \in Height : Stored(h) => blocks'[h] = blocks[h]
  BY <1>5, HeightAssumption DEF Update, Height
<1>8. CASE OnChain(c)
  <2>1. PICK e \in Chains : OnChain(e)'
    BY <1>2, <1>5, <1>8, UpdateOnChain
  <2>2. OutputsHeld(e) /\ SpendsHeld(e)
    BY <1>2, <1>3, <1>7, <1>8, <2>1, SameScanned, SwapChain
  <2>3. \A h \in Height : h <= last => e[h] = d[h]
    BY <1>2, <1>5, <2>1, AcceptedAgrees
  <2>4. OutputsOwned' /\ ImagesHeld' /\ OutputsHeld(e)' /\ SpendsHeld(e)'
    BY <1>2, <1>5, <1>6, <2>2, <2>3, UpdateRows DEF users
  <2> QED
    BY <2>1, <2>4 DEF RowsFollow, RowsOn
<1>9. CASE Fresh /\ Unscanned
  <2>1. blocks' = blocks
    BY <1>5, <1>9, FreshUpdate
  <2>2. Advanced(users, last) = {}
    BY <1>2, <1>5, <1>9, FreshAdvances
  <2>3. accounts' = accounts
    BY <1>5, <2>2 DEF Update
  <2>4. StoredUsers(users, last) = {}
    BY <2>2 DEF StoredUsers, Advanced
  <2>5. UNCHANGED <<outputs, spends, images, lost>>
    BY <1>5, <2>4 DEF Update
  <2>6. OutputsHeld(c)' /\ SpendsHeld(c)'
    BY <1>3, <2>3, <2>5
       DEF OutputsHeld, SpendsHeld, PaidRow, SpentRow, Owned, ImageOf
  <2>7. Fresh' /\ Unscanned'
    BY <1>9, <2>1, <2>3 DEF Fresh, InitialBlocks, Genesis, Unscanned
  <2>8. OutputsOwned' /\ ImagesHeld'
    BY <1>2, <2>3, <2>5 DEF OutputsOwned, ImagesHeld, ImageOf
  <2> QED
    BY <2>6, <2>7, <2>8 DEF RowsFollow, RowsOn
<1> QED
  BY <1>1, <1>8, <1>9 DEF RowsOn

\* The rollback command: the rows below the height stay on the same chain.
LEMMA RollbackCommandRows ==
    ASSUME AccountInv, NEW h \in Height, Rollback(h)
    PROVE  RowsFollow
<1> USE HeightAssumption DEF Height
<1>1. PICK c \in Chains : RowsOn(c)
  BY DEF AccountInv
<1>2. IndexInv /\ OutputsOwned /\ ImagesHeld
  BY DEF AccountInv, TipInv
<1>3. OutputsOwned' /\ ImagesHeld' /\ OutputsHeld(c)' /\ SpendsHeld(c)'
  BY <1>1, <1>2, RollbackRows DEF RowsOn, Rollback
<1>4. OnChain(c)'
  <2>1. \A k \in Height : blocks'[k] = IF k < h THEN blocks[k] ELSE NoBlock
    BY DEF Rollback
  <2>2. CASE OnChain(c)
    BY <2>1, <2>2 DEF OnChain, Stored
  <2>3. CASE Fresh
    <3>1. \A k \in Height : k < h /\ Stored(k) => k = 0
      BY <2>3, FreshRows DEF Rollback
    <3>2. c[0] = blocks[0]
      BY <2>3, FreshRows, ChainTypes
    <3> QED
      BY <2>1, <3>1, <3>2 DEF OnChain, Stored
  <2> QED
    BY <1>1, <2>2, <2>3 DEF RowsOn
<1> QED
  BY <1>3, <1>4 DEF RowsFollow, RowsOn

\* A database that is opened again after a rollback to height 0.
LEMMA OpenRows ==
    ASSUME AccountInv, Open
    PROVE  RowsFollow
<1>1. PICK c \in Chains : RowsOn(c)
  BY DEF AccountInv
<1>2. UNCHANGED <<accounts, outputs, spends, images, lost>>
  BY DEF Open
<1>3. OutputsOwned' /\ ImagesHeld'
  BY <1>2 DEF AccountInv, OutputsOwned, ImagesHeld, ImageOf
<1>4. OutputsHeld(c)' /\ SpendsHeld(c)'
  BY <1>1, <1>2
     DEF RowsOn, OutputsHeld, SpendsHeld, PaidRow, SpentRow, Owned, ImageOf
<1>5. blocks' = InitialBlocks /\ \A h \in Height : ~Stored(h)
  BY DEF Open
<1>6. c[0] = Genesis
  BY ChainTypes
<1>7. CASE ~Regtest \/ Checkpoint = 0
  <2>1. ~Regtest => c[Checkpoint] = CheckpointHash
    BY CheckpointAssumption
  <2>2. OnChain(c)'
    BY <1>5, <1>6, <1>7, <2>1 DEF OnChain, Stored, InitialBlocks
  <2> QED
    BY <1>3, <1>4, <2>2 DEF RowsFollow, RowsOn
<1>8. CASE Regtest /\ Checkpoint # 0
  <2>1. Fresh'
    BY <1>5, <1>8 DEF Fresh, InitialBlocks, Genesis
  <2>2. \A a \in accounts : a.start >= a.scan
    <3>1. \A a \in accounts : ~(a.start < a.scan)
      BY <1>5, <1>8 DEF AccountInv, TipInv, ScannedBelowTip
    <3> QED
      BY <3>1, AccountHeights DEF AccountInv, TipInv
  <2>3. Unscanned'
    BY <1>2, <2>2 DEF Unscanned
  <2> QED
    BY <1>3, <1>4, <2>1, <2>3 DEF RowsFollow, RowsOn
<1> QED
  BY <1>7, <1>8 DEF RowsOn

\* Operations that leave the blocks alone keep the chain of the rows.
LEMMA SameBlocksRows ==
    ASSUME IndexInv, NEW c \in Chains, RowsOn(c), UNCHANGED blocks, Shrinks,
           OutputsOwned' /\ ImagesHeld' /\ OutputsHeld(c)' /\ SpendsHeld(c)'
    PROVE  RowsFollow
<1>1. OnChain(c) => OnChain(c)'
  BY DEF OnChain, Stored
<1>2. Fresh => Fresh'
  BY DEF Fresh, InitialBlocks, Genesis
<1>3. Unscanned => Unscanned'
  BY UnscannedKept
<1> QED
  BY <1>1, <1>2, <1>3 DEF RowsFollow, RowsOn

\* Every operation preserves the account invariant.
LEMMA AccountStep == AccountInv /\ [Next]_vars => AccountInv'
<1> SUFFICES ASSUME AccountInv, [Next]_vars PROVE AccountInv'
  OBVIOUS
<1>1. TypeOK /\ IndexInv /\ OutputsOwned /\ ImagesHeld
  BY DEF AccountInv, TipInv, IndexInv
<1>2. PICK c \in Chains : RowsOn(c)
  BY DEF AccountInv
<1>3. OutputsHeld(c) /\ SpendsHeld(c)
  BY <1>2 DEF RowsOn
<1>4. ASSUME Open PROVE RowsFollow
  BY <1>4, OpenRows
<1>5. ASSUME NEW h \in Height, Rollback(h) PROVE RowsFollow
  BY <1>5, RollbackCommandRows
<1>6. ASSUME NEW d \in Chains, NEW height \in Height, NEW last \in Height,
             height <= last, SyncChain(height, last, d)
      PROVE  RowsFollow
  BY <1>6, SyncChainRows
<1>7. ASSUME NEW d \in Chains, NEW height \in Height, NEW last \in Height,
             NEW some \in SUBSET accounts, NEW known \in SUBSET OutputId,
             NEW s \in [some -> Height], height <= last,
             CheckInOf(d, height, last, some, known, s)
      PROVE  RowsFollow
  BY <1>7, CheckInRows
<1>8. ASSUME NEW id \in AccountId, NEW address \in Address, NEW height \in Height,
             NEW status, IsLastId(id - 1), DoAddAccount(id, address, height, status),
             UNCHANGED <<blocks, outputs, spends, images, lost>>
      PROVE  RowsFollow
  <2>1. OutputsOwned' /\ ImagesHeld' /\ OutputsHeld(c)' /\ SpendsHeld(c)'
    BY <1>1, <1>3, <1>8, AddRows
  <2>2. Shrinks
    BY <1>1, <1>8, AddShrinks
  <2> QED
    BY <1>1, <1>2, <1>8, <2>1, <2>2, SameBlocksRows
<1>9. ASSUME NEW status, NEW address, ChangeStatus(status, address)
      PROVE  RowsFollow
  <2>1. OutputsOwned' /\ ImagesHeld' /\ OutputsHeld(c)' /\ SpendsHeld(c)'
    BY <1>1, <1>3, <1>9, ChangeStatusRows
  <2>2. Shrinks /\ UNCHANGED blocks
    BY <1>1, <1>9, ChangeStatusShrinks DEF ChangeStatus
  <2> QED
    BY <1>1, <1>2, <2>1, <2>2, SameBlocksRows
<1>10. ASSUME NEW height \in Height, NEW address \in Address,
              ChangeHeight(height, address), UNCHANGED <<blocks, accounts_ba>>
       PROVE  RowsFollow
  <2>1. OutputsOwned' /\ ImagesHeld' /\ OutputsHeld(c)' /\ SpendsHeld(c)'
    BY <1>1, <1>3, <1>10, ChangeHeightRows
  <2>2. Shrinks
    BY <1>1, <1>10, ChangeHeightShrinks
  <2> QED
    BY <1>1, <1>2, <1>10, <2>1, <2>2, SameBlocksRows
<1>11. ASSUME UNCHANGED <<blocks, accounts, accounts_ba, accounts_bh, outputs,
                          spends, images, lost>>
       PROVE  RowsFollow
  <2>1. OutputsOwned' /\ ImagesHeld' /\ OutputsHeld(c)' /\ SpendsHeld(c)'
    BY <1>1, <1>3, <1>11
       DEF OutputsOwned, ImagesHeld, OutputsHeld, SpendsHeld, PaidRow, SpentRow,
           Owned, ImageOf
  <2>2. Shrinks
    BY <1>1, <1>11, SameShrinks DEF Shrinks
  <2> QED
    BY <1>1, <1>2, <1>11, <2>1, <2>2, SameBlocksRows
<1>12. RowsFollow
  BY <1>1, <1>4, <1>5, <1>6, <1>7, <1>8, <1>9, <1>10, <1>11, StepKinds, Zenon
<1>13. TipInv' /\ BlocksOnOneChain'
  BY TipStep, ChainStep DEF AccountInv, ChainInv, TipInv, IndexInv
<1> QED
  BY <1>12, <1>13 DEF AccountInv, RowsFollow

\* The account invariant holds in every reachable state of the database.
LEMMA AccountInvariant == Spec => []AccountInv
<1>1. Init /\ TipInv /\ BlocksOnOneChain => AccountInv
  <2> SUFFICES ASSUME Init, TipInv, BlocksOnOneChain PROVE AccountInv
    OBVIOUS
  <2>1. OutputsOwned /\ ImagesHeld /\ Unscanned
    BY DEF Init, OutputsOwned, ImagesHeld, Unscanned
  <2>2. \A c \in Chains : OutputsHeld(c) /\ SpendsHeld(c)
    BY DEF Init, OutputsHeld, SpendsHeld
  <2>3. \E c \in Chains : OnChain(c) \/ Fresh
    BY OnChainOrFresh, ChainAssumption
  <2> QED
    BY <2>1, <2>2, <2>3 DEF AccountInv, RowsOn
<1> QED
  BY <1>1, TipInvariant, StoredChainIsOneChain, AccountStep, PTL DEF Spec

\* What is stored for the accounts agrees with the stored chain through every
\* sequence of check-ins, reorganisations, rescans, rollbacks and imports: each
\* account has every output of the blocks it was scanned over, except those in
\* lost, none of a block that left the chain, and only spends of its own earlier
\* outputs.
THEOREM AccountsFollowChain == Spec => []AccountsOnChain
<1>1. AccountInv => AccountsOnChain
  <2> SUFFICES ASSUME AccountInv PROVE AccountsOnChain
    OBVIOUS
  <2>1. PICK c \in Chains : RowsOn(c)
    BY DEF AccountInv
  <2>2. OutputsOnChain(c) /\ SpendsOnChain(c)
    BY <2>1, HeldIffOnChain DEF AccountInv, TipInv, RowsOn
  <2>3. OnChain(c) \/ (Regtest /\ blocks = InitialBlocks)
    BY <2>1 DEF RowsOn, Fresh
  <2> QED
    BY <2>2, <2>3 DEF AccountsOnChain
<1> QED
  BY <1>1, AccountInvariant, PTL

\* The key images are exactly those of the stored spends, each of one spend, so
\* that a rollback always finds the images it deletes.
THEOREM ImagesFollowSpends == Spec => []ImagesAgree
<1>1. AccountInv => ImagesAgree
  <2> SUFFICES ASSUME AccountInv PROVE ImagesAgree
    OBVIOUS
  <2>1. PICK c \in Chains : SpendsHeld(c)
    BY DEF AccountInv, RowsOn
  <2>2. \A s, t \in spends : ImageOf(s) = ImageOf(t) => s = t
    BY <2>1, SpendsDistinct DEF AccountInv, TipInv
  <2> QED
    BY <2>2 DEF AccountInv, ImagesHeld, ImagesAgree
<1> QED
  BY <1>1, AccountInvariant, PTL

\* Whatever was done before, a rollback or a reorganisation never fails on a
\* missing key image: the test of rollback_spends holds for every set of spends
\* that an operation may delete.
THEOREM DeletionsSucceed ==
    Spec => [](\A rows \in SUBSET spends : CanDelete(rows))
<1>1. AccountInv => \A rows \in SUBSET spends : CanDelete(rows)
  <2> SUFFICES ASSUME AccountInv, NEW rows \in SUBSET spends PROVE CanDelete(rows)
    OBVIOUS
  <2>1. PICK c \in Chains : SpendsHeld(c)
    BY DEF AccountInv, RowsOn
  <2>2. \A s, t \in rows : ImageOf(s) = ImageOf(t) => s = t
    BY <2>1, SpendsDistinct DEF AccountInv, TipInv
  <2> QED
    BY <2>2 DEF AccountInv, ImagesHeld, CanDelete
<1> QED
  BY <1>1, AccountInvariant, PTL

-----------------------------------------------------------------------------
(* Part 3: the REST handlers *)

-----------------------------------------------------------------------------
(* No operation of the database deletes an account or raises its start. *)

StartsKept ==
    \A a \in accounts : \E n \in accounts' :
        n.address = a.address /\ n.start <= a.start

\* A rollback and a reorganisation lower starts at most.
LEMMA RollbackStarts ==
    ASSUME IndexInv, NEW h \in Height, RollbackAccounts(h)
    PROVE  StartsKept
<1>1. ASSUME NEW a \in accounts
      PROVE  RolledBack(a, h).address = a.address /\ RolledBack(a, h).start <= a.start
  <2>1. a \in AccountRow /\ a.start \in Int /\ RollbackHeight(h) \in Int
    BY IndexRows, AccountHeights, HeightAssumption DEF RollbackHeight, Height
  <2>2. Min(RollbackHeight(h), a.start) <= a.start
    BY <2>1 DEF Min
  <2> QED
    BY <2>1, <2>2 DEF RolledBack, AccountRow
<1>2. accounts' = {RolledBack(a, h) : a \in accounts}
  BY DEF RollbackAccounts
<1> HIDE DEF RolledBack
<1> QED
  BY <1>1, <1>2 DEF StartsKept

\* Replacing one account by one that starts no higher keeps the others.
LEMMA ReplacedStarts ==
    ASSUME IndexInv, NEW a \in accounts, NEW n, accounts' = (accounts \ {a}) \cup {n},
           n.address = a.address, n.start <= a.start
    PROVE  StartsKept
<1>1. \A x \in accounts : x.start <= x.start
  BY AccountHeights
<1> QED
  BY <1>1 DEF StartsKept

\* Every operation keeps the accounts and their starts.
LEMMA StepStarts ==
    ASSUME IndexInv, [Next]_vars
    PROVE  StartsKept
<1>1. \A x \in accounts : x.start <= x.start
  BY AccountHeights
<1>2. TypeOK
  BY DEF IndexInv
<1>3. CASE accounts' = accounts
  BY <1>1, <1>3 DEF StartsKept
<1>4. ASSUME NEW h \in Height, Rollback(h) PROVE StartsKept
  BY <1>4, RollbackStarts DEF Rollback
<1>5. ASSUME NEW c \in Chains, NEW height \in Height, NEW last \in Height,
             SyncChain(height, last, c)
      PROVE  StartsKept
  <2>1. \/ accounts' = accounts
        \/ \E k \in Height : RollbackAccounts(k)
    BY <1>5, Zenon DEF SyncChain
  <2> QED
    BY <1>3, <2>1, RollbackStarts
<1>6. ASSUME NEW c \in Chains, NEW height \in Height, NEW last \in Height,
             NEW some, NEW known, NEW s,
             CheckInOf(c, height, last, some, known, s)
      PROVE  StartsKept
  <2>1. PICK chain, users : Update(height, last, chain, users)
    BY <1>6, Zenon DEF CheckInOf
  <2> DEFINE new(a) == IF a \in Advanced(users, last) THEN [a EXCEPT !.scan = last]
                                                      ELSE a
  <2>2. \A a \in accounts : new(a).address = a.address /\ new(a).start = a.start
    BY IndexRows DEF AccountRow
  <2>3. accounts' = {new(a) : a \in accounts}
    BY <2>1 DEF Update
  <2> HIDE DEF new
  <2> QED
    BY <1>1, <2>2, <2>3 DEF StartsKept
<1>7. ASSUME NEW id, NEW address, NEW height, NEW status,
             DoAddAccount(id, address, height, status)
      PROVE  StartsKept
  BY <1>1, <1>7 DEF DoAddAccount, StartsKept
<1>8. ASSUME NEW status, NEW address, ChangeStatus(status, address)
      PROVE  StartsKept
  <2>1. PICK a \in accounts, n \in accounts' :
           /\ Moved(a, n, a.scan, a.start)
           /\ accounts' = (accounts \ {a}) \cup {n}
    BY <1>8, ChangeStatusMoves
  <2> QED
    BY <1>1, <2>1, ReplacedStarts DEF Moved
<1>9. ASSUME NEW height \in Height, NEW address, ChangeHeight(height, address)
      PROVE  StartsKept
  <2>1. PICK a \in accounts, n \in accounts' :
           /\ Moved(a, n, Min(height, a.scan), Min(height, a.start))
           /\ accounts' = (accounts \ {a}) \cup {n}
    BY <1>9, ChangeHeightMoves
  <2>2. a.start \in Int /\ height \in Int
    BY AccountHeights, HeightAssumption DEF Height
  <2>3. Min(height, a.start) <= a.start
    BY <2>2 DEF Min
  <2> QED
    BY <2>1, <2>3, ReplacedStarts DEF Moved
<1>10. CASE Open
  BY <1>3, <1>10 DEF Open
<1> QED
  BY <1>2, <1>3, <1>4, <1>5, <1>6, <1>7, <1>8, <1>9, <1>10, StepKinds, Zenon

-----------------------------------------------------------------------------
(* What a handler may rely on between two of its database calls *)

\* An account with the view key of the address starts at or below the height.
Holds(address, from) ==
    \E a \in accounts : a.address.view = address.view /\ a.start <= from

\* The request the handler has queued is still there.
Queued(type, address, from) ==
    \E q \in requests : q.type = type /\ q.address = address /\ q.start <= from

\* A handler that is about to accept its request finds the request, or
\* somebody else has accepted it for the same address, unless it was taken.
Promise(s) ==
    /\ s.pc # "reply" => ~s.fulfilled
    /\ s.pc \in {"create", "accept_create"} => s.from = MaxHeight
    /\ s.pc \in {"import", "accept_import"} =>
          s.from \in AskedHeights /\ Holds(s.address, MaxHeight)
    /\ s.pc = "accept_create" /\ ~s.taken =>
          Queued("create", s.address, s.from) \/ Holds(s.address, s.from)
    /\ s.pc = "accept_import" /\ ~s.taken =>
          Queued("import_scan", s.address, s.from) \/ Holds(s.address, s.from)
    /\ s.pc = "reply" /\ s.fulfilled /\ ~s.taken => Holds(s.address, s.from)

\* The queue holds one request of a type for a spend key.
OneRequest ==
    \A p, q \in requests :
        p.type = q.type /\ p.address.spend = q.address.spend => p = q

Sessions ==
    /\ session \in [Conn -> Session \cup {NoRequest}]
    /\ \A c \in Conn : session[c] # NoRequest => Promise(session[c])

RestInv == IndexInv /\ OneRequest /\ Sessions

\* The fields of a session.
LEMMA SessionFields ==
    ASSUME NEW s \in Session
    PROVE  /\ s.pc \in {"create", "accept_create", "import", "accept_import", "reply"}
           /\ s.address \in Address /\ s.from \in Height /\ s.from \in Int
           /\ s.new \in BOOLEAN /\ s.fulfilled \in BOOLEAN /\ s.taken \in BOOLEAN
  BY HeightAssumption DEF Session, Height

\* A lookup by address finds exactly the account with that view key.
LEMMA LookupIff ==
    ASSUME IndexInv, NEW address
    PROVE  /\ \A r \in ByAddress(address) : \A a \in Named(r) :
                 a \in accounts /\ a.address.view = address.view
           /\ \A a \in accounts : a.address.view = address.view =>
                 BA(a) \in ByAddress(address) /\ a \in Named(BA(a))
<1>1. ASSUME NEW r \in ByAddress(address), NEW a \in Named(r)
      PROVE  a \in accounts /\ a.address.view = address.view
  <2>1. PICK x \in accounts : r = BA(x)
    BY IndexRows DEF ByAddress
  <2>2. a \in accounts /\ a.id = x.id
    BY <2>1 DEF Named, BA
  <2>3. x = a
    BY <2>2, IndexRows
  <2> QED
    BY <2>1, <2>2, <2>3 DEF ByAddress, BA
<1>2. ASSUME NEW a \in accounts, a.address.view = address.view
      PROVE  BA(a) \in ByAddress(address) /\ a \in Named(BA(a))
  BY <1>2, IndexRows DEF ByAddress, Named, BA
<1> QED
  BY <1>1, <1>2

\* An account that is held is found, and an address that is found is held.
LEMMA HoldsIff ==
    ASSUME IndexInv, NEW address, NEW from
    PROVE  /\ Holds(address, from) <=>
                 \E r \in ByAddress(address) : \E a \in Named(r) : a.start <= from
           /\ Holds(address, MaxHeight) <=> ByAddress(address) # {}
<1>1. Holds(address, from) <=>
         \E r \in ByAddress(address) : \E a \in Named(r) : a.start <= from
  BY LookupIff, Zenon DEF Holds
<1>2. Holds(address, MaxHeight) => ByAddress(address) # {}
  BY LookupIff DEF Holds
<1>3. ASSUME NEW r \in ByAddress(address) PROVE Holds(address, MaxHeight)
  <2>1. PICK x \in accounts : r = BA(x)
    BY IndexRows DEF ByAddress
  <2>2. x.address.view = address.view
    BY <2>1 DEF ByAddress, BA
  <2>3. x.start <= MaxHeight
    BY AccountHeights, HeightAssumption DEF Height
  <2> QED
    BY <2>2, <2>3 DEF Holds
<1> QED
  BY <1>1, <1>2, <1>3

\* What is held stays held.
LEMMA HoldsKept ==
    ASSUME IndexInv, IndexInv', [Next]_vars, NEW address, NEW from \in Height,
           Holds(address, from)
    PROVE  Holds(address, from)'
<1>1. PICK a \in accounts : a.address.view = address.view /\ a.start <= from
  BY DEF Holds
<1>2. PICK n \in accounts' : n.address = a.address /\ n.start <= a.start
  BY StepStarts DEF StartsKept
<1>3. a.start \in Int /\ from \in Int
  BY AccountHeights, HeightAssumption DEF Height
<1>4. n.start \in Int
  <2>1. n \in AccountRow
    BY DEF IndexInv, TypeOK
  <2> QED
    BY <2>1, HeightAssumption DEF AccountRow, Height
<1>5. n.start <= from
  BY <1>1, <1>2, <1>3, <1>4
<1> QED
  BY <1>1, <1>2, <1>5 DEF Holds

-----------------------------------------------------------------------------
(* The handlers as callers of the database *)

\* Every step of the handlers, the administrator and the scanner is one of
\* the steps of Storage or leaves the database alone.
LEMMA CallsAreSteps ==
    ASSUME Sessions, [RestNext]_restVars
    PROVE  [Next]_vars
<1>1. ASSUME NEW c \in Conn, session[c] # NoRequest
      PROVE  /\ session[c].address \in Address
             /\ session[c].pc = "import" => session[c].from \in AskedHeights
  <2>1. session[c] \in Session /\ Promise(session[c])
    BY <1>1 DEF Sessions
  <2> QED
    BY <2>1, SessionFields DEF Promise
<1>2. "default_account" \in Flags
  BY DEF Flags
<1>3. CASE UNCHANGED restVars
  BY <1>3 DEF restVars
<1>4. ASSUME NEW c \in Conn, NEW address \in Address, NEW create,
             LoginRead(c, address, create)
      PROVE  UNCHANGED vars
  BY <1>4 DEF LoginRead
<1>5. ASSUME NEW c \in Conn, NEW address \in Address, NEW from, NEW lookahead,
             NEW failed, ImportRead(c, address, from, lookahead, failed)
      PROVE  UNCHANGED vars
  BY <1>5 DEF ImportRead
<1>6. ASSUME NEW c \in Conn, LoginCreate(c) PROVE [Next]_vars
  <2>1. session[c].address \in Address
    BY <1>1, <1>6 DEF LoginCreate
  <2>2. CreationRequest(session[c].address, "default_account") \/ UNCHANGED vars
    BY <1>6, Zenon DEF LoginCreate
  <2> QED
    BY <1>2, <2>1, <2>2, Zenon DEF Next
<1>7. ASSUME NEW c \in Conn, LoginAccept(c) PROVE [Next]_vars
  <2>1. session[c].address \in Address
    BY <1>1, <1>7 DEF LoginAccept
  <2>2. CreateAccount(session[c].address) \/ UNCHANGED vars
    BY <1>7, Zenon DEF LoginAccept
  <2> QED
    BY <2>1, <2>2, Zenon DEF Next
<1>8. ASSUME NEW c \in Conn, ImportQueue(c) PROVE [Next]_vars
  <2>1. session[c].address \in Address /\ session[c].from \in AskedHeights
    BY <1>1, <1>8 DEF ImportQueue
  <2>2. ImportRequest(session[c].address, session[c].from) \/ UNCHANGED vars
    BY <1>8, Zenon DEF ImportQueue
  <2> QED
    BY <2>1, <2>2, Zenon DEF Next
<1>9. ASSUME NEW c \in Conn, ImportAccept(c) PROVE [Next]_vars
  <2>1. session[c].address \in Address
    BY <1>1, <1>9 DEF ImportAccept
  <2>2. ImportAccount(session[c].address) \/ UNCHANGED vars
    BY <1>9, Zenon DEF ImportAccept
  <2> QED
    BY <2>1, <2>2, Zenon DEF Next
<1>10. ASSUME NEW c \in Conn, Reply(c) PROVE UNCHANGED vars
  BY <1>10 DEF Reply
<1>11. ASSUME NEW type \in RequestType, NEW address \in Address, Reject(type, address)
       PROVE  [Next]_vars
  BY <1>11, Zenon DEF Reject, Next
<1>12. ASSUME NEW address \in Address, Accept(address) PROVE [Next]_vars
  BY <1>12, Zenon DEF Accept, Next
<1>13. CASE Admin
  BY <1>13, Zenon DEF Admin, Next
<1>14. CASE Scan
  BY <1>14, Zenon DEF Scan, Next
<1> QED
  BY <1>3, <1>4, <1>5, <1>6, <1>7, <1>8, <1>9, <1>10, <1>11, <1>12, <1>13, <1>14,
     Zenon DEF RestNext

\* The kinds of change to the request queue.
LEMMA RequestKinds ==
    ASSUME [Next]_vars
    PROVE  \/ requests' \subseteq requests
           \/ \E q : /\ requests' = requests \cup {q}
                     /\ FindRequest(q.type, q.address) = {}
<1>1. CASE UNCHANGED requests
  BY <1>1
<1>2. ASSUME NEW address, NEW flags, CreationRequest(address, flags)
      PROVE  \E q : /\ requests' = requests \cup {q}
                    /\ FindRequest(q.type, q.address) = {}
  <2>1. PICK tip : requests' = requests \cup
                {[type |-> "create", address |-> address, start |-> tip,
                  flags |-> flags]}
    BY <1>2, Zenon DEF CreationRequest
  <2> DEFINE q == [type |-> "create", address |-> address, start |-> tip,
                   flags |-> flags]
  <2>2. q.type = "create" /\ q.address = address
    OBVIOUS
  <2>3. FindRequest(q.type, q.address) = {}
    BY <1>2, <2>2 DEF CreationRequest
  <2>4. requests' = requests \cup {q}
    BY <2>1
  <2> HIDE DEF q
  <2> QED
    BY <2>3, <2>4
<1>3. ASSUME NEW address, NEW height, ImportRequest(address, height)
      PROVE  \E q : /\ requests' = requests \cup {q}
                    /\ FindRequest(q.type, q.address) = {}
  <2> DEFINE q == [type |-> "import_scan", address |-> address, start |-> height,
                   flags |-> "default_account"]
  <2>2. q.type = "import_scan" /\ q.address = address
    OBVIOUS
  <2>3. FindRequest(q.type, q.address) = {}
    BY <1>3, <2>2 DEF ImportRequest
  <2>4. requests' = requests \cup {q}
    BY <1>3 DEF ImportRequest
  <2> HIDE DEF q
  <2> QED
    BY <2>3, <2>4
<1>4. ASSUME NEW address, CreateAccount(address) PROVE requests' \subseteq requests
  BY <1>4 DEF CreateAccount
<1>5. ASSUME NEW address, ImportAccount(address) PROVE requests' \subseteq requests
  BY <1>5 DEF ImportAccount
<1>6. ASSUME NEW address, NEW type, RejectRequest(type, address)
      PROVE  requests' \subseteq requests
  BY <1>6 DEF RejectRequest
<1>7. ASSUME NEW h, Rollback(h) PROVE UNCHANGED requests
  BY <1>7 DEF Rollback, RollbackAccounts
<1>8. CASE CallSyncChain
  <2>1. PICK c, height, last : SyncChain(height, last, c)
    BY <1>8, Zenon DEF CallSyncChain
  <2>2. UNCHANGED requests
    BY <2>1, Zenon DEF SyncChain, RollbackAccounts
  <2> QED
    BY <1>1, <2>2
<1>9. CASE CallUpdate
  <2>1. PICK height, last, chain, users : Update(height, last, chain, users)
    BY <1>9, Zenon DEF CallUpdate, CheckInOf
  <2> QED
    BY <1>1, <2>1 DEF Update
<1>10. ASSUME NEW address, NEW flags, AddAccount(address, flags) PROVE UNCHANGED requests
  BY <1>10 DEF AddAccount
<1>11. ASSUME NEW address, NEW status, ChangeStatus(status, address)
       PROVE  UNCHANGED requests
  BY <1>11 DEF ChangeStatus
<1>12. ASSUME NEW address, NEW height, Rescan(height, address)
       PROVE  UNCHANGED requests
  BY <1>12 DEF Rescan
<1>13. CASE Open
  BY <1>1, <1>13 DEF Open
<1>14. CASE UNCHANGED vars
  BY <1>1, <1>14 DEF vars
<1> QED
  BY <1>1, <1>2, <1>3, <1>4, <1>5, <1>6, <1>7, <1>8, <1>9, <1>10, <1>11, <1>12,
     <1>13, <1>14, Zenon DEF Next

\* creation_request and import_request refuse a second request of a type for
\* a spend key, and nothing else adds to the queue.
LEMMA OneRequestStep ==
    ASSUME OneRequest, [Next]_vars
    PROVE  OneRequest'
<1>1. CASE requests' \subseteq requests
  BY <1>1 DEF OneRequest
<1>2. ASSUME NEW q, requests' = requests \cup {q}, FindRequest(q.type, q.address) = {}
      PROVE  OneRequest'
  BY <1>2 DEF OneRequest, FindRequest
<1> QED
  BY <1>1, <1>2, RequestKinds

-----------------------------------------------------------------------------
(* What becomes of a handler's promise *)

\* An accepted creation request leaves an account behind, when the request
\* found was one for that address.
LEMMA CreateHolds ==
    ASSUME IndexInv, IndexInv', [Next]_vars, OneRequest, NEW address,
           NEW from, CreateAccount(address), Queued("create", address, from)
    PROVE  Holds(address, MaxHeight)'
<1>1. PICK q \in FindRequest("create", address) :
          IF q.address.view = address.view /\ ByAddress(address) = {}
            THEN \E i \in AccountId :
                    DoAddAccount(i, address, q.start, InitialStatus(q.flags))
            ELSE UNCHANGED <<accounts, accounts_ba, accounts_bh>>
  BY Zenon DEF CreateAccount
<1>2. q.address = address /\ q.start \in Height
  BY DEF FindRequest, Queued, OneRequest, IndexInv, TypeOK, RequestRow
<1>3. CASE ByAddress(address) = {}
  <2>1. PICK i \in AccountId :
           DoAddAccount(i, address, q.start, InitialStatus(q.flags))
    BY <1>1, <1>2, <1>3, Zenon
  <2> DEFINE n == [id |-> i, address |-> address, status |-> InitialStatus(q.flags),
                   scan |-> q.start, start |-> q.start]
  <2>2. n \in accounts'
    BY <2>1 DEF DoAddAccount
  <2>3. n.address = address /\ n.start <= MaxHeight
    BY <1>2, HeightAssumption DEF Height
  <2> HIDE DEF n
  <2> QED
    BY <2>2, <2>3 DEF Holds
<1>4. CASE ByAddress(address) # {}
  <2>1. Holds(address, MaxHeight) /\ MaxHeight \in Height
    BY <1>4, HoldsIff, HeightAssumption DEF Height
  <2> QED
    BY <2>1, HoldsKept
<1> QED
  BY <1>3, <1>4

\* An accepted import request leaves the account starting at or below the
\* height of the request.
LEMMA ImportHolds ==
    ASSUME IndexInv, OneRequest, NEW address, NEW from \in Height,
           ImportAccount(address), Queued("import_scan", address, from),
           Holds(address, MaxHeight)
    PROVE  Holds(address, from)'
<1>1. ByAddress(address) # {}
  BY HoldsIff
<1>2. PICK q \in FindRequest("import_scan", address) : ChangeHeight(q.start, address)
  BY <1>1, Zenon DEF ImportAccount
<1>3. q.start <= from /\ q.start \in Height
  BY DEF FindRequest, Queued, OneRequest, IndexInv, TypeOK, RequestRow
<1>4. PICK r \in ByAddress(address) : \E x \in Named(r) :
         accounts' = (accounts \ {x}) \cup
             {[x EXCEPT !.scan = Min(q.start, x.scan),
                        !.start = Min(q.start, x.start)]}
  BY <1>2, Zenon DEF ChangeHeight
<1>0. PICK a \in Named(r) :
         accounts' = (accounts \ {a}) \cup
             {[a EXCEPT !.scan = Min(q.start, a.scan),
                        !.start = Min(q.start, a.start)]}
  BY <1>4
<1>5. a \in accounts /\ a.address.view = address.view /\ a \in AccountRow
  BY LookupIff, IndexRows
<1> DEFINE n == [a EXCEPT !.scan = Min(q.start, a.scan),
                          !.start = Min(q.start, a.start)]
<1>6. n.address = a.address /\ n.start = Min(q.start, a.start)
  BY <1>5 DEF AccountRow
<1>7. n \in accounts'
  BY <1>0
<1> HIDE DEF n
<1>8. q.start \in Int /\ a.start \in Int /\ from \in Int
  BY <1>3, <1>5, AccountHeights, HeightAssumption DEF Height
<1>9. n.start <= from
  BY <1>3, <1>6, <1>8 DEF Min
<1> QED
  BY <1>5, <1>6, <1>7, <1>9 DEF Holds

\* A promise survives a step that keeps the request it is about, or fulfils it.
LEMMA PromiseKept ==
    ASSUME IndexInv, IndexInv', [Next]_vars, NEW s \in Session, Promise(s),
           s.pc = "accept_create" /\ ~s.taken /\ Queued("create", s.address, s.from)
              => Queued("create", s.address, s.from)' \/ Holds(s.address, s.from)',
           s.pc = "accept_import" /\ ~s.taken /\ Queued("import_scan", s.address, s.from)
              => Queued("import_scan", s.address, s.from)' \/ Holds(s.address, s.from)'
    PROVE  Promise(s)'
<1>1. s.from \in Height /\ MaxHeight \in Height
  BY SessionFields, HeightAssumption DEF Height
<1>2. /\ Holds(s.address, s.from) => Holds(s.address, s.from)'
      /\ Holds(s.address, MaxHeight) => Holds(s.address, MaxHeight)'
  BY <1>1, HoldsKept
<1> QED
  BY <1>2, Zenon DEF Promise

\* A step that takes no request from the queue keeps every promise.
LEMMA PromiseGrows ==
    ASSUME IndexInv, IndexInv', [Next]_vars, NEW s \in Session, Promise(s),
           requests \subseteq requests'
    PROVE  Promise(s)'
<1>1. \A type : Queued(type, s.address, s.from) => Queued(type, s.address, s.from)'
  BY DEF Queued
<1> QED
  BY <1>1, PromiseKept

\* A promise about another request than the one that is taken survives.
LEMMA PromiseOfOther ==
    ASSUME IndexInv, IndexInv', [Next]_vars, NEW s \in Session, Promise(s),
           NEW type \in RequestType, NEW address,
           \A q \in requests : \/ q \in requests'
                               \/ q.type = type /\ q.address.spend = address.spend,
           \/ s.taken \/ s.address.spend # address.spend
           \/ s.pc # (IF type = "create" THEN "accept_create" ELSE "accept_import")
    PROVE  Promise(s)'
<1>1. \A t : t # type \/ s.address.spend # address.spend =>
         (Queued(t, s.address, s.from) => Queued(t, s.address, s.from)')
  BY DEF Queued
<1>2. s.taken \in BOOLEAN
  BY SessionFields
<1>3. /\ s.pc = "accept_create" /\ ~s.taken =>
            "create" # type \/ s.address.spend # address.spend
      /\ s.pc = "accept_import" /\ ~s.taken =>
            "import_scan" # type \/ s.address.spend # address.spend
  BY <1>2 DEF RequestType
<1> QED
  BY <1>1, <1>3, PromiseKept

\* Where a handler is that waits to accept a request of the type.
AcceptPc(type) == IF type = "create" THEN "accept_create" ELSE "accept_import"

\* What Takes makes of one session.
Marked(s, type, address, accepted) ==
    IF /\ s.pc = AcceptPc(type)
       /\ s.address.spend = address.spend /\ s.address \notin accepted
      THEN [s EXCEPT !.taken = TRUE] ELSE s

\* Whoever takes a request from the queue leaves every promise true: the
\* handlers that are left without one are marked, and the one for whose
\* address it was accepted has its account.
LEMMA MarkedPromise ==
    ASSUME IndexInv, IndexInv', [Next]_vars, NEW s \in Session, Promise(s),
           NEW type \in RequestType, NEW address, NEW accepted,
           \A q \in requests : \/ q \in requests'
                               \/ q.type = type /\ q.address.spend = address.spend,
           s.address \in accepted /\ ~s.taken /\ s.pc = AcceptPc(type)
              /\ Queued(type, s.address, s.from)
           => Holds(s.address, s.from)'
    PROVE  /\ Marked(s, type, address, accepted) \in Session
           /\ Promise(Marked(s, type, address, accepted))'
<1> DEFINE pc == AcceptPc(type)
           t == [s EXCEPT !.taken = TRUE]
<1>1. CASE s.pc # pc \/ s.address.spend # address.spend
  <2>1. Marked(s, type, address, accepted) = s
    BY <1>1 DEF Marked
  <2>2. Promise(s)'
    BY <1>1, PromiseOfOther DEF AcceptPc
  <2> QED
    BY <2>1, <2>2
<1>2. CASE s.pc = pc /\ s.address.spend = address.spend /\ s.address \notin accepted
  <2>1. Marked(s, type, address, accepted) = t
    BY <1>2 DEF Marked
  <2>2. /\ t \in Session /\ t.taken /\ t.pc = s.pc /\ t.address = s.address
        /\ t.from = s.from /\ t.fulfilled = s.fulfilled
    BY DEF Session
  <2> HIDE DEF t
  <2>3. Promise(t)
    BY <1>2, <2>2 DEF Promise
  <2>4. Promise(t)'
    BY <2>2, <2>3, PromiseOfOther
  <2> QED
    BY <2>1, <2>2, <2>4
<1>3. CASE s.pc = pc /\ s.address \in accepted
  <2>1. Marked(s, type, address, accepted) = s
    BY <1>3 DEF Marked
  <2>2. Queued(type, s.address, s.from) /\ ~s.taken => Holds(s.address, s.from)'
    BY <1>3
  <2>3. /\ s.pc = "accept_create" => type = "create"
        /\ s.pc = "accept_import" => type = "import_scan"
    BY <1>3 DEF RequestType, AcceptPc
  <2>4. Promise(s)'
    BY <2>2, <2>3, PromiseKept
  <2> QED
    BY <2>1, <2>4
<1> QED
  BY <1>1, <1>2, <1>3

\* Accepting creation requests.
LEMMA CreateMarked ==
    ASSUME RestInv, IndexInv', [Next]_vars, NEW s \in Session, Promise(s),
           NEW address, CreateAccount(address)
    PROVE  /\ Marked(s, "create", address, {address}) \in Session
           /\ Promise(Marked(s, "create", address, {address}))'
<1>1. \A q \in requests : \/ q \in requests'
                          \/ q.type = "create" /\ q.address.spend = address.spend
  BY DEF CreateAccount, FindRequest
<1>2. ASSUME s.address = address, s.pc = "accept_create",
             Queued("create", s.address, s.from)
      PROVE  Holds(s.address, s.from)'
  BY <1>2, CreateHolds DEF Promise, RestInv
<1>3. "create" \in RequestType
  BY DEF RequestType
<1>4. s.address \in {address} /\ ~s.taken /\ s.pc = AcceptPc("create")
         /\ Queued("create", s.address, s.from)
      => Holds(s.address, s.from)'
  BY <1>2 DEF AcceptPc
<1> QED
  BY <1>1, <1>4, <1>3, MarkedPromise DEF RestInv

\* Accepting import requests.
LEMMA ImportMarked ==
    ASSUME RestInv, IndexInv', [Next]_vars, NEW s \in Session, Promise(s),
           NEW address, ImportAccount(address)
    PROVE  /\ Marked(s, "import_scan", address, {address}) \in Session
           /\ Promise(Marked(s, "import_scan", address, {address}))'
<1>1. \A q \in requests : \/ q \in requests'
                          \/ q.type = "import_scan" /\ q.address.spend = address.spend
  BY DEF ImportAccount, FindRequest
<1>2. ASSUME s.address = address, s.pc = "accept_import",
             Queued("import_scan", s.address, s.from)
      PROVE  Holds(s.address, s.from)'
  BY <1>2, ImportHolds, SessionFields DEF Promise, RestInv
<1>3. "import_scan" \in RequestType
  BY DEF RequestType
<1>4. s.address \in {address} /\ ~s.taken /\ s.pc = AcceptPc("import_scan")
         /\ Queued("import_scan", s.address, s.from)
      => Holds(s.address, s.from)'
  BY <1>2 DEF AcceptPc
<1> QED
  BY <1>1, <1>4, <1>3, MarkedPromise DEF RestInv

\* Rejecting requests.
LEMMA RejectMarked ==
    ASSUME RestInv, IndexInv', [Next]_vars, NEW s \in Session, Promise(s),
           NEW type \in RequestType, NEW address, RejectRequest(type, address)
    PROVE  /\ Marked(s, type, address, {}) \in Session
           /\ Promise(Marked(s, type, address, {}))'
<1>1. \A q \in requests : \/ q \in requests'
                          \/ q.type = type /\ q.address.spend = address.spend
  BY DEF RejectRequest, FindRequest
<1>2. s.address \in {} /\ ~s.taken /\ s.pc = AcceptPc(type)
         /\ Queued(type, s.address, s.from)
      => Holds(s.address, s.from)'
  OBVIOUS
<1> QED
  BY <1>1, <1>2, MarkedPromise DEF RestInv

\* accept_requests where there was no request any more.
LEMMA NothingMarked ==
    ASSUME RestInv, IndexInv', UNCHANGED vars, NEW s \in Session, Promise(s),
           NEW type \in RequestType, NEW address, FindRequest(type, address) = {}
    PROVE  /\ Marked(s, type, address, {address}) \in Session
           /\ Promise(Marked(s, type, address, {address}))'
<1>1. \A q \in requests : \/ q \in requests'
                          \/ q.type = type /\ q.address.spend = address.spend
  BY DEF vars
<1>2. s.address \in {address} /\ ~s.taken /\ s.pc = AcceptPc(type)
         /\ Queued(type, s.address, s.from)
      => Holds(s.address, s.from)'
  BY DEF FindRequest, Queued
<1> QED
  BY <1>1, <1>2, MarkedPromise DEF RestInv

-----------------------------------------------------------------------------
(* The sessions through a step *)

\* The sessions of the handlers as Takes leaves them.
LEMMA TakesMarks ==
    ASSUME NEW type, NEW address, NEW accepted, NEW d \in Conn
    PROVE  Takes(type, address, accepted)[d] =
              IF session[d] = NoRequest THEN NoRequest
              ELSE Marked(session[d], type, address, accepted)
  BY DEF Takes, Marked, AcceptPc

\* A connection that goes on to another call, or to its reply.
LEMMA ReplyGood ==
    ASSUME NEW s \in Session, NEW t, Promise(s)', t = [s EXCEPT !.pc = "reply"],
           ~s.fulfilled
    PROVE  t \in Session /\ Promise(t)'
<1>1. t \in Session /\ t.pc = "reply" /\ t.fulfilled = s.fulfilled
  BY DEF Session
<1> QED
  BY <1>1 DEF Promise

\* A connection whose handler has accepted its request.
LEMMA AcceptedGood ==
    ASSUME NEW s \in Session, NEW t, Promise(s)',
           t = [s EXCEPT !.pc = "reply", !.fulfilled = TRUE],
           ~s.taken => Holds(s.address, s.from)'
    PROVE  t \in Session /\ Promise(t)'
<1>1. t \in Session /\ t.pc = "reply" /\ t.taken = s.taken
      /\ t.address = s.address /\ t.from = s.from
  BY DEF Session
<1> QED
  BY <1>1 DEF Promise

\* The account is looked up.
LEMMA LoginReadGood ==
    ASSUME RestInv, NEW c \in Conn, NEW address \in Address, NEW create,
           LoginRead(c, address, create), NEW t, t = session'[c]
    PROVE  t \in Session /\ Promise(t)
<1>1. MaxHeight \in Height
  BY HeightAssumption DEF Height
<1>2. PICK pc \in {"reply", "create"}, new \in BOOLEAN :
         t = [pc |-> pc, address |-> address, from |-> MaxHeight, new |-> new,
              fulfilled |-> FALSE, taken |-> FALSE]
  BY DEF LoginRead, Begin, RestInv, Sessions
<1>3. t \in Session
  BY <1>1, <1>2 DEF Session
<1>4. t.pc \in {"reply", "create"} /\ t.from = MaxHeight /\ ~t.fulfilled
  BY <1>2
<1> QED
  BY <1>3, <1>4 DEF Promise

\* The decision of an import rests on the account as it is read.
LEMMA ImportReadGood ==
    ASSUME RestInv, NEW c \in Conn, NEW address \in Address, NEW from \in AskedHeights,
           NEW lookahead, NEW failed,
           ImportRead(c, address, from, lookahead, failed), NEW t, t = session'[c]
    PROVE  t \in Session /\ Promise(t)
<1>1. from \in Height /\ from \in Int
  BY HeightAssumption DEF Height
<1> DEFINE Row(pc, new, fulfilled) ==
               [pc |-> pc, address |-> address, from |-> from, new |-> new,
                fulfilled |-> fulfilled, taken |-> FALSE]
<1>2. PICK a \in OpenAccount(address) :
         \/ t = Row("reply", FALSE, TRUE) /\ ~ExpandedDepth(a, from)
         \/ t = Row("reply", FALSE, FALSE)
         \/ t = Row("import", TRUE, FALSE)
  BY DEF ImportRead, Begin, RestInv, Sessions
<1>3. PICK r \in ByAddress(address) : a \in Named(r)
  BY DEF OpenAccount
<1>4. a \in accounts /\ a.address.view = address.view /\ a.start \in Int
  BY <1>3, LookupIff, AccountHeights DEF RestInv
<1>5. Holds(address, MaxHeight)
  BY <1>3, HoldsIff DEF RestInv
<1>6. ~ExpandedDepth(a, from) => Holds(address, from)
  BY <1>1, <1>4 DEF ExpandedDepth, Holds
<1>7. \A pc \in {"reply", "import"}, new \in BOOLEAN, fulfilled \in BOOLEAN :
         /\ Row(pc, new, fulfilled) \in Session
         /\ Row(pc, new, fulfilled).address = address
         /\ Row(pc, new, fulfilled).from = from
  BY <1>1 DEF Session
<1>8. t \in Session /\ t.address = address /\ t.from = from
  <2> HIDE DEF Row
  <2> QED
    BY <1>2, <1>7
<1>9. \/ t.pc = "reply" /\ ~ExpandedDepth(a, from)
      \/ t.pc = "reply" /\ ~t.fulfilled
      \/ t.pc = "import" /\ ~t.fulfilled
  BY <1>2
<1> QED
  BY <1>5, <1>6, <1>8, <1>9 DEF Promise

\* An update of a function at one point is a function on the same set.
LEMMA ExceptIsFunction ==
    ASSUME NEW f, NEW S, f = [d \in S |-> f[d]], NEW c, NEW v
    PROVE  [f EXCEPT ![c] = v] = [d \in S |-> IF d = c THEN v ELSE f[d]]
  BY SMT

\* A step that replaces one session and keeps the promises of the others.
LEMMA ReplacedSessions ==
    ASSUME Sessions, NEW c \in Conn, NEW v, session' = [session EXCEPT ![c] = v],
           v # NoRequest => v \in Session /\ Promise(v)',
           \A s \in Session : Promise(s) => Promise(s)'
    PROVE  Sessions'
<1>1. session = [d \in Conn |-> session[d]]
  BY DEF Sessions
<1>2. session' = [d \in Conn |-> IF d = c THEN v ELSE session[d]]
  BY <1>1, ExceptIsFunction
<1>3. session' \in [Conn -> Session \cup {NoRequest}]
  BY <1>2 DEF Sessions
<1>4. ASSUME NEW d \in Conn, session'[d] # NoRequest
      PROVE  Promise(session[d])'
  <2>1. PICK t : t = session'[d]
    OBVIOUS
  <2>2. CASE d = c
    <3>1. t = v
      BY <1>2, <2>1, <2>2
    <3>2. Promise(t)'
      BY <1>4, <2>1, <3>1
    <3> QED
      BY <2>1, <3>2
  <2>3. CASE d # c
    <3>1. t = session[d]
      BY <1>2, <2>1, <2>3
    <3>2. t \in Session /\ Promise(t)
      BY <1>4, <2>1, <3>1 DEF Sessions
    <3>3. Promise(t)'
      BY <3>2
    <3> QED
      BY <2>1, <3>3
  <2> QED
    BY <2>2, <2>3
<1> QED
  BY <1>3, <1>4 DEF Sessions

\* A step that takes a request marks sessions and keeps the promises.
LEMMA MarkedSessions ==
    ASSUME Sessions, NEW type, NEW address, NEW accepted,
           session' = Takes(type, address, accepted),
           \A s \in Session : Promise(s) =>
               /\ Marked(s, type, address, accepted) \in Session
               /\ Promise(Marked(s, type, address, accepted))'
    PROVE  Sessions'
<1>1. ASSUME NEW d \in Conn, NEW t, t = session'[d], t # NoRequest
      PROVE  t \in Session /\ Promise(t)'
  <2>1. PICK s : s = session[d]
    OBVIOUS
  <2>2. s # NoRequest /\ t = Marked(s, type, address, accepted)
    BY <1>1, <2>1, TakesMarks
  <2>3. s \in Session /\ Promise(s)
    BY <2>1, <2>2 DEF Sessions
  <2> QED
    BY <2>2, <2>3
<1>2. session' = [d \in Conn |-> session'[d]]
  BY DEF Takes
<1>3. \A d \in Conn : session'[d] \in Session \cup {NoRequest}
  BY <1>1
<1>4. session' \in [Conn -> Session \cup {NoRequest}]
  BY <1>2, <1>3
<1>5. ASSUME NEW d \in Conn, session'[d] # NoRequest
      PROVE  Promise(session[d])'
  <2>1. PICK t : t = session'[d]
    OBVIOUS
  <2>2. Promise(t)'
    BY <1>1, <1>5, <2>1
  <2> QED
    BY <2>1, <2>2
<1> QED
  BY <1>4, <1>5 DEF Sessions

\* The handler that accepted its own request goes on to its reply, and the
\* others are marked.
LEMMA AcceptSessions ==
    ASSUME Sessions, NEW c \in Conn, NEW s, s = session[c], s # NoRequest,
           NEW type, s.pc = AcceptPc(type),
           session' = [Takes(type, s.address, {s.address}) EXCEPT
                          ![c].pc = "reply", ![c].fulfilled = TRUE],
           ~s.taken => Holds(s.address, s.from)',
           \A x \in Session : Promise(x) =>
               /\ Marked(x, type, s.address, {s.address}) \in Session
               /\ Promise(Marked(x, type, s.address, {s.address}))'
    PROVE  Sessions'
<1>1. s \in Session /\ Promise(s)
  BY DEF Sessions
<1>2. Marked(s, type, s.address, {s.address}) = s
  BY DEF Marked
<1>3. Promise(s)'
  BY <1>1, <1>2
<1>4. PICK f : f = Takes(type, s.address, {s.address})
  OBVIOUS
<1>5. f = [d \in Conn |-> f[d]] /\ f[c] = s
  BY <1>2, <1>4, TakesMarks DEF Takes
<1> DEFINE r == [s EXCEPT !.pc = "reply", !.fulfilled = TRUE]
<1>6. session' = [d \in Conn |-> IF d = c THEN r ELSE f[d]]
  <2>1. session' = [f EXCEPT ![c] = r]
    BY <1>4, <1>5
  <2> HIDE DEF r
  <2> QED
    BY <1>5, <2>1, ExceptIsFunction
<1>7. r \in Session /\ Promise(r)'
  BY <1>1, <1>3, AcceptedGood
<1> HIDE DEF r
<1>8. ASSUME NEW d \in Conn, NEW t, t = session'[d], t # NoRequest
      PROVE  t \in Session /\ Promise(t)'
  <2>1. CASE d = c
    BY <1>6, <1>7, <1>8, <2>1
  <2>2. CASE d # c
    <3>1. PICK x : x = session[d]
      OBVIOUS
    <3>2. x # NoRequest /\ t = Marked(x, type, s.address, {s.address})
      BY <1>4, <1>6, <1>8, <2>2, <3>1, TakesMarks
    <3>3. x \in Session /\ Promise(x)
      BY <3>1, <3>2 DEF Sessions
    <3> QED
      BY <3>2, <3>3
  <2> QED
    BY <2>1, <2>2
<1>9. \A d \in Conn : session'[d] \in Session \cup {NoRequest}
  BY <1>8
<1>10. session' \in [Conn -> Session \cup {NoRequest}]
  <2>1. session' = [d \in Conn |-> session'[d]]
    BY <1>6
  <2> QED
    BY <1>9, <2>1
<1>11. ASSUME NEW d \in Conn, session'[d] # NoRequest
       PROVE  Promise(session[d])'
  <2>1. PICK t : t = session'[d]
    OBVIOUS
  <2>2. Promise(t)'
    BY <1>8, <1>11, <2>1
  <2> QED
    BY <2>1, <2>2
<1> QED
  BY <1>10, <1>11 DEF Sessions

\* Every step keeps every promise.
LEMMA SessionsStep ==
    ASSUME RestInv, IndexInv', [RestNext]_restVars
    PROVE  Sessions'
<1>1. [Next]_vars
  BY CallsAreSteps DEF RestInv
<1>2. Sessions /\ IndexInv /\ OneRequest
  BY DEF RestInv
<1>3. requests \subseteq requests' => \A s \in Session : Promise(s) => Promise(s)'
  BY <1>1, <1>2, PromiseGrows
<1>4. UNCHANGED vars => requests \subseteq requests'
  BY DEF vars
<1>5. ASSUME UNCHANGED session, requests \subseteq requests' PROVE Sessions'
  <2>1. ASSUME NEW d \in Conn, session'[d] # NoRequest PROVE Promise(session[d])'
    <3>1. PICK t : t = session'[d]
      OBVIOUS
    <3>2. t \in Session /\ Promise(t)
      BY <1>2, <1>5, <2>1, <3>1 DEF Sessions
    <3>3. Promise(t)'
      BY <1>3, <1>5, <3>2
    <3> QED
      BY <3>1, <3>3
  <2> QED
    BY <1>2, <1>5, <2>1 DEF Sessions
<1>6. CASE UNCHANGED restVars
  BY <1>4, <1>5, <1>6 DEF restVars
<1>7. ASSUME NEW c \in Conn, NEW address \in Address, NEW create,
             LoginRead(c, address, create)
      PROVE  Sessions'
  <2>1. PICK v : v = session'[c]
    OBVIOUS
  <2>2. UNCHANGED vars
    BY <1>7 DEF LoginRead
  <2>3. v \in Session /\ Promise(v)
    BY <1>7, <2>1, LoginReadGood
  <2>4. session' = [session EXCEPT ![c] = v]
    BY <1>2, <1>7, <2>1 DEF LoginRead, Begin, Sessions
  <2> QED
    BY <1>2, <1>3, <1>4, <2>2, <2>3, <2>4, ReplacedSessions
<1>8. ASSUME NEW c \in Conn, NEW address \in Address, NEW from \in AskedHeights,
             NEW lookahead, NEW failed,
             ImportRead(c, address, from, lookahead, failed)
      PROVE  Sessions'
  <2>1. PICK v : v = session'[c]
    OBVIOUS
  <2>2. UNCHANGED vars
    BY <1>8 DEF ImportRead
  <2>3. v \in Session /\ Promise(v)
    BY <1>8, <2>1, ImportReadGood
  <2>4. session' = [session EXCEPT ![c] = v]
    BY <1>2, <1>8, <2>1 DEF ImportRead, Begin, Sessions
  <2> QED
    BY <1>2, <1>3, <1>4, <2>2, <2>3, <2>4, ReplacedSessions
<1>9. ASSUME NEW c \in Conn, Fails(c), UNCHANGED vars PROVE Sessions'
  BY <1>2, <1>3, <1>4, <1>9, ReplacedSessions DEF Fails
<1>10. ASSUME NEW c \in Conn, LoginCreate(c) PROVE Sessions'
  <2>1. PICK s : s = session[c]
    OBVIOUS
  <2>2. s \in Session /\ Promise(s) /\ s.pc = "create"
    BY <1>2, <1>10, <2>1 DEF LoginCreate, Sessions
  <2>3. CASE Fails(c) /\ UNCHANGED vars
    BY <1>9, <2>3
  <2>4. CASE /\ CreationRequest(s.address, "default_account")
             /\ Goes(c, IF AutoAcceptCreation THEN "accept_create" ELSE "reply")
    <3>1. PICK pc \in {"accept_create", "reply"} : Goes(c, pc)
      BY <2>4
    <3>2. requests \subseteq requests' /\ Queued("create", s.address, s.from)'
      <4>1. PICK tip \in Height : requests' = requests \cup
                {[type |-> "create", address |-> s.address, start |-> tip,
                  flags |-> "default_account"]}
        BY <2>4, Zenon DEF CreationRequest
      <4> DEFINE q == [type |-> "create", address |-> s.address, start |-> tip,
                       flags |-> "default_account"]
      <4>2. q.type = "create" /\ q.address = s.address /\ q.start <= s.from
        BY <2>2, HeightAssumption DEF Promise, Height
      <4>3. requests' = requests \cup {q}
        BY <4>1
      <4> HIDE DEF q
      <4> QED
        BY <4>2, <4>3 DEF Queued
    <3>3. PICK v : v = [s EXCEPT !.pc = pc]
      OBVIOUS
    <3>4. /\ v \in Session /\ v.pc = pc /\ v.address = s.address
          /\ v.from = s.from /\ v.fulfilled = s.fulfilled
      BY <2>2, <3>3 DEF Session
    <3>5. Promise(v)'
      BY <2>2, <3>2, <3>4 DEF Promise
    <3>6. session' = [session EXCEPT ![c] = v]
      BY <2>1, <3>1, <3>3 DEF Goes
    <3> QED
      BY <1>2, <1>3, <3>2, <3>4, <3>5, <3>6, ReplacedSessions
  <2> QED
    BY <1>10, <2>1, <2>3, <2>4, Zenon DEF LoginCreate
<1>11. ASSUME NEW c \in Conn, ImportQueue(c) PROVE Sessions'
  <2>1. PICK s : s = session[c]
    OBVIOUS
  <2>2. s \in Session /\ Promise(s) /\ s.pc = "import"
    BY <1>2, <1>11, <2>1 DEF ImportQueue, Sessions
  <2>3. CASE Fails(c) /\ UNCHANGED vars
    BY <1>9, <2>3
  <2>4. CASE /\ ImportRequest(s.address, s.from)
             /\ Goes(c, IF AutoAcceptImport THEN "accept_import" ELSE "reply")
    <3>1. PICK pc \in {"accept_import", "reply"} : Goes(c, pc)
      BY <2>4
    <3>2. requests \subseteq requests' /\ Queued("import_scan", s.address, s.from)'
      <4> DEFINE q == [type |-> "import_scan", address |-> s.address,
                       start |-> s.from, flags |-> "default_account"]
      <4>1. requests' = requests \cup {q}
        BY <2>4 DEF ImportRequest
      <4>2. q.type = "import_scan" /\ q.address = s.address /\ q.start <= s.from
        BY <2>2, SessionFields
      <4> HIDE DEF q
      <4> QED
        BY <4>1, <4>2 DEF Queued
    <3>3. PICK v : v = [s EXCEPT !.pc = pc]
      OBVIOUS
    <3>4. /\ v \in Session /\ v.pc = pc /\ v.address = s.address
          /\ v.from = s.from /\ v.fulfilled = s.fulfilled
      BY <2>2, <3>3 DEF Session
    <3>5. Holds(s.address, MaxHeight)'
      <4>1. Holds(s.address, MaxHeight) /\ MaxHeight \in Height
        BY <2>2, HeightAssumption DEF Promise, Height
      <4> QED
        BY <1>1, <1>2, <4>1, HoldsKept
    <3>6. Promise(v)'
      BY <2>2, <3>2, <3>4, <3>5 DEF Promise
    <3>7. session' = [session EXCEPT ![c] = v]
      BY <2>1, <3>1, <3>3 DEF Goes
    <3> QED
      BY <1>2, <1>3, <3>2, <3>4, <3>6, <3>7, ReplacedSessions
  <2> QED
    BY <1>11, <2>1, <2>3, <2>4, Zenon DEF ImportQueue
<1>12. ASSUME NEW c \in Conn, Reply(c) PROVE Sessions'
  BY <1>9, <1>12 DEF Reply, Fails
<1>13. ASSUME NEW c \in Conn, LoginAccept(c) PROVE Sessions'
  <2>1. PICK s : s = session[c]
    OBVIOUS
  <2>2. s # NoRequest /\ s \in Session /\ Promise(s) /\ s.pc = AcceptPc("create")
    BY <1>2, <1>13, <2>1 DEF LoginAccept, Sessions, AcceptPc
  <2>3. session' = [Takes("create", s.address, {s.address}) EXCEPT
                       ![c].pc = "reply", ![c].fulfilled = TRUE]
    BY <1>13, <2>1 DEF LoginAccept
  <2>4. \/ CreateAccount(s.address)
        \/ FindRequest("create", s.address) = {} /\ UNCHANGED vars
    BY <1>13, <2>1, Zenon DEF LoginAccept
  <2>5. \A x \in Session : Promise(x) =>
            /\ Marked(x, "create", s.address, {s.address}) \in Session
            /\ Promise(Marked(x, "create", s.address, {s.address}))'
    <3>1. "create" \in RequestType
      BY DEF RequestType
    <3> QED
      BY <1>1, <2>4, <3>1, CreateMarked, NothingMarked
  <2>6. ~s.taken => Holds(s.address, s.from)'
    <3>1. s.from = MaxHeight /\ MaxHeight \in Height
      BY <2>2, HeightAssumption DEF Promise, AcceptPc, Height
    <3>2. Holds(s.address, s.from) => Holds(s.address, s.from)'
      BY <1>1, <1>2, <3>1, HoldsKept
    <3>3. FindRequest("create", s.address) = {} => ~Queued("create", s.address, s.from)
      BY DEF FindRequest, Queued
    <3>4. CreateAccount(s.address) /\ Queued("create", s.address, s.from)
             => Holds(s.address, s.from)'
      BY <1>1, <1>2, <3>1, CreateHolds
    <3> QED
      BY <2>2, <2>4, <3>2, <3>3, <3>4 DEF Promise, AcceptPc
  <2> QED
    BY <1>2, <2>1, <2>2, <2>3, <2>5, <2>6, AcceptSessions
<1>14. ASSUME NEW c \in Conn, ImportAccept(c) PROVE Sessions'
  <2>1. PICK s : s = session[c]
    OBVIOUS
  <2>2. s # NoRequest /\ s \in Session /\ Promise(s) /\ s.pc = AcceptPc("import_scan")
    BY <1>2, <1>14, <2>1 DEF ImportAccept, Sessions, AcceptPc
  <2>3. session' = [Takes("import_scan", s.address, {s.address}) EXCEPT
                       ![c].pc = "reply", ![c].fulfilled = TRUE]
    BY <1>14, <2>1 DEF ImportAccept
  <2>4. \/ ImportAccount(s.address)
        \/ FindRequest("import_scan", s.address) = {} /\ UNCHANGED vars
    BY <1>14, <2>1, Zenon DEF ImportAccept
  <2>5. \A x \in Session : Promise(x) =>
            /\ Marked(x, "import_scan", s.address, {s.address}) \in Session
            /\ Promise(Marked(x, "import_scan", s.address, {s.address}))'
    <3>1. "import_scan" \in RequestType
      BY DEF RequestType
    <3> QED
      BY <1>1, <2>4, <3>1, ImportMarked, NothingMarked
  <2>6. ~s.taken => Holds(s.address, s.from)'
    <3>1. s.from \in Height /\ Holds(s.address, MaxHeight)
      BY <2>2, SessionFields DEF Promise, AcceptPc
    <3>2. Holds(s.address, s.from) => Holds(s.address, s.from)'
      BY <1>1, <1>2, <3>1, HoldsKept
    <3>3. FindRequest("import_scan", s.address) = {} =>
             ~Queued("import_scan", s.address, s.from)
      BY DEF FindRequest, Queued
    <3>4. ImportAccount(s.address) /\ Queued("import_scan", s.address, s.from)
             => Holds(s.address, s.from)'
      BY <1>2, <3>1, ImportHolds
    <3> QED
      BY <2>2, <2>4, <3>2, <3>3, <3>4 DEF Promise, AcceptPc
  <2> QED
    BY <1>2, <2>1, <2>2, <2>3, <2>5, <2>6, AcceptSessions
<1>15. ASSUME NEW type \in RequestType, NEW address \in Address, Reject(type, address)
       PROVE  Sessions'
  <2>1. RejectRequest(type, address) /\ session' = Takes(type, address, {})
    BY <1>15 DEF Reject
  <2>2. \A s \in Session : Promise(s) =>
            /\ Marked(s, type, address, {}) \in Session
            /\ Promise(Marked(s, type, address, {}))'
    BY <1>1, <2>1, RejectMarked
  <2> QED
    BY <1>2, <2>1, <2>2, MarkedSessions
<1>16. ASSUME NEW address \in Address, Accept(address) PROVE Sessions'
  <2>1. CASE CreateAccount(address) /\ session' = Takes("create", address, {address})
    <3>1. \A s \in Session : Promise(s) =>
            /\ Marked(s, "create", address, {address}) \in Session
            /\ Promise(Marked(s, "create", address, {address}))'
      BY <1>1, <2>1, CreateMarked
    <3> QED
      BY <1>2, <2>1, <3>1, MarkedSessions
  <2>2. CASE ImportAccount(address) /\ session' = Takes("import_scan", address, {address})
    <3>1. \A s \in Session : Promise(s) =>
            /\ Marked(s, "import_scan", address, {address}) \in Session
            /\ Promise(Marked(s, "import_scan", address, {address}))'
      BY <1>1, <2>2, ImportMarked
    <3> QED
      BY <1>2, <2>2, <3>1, MarkedSessions
  <2> QED
    BY <1>16, <2>1, <2>2 DEF Accept
<1>17. CASE Admin
  <2>1. UNCHANGED requests
    BY <1>17, Zenon DEF Admin, AddAccount, ChangeStatus, Rescan
  <2> QED
    BY <1>5, <1>17, <2>1 DEF Admin
<1>18. CASE Scan
  <2>1. UNCHANGED requests
    BY <1>18, Zenon DEF Scan, CallSyncChain, SyncChain, Rollback, RollbackAccounts
  <2> QED
    BY <1>5, <1>18, <2>1 DEF Scan
<1> QED
  BY <1>6, <1>7, <1>8, <1>10, <1>11, <1>12, <1>13, <1>14, <1>15, <1>16, <1>17,
     <1>18, Zenon DEF RestNext

\* The handlers' invariant.
LEMMA RestInvariant == RestSpec => []RestInv
<1>1. RestInit => RestInv
  <2> SUFFICES ASSUME RestInit PROVE RestInv
    OBVIOUS
  <2>1. Init
    BY DEF RestInit
  <2>2. IndexInv
    BY <2>1, InitialBlocksType
       DEF Init, IndexInv, TypeOK, KeysUnique, IndexesAgree
  <2>3. OneRequest
    BY <2>1 DEF Init, OneRequest
  <2>4. Sessions
    BY DEF RestInit, Sessions
  <2> QED
    BY <2>2, <2>3, <2>4 DEF RestInv
<1>2. RestInv /\ [RestNext]_restVars => RestInv'
  <2> SUFFICES ASSUME RestInv, [RestNext]_restVars PROVE RestInv'
    OBVIOUS
  <2>1. [Next]_vars
    BY CallsAreSteps DEF RestInv
  <2>2. IndexInv'
    BY <2>1, IndexStep DEF RestInv
  <2>3. OneRequest'
    BY <2>1, OneRequestStep DEF RestInv
  <2>4. Sessions'
    BY <2>2, SessionsStep
  <2> QED
    BY <2>2, <2>3, <2>4 DEF RestInv
<1> QED
  BY <1>1, <1>2, PTL DEF RestSpec

\* The REST handlers, the administrator and the scanner use the database as
\* Storage allows: their specification implements that of Storage, so every
\* theorem about Spec holds of the database under them.
THEOREM HandlersUseStorage == RestSpec => Spec
<1>1. RestInit => Init
  BY DEF RestInit
<1>2. RestInv /\ [RestNext]_restVars => [Next]_vars
  BY CallsAreSteps DEF RestInv
<1> QED
  BY <1>1, <1>2, RestInvariant, PTL DEF RestSpec, Spec

\* An answer that reports a login or an import as done is true when it is
\* sent, whatever the other connections, the scanner and the administrator
\* have done between the handler's database calls.
THEOREM AnswersAreTrue == RestSpec => []FulfilledIsStored
<1>1. RestInv => FulfilledIsStored
  <2> SUFFICES ASSUME RestInv, NEW c \in Conn, NEW s, s = session[c],
                      s # NoRequest /\ s.pc = "reply" /\ s.fulfilled /\ ~s.taken
               PROVE  \E r \in ByAddress(s.address) : \E a \in Named(r) :
                         a.start <= s.from
    BY DEF FulfilledIsStored
  <2>1. Promise(s)
    BY DEF RestInv, Sessions
  <2>2. Holds(s.address, s.from)
    BY <2>1 DEF Promise
  <2> QED
    BY <2>2, HoldsIff DEF RestInv
<1> QED
  BY <1>1, RestInvariant, PTL

\* What the database proofs show holds under the handlers: the stored chain
\* is one chain, and the accounts' rows are those of that chain.
THEOREM RestAccountsFollowChain == RestSpec => [](IndexesAgree /\ AccountsOnChain)
  BY HandlersUseStorage, IndexesComplete, AccountsFollowChain, PTL
=============================================================================
