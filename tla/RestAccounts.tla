---------------------------- MODULE RestAccounts ----------------------------
(***************************************************************************)
(* The REST handlers that create and import accounts, and the commands of  *)
(* the administrator (src/rest_server.cpp, src/rpc/login.cpp,              *)
(* src/rpc/admin.cpp), over the database of Storage.  A handler reads the  *)
(* account in one transaction, closes it, and then writes in one or two    *)
(* further ones: other connections, the scanner and the administrator run  *)
(* in between.                                                             *)
(*                                                                         *)
(* The lookahead of an account is modelled in Subaddresses; here the one   *)
(* that a request asks for is the same as the account's, smaller or larger,*)
(* and may have failed before.                                             *)
(***************************************************************************)
EXTENDS Storage

CONSTANTS
    Conn,                \* connections to the REST server
    AutoAcceptCreation,  \* --auto-accept-creation
    AutoAcceptImport,    \* --auto-accept-import
    NoRequest

ASSUME OptionAssumption ==
    AutoAcceptCreation \in BOOLEAN /\ AutoAcceptImport \in BOOLEAN

VARIABLE
    session    \* the request each connection is being served

restVars == <<vars, session>>

(***************************************************************************)
(* pc is the next database call of the handler: "create" or "import" to    *)
(* queue the request, "accept_*" to accept it at once, "reply" when the    *)
(* answer is known.  taken is history: the request was rejected, or        *)
(* accepted for another address with the same spend key, before the        *)
(* handler could accept it.                                                *)
(***************************************************************************)
Session ==
    [pc : {"create", "accept_create", "import", "accept_import", "reply"},
     address : Address, from : Height, new : BOOLEAN, fulfilled : BOOLEAN,
     taken : BOOLEAN]

RestTypeOK ==
    /\ TypeOK
    /\ session \in [Conn -> Session \cup {NoRequest}]

RestInit ==
    /\ Init
    /\ session = [c \in Conn |-> NoRequest]

Begin(c, pc, address, from, new, fulfilled) ==
    session' = [session EXCEPT ![c] =
                   [pc |-> pc, address |-> address, from |-> from, new |-> new,
                    fulfilled |-> fulfilled, taken |-> FALSE]]

Goes(c, pc) == session' = [session EXCEPT ![c].pc = pc]

\* The handler returns an error; nothing was promised.
Fails(c) == session' = [session EXCEPT ![c] = NoRequest]

\* open_account: the key was checked, and the account is not hidden.
OpenAccount(address) ==
    {a \in UNION {Named(r) : r \in ByAddress(address)} : a.status # "hidden"}

\* The queue finds a request by its spend key alone: whoever takes the one of
\* this address leaves none to handlers that wait to accept theirs, except
\* where it is theirs that is accepted.
Takes(type, address, accepted) ==
    LET pc == IF type = "create" THEN "accept_create" ELSE "accept_import" IN
    [c \in Conn |->
        LET s == session[c] IN
        IF /\ s # NoRequest /\ s.pc = pc
           /\ s.address.spend = address.spend /\ s.address \notin accepted
          THEN [s EXCEPT !.taken = TRUE] ELSE s]

-----------------------------------------------------------------------------
(* /login *)

\* The account is looked up; a known one is logged in.
LoginRead(c, address, create) ==
    /\ session[c] = NoRequest
    /\ IF ByAddress(address) # {}
         THEN /\ OpenAccount(address) # {}
              /\ Begin(c, "reply", address, MaxHeight, FALSE, FALSE)
         ELSE /\ create
              /\ Begin(c, "create", address, MaxHeight, TRUE, FALSE)
    /\ UNCHANGED vars

\* creation_request returns an error: account_exists, create_queue_max,
\* duplicate_request, or no block at all.
CreationRefused(address) ==
    \/ ByAddress(address) # {}
    \/ Cardinality({q \in requests : q.type = "create"}) >= CreateQueueMax
    \/ FindRequest("create", address) # {}
    \/ \A h \in Height : ~Stored(h)

\* creation_request; with --auto-accept-creation it is accepted next.
LoginCreate(c) ==
    /\ session[c] # NoRequest /\ session[c].pc = "create"
    /\ LET address == session[c].address IN
       \/ /\ CreationRequest(address, "default_account")
          /\ Goes(c, IF AutoAcceptCreation THEN "accept_create" ELSE "reply")
       \/ /\ CreationRefused(address)
          /\ Fails(c)
          /\ UNCHANGED vars

\* accept_requests does not say that there was no request any more.
LoginAccept(c) ==
    /\ session[c] # NoRequest /\ session[c].pc = "accept_create"
    /\ LET address == session[c].address IN
       /\ IF FindRequest("create", address) # {} THEN CreateAccount(address)
                                                 ELSE UNCHANGED vars
       /\ session' = [Takes("create", address, {address}) EXCEPT
                         ![c].pc = "reply", ![c].fulfilled = TRUE]

-----------------------------------------------------------------------------
(* /import_wallet_request *)

ExpandedDepth(a, from) == from < a.start

\* The decision, on a snapshot of the account and of the request queue.
ImportRead(c, address, from, lookahead, failed) ==
    /\ session[c] = NoRequest
    /\ \E a \in OpenAccount(address) :
          IF ~ExpandedDepth(a, from) /\ lookahead = "same" /\ ~failed
            THEN Begin(c, "reply", address, from, FALSE, TRUE)
          ELSE IF FindRequest("import_scan", address) # {}
            THEN Begin(c, "reply", address, from, FALSE, FALSE)
          ELSE IF ~failed /\ lookahead # "larger" /\ ~ExpandedDepth(a, from)
            THEN Begin(c, "reply", address, from, FALSE, TRUE)
            ELSE Begin(c, "import", address, from, TRUE, FALSE)
    /\ UNCHANGED vars

ImportQueue(c) ==
    /\ session[c] # NoRequest /\ session[c].pc = "import"
    /\ \/ /\ ImportRequest(session[c].address, session[c].from)
          /\ Goes(c, IF AutoAcceptImport THEN "accept_import" ELSE "reply")
       \/ /\ ByAddress(session[c].address) = {}
             \/ FindRequest("import_scan", session[c].address) # {}
          /\ Fails(c)
          /\ UNCHANGED vars

\* Mutant: the answer does not wait for accept_requests.
ImportAcceptEarly(c) ==
    /\ session[c] # NoRequest /\ session[c].pc = "accept_import"
    /\ session' = [session EXCEPT ![c].pc = "reply", ![c].fulfilled = TRUE]
    /\ UNCHANGED vars

ImportAccept(c) ==
    /\ session[c] # NoRequest /\ session[c].pc = "accept_import"
    /\ LET address == session[c].address IN
       /\ IF FindRequest("import_scan", address) # {} THEN ImportAccount(address)
                                                      ELSE UNCHANGED vars
       /\ session' = [Takes("import_scan", address, {address}) EXCEPT
                         ![c].pc = "reply", ![c].fulfilled = TRUE]

\* The response is sent.
Reply(c) ==
    /\ session[c] # NoRequest /\ session[c].pc = "reply"
    /\ session' = [session EXCEPT ![c] = NoRequest]
    /\ UNCHANGED vars

-----------------------------------------------------------------------------
(* The administrator (src/admin_main.cpp and the admin endpoints), and the *)
(* scanner, which moves the chain.  A check-in changes nothing that these  *)
(* handlers read.                                                          *)

Reject(type, address) ==
    /\ RejectRequest(type, address)
    /\ session' = Takes(type, address, {})

Accept(address) ==
    \/ /\ CreateAccount(address)
       /\ session' = Takes("create", address, {address})
    \/ /\ ImportAccount(address)
       /\ session' = Takes("import_scan", address, {address})

Admin ==
    /\ \E address \in Address :
          \/ \E flags \in Flags : AddAccount(address, flags)
          \/ \E status \in Status : ChangeStatus(status, address)
          \/ \E height \in AskedHeights : Rescan(height, address)
    /\ UNCHANGED session

Scan ==
    /\ \/ CallSyncChain
       \/ \E h \in AskedHeights : Rollback(h)
    /\ UNCHANGED session

RestNext ==
    \/ \E c \in Conn, address \in Address :
          \/ \E create \in BOOLEAN : LoginRead(c, address, create)
          \/ \E from \in AskedHeights, failed \in BOOLEAN :
             \E lookahead \in {"same", "smaller", "larger"} :
                ImportRead(c, address, from, lookahead, failed)
    \/ \E c \in Conn : \/ LoginCreate(c) \/ LoginAccept(c)
                        \/ ImportQueue(c) \/ ImportAccept(c) \/ Reply(c)
    \/ \E type \in RequestType, address \in Address : Reject(type, address)
    \/ \E address \in Address : Accept(address)
    \/ Admin
    \/ Scan

RestSpec == RestInit /\ [][RestNext]_restVars

-----------------------------------------------------------------------------
(* Properties *)

\* An answer that says a login or import is done is true when it is sent: the
\* account exists and starts at or below the height that was asked for, although the decision
\* rests on a snapshot and other connections, the scanner and the
\* administrator have written since.  accept_requests succeeds without a
\* request to accept, so that it was taken in between is the one exception.
FulfilledIsStored ==
    \A c \in Conn :
        LET s == session[c] IN
        s # NoRequest /\ s.pc = "reply" /\ s.fulfilled /\ ~s.taken =>
            \E r \in ByAddress(s.address) : \E a \in Named(r) :
                a.start <= s.from
=============================================================================
