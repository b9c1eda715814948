-------------------------------- MODULE Feed --------------------------------
(***************************************************************************)
(* The `/feed` websocket (rpc/feed.inl, rpc/feed_tcp.cpp): one connection   *)
(* to one account, from the handshake to its release, with what it is fed   *)
(* by: the account's check-ins, warnings and pool receives published on the *)
(* in-process PUB socket (client::push_updates and friends), and the rows   *)
(* it reads.  The part of the pool a login reports is module Mempool's.     *)
(*                                                                          *)
(* The handlers of a connection run on one strand; the login is split where *)
(* it meets the scanner, which runs on other threads.                       *)
(***************************************************************************)
EXTENDS Sequences, Integers

CONSTANTS
    MaxHeight,     \* height of the chain
    Paying,        \* heights with an output of the account
    MaxReorgs,     \* bound: chain syncs that replace blocks
    HighWater,     \* messages the SUB socket holds; more are dropped
    QueueMax,      \* queue_max
    OnTip,         \* on_tip
    MaxEvents      \* bound: check-ins, chain syncs, pool receives, admin commands

ASSUME FeedAssumption ==
    /\ MaxHeight \in Nat /\ Paying \subseteq 1..MaxHeight
    /\ QueueMax \in Nat /\ HighWater \in Nat /\ OnTip \in Nat
    /\ MaxReorgs \in Nat /\ MaxEvents \in Nat

VARIABLES
    outs,          \* the account's outputs in the database: <<height, branch>>
    scan,          \* the account's scan_height in the database
    mem,           \* its scan_height in the scan thread
    branch,        \* branch[h]: which of the competing blocks of height h
                   \* the database follows
    hidden,        \* the account is neither active nor inactive
    pushing,       \* a check-in committed but not yet published, or NoPush
    events,        \* bounded count of the above
    conn,          \* [sub, bus (its waiting messages), timer, stage, started]
    loop,          \* where the zmq_loop coroutine is suspended
    got,           \* the message the coroutine is about to handle, or the login
    sync,          \* connection_sync
    rd,            \* the read of stop_reads is pending
    write_queue_,  \* the number of messages to write
    wfail,         \* a write has failed: the front stays
    client         \* what the client was told, and what it can tell from it

scanVars == <<scan, mem, branch, hidden, pushing, events, outs>>
connVars == <<conn, loop, got, sync, rd, write_queue_, wfail, client>>
vars == <<scanVars, connVars>>

NoPush == <<>>
TxPool == MaxHeight + 1     \* block_id::txpool, the largest height
Least(a, b) == IF a <= b THEN a ELSE b

----------------------------------------------------------------------------
(* The PUB socket: ZMQ_DONTWAIT, so a subscriber that is full misses it.    *)
(* `client.lost` records what was missed.                                   *)

Publish(m) ==
    /\ conn' = IF conn.sub = "watching" /\ Len(conn.bus) < HighWater
               THEN [conn EXCEPT !.bus = Append(@, m)] ELSE conn
    /\ client' = IF conn.sub = "watching" /\ Len(conn.bus) >= HighWater
                 THEN [client EXCEPT !.lost = @ \cup {m.type}] ELSE client

\* Bound: events while there is a stream to feed, and between two of its
\* handlers (one during a handler has the effect of one before it).
Bounded == events < MaxEvents /\ loop \in {"watch", "open", "zmq"} /\ conn.sub # "shut"

\* The outputs of the account in blocks above a and up to b.
Received(a, b) == {<<h, branch[h]>> : h \in {k \in Paying : a < k /\ k <= b}}

\* storage::update of the account with blocks a scan thread has read.  An account
\* moved back meanwhile is left alone, yet the check-in is published all the
\* same; the scanner then starts again from the stored height.
CheckIn(new) ==
    /\ Bounded /\ pushing = NoPush
    /\ new \in mem + 1 .. MaxHeight
    /\ pushing' = [type |-> "update", old |-> mem, new |-> new, outs |-> Received(mem, new)]
    /\ scan' = IF scan < mem THEN scan ELSE new
    /\ outs' = IF scan < mem THEN outs ELSE outs \cup Received(mem, new)
    /\ mem' = scan'
    /\ events' = events + 1
    /\ UNCHANGED <<branch, hidden, connVars>>

\* client::push_updates, after the commit.
PushUpdates ==
    /\ pushing # NoPush
    /\ Publish(pushing)
    /\ pushing' = NoPush
    /\ UNCHANGED <<scan, mem, branch, hidden, events, outs,
                   loop, got, sync, rd, write_queue_, wfail>>

\* The chain that was followed last; it has the highest blocks.
Newest == branch[MaxHeight]

\* sync_quick, after the scan threads ended: the first answer of the daemon that
\* differs from the database is stored, which rolls back what it replaces from
\* height h, if anything, and a warning is published.
SyncChain(h, b) ==
    /\ Bounded /\ pushing = NoPush
    /\ h \in 1..MaxHeight /\ b \in {Newest, Newest + 1} /\ b <= MaxReorgs
    /\ b = Newest => scan < h
    /\ scan' = Least(scan, h - 1) /\ mem' = scan'
    /\ outs' = {o \in outs : o[1] < h}
    /\ branch' = [k \in 0..MaxHeight |-> IF h <= k /\ Newest < b THEN b ELSE branch[k]]
    /\ Publish([type |-> "warning"])
    /\ events' = events + 1
    /\ UNCHANGED <<hidden, pushing, loop, got, sync, rd, write_queue_, wfail>>

\* admin: rescan (change_height), which warns nobody.
AdminRescan(h) ==
    /\ Bounded /\ h \in 0 .. scan - 1
    /\ scan' = h
    /\ outs' = {o \in outs : o[1] < h}
    /\ events' = events + 1
    /\ UNCHANGED <<mem, branch, hidden, pushing, connVars>>

\* admin: modify_account_status hidden.
AdminHide ==
    /\ Bounded /\ ~hidden
    /\ hidden' = TRUE
    /\ events' = events + 1
    /\ UNCHANGED <<scan, mem, branch, pushing, outs, connVars>>

\* client::push_update: a scan thread finds a receive in the pool.
PushReceive ==
    /\ Bounded /\ ~hidden
    /\ Publish([type |-> "mempool"])
    /\ events' = events + 1
    /\ UNCHANGED <<scan, mem, branch, hidden, pushing, outs,
                   loop, got, sync, rd, write_queue_, wfail>>

----------------------------------------------------------------------------
(* Closing.  is_closing() is a subscription that has been shut down.        *)

is_closing(c) == c.sub = "shut"

\* do_async_close: once per stream.
async_close(c) ==
    IF c.started THEN c
    ELSE [sub |-> "shut", bus |-> <<>>, timer |-> "close", stage |-> "closing", started |-> TRUE]

\* client_close: the writes are left to be flushed.
client_close(c) == [c EXCEPT !.sub = "shut", !.bus = <<>>, !.timer = "off"]

\* Mutant: the stream is closed at once.
CloseNow(c, q) == async_close(c)

\* close_check: close now, or once the queue is written.
close_check(c, q) == IF q = 0 THEN async_close(c) ELSE client_close(c)

\* do_cleanup.
cleanup(c) == [c EXCEPT !.sub = "shut", !.bus = <<>>, !.timer = "off", !.stage = "clean"]

\* The strand is between two handlers.
Between == loop \notin {"watch", "open"}

----------------------------------------------------------------------------
(* Writing. *)

\* do_write of a message the client can make something of: `start` to `end`
\* are the blocks it covers, `found` its outputs.
Told(kind, start, end, found) ==
    [client EXCEPT
        !.known = IF kind \in {"sync", "blocks"} THEN end ELSE @,
        !.gap = @ \/ (kind = "blocks" /\ start > client.known),
        !.told = @ \cup found,
        !.after = @ \/ client.err,
        !.err = @ \/ kind = "error"]

ToldError == Told("error", 0, 0, {})

\* Mutant: the queue is written and the stream left open.
WrittenOpen(c, q) == c

\* push_loop: the next message, or the close that waited for the last.
Written(c, q) == IF q = 0 /\ is_closing(c) THEN async_close(c) ELSE c

WriteDone ==
    /\ Between /\ write_queue_ > 0 /\ ~wfail
    /\ conn.stage \in {"open", "closing"}
    /\ write_queue_' = write_queue_ - 1
    /\ conn' = Written(conn, write_queue_')
    /\ UNCHANGED <<scanVars, loop, got, sync, rd, wfail, client>>

WriteError ==
    /\ Between /\ write_queue_ > 0 /\ ~wfail
    /\ wfail' = TRUE
    /\ conn' = async_close(conn)
    /\ UNCHANGED <<scanVars, loop, got, sync, rd, write_queue_, client>>

----------------------------------------------------------------------------
(* The handshake and the login. *)

Accept ==
    /\ loop = "accept"
    /\ loop' = "read"
    /\ conn' = [conn EXCEPT !.timer = "login"]
    /\ UNCHANGED <<scanVars, got, sync, rd, write_queue_, wfail, client>>

AcceptFails ==
    /\ loop = "accept"
    /\ loop' = "done"
    /\ conn' = async_close(conn)
    /\ UNCHANGED <<scanVars, got, sync, rd, write_queue_, wfail, client>>

\* The login message arrives; reads stop being expected before it is handled.
ReadLogin(tx_sync, receives_only) ==
    /\ loop = "read" /\ conn.stage = "open"
    /\ rd' = TRUE
    /\ loop' = "watch"
    /\ got' = [tx_sync |-> tx_sync, receives_only |-> receives_only]
    /\ UNCHANGED <<scanVars, conn, sync, write_queue_, wfail, client>>

\* Any other first message is refused by prep_login.
ReadBadLogin ==
    /\ loop = "read" /\ conn.stage = "open"
    /\ rd' = TRUE
    /\ loop' = "done"
    /\ write_queue_' = 1
    /\ client' = ToldError
    /\ conn' = client_close(conn)
    /\ UNCHANGED <<scanVars, got, sync, wfail>>

\* The read fails, or ends because the stream was closed under it.
ReadFails ==
    /\ loop = "read"
    /\ loop' = "done"
    /\ conn' = async_close(conn)
    /\ UNCHANGED <<scanVars, got, sync, rd, write_queue_, wfail, client>>

\* sync_pull: a copy of the coroutine goes on only while the coroutine is
\* suspended where the copy was made; here the numbers of the iterations are
\* the places.
sync_pull(at) == loop = at

\* The login's timer, which the login does not cancel.
LoginTimer ==
    /\ Between /\ conn.timer = "login"
    /\ LET c == [conn EXCEPT !.timer = "off"] IN
       IF sync_pull("read")
       THEN loop' = "done" /\ conn' = async_close(c)
       ELSE UNCHANGED loop /\ conn' = c
    /\ UNCHANGED <<scanVars, got, sync, rd, write_queue_, wfail, client>>

\* prep_login subscribes before it reads.
Watch ==
    /\ loop = "watch"
    /\ loop' = "open"
    /\ conn' = [conn EXCEPT !.sub = "watching"]
    /\ UNCHANGED <<scanVars, got, sync, rd, write_queue_, wfail, client>>

\* open_account and the rows: an account that is not found ends the stream;
\* tx_sync sends the transactions (get_address_txs_response::load), otherwise
\* the heights alone are sent and the client answers for what is below.
Open ==
    /\ loop = "open"
    /\ \/ /\ hidden
          /\ loop' = "done"
          /\ conn' = client_close(conn)
          /\ write_queue_' = write_queue_ + 1
          /\ client' = ToldError
          /\ UNCHANGED sync
       \/ /\ ~hidden
          /\ loop' = "zmq"
          /\ sync' = [sync EXCEPT !.receives_only = got.receives_only]
          /\ write_queue_' = write_queue_ + 1
          /\ client' = IF got.tx_sync THEN Told("sync", 0, scan, outs)
                       ELSE [Told("sync", 0, scan, {}) EXCEPT !.base = scan]
          /\ UNCHANGED conn
    /\ got' = NoPush
    /\ UNCHANGED <<scanVars, rd, wfail>>

----------------------------------------------------------------------------
(* Updates. *)

\* The ZMQ read completes; its handler runs later on the strand.
ZmqRead ==
    /\ loop = "zmq" /\ conn.bus # <<>>
    /\ loop' = "got" /\ got' = Head(conn.bus)
    /\ conn' = [conn EXCEPT !.bus = Tail(@)]
    /\ UNCHANGED <<scanVars, sync, rd, write_queue_, wfail, client>>

\* The subscription was shut down under the read.
ZmqAborted ==
    /\ loop = "zmq" /\ is_closing(conn)
    /\ loop' = "done"
    /\ conn' = close_check(conn, write_queue_)
    /\ UNCHANGED <<scanVars, got, sync, rd, write_queue_, wfail, client>>

\* What prep_update makes of a message: kind "none" writes nothing; `ok` keeps
\* the coroutine going; the rest is the connection_sync and the blocks covered.
Prepared(kind, ok, s, start, end, found) ==
    [kind |-> kind, ok |-> ok, sync |-> s, start |-> start, end |-> end, found |-> found]

Nothing(s) == Prepared("none", TRUE, s, 0, 0, {})
Ends(s) == Prepared("error", FALSE, s, 0, 0, {})

\* Mutant: a check-in is taken as it comes.
MatchesAlways(m) == TRUE

\* A check-in has to start where the last one ended; the first is not checked.
Matches(m) == sync.height = TxPool \/ sync.height = m.old

\* A well-formed warning returns at `if (!error) return error`, the text an
\* error; it ends the stream unless warnings are not wanted.  The counters
\* are compared after that return only.
PrepWarning == IF sync.receives_only THEN {Nothing(sync)} ELSE {Ends(sync)}

\* prep_error(missed_messages) is a value: the error is written, the stream goes on.
Missed == Prepared("error", TRUE, sync, 0, 0, {})

\* An update without outputs, of a client that wants receives only or of an
\* account still catching up, may be left out; its blocks go with the next.
PrepUpdate(m) ==
    LET s == [sync EXCEPT !.height = m.new]
        full == Prepared("blocks", TRUE,
                   [s EXCEPT !.last = m.new, !.on_tip = MaxHeight - m.new <= OnTip],
                   Least(sync.last, m.old), m.new, m.outs)
    IN
    IF ~Matches(m) THEN {Missed}
    ELSE IF sync.receives_only /\ m.outs = {} THEN {Nothing(s)}
    ELSE {IF hidden THEN Ends(s) ELSE full}
         \cup (IF ~sync.on_tip /\ m.outs = {} THEN {Nothing(s)} ELSE {})

prep_update(m) ==
    CASE m.type = "warning" -> PrepWarning
      [] m.type = "update"  -> PrepUpdate(m)
      [] m.type = "mempool" -> {Prepared("mempool", TRUE, sync, 0, 0, {})}

\* The limit of the queue.
Full == QueueMax < write_queue_

\* connection::push, and the coroutine's answer to it.
Push ==
    /\ loop = "got"
    /\ \E p \in IF Full THEN {Ends(sync)} ELSE prep_update(got) :
          /\ sync' = p.sync
          /\ write_queue_' = IF p.kind = "none" THEN write_queue_ ELSE write_queue_ + 1
          /\ client' = IF p.kind = "none" THEN client ELSE Told(p.kind, p.start, p.end, p.found)
          /\ loop' = IF p.ok THEN "zmq" ELSE "done"
          /\ conn' = IF p.ok THEN conn ELSE close_check(conn, write_queue_')
    /\ got' = NoPush
    /\ UNCHANGED <<scanVars, rd, wfail>>

----------------------------------------------------------------------------
(* The client's side of the end, and the end. *)

\* on_control: a close frame, seen by whichever read is pending.
CloseFrame ==
    /\ Between /\ conn.stage \in {"open", "closing"} /\ (loop = "read" \/ rd)
    /\ conn' = close_check(conn, write_queue_)
    /\ client' = [client EXCEPT !.closed = TRUE]
    /\ UNCHANGED <<scanVars, loop, got, sync, rd, write_queue_, wfail>>

\* The read of stop_reads ends: the client sent data, or left, or the stream ended.
ReadEnds ==
    /\ Between /\ rd
    /\ rd' = FALSE
    /\ conn' = close_check(conn, write_queue_)
    /\ UNCHANGED <<scanVars, loop, got, sync, write_queue_, wfail, client>>

\* The websocket close ends: plain sockets are closed, TLS is shut down first.
CloseDone ==
    /\ Between /\ conn.stage = "closing"
    /\ \/ conn' = cleanup(conn)
       \/ conn' = [conn EXCEPT !.stage = "tls", !.timer = "tls"]
    /\ UNCHANGED <<scanVars, loop, got, sync, rd, write_queue_, wfail, client>>

\* async_shutdown ends, or force_close fires.
ShutdownDone ==
    /\ Between /\ (conn.stage = "tls" \/ conn.timer \in {"close", "tls"})
    /\ conn' = cleanup(conn)
    /\ UNCHANGED <<scanVars, loop, got, sync, rd, write_queue_, wfail, client>>

----------------------------------------------------------------------------
Init ==
    /\ outs = {}
    /\ scan = 0 /\ mem = 0 /\ hidden = FALSE /\ pushing = NoPush
    /\ branch = [h \in 0..MaxHeight |-> 0]
    /\ events = 0
    /\ conn = [sub |-> "open", bus |-> <<>>, timer |-> "off", stage |-> "open", started |-> FALSE]
    /\ loop = "accept" /\ got = NoPush
    /\ sync = [height |-> TxPool, last |-> TxPool,
               receives_only |-> FALSE, on_tip |-> FALSE]
    /\ rd = FALSE /\ write_queue_ = 0 /\ wfail = FALSE
    /\ client = [known |-> 0, base |-> 0, told |-> {}, gap |-> FALSE, err |-> FALSE,
                 after |-> FALSE, lost |-> {}, closed |-> FALSE]

\* Handlers of the connection that the server's threads run by themselves.
Served ==
    \/ Watch \/ Open
    \/ Push \/ ZmqAborted \/ WriteDone \/ WriteError
    \/ CloseDone \/ ShutdownDone
    \/ conn.stage = "clean" /\ (ReadEnds \/ ReadFails)

FeedNext ==
    \/ Served
    \/ Accept \/ AcceptFails \/ LoginTimer \/ ReadFails \/ ZmqRead \/ CloseFrame \/ ReadEnds
    \/ \E tx_sync, receives_only \in BOOLEAN : ReadLogin(tx_sync, receives_only)
    \/ ReadBadLogin

ScannerNext ==
    \/ \E h \in 1..MaxHeight : CheckIn(h) \/ \E b \in 0..MaxReorgs : SyncChain(h, b)
    \/ \E h \in 0 .. MaxHeight - 1 : AdminRescan(h)
    \/ PushUpdates \/ PushReceive \/ AdminHide

Next == FeedNext \/ ScannerNext

Spec == Init /\ [][Next]_vars

\* The strand's threads run every handler that is ready; Beast's own timeouts
\* end every write and every close.
FairSpec == Spec /\ WF_vars(Served)

----------------------------------------------------------------------------
(* Properties. *)

\* The types; the queue never holds more than the limit, the one above it that
\* `<` lets in, and the error that ends the stream.
FeedTypeOK ==
    /\ scan \in 0..MaxHeight /\ mem \in 0..MaxHeight /\ branch \in [0..MaxHeight -> 0..MaxReorgs] /\ hidden \in BOOLEAN
    /\ outs \subseteq (1..MaxHeight) \X (0..MaxReorgs)
    /\ [conn EXCEPT !.bus = <<>>] \in
          [sub : {"open", "watching", "shut"}, bus : {<<>>}, timer : {"off", "login", "close", "tls"},
                 stage : {"open", "closing", "tls", "clean"}, started : BOOLEAN]
    /\ loop \in {"accept", "read", "watch", "open", "zmq", "got", "done"}
    /\ sync.height \in 0..TxPool /\ sync.last \in 0..TxPool
    /\ write_queue_ \in 0 .. QueueMax + 2
    /\ Len(conn.bus) <= HighWater

\* What a client may rely on to learn of a reorganisation: warnings, unless it
\* asked for receives only, and then every check-in.
Warned == IF sync.receives_only THEN client.lost = {} ELSE "warning" \notin client.lost

\* No silent gap.  Once everything published has been handled, a stream that has
\* sent no error and no blocks that start above what it covered before has told
\* every output stored up to the height it covered, whatever check-ins were
\* dropped, rolled back, or committed while the login read the database.  This
\* holds while no rescan starts at the height of a stored output: such a rescan
\* deletes the row, and a stream that opens then may miss it when a second rescan,
\* from further down, brings it back and that check-in is dropped.  (With less
\* than seven events of the environment this does not come to pass.)
NoSilentGap ==
    (/\ loop = "zmq" /\ ~is_closing(conn) /\ conn.bus = <<>> /\ pushing = NoPush
     /\ ~client.err /\ ~client.gap /\ Warned) =>
        {o \in outs : client.base < o[1] /\ o[1] <= client.known} \subseteq client.told

\* A stream that is logged in, whose client neither closed it nor sent data, and
\* that met no error stays open: the login's timer, which is still running and
\* holds a copy of the coroutine, does not end it.
StaysOpen ==
    (rd /\ ~client.closed /\ ~client.err /\ ~wfail) => ~is_closing(conn)

\* The stream is closed only when all queued messages, the error that ends it
\* among them, have been written or a write has failed.
FlushedFirst == [][~conn.started /\ conn.started' => write_queue_' = 0 \/ wfail']_vars

\* Every part of a connection that still has a handler pending holds it alive.
Released ==
    /\ conn.stage = "clean" /\ loop = "done" /\ ~rd
    /\ (write_queue_ = 0 \/ wfail)

\* A stream that begins to close is released: no handler waits for ever.
EventuallyReleased == is_closing(conn) ~> Released

\* docs/api/feed.md: an error message ends the stream; nothing follows it.
NothingAfterError == ~client.after

=============================================================================
