----------------------------- MODULE FeedProofs -----------------------------
(***************************************************************************)
(* Proofs about Feed, for any chain length, any paying blocks, any limits  *)
(* of the queues and any number of reorganisations.                        *)
(***************************************************************************)
EXTENDS Feed, TLAPS, SequenceTheorems

-----------------------------------------------------------------------------
(* Messages *)

Heights == 0..MaxHeight

Row == (1..MaxHeight) \X (0..MaxReorgs)

UpdateMsg == [type : {"update"}, old : Heights, new : Heights, outs : SUBSET Row]
Msg == UpdateMsg \cup [type : {"warning", "mempool"}]

\* A check-in covers at least one block, and has an output of every paying
\* block it covers and of no other.
GoodUpdate(m) ==
    /\ m \in UpdateMsg
    /\ m.old < m.new
    /\ \A o \in m.outs : o[1] \in Paying /\ m.old < o[1] /\ o[1] <= m.new
    /\ \A k \in Paying : m.old < k /\ k <= m.new => \E o \in m.outs : o[1] = k

GoodMsg(m) == m \in Msg /\ (m.type = "update" => GoodUpdate(m))

\* What the subscription is still to be told: the message being handled, those
\* in the socket, and the check-in about to be published, in this order.
At(i) == IF i = 0 THEN got ELSE IF i <= Len(conn.bus) THEN conn.bus[i] ELSE pushing

Slot == {i \in 0..(Len(conn.bus) + 1) :
            /\ i = 0 => loop = "got"
            /\ i = Len(conn.bus) + 1 => pushing # NoPush}

Updates == {i \in Slot : At(i).type = "update"}

-----------------------------------------------------------------------------
(* The invariants *)

Connection == [sub : {"open", "watching", "shut"}, bus : Seq(Msg),
               timer : {"off", "login", "close", "tls"},
               stage : {"open", "closing", "tls", "clean"}, started : BOOLEAN]

\* A connection that has begun to close has no subscription.
GoodConn(c) ==
    /\ c \in Connection
    /\ c.stage # "open" \/ c.timer \in {"close", "tls"} => c.sub = "shut"
    /\ c.started => c.stage # "open"

Client == [known : Heights, base : Heights, told : SUBSET Row,
           gap : BOOLEAN, err : BOOLEAN, after : BOOLEAN,
           lost : SUBSET {"update", "warning", "mempool"}, closed : BOOLEAN]

Sync == [height : 0..TxPool, last : 0..TxPool, receives_only : BOOLEAN, on_tip : BOOLEAN]

LoggingIn == {"accept", "read", "watch", "open"}

\* Types, and what the steps of the connection agree on.
FeedShape ==
    /\ scan \in Heights /\ mem \in Heights /\ scan <= mem
    /\ branch \in [Heights -> 0..MaxReorgs] /\ hidden \in BOOLEAN
    /\ pushing = NoPush \/ GoodUpdate(pushing)
    /\ outs \subseteq Row
    /\ \A o \in outs : o[1] \in Paying /\ o[1] <= scan
    /\ GoodConn(conn)
    /\ \A i \in 1..Len(conn.bus) : GoodMsg(conn.bus[i])
    /\ loop \in LoggingIn \cup {"zmq", "got", "done"}
    /\ loop = "got" => GoodMsg(got)
    /\ loop \in {"watch", "open"} =>
          got \in [tx_sync : BOOLEAN, receives_only : BOOLEAN]
    /\ sync \in Sync
    /\ write_queue_ \in Nat /\ rd \in BOOLEAN /\ wfail \in BOOLEAN
    /\ client \in Client

\* A connection that is not logged in has neither subscribed nor written.
FeedOrder ==
    /\ conn.sub = "shut" \/ conn.sub = "open" => conn.bus = <<>>
    /\ loop \in {"accept", "read"} =>
          /\ write_queue_ = 0 /\ ~rd
          /\ conn.sub = "open" \/ conn.stage # "open"
    /\ loop \in {"accept", "read", "watch"} => conn.sub # "watching"
    /\ loop = "watch" => conn.sub = "open"
    /\ loop = "open" => conn.sub = "watching"
    /\ loop \in {"zmq", "got"} => conn.sub # "open"
    /\ conn.sub = "open" => client.lost = {}
    /\ loop \in LoggingIn =>
          /\ sync.height = TxPool /\ sync.last = TxPool /\ ~sync.receives_only
          /\ client.known = 0

\* Check-ins left out since the last one that was sent had nothing to tell.
LeftOut ==
    sync.last # TxPool /\ ~client.err =>
        /\ sync.last = client.known
        /\ sync.height # TxPool
        /\ \A k \in Paying : ~(client.known < k /\ k <= sync.height)

FeedInv == FeedShape /\ FeedOrder /\ LeftOut

\* While nothing was dropped, every step forward of the account is followed
\* through the messages: what is stored above the start of a check-in that is
\* to be handled is in it or in a later one.
Linked ==
    \A i \in Updates :
        \/ mem <= At(i).new
        \/ \E j \in Updates : i < j /\ At(j).old <= At(i).new

Carried ==
    \A i \in Updates : \A o \in outs :
        (/\ At(i).old < o[1] /\ o[1] <= At(i).new
         /\ \A j \in Updates : i < j => o[1] <= At(j).old) => o \in At(i).outs

Covered ==
    (loop \in {"zmq", "got"} /\ ~client.err /\ ~client.gap) =>
        \A o \in outs :
            (/\ client.base < o[1] /\ o[1] <= client.known
             /\ \A j \in Updates : o[1] <= At(j).old) => o \in client.told

NothingDropped == conn.sub # "shut" /\ client.lost = {}

DeliveryInv == FeedInv /\ (NothingDropped => Linked /\ Carried /\ Covered)

-----------------------------------------------------------------------------

\* A rescan drops the rows of the height it starts from, which the scan does
\* not return to (Storage!EveryScannedBlockStored); here it drops none.
RescansKeep == \A h \in Heights : AdminRescan(h) => h \notin Paying

Rows(a, b) == {<<k, branch[k]>> : k \in {p \in Paying : a < p /\ p <= b}}

\* Then the rows are those of the chain the database follows; so is what a
\* client was told that gets warnings and has none to come.
NoWarning ==
    /\ \A i \in 1..Len(conn.bus) : conn.bus[i].type # "warning"
    /\ loop = "got" => got.type # "warning"
    /\ "warning" \notin client.lost

Recent ==
    /\ NoWarning /\ conn.sub # "shut"
    /\ ~sync.receives_only /\ ~client.err /\ ~client.gap

Faithful == \A i \in Updates : At(i).outs = Rows(At(i).old, At(i).new)

ToldRows ==
    loop \in {"zmq", "got"} => Rows(client.base, client.known) \subseteq client.told

WarningInv == FeedInv /\ outs = Rows(0, scan) /\ (Recent => Faithful /\ ToldRows)

-----------------------------------------------------------------------------
(* Kinds of steps *)

\* A record is not the empty sequence.
LEMMA NoPushIsNone == \A m \in UpdateMsg : m # NoPush
  <1> SUFFICES ASSUME NEW m \in UpdateMsg, m = NoPush PROVE FALSE
    OBVIOUS
  <1>1. "type" \in DOMAIN m
    BY DEF UpdateMsg
  <1>2. DOMAIN NoPush = {}
    BY DEF NoPush
  <1> QED
    BY <1>1, <1>2

\* What a handler may do to a connection: nothing that its subscription
\* notices, or the end of the subscription.
Handled(c, d) ==
    /\ GoodConn(d)
    /\ (d.sub = c.sub /\ d.bus = c.bus) \/ (d.sub = "shut" /\ d.bus = <<>>)
    /\ c.stage # "open" => d.stage # "open"

\* What the handlers of the end of a connection do to it.
LEMMA ClosesHandle ==
    ASSUME NEW c, GoodConn(c), NEW q \in Nat
    PROVE  /\ Handled(c, c)
           /\ Handled(c, async_close(c))
           /\ async_close(c).sub = "shut" /\ async_close(c).stage # "open"
           /\ Handled(c, client_close(c))
           /\ client_close(c).sub = "shut" /\ client_close(c).bus = <<>>
           /\ Handled(c, close_check(c, q))
           /\ Handled(c, Written(c, q))
           /\ c.sub = "shut" => Handled(c, cleanup(c))
           /\ close_check(c, q).sub = "shut"
           /\ q = 0 => close_check(c, q) = async_close(c)
  <1> <<>> \in Seq(Msg)
    OBVIOUS
  <1>1. /\ Handled(c, c)
        /\ Handled(c, async_close(c))
        /\ async_close(c).sub = "shut" /\ async_close(c).stage # "open"
    BY DEF GoodConn, Handled, Connection, async_close
  <1>2. /\ Handled(c, client_close(c))
        /\ client_close(c).sub = "shut" /\ client_close(c).bus = <<>>
    <2> DEFINE d == client_close(c)
    <2>1. d \in Connection /\ d.sub = "shut" /\ d.bus = <<>> /\ d.timer = "off"
          /\ d.stage = c.stage /\ d.started = c.started
      BY DEF GoodConn, Connection, client_close
    <2> QED
      BY <2>1 DEF GoodConn, Handled
  <1>3. ASSUME c.sub = "shut" PROVE Handled(c, cleanup(c))
    <2> DEFINE d == cleanup(c)
    <2>1. d \in Connection /\ d.sub = "shut" /\ d.bus = <<>> /\ d.timer = "off"
          /\ d.stage = "clean"
      BY DEF GoodConn, Connection, cleanup
    <2> QED
      BY <2>1 DEF GoodConn, Handled
  <1> QED
    BY <1>1, <1>2, <1>3 DEF close_check, Written

\* A handler that neither reads nor writes.
Quiet ==
    /\ UNCHANGED <<scan, mem, branch, hidden, pushing, outs, got, sync>>
    /\ Handled(conn, conn')
    /\ loop \notin {"watch", "open"}
    /\ \/ loop' = loop
       \/ loop' = "done" /\ conn'.sub = "shut"
       \/ loop = "accept" /\ loop' = "read"
    /\ loop' \in {"accept", "read"} =>
          /\ write_queue_' = write_queue_
          /\ conn'.sub = conn.sub \/ conn'.stage # "open"
    /\ client' = client \/ client' = [client EXCEPT !.closed = TRUE]
    /\ write_queue_' \in Nat /\ write_queue_' <= write_queue_
    /\ wfail' \in BOOLEAN
    /\ rd' \in BOOLEAN /\ (rd' => rd)

QuietStep ==
    \/ WriteDone \/ WriteError \/ Accept \/ AcceptFails \/ ReadFails \/ LoginTimer
    \/ ZmqAborted \/ CloseFrame \/ ReadEnds \/ CloseDone \/ ShutdownDone

\* The steps of the connection that touch neither the login, the subscription
\* nor the messages are quiet.
LEMMA QuietSteps == FeedInv /\ QuietStep => Quiet
  <1> SUFFICES ASSUME FeedInv, QuietStep PROVE Quiet
    OBVIOUS
  <1>b. /\ GoodConn(conn) /\ write_queue_ \in Nat /\ rd \in BOOLEAN /\ wfail \in BOOLEAN
        /\ loop \in {"accept", "read"} => write_queue_ = 0 /\ ~rd
    BY DEF FeedInv, FeedShape, FeedOrder
  <1>a. /\ Handled(conn, conn)
        /\ Handled(conn, async_close(conn))
        /\ async_close(conn).sub = "shut" /\ async_close(conn).stage # "open"
    BY <1>b, ClosesHandle, 0 \in Nat
  <1>0. \A q \in Nat :
          /\ Handled(conn, close_check(conn, q))
          /\ Handled(conn, Written(conn, q))
          /\ conn.sub = "shut" => Handled(conn, cleanup(conn))
          /\ close_check(conn, q).sub = "shut"
          /\ q = 0 => close_check(conn, q) = async_close(conn)
    BY <1>b, ClosesHandle
  <1>1. CASE WriteDone
    BY <1>a, <1>b, <1>0, <1>1 DEF WriteDone, Quiet, Between, scanVars
  <1>2. CASE WriteError
    BY <1>a, <1>b, <1>0, <1>2 DEF WriteError, Quiet, Between, scanVars
  <1>3. CASE Accept
    <2>1. Handled(conn, conn') /\ conn'.sub = conn.sub
      BY <1>b, <1>3 DEF Accept, Handled, GoodConn, Connection
    <2> QED
      BY <1>b, <1>3, <2>1 DEF Accept, Quiet, scanVars
  <1>4. CASE AcceptFails \/ ReadFails
    BY <1>a, <1>b, <1>0, <1>4 DEF AcceptFails, ReadFails, Quiet, scanVars
  <1>5. CASE LoginTimer
    <2> DEFINE c == [conn EXCEPT !.timer = "off"]
    <2>1. Handled(conn, c) /\ c.sub = conn.sub /\ GoodConn(c)
      BY <1>b DEF Handled, GoodConn, Connection
    <2>2. Handled(c, async_close(c)) /\ async_close(c).sub = "shut" /\ async_close(c).stage # "open"
      BY <2>1, ClosesHandle, 0 \in Nat
    <2>3. c.bus = conn.bus /\ c.stage = conn.stage
      BY <1>b DEF GoodConn, Connection
    <2>4. Handled(conn, async_close(c))
      BY <2>1, <2>2, <2>3 DEF Handled
    <2> HIDE DEF c
    <2>5. CASE loop = "read"
      BY <1>b, <1>5, <2>2, <2>4, <2>5 DEF LoginTimer, Quiet, scanVars, sync_pull, c
    <2>6. CASE loop # "read"
      <3>1. /\ UNCHANGED <<scanVars, got, sync, rd, write_queue_, wfail, client, loop>>
            /\ conn' = c /\ loop \notin {"watch", "open"}
        BY <1>5, <2>6 DEF LoginTimer, Between, sync_pull, c
      <3> QED
        BY <1>b, <2>1, <3>1 DEF Quiet, scanVars
    <2> QED
      BY <2>5, <2>6
  <1>6. CASE ZmqAborted
    BY <1>a, <1>b, <1>0, <1>6 DEF ZmqAborted, Quiet, scanVars
  <1>7. CASE CloseFrame
    BY <1>a, <1>b, <1>0, <1>7 DEF CloseFrame, Quiet, scanVars, Between
  <1>8. CASE ReadEnds
    <2>1. /\ UNCHANGED <<scanVars, got, sync, write_queue_, wfail, client, loop>>
          /\ conn' = close_check(conn, write_queue_) /\ loop \notin {"watch", "open"}
          /\ rd /\ rd' = FALSE
      BY <1>8 DEF ReadEnds, Between
    <2>2. loop \notin {"accept", "read"}
      BY <1>b, <2>1
    <2>3. rd' \in BOOLEAN /\ (rd' => rd)
      BY <2>1
    <2>4. Handled(conn, conn')
      BY <1>b, <1>0, <2>1
    <2>5. write_queue_' \in Nat /\ write_queue_' <= write_queue_ /\ wfail' \in BOOLEAN
      BY <1>b, <2>1
    <2>6. UNCHANGED <<scan, mem, branch, hidden, pushing, outs, got, sync, client, loop>>
      BY <2>1 DEF scanVars
    <2> QED
      BY <1>8, <2>2, <2>3, <2>4, <2>5, <2>6 DEF Quiet, ReadEnds, Between
  <1>9. CASE CloseDone
    <2>1. conn.sub = "shut"
      BY <1>b, <1>9 DEF CloseDone, GoodConn
    <2>2. ASSUME conn' = [conn EXCEPT !.stage = "tls", !.timer = "tls"]
          PROVE  Handled(conn, conn')
      BY <2>1, <1>b, <2>2 DEF Handled, GoodConn, Connection
    <2>3. conn'.sub = conn.sub
      BY <1>b, <1>9, <2>1 DEF CloseDone, cleanup, GoodConn, Connection
    <2> QED
      BY <1>a, <1>b, <1>0, <1>9, <2>1, <2>2, <2>3 DEF CloseDone, Quiet, scanVars, Between
  <1>10. CASE ShutdownDone
    <2>1. conn.sub = "shut"
      BY <1>b, <1>10 DEF ShutdownDone, GoodConn
    <2>2. conn'.sub = conn.sub
      BY <1>b, <1>10, <2>1 DEF ShutdownDone, cleanup, GoodConn, Connection
    <2> QED
      BY <1>a, <1>b, <1>0, <1>10, <2>1, <2>2 DEF ShutdownDone, Quiet, scanVars, Between
  <1> QED
    BY <1>1, <1>2, <1>3, <1>4, <1>5, <1>6, <1>7, <1>8, <1>9, <1>10 DEF QuietStep

\* Quiet steps keep FeedInv.
LEMMA QuietKeeps == FeedInv /\ Quiet => FeedInv'
  <1> SUFFICES ASSUME FeedInv, Quiet PROVE FeedInv'
    OBVIOUS
  <1>1. /\ GoodConn(conn) /\ GoodConn(conn')
        /\ \/ conn'.sub = "shut" /\ conn'.bus = <<>>
           \/ conn'.sub = conn.sub /\ conn'.bus = conn.bus
        /\ conn.stage # "open" => conn'.stage # "open"
    BY DEF FeedInv, FeedShape, Quiet, Handled
  <1>2. \A i \in 1..Len(conn'.bus) : GoodMsg(conn'.bus[i])
    <2>1. CASE conn'.bus = <<>>
      BY <2>1
    <2>2. CASE conn'.bus = conn.bus
      BY <2>2 DEF FeedInv, FeedShape
    <2> QED
      BY <1>1, <2>1, <2>2
  <1>3. /\ client' \in Client /\ client'.lost = client.lost
        /\ client'.known = client.known /\ client'.err = client.err
    BY DEF FeedInv, FeedShape, Quiet, Client
  <1>4. FeedShape'
    BY <1>1, <1>2, <1>3 DEF FeedInv, FeedShape, Quiet, LoggingIn
  <1>5. FeedOrder'
    <2> USE DEF FeedInv, FeedOrder, Quiet, LoggingIn
    <2>1. (conn.sub = "shut" \/ conn.sub = "open" => conn.bus = <<>>)'
      BY <1>1
    <2>2. (loop \in {"accept", "read"} =>
             /\ write_queue_ = 0 /\ ~rd
             /\ conn.sub = "open" \/ conn.stage # "open")'
      BY <1>1
    <2>3. /\ (loop \in {"accept", "read", "watch"} => conn.sub # "watching")'
          /\ (loop = "watch" => conn.sub = "open")'
          /\ (loop = "open" => conn.sub = "watching")'
          /\ (loop \in {"zmq", "got"} => conn.sub # "open")'
          /\ (conn.sub = "open" => client.lost = {})'
      BY <1>1, <1>3
    <2>4. (loop \in LoggingIn =>
             /\ sync.height = TxPool /\ sync.last = TxPool /\ ~sync.receives_only
             /\ client.known = 0)'
      BY <1>3 DEF TxPool
    <2> QED
      BY <2>1, <2>2, <2>3, <2>4
  <1>6. LeftOut'
    BY <1>3 DEF FeedInv, LeftOut, Quiet, Handled
  <1> QED
    BY <1>4, <1>5, <1>6 DEF FeedInv

-----------------------------------------------------------------------------
(* The other handlers keep FeedInv *)

\* What a message written to the client changes of what it was told.
Tells(c, kind, start, end, found) ==
    /\ c \in Client
    /\ c.known = IF kind \in {"sync", "blocks"} THEN end ELSE client.known
    /\ c.gap <=> (client.gap \/ (kind = "blocks" /\ start > client.known))
    /\ c.err <=> (client.err \/ kind = "error")
    /\ c.told = client.told \cup found
    /\ c.base = client.base /\ c.lost = client.lost /\ c.closed = client.closed

\* What the client knows after a message.
LEMMA ToldIs ==
    ASSUME client \in Client, NEW kind, NEW start \in 0..TxPool,
           NEW end \in Heights, NEW found \in SUBSET Row,
           NEW c, c = Told(kind, start, end, found)
    PROVE  Tells(c, kind, start, end, found)
  <1>1. /\ c.known = IF kind \in {"sync", "blocks"} THEN end ELSE client.known
        /\ c.told = client.told \cup found
        /\ c.base = client.base /\ c.lost = client.lost /\ c.closed = client.closed
    BY DEF Told, Client
  <1>2. c.gap = (client.gap \/ (kind = "blocks" /\ start > client.known))
    BY Zenon DEF Told, Client
  <1>3. c.err = (client.err \/ kind = "error") /\ c.after = (client.after \/ client.err)
    BY Zenon DEF Told, Client
  <1>4. c = [known |-> c.known, base |-> c.base, told |-> c.told, gap |-> c.gap, err |-> c.err,
             after |-> c.after, lost |-> c.lost, closed |-> c.closed]
    <2>1. DOMAIN client = {"known", "base", "told", "gap", "err", "after", "lost", "closed"}
      BY DEF Client
    <2> QED
      BY <2>1 DEF Told, Client
  <1>5. /\ c.known \in Heights /\ c.base \in Heights /\ c.told \in SUBSET Row
        /\ c.lost \in SUBSET {"update", "warning", "mempool"} /\ c.closed \in BOOLEAN
    BY <1>1 DEF Client
  <1>6. c.gap \in BOOLEAN /\ c.err \in BOOLEAN /\ c.after \in BOOLEAN
    BY <1>2, <1>3
  <1>7. c \in Client
    BY <1>4, <1>5, <1>6 DEF Client
  <1> QED
    BY <1>1, <1>2, <1>3, <1>7 DEF Tells

\* The error that ends a stream.
LEMMA ToldErrorIs ==
    ASSUME client \in Client
    PROVE  /\ ToldError \in Client /\ ToldError.err
           /\ ToldError.known = client.known /\ ToldError.lost = client.lost
           /\ ToldError.base = client.base /\ ToldError.closed = client.closed
  <1>1. 0 \in 0..TxPool /\ 0 \in Heights /\ {} \in SUBSET Row
    BY FeedAssumption DEF TxPool, Heights
  <1> QED
    BY <1>1, ToldIs DEF ToldError, Tells

\* The first message: a login, which the account's rows will answer, or an error.
LEMMA ReadsKeep ==
    ASSUME FeedInv, ReadBadLogin \/ \E tx_sync, receives_only \in BOOLEAN :
                        ReadLogin(tx_sync, receives_only)
    PROVE  FeedInv'
  <1>1. CASE ReadBadLogin
    <2>1. /\ UNCHANGED <<scanVars, got, sync, wfail>>
          /\ loop = "read" /\ loop' = "done" /\ rd' = TRUE /\ write_queue_' = 1
          /\ client' = ToldError /\ conn' = client_close(conn)
      BY <1>1 DEF ReadBadLogin
    <2>2. /\ client' \in Client /\ client'.err
      BY <2>1, ToldErrorIs DEF FeedInv, FeedShape
    <2>3. GoodConn(conn') /\ conn'.sub = "shut" /\ conn'.bus = <<>>
      BY <2>1, ClosesHandle, 0 \in Nat, ZenonT(30) DEF FeedInv, FeedShape, Handled, client_close, GoodConn, Connection
    <2>4. \A i \in 1..Len(conn'.bus) : GoodMsg(conn'.bus[i])
      BY <2>3
    <2>5. rd' \in BOOLEAN
      BY <2>1
    <2>6. FeedShape'
      BY <2>1, <2>2, <2>3, <2>4, <2>5 DEF FeedInv, FeedShape, scanVars, LoggingIn
    <2>7. FeedOrder'
      BY <2>1, <2>3 DEF FeedOrder, LoggingIn
    <2>8. LeftOut'
      BY <2>2 DEF LeftOut
    <2> QED
      BY <2>6, <2>7, <2>8 DEF FeedInv
  <1>2. CASE \E tx_sync, receives_only \in BOOLEAN : ReadLogin(tx_sync, receives_only)
    <2>1. /\ UNCHANGED <<scanVars, conn, sync, write_queue_, wfail, client>>
          /\ loop = "read" /\ loop' = "watch" /\ rd' = TRUE /\ conn.stage = "open"
          /\ got' \in [tx_sync : BOOLEAN, receives_only : BOOLEAN]
      BY <1>2 DEF ReadLogin
    <2>2. rd' \in BOOLEAN
      BY <2>1
    <2>3. FeedShape'
      BY <2>1, <2>2 DEF FeedInv, FeedShape, scanVars, LoggingIn
    <2>4. FeedOrder'
      BY <2>1 DEF FeedInv, FeedOrder, LoggingIn, TxPool
    <2>5. LeftOut'
      BY <2>1 DEF FeedInv, LeftOut, TxPool
    <2> QED
      BY <2>3, <2>4, <2>5 DEF FeedInv
  <1> QED
    BY <1>1, <1>2

\* The login subscribes, then reads the rows.
LEMMA WatchKeeps ==
    ASSUME FeedInv, Watch PROVE FeedInv' /\ conn'.sub = "watching" /\ conn'.bus = <<>>
  <1>1. /\ UNCHANGED <<scanVars, got, sync, rd, write_queue_, wfail, client>>
        /\ loop = "watch" /\ loop' = "open" /\ conn' = [conn EXCEPT !.sub = "watching"]
    BY DEF Watch
  <1>2. GoodConn(conn) /\ conn.sub = "open" /\ conn.bus = <<>>
    BY <1>1 DEF FeedInv, FeedShape, FeedOrder
  <1>3. conn.stage = "open" /\ conn.timer \in {"off", "login"} /\ ~conn.started
    BY <1>2 DEF GoodConn, Connection
  <1>4. /\ GoodConn(conn') /\ conn'.sub = "watching" /\ conn'.bus = <<>>
    BY <1>1, <1>2, <1>3 DEF GoodConn, Connection
  <1>5. \A i \in 1..Len(conn'.bus) : GoodMsg(conn'.bus[i])
    BY <1>4
  <1>6. FeedShape'
    BY <1>1, <1>4, <1>5 DEF FeedInv, FeedShape, scanVars, LoggingIn
  <1>7. FeedOrder'
    BY <1>1, <1>4 DEF FeedInv, FeedOrder, LoggingIn, TxPool
  <1>8. LeftOut'
    BY <1>1 DEF FeedInv, LeftOut, TxPool
  <1> QED
    BY <1>4, <1>6, <1>7, <1>8 DEF FeedInv

\* What the login answers with: an error to a hidden account, else the rows or
\* the heights alone.
OpenDenied ==
    /\ loop' = "done" /\ conn' = client_close(conn) /\ client' = ToldError /\ sync' = sync

OpenTold ==
    /\ loop' = "zmq" /\ conn' = conn
    /\ \E b \in BOOLEAN : sync' = [sync EXCEPT !.receives_only = b]
    /\ client' \in Client
    /\ client'.known = scan /\ client'.lost = client.lost
    /\ (client'.err <=> client.err) /\ (client'.gap <=> client.gap)
    /\ client'.closed = client.closed
    /\ \/ client'.told = client.told \cup outs /\ client'.base = client.base
       \/ client'.base = scan

\* The answer to a login: an error, or the account as it is stored.
LEMMA OpenIs ==
    ASSUME FeedInv, Open
    PROVE  /\ UNCHANGED <<scan, mem, branch, hidden, pushing, outs, rd, wfail>>
           /\ loop = "open" /\ write_queue_' = write_queue_ + 1
           /\ OpenDenied \/ OpenTold
  <1>1. /\ UNCHANGED <<scan, mem, branch, hidden, pushing, outs, rd, wfail>>
        /\ loop = "open" /\ write_queue_' = write_queue_ + 1
    <2>1. UNCHANGED scanVars /\ UNCHANGED <<rd, wfail>> /\ loop = "open"
      BY DEF Open
    <2>2. write_queue_' = write_queue_ + 1
      BY Zenon DEF Open
    <2> QED
      BY <2>1, <2>2 DEF scanVars
  <1>2. CASE hidden
    BY <1>1, <1>2 DEF Open, OpenDenied
  <1>3. CASE ~hidden
    <2>1. /\ loop' = "zmq" /\ conn' = conn
          /\ sync' = [sync EXCEPT !.receives_only = got.receives_only]
          /\ client' = IF got.tx_sync THEN Told("sync", 0, scan, outs)
                       ELSE [Told("sync", 0, scan, {}) EXCEPT !.base = scan]
      BY <1>3 DEF Open
    <2>2. got \in [tx_sync : BOOLEAN, receives_only : BOOLEAN]
      BY <1>1 DEF FeedInv, FeedShape
    <2>3. /\ client \in Client /\ 0 \in 0..TxPool /\ scan \in Heights
          /\ outs \in SUBSET Row /\ {} \in SUBSET Row
      BY FeedAssumption DEF FeedInv, FeedShape, TxPool
    <2>6. \E b \in BOOLEAN : sync' = [sync EXCEPT !.receives_only = b]
      BY <2>1, <2>2
    <2>4. CASE got.tx_sync
      <3> DEFINE c == Told("sync", 0, scan, outs)
      <3>1. client' = c
        BY <2>1, <2>4
      <3>0. /\ c = Told("sync", 0, scan, outs)
            /\ "sync" # "blocks" /\ "sync" # "error" /\ "sync" \in {"sync", "blocks"}
        OBVIOUS
      <3> HIDE DEF c
      <3>2. /\ c \in Client /\ c.known = scan /\ c.lost = client.lost
            /\ (c.err <=> client.err) /\ (c.gap <=> client.gap)
            /\ c.closed = client.closed
            /\ c.told = client.told \cup outs /\ c.base = client.base
        BY <2>3, <3>0, ToldIs DEF Tells
      <3> QED
        BY <1>1, <2>1, <2>6, <3>1, <3>2, Zenon DEF OpenTold
    <2>5. CASE ~got.tx_sync
      <3> DEFINE none == {}
                 c == Told("sync", 0, scan, none)
                 d == [c EXCEPT !.base = scan]
      <3>1. client' = d
        BY <2>1, <2>5
      <3>0. /\ c = Told("sync", 0, scan, none) /\ none \in SUBSET Row
            /\ "sync" # "blocks" /\ "sync" # "error" /\ "sync" \in {"sync", "blocks"}
        OBVIOUS
      <3> HIDE DEF c, d, none
      <3>2. /\ c \in Client /\ c.known = scan /\ c.lost = client.lost
            /\ (c.err <=> client.err) /\ (c.gap <=> client.gap)
            /\ c.closed = client.closed
            /\ c.told = client.told \cup none /\ c.base = client.base
        BY <2>3, <3>0, ToldIs DEF Tells
      <3>3. /\ d \in Client /\ d.known = c.known /\ d.lost = c.lost
            /\ d.err = c.err /\ d.gap = c.gap /\ d.base = scan /\ d.closed = c.closed
        <4>1. scan \in Heights /\ c \in Client
          BY <2>3, <3>2
        <4> QED
          BY <4>1 DEF Client, d
      <3> QED
        BY <1>1, <2>1, <2>6, <3>1, <3>2, <3>3, Zenon DEF OpenTold
    <2> QED
      BY <2>4, <2>5
  <1> QED
    BY <1>1, <1>2, <1>3

\* The answer to a login keeps FeedInv.
LEMMA OpenKeeps == ASSUME FeedInv, Open PROVE FeedInv'
  <1>1. /\ UNCHANGED <<scan, mem, branch, hidden, pushing, outs, rd, wfail>>
        /\ loop = "open" /\ write_queue_' = write_queue_ + 1
        /\ OpenDenied \/ OpenTold
    BY OpenIs
  <1>2. CASE OpenDenied
    <2>1. client \in Client /\ client' = ToldError
      BY <1>2 DEF FeedInv, FeedShape, OpenDenied
    <2>2. /\ client' \in Client /\ client'.err
      BY <2>1, ToldErrorIs
    <2>3. GoodConn(conn') /\ conn'.sub = "shut" /\ conn'.bus = <<>>
      <3>1. GoodConn(conn) /\ conn' = client_close(conn)
        BY <1>2 DEF FeedInv, FeedShape, OpenDenied
      <3> QED
        BY <3>1, ClosesHandle, 0 \in Nat DEF Handled
    <2>4. \A i \in 1..Len(conn'.bus) : GoodMsg(conn'.bus[i])
      BY <2>3
    <2>6. FeedShape'
      BY <1>1, <1>2, <2>2, <2>3, <2>4 DEF FeedInv, FeedShape, OpenDenied
    <2>7. FeedOrder'
      BY <1>2, <2>3 DEF FeedOrder, LoggingIn, OpenDenied
    <2>8. LeftOut'
      BY <2>2 DEF LeftOut
    <2> QED
      BY <2>6, <2>7, <2>8 DEF FeedInv
  <1>3. CASE OpenTold
    <2>1. /\ loop' = "zmq" /\ conn' = conn /\ client' \in Client /\ client'.lost = client.lost
      BY <1>3 DEF OpenTold
    <2>2. sync' \in Sync /\ sync'.last = TxPool
      <3>1. sync \in Sync /\ sync.last = TxPool
        BY <1>1 DEF FeedInv, FeedShape, FeedOrder, LoggingIn
      <3>2. PICK b \in BOOLEAN : sync' = [sync EXCEPT !.receives_only = b]
        BY <1>3 DEF OpenTold
      <3> QED
        BY <3>1, <3>2 DEF Sync
    <2>3. FeedShape'
      BY <1>1, <2>1, <2>2 DEF FeedInv, FeedShape
    <2>4. FeedOrder'
      BY <1>1, <2>1 DEF FeedInv, FeedOrder, LoggingIn
    <2>5. LeftOut'
      BY <2>2 DEF LeftOut, TxPool
    <2> QED
      BY <2>3, <2>4, <2>5 DEF FeedInv
  <1> QED
    BY <1>1, <1>2, <1>3

\* The message read is the first of those that wait.
LEMMA ZmqReadIs ==
    ASSUME FeedInv, ZmqRead
    PROVE  /\ UNCHANGED <<scanVars, sync, rd, write_queue_, wfail, client>>
           /\ loop = "zmq" /\ loop' = "got" /\ conn.sub = "watching"
           /\ Len(conn.bus) >= 1 /\ got' = conn.bus[1]
           /\ conn'.sub = conn.sub /\ conn'.stage = conn.stage /\ GoodConn(conn')
           /\ conn'.started = conn.started
           /\ Len(conn'.bus) = Len(conn.bus) - 1
           /\ \A i \in 1..(Len(conn.bus) - 1) : conn'.bus[i] = conn.bus[i + 1]
  <1>1. /\ UNCHANGED <<scanVars, sync, rd, write_queue_, wfail, client>>
        /\ loop = "zmq" /\ loop' = "got" /\ conn.bus # <<>> /\ got' = Head(conn.bus)
        /\ conn' = [conn EXCEPT !.bus = Tail(conn.bus)]
    BY DEF ZmqRead
  <1>2. GoodConn(conn) /\ conn \in Connection /\ conn.sub = "watching"
    BY <1>1 DEF FeedInv, FeedShape, FeedOrder, GoodConn, Connection
  <1>3. conn.bus \in Seq(Msg)
    BY <1>2 DEF Connection
  <1>4. /\ Len(conn.bus) >= 1 /\ Head(conn.bus) = conn.bus[1]
        /\ Tail(conn.bus) \in Seq(Msg) /\ Len(Tail(conn.bus)) = Len(conn.bus) - 1
        /\ \A i \in 1..(Len(conn.bus) - 1) : Tail(conn.bus)[i] = conn.bus[i + 1]
    BY <1>1, <1>3
  <1>5. /\ conn' \in Connection /\ conn'.sub = conn.sub /\ conn'.stage = conn.stage
        /\ conn'.timer = conn.timer /\ conn'.started = conn.started
        /\ conn'.bus = Tail(conn.bus)
    BY <1>1, <1>2, <1>4 DEF Connection
  <1> QED
    BY <1>1, <1>2, <1>4, <1>5 DEF GoodConn

\* Taking a message from the socket keeps FeedInv.
LEMMA ZmqReadKeeps == ASSUME FeedInv, ZmqRead PROVE FeedInv'
  <1>1. /\ UNCHANGED <<scanVars, sync, rd, write_queue_, wfail, client>>
        /\ loop = "zmq" /\ loop' = "got" /\ conn.sub = "watching"
        /\ Len(conn.bus) >= 1 /\ got' = conn.bus[1]
        /\ conn'.sub = conn.sub /\ GoodConn(conn')
        /\ Len(conn'.bus) = Len(conn.bus) - 1
        /\ \A i \in 1..(Len(conn.bus) - 1) : conn'.bus[i] = conn.bus[i + 1]
    BY ZmqReadIs
  <1>2. /\ \A i \in 1..Len(conn.bus) : GoodMsg(conn.bus[i])
        /\ Len(conn.bus) \in Nat
    BY DEF FeedInv, FeedShape, GoodConn, Connection
  <1>3. GoodMsg(got') /\ \A i \in 1..Len(conn'.bus) : GoodMsg(conn'.bus[i])
    BY <1>1, <1>2
  <1>4. FeedShape'
    BY <1>1, <1>3 DEF FeedInv, FeedShape, scanVars
  <1>5. FeedOrder'
    BY <1>1 DEF FeedInv, FeedOrder, LoggingIn
  <1>6. LeftOut'
    BY <1>1 DEF FeedInv, LeftOut, TxPool
  <1> QED
    BY <1>4, <1>5, <1>6 DEF FeedInv

\* What a publication does: nothing, a message more, or a message dropped.
Published(m) ==
    \/ conn.sub # "watching" /\ UNCHANGED <<conn, client>>
    \/ /\ conn.sub = "watching" /\ client' = client
       /\ GoodConn(conn') /\ conn'.sub = conn.sub /\ conn'.stage = conn.stage
       /\ conn'.started = conn.started
       /\ Len(conn.bus) < HighWater
       /\ Len(conn'.bus) = Len(conn.bus) + 1
       /\ \A i \in 1..Len(conn.bus) : conn'.bus[i] = conn.bus[i]
       /\ conn'.bus[Len(conn.bus) + 1] = m
    \/ /\ conn.sub = "watching" /\ conn' = conn
       /\ client' \in Client /\ client'.lost = client.lost \cup {m.type}
       /\ client'.known = client.known /\ client'.base = client.base
       /\ client'.told = client.told /\ client'.gap = client.gap
       /\ client'.err = client.err /\ client'.closed = client.closed

\* A message is queued for the subscription, or dropped, or not subscribed to.
LEMMA PublishIs ==
    ASSUME GoodConn(conn), client \in Client, NEW m \in Msg, Publish(m)
    PROVE  Published(m)
  <1>1. conn \in Connection /\ conn.bus \in Seq(Msg) /\ Len(conn.bus) \in Nat
    BY DEF GoodConn, Connection
  <1>2. CASE conn.sub # "watching"
    BY <1>2 DEF Publish, Published
  <1>3. CASE conn.sub = "watching" /\ Len(conn.bus) < HighWater
    <2>1. conn' = [conn EXCEPT !.bus = Append(conn.bus, m)] /\ client' = client
      BY <1>1, <1>3, FeedAssumption DEF Publish
    <2>2. /\ Append(conn.bus, m) \in Seq(Msg) /\ Len(Append(conn.bus, m)) = Len(conn.bus) + 1
          /\ \A i \in 1..Len(conn.bus) : Append(conn.bus, m)[i] = conn.bus[i]
          /\ Append(conn.bus, m)[Len(conn.bus) + 1] = m
      BY <1>1
    <2>3. /\ conn' \in Connection /\ conn'.sub = conn.sub /\ conn'.stage = conn.stage
          /\ conn'.timer = conn.timer /\ conn'.started = conn.started
          /\ conn'.bus = Append(conn.bus, m)
      BY <1>1, <2>1, <2>2 DEF Connection
    <2>4. GoodConn(conn')
      BY <2>3 DEF GoodConn
    <2> QED
      BY <1>3, <2>1, <2>2, <2>3, <2>4 DEF Published
  <1>4. CASE conn.sub = "watching" /\ ~(Len(conn.bus) < HighWater)
    <2>1. conn' = conn /\ client' = [client EXCEPT !.lost = client.lost \cup {m.type}]
      BY <1>1, <1>4, FeedAssumption DEF Publish
    <2>2. m.type \in {"update", "warning", "mempool"}
      BY DEF Msg, UpdateMsg
    <2>3. /\ client' \in Client /\ client'.lost = client.lost \cup {m.type}
          /\ client'.known = client.known /\ client'.base = client.base
          /\ client'.told = client.told /\ client'.gap = client.gap
          /\ client'.err = client.err /\ client'.closed = client.closed
      BY <2>1, <2>2 DEF Client
    <2> QED
      BY <1>4, <2>1, <2>3 DEF Published
  <1> QED
    BY <1>2, <1>3, <1>4

\* A step of the scanner or of the administration.
ScannerStep ==
    /\ UNCHANGED <<loop, got, sync, rd, write_queue_, wfail>>
    /\ scan' \in Heights /\ mem' \in Heights /\ scan' <= mem'
    /\ branch' \in [Heights -> 0..MaxReorgs] /\ hidden' \in BOOLEAN
    /\ pushing' = NoPush \/ GoodUpdate(pushing')
    /\ outs' \subseteq Row
    /\ \A o \in outs' : o[1] \in Paying /\ o[1] <= scan'
    /\ \E m : (GoodMsg(m) /\ Published(m)) \/ UNCHANGED <<conn, client>>

\* What the scanner and the administrator do keeps FeedInv.
LEMMA ScannerKeeps == ASSUME FeedInv, ScannerStep PROVE FeedInv'
  <1>1. /\ GoodConn(conn') /\ client' \in Client
        /\ \A i \in 1..Len(conn'.bus) : GoodMsg(conn'.bus[i])
        /\ conn'.sub = conn.sub /\ conn'.stage = conn.stage
        /\ conn.sub # "watching" => UNCHANGED <<conn, client>>
        /\ client'.known = client.known /\ client'.err = client.err
    <2>1. PICK m : (GoodMsg(m) /\ Published(m)) \/ UNCHANGED <<conn, client>>
      BY DEF ScannerStep
    <2>2. /\ GoodConn(conn) /\ client \in Client /\ Len(conn.bus) \in Nat
          /\ \A i \in 1..Len(conn.bus) : GoodMsg(conn.bus[i])
      BY DEF FeedInv, FeedShape, GoodConn, Connection
    <2>3. CASE UNCHANGED <<conn, client>>
      BY <2>2, <2>3
    <2>4. CASE GoodMsg(m) /\ Published(m)
      BY <2>2, <2>4 DEF Published
    <2> QED
      BY <2>1, <2>3, <2>4
  <1>2. FeedShape'
    BY <1>1 DEF FeedInv, FeedShape, ScannerStep, LoggingIn
  <1>3. FeedOrder'
    <2>1. UNCHANGED <<loop, sync, rd, write_queue_>>
      BY DEF ScannerStep
    <2> QED
      BY <1>1, <2>1 DEF FeedInv, FeedOrder, LoggingIn
  <1>4. LeftOut'
    BY <1>1 DEF FeedInv, LeftOut, ScannerStep
  <1> QED
    BY <1>2, <1>3, <1>4 DEF FeedInv

\* The outputs of a range of blocks: one of every paying block of the range.
LEMMA ReceivedIs ==
    ASSUME FeedShape, NEW a \in Heights, NEW b \in Heights
    PROVE  /\ Received(a, b) \in SUBSET Row
           /\ \A o \in Received(a, b) : o[1] \in Paying /\ a < o[1] /\ o[1] <= b
           /\ \A k \in Paying : a < k /\ k <= b => \E o \in Received(a, b) : o[1] = k
           /\ Received(a, b) = Rows(a, b)
  <1>1. branch \in [Heights -> 0..MaxReorgs]
    BY DEF FeedShape
  <1>2. \A k \in Paying : k \in Heights /\ k \in 1..MaxHeight
    BY FeedAssumption DEF Heights
  <1>3. Received(a, b) = {<<h, branch[h]>> : h \in {k \in Paying : a < k /\ k <= b}}
    BY DEF Received
  <1>4. \A k \in Paying : <<k, branch[k]>> \in Row /\ <<k, branch[k]>>[1] = k
    BY <1>1, <1>2 DEF Row
  <1>5. /\ Received(a, b) \in SUBSET Row
        /\ \A o \in Received(a, b) : o[1] \in Paying /\ a < o[1] /\ o[1] <= b
    BY <1>3, <1>4
  <1>6. \A k \in Paying : a < k /\ k <= b => \E o \in Received(a, b) : o[1] = k
    <2> SUFFICES ASSUME NEW k \in Paying, a < k, k <= b PROVE \E o \in Received(a, b) : o[1] = k
      OBVIOUS
    <2>1. <<k, branch[k]>> \in Received(a, b)
      BY <1>3
    <2> QED
      BY <1>4, <2>1
  <1>7. Received(a, b) = Rows(a, b)
    BY <1>3 DEF Rows
  <1> QED
    BY <1>5, <1>6, <1>7

\* A check-in, before it is published.
LEMMA CheckInIs ==
    ASSUME FeedInv, NEW new, CheckIn(new)
    PROVE  /\ ScannerStep /\ UNCHANGED <<branch, conn, client>>
           /\ pushing = NoPush /\ GoodUpdate(pushing')
           /\ pushing'.old = mem /\ pushing'.new = new /\ pushing'.outs = Received(mem, new)
           /\ \/ scan < mem /\ UNCHANGED <<scan, outs>>
              \/ scan = mem /\ scan' = new /\ outs' = outs \cup Received(mem, new)
           /\ mem < new /\ mem' = scan' /\ mem' <= new
  <1>1. /\ pushing = NoPush /\ new \in mem + 1 .. MaxHeight
        /\ pushing' = [type |-> "update", old |-> mem, new |-> new, outs |-> Received(mem, new)]
        /\ scan' = IF scan < mem THEN scan ELSE new
        /\ outs' = IF scan < mem THEN outs ELSE outs \cup Received(mem, new)
        /\ mem' = scan'
        /\ UNCHANGED <<branch, hidden, connVars>>
    BY DEF CheckIn
  <1>2. scan \in Heights /\ mem \in Heights /\ scan <= mem /\ MaxHeight \in Nat
    BY FeedAssumption DEF FeedInv, FeedShape
  <1>3. new \in Heights /\ mem < new
    BY <1>1, <1>2 DEF Heights
  <1>4. /\ Received(mem, new) \in SUBSET Row
        /\ \A o \in Received(mem, new) : o[1] \in Paying /\ mem < o[1] /\ o[1] <= new
        /\ \A k \in Paying : mem < k /\ k <= new => \E o \in Received(mem, new) : o[1] = k
    BY <1>2, <1>3, ReceivedIs DEF FeedInv
  <1>5. /\ GoodUpdate(pushing')
        /\ pushing'.old = mem /\ pushing'.new = new /\ pushing'.outs = Received(mem, new)
    <2>1. /\ pushing'.old = mem /\ pushing'.new = new /\ pushing'.outs = Received(mem, new)
          /\ pushing' \in UpdateMsg
      BY <1>1, <1>2, <1>3, <1>4 DEF UpdateMsg
    <2> QED
      BY <1>3, <1>4, <2>1 DEF GoodUpdate
  <1>6. /\ \/ scan < mem /\ UNCHANGED <<scan, outs>>
           \/ scan = mem /\ scan' = new /\ outs' = outs \cup Received(mem, new)
        /\ mem' <= new
    BY <1>1, <1>2, <1>3 DEF Heights
  <1>7. /\ scan' \in Heights /\ mem' \in Heights /\ scan' <= mem'
        /\ outs' \subseteq Row /\ \A o \in outs' : o[1] \in Paying /\ o[1] <= scan'
    <2>1. /\ outs \subseteq Row /\ \A o \in outs : o[1] \in Paying /\ o[1] <= scan
          /\ \A o \in Row : o[1] \in Heights
      BY DEF FeedInv, FeedShape, Row, Heights
    <2>2. scan' \in Heights /\ mem' \in Heights /\ scan' <= mem'
      BY <1>1, <1>2, <1>3, <1>6 DEF Heights
    <2>3. CASE scan < mem /\ UNCHANGED <<scan, outs>>
      BY <2>1, <2>2, <2>3
    <2>4. CASE scan = mem /\ scan' = new /\ outs' = outs \cup Received(mem, new)
      BY <1>2, <1>3, <1>4, <2>1, <2>2, <2>4 DEF Heights
    <2> QED
      BY <1>6, <2>2, <2>3, <2>4
  <1>8. ScannerStep
    BY <1>1, <1>5, <1>7 DEF ScannerStep, connVars, FeedInv, FeedShape
  <1> QED
    BY <1>1, <1>3, <1>5, <1>6, <1>8 DEF connVars

\* A check-in is published.
LEMMA PushUpdatesIs ==
    ASSUME FeedInv, PushUpdates
    PROVE  /\ ScannerStep /\ UNCHANGED <<scan, mem, branch, outs>>
           /\ pushing # NoPush /\ GoodUpdate(pushing) /\ pushing' = NoPush
           /\ Published(pushing)
  <1>1. /\ pushing # NoPush /\ Publish(pushing) /\ pushing' = NoPush
        /\ UNCHANGED <<scan, mem, branch, hidden, outs, loop, got, sync, rd, write_queue_, wfail>>
    BY DEF PushUpdates
  <1>2. GoodUpdate(pushing) /\ GoodMsg(pushing) /\ pushing \in Msg
    BY <1>1 DEF FeedInv, FeedShape, GoodUpdate, GoodMsg, Msg
  <1>3. GoodConn(conn) /\ client \in Client
    BY DEF FeedInv, FeedShape
  <1>4. Published(pushing)
    BY <1>1, <1>2, <1>3, PublishIs
  <1>5. ScannerStep
    BY <1>1, <1>2, <1>4 DEF ScannerStep, FeedInv, FeedShape
  <1> QED
    BY <1>1, <1>2, <1>4, <1>5

\* Bare messages are good, and are not updates.
LEMMA BareMessages ==
    \A t \in {"warning", "mempool"} :
        [type |-> t] \in Msg /\ GoodMsg([type |-> t]) /\ [type |-> t].type = t
  BY DEF Msg, GoodMsg

\* A reorganisation takes the account back and is warned of.
LEMMA SyncChainIs ==
    ASSUME FeedInv, NEW h, NEW b, SyncChain(h, b)
    PROVE  /\ ScannerStep /\ pushing = NoPush /\ pushing' = pushing
           /\ Published([type |-> "warning"])
           /\ h \in 1..MaxHeight /\ scan' = Least(scan, h - 1) /\ mem' <= mem
           /\ outs' = {o \in outs : o[1] < h}
           /\ \A k \in Heights : k < h => branch'[k] = branch[k]
  <1>1. /\ h \in 1..MaxHeight /\ b \in {Newest, Newest + 1} /\ b <= MaxReorgs
        /\ scan' = Least(scan, h - 1) /\ mem' = scan'
        /\ outs' = {o \in outs : o[1] < h}
        /\ branch' = [k \in 0..MaxHeight |-> IF h <= k /\ Newest < b THEN b ELSE branch[k]]
        /\ Publish([type |-> "warning"])
        /\ pushing = NoPush
        /\ UNCHANGED <<hidden, pushing, loop, got, sync, rd, write_queue_, wfail>>
    BY DEF SyncChain
  <1>2. /\ scan \in Heights /\ mem \in Heights /\ scan <= mem /\ MaxHeight \in Nat
        /\ MaxReorgs \in Nat
        /\ branch \in [Heights -> 0..MaxReorgs] /\ GoodConn(conn) /\ client \in Client
    BY FeedAssumption DEF FeedInv, FeedShape
  <1>3. /\ scan' \in Heights /\ mem' \in Heights /\ scan' <= mem' /\ mem' <= mem
        /\ \A x \in Heights : x <= scan /\ x < h => x <= scan'
    BY <1>1, <1>2 DEF Heights, Least
  <1>4. branch' \in [Heights -> 0..MaxReorgs]
    <2>1. Newest \in 0..MaxReorgs /\ b \in 0..MaxReorgs
      BY <1>1, <1>2 DEF Newest, Heights
    <2> QED
      BY <1>1, <1>2, <2>1 DEF Heights
  <1>5. \A k \in Heights : k < h => branch'[k] = branch[k]
    BY <1>1, <1>2 DEF Heights
  <1>6. outs' \subseteq Row /\ \A o \in outs' : o[1] \in Paying /\ o[1] <= scan'
    <2>1. /\ outs \subseteq Row /\ \A o \in outs : o[1] \in Paying /\ o[1] <= scan
          /\ \A o \in Row : o[1] \in Heights
      BY DEF FeedInv, FeedShape, Row, Heights
    <2> QED
      BY <1>1, <1>3, <2>1
  <1>7. GoodMsg([type |-> "warning"]) /\ Published([type |-> "warning"])
    BY <1>1, <1>2, BareMessages, PublishIs
  <1>8. ScannerStep
    BY <1>1, <1>3, <1>4, <1>6, <1>7 DEF ScannerStep, FeedInv, FeedShape
  <1> QED
    BY <1>1, <1>3, <1>5, <1>7, <1>8

\* A rescan takes the account back and tells nobody.
LEMMA AdminRescanIs ==
    ASSUME FeedInv, NEW h, AdminRescan(h)
    PROVE  /\ ScannerStep /\ UNCHANGED <<mem, branch, pushing, conn, client>>
           /\ h \in Heights /\ h < scan /\ scan' = h /\ outs' = {o \in outs : o[1] < h}
  <1>1. /\ h \in 0 .. scan - 1 /\ scan' = h /\ outs' = {o \in outs : o[1] < h}
        /\ UNCHANGED <<mem, branch, hidden, pushing, connVars>>
    BY DEF AdminRescan
  <1>2. scan \in Heights /\ mem \in Heights /\ scan <= mem /\ MaxHeight \in Nat
    BY FeedAssumption DEF FeedInv, FeedShape
  <1>3. h \in Heights /\ h < scan /\ h <= mem
    BY <1>1, <1>2 DEF Heights
  <1>4. outs' \subseteq Row /\ \A o \in outs' : o[1] \in Paying /\ o[1] <= scan'
    <2>1. /\ outs \subseteq Row /\ \A o \in outs : o[1] \in Paying /\ o[1] <= scan
          /\ \A o \in Row : o[1] \in Heights
      BY DEF FeedInv, FeedShape, Row, Heights
    <2> QED
      BY <1>1, <1>3, <2>1 DEF Heights
  <1>5. ScannerStep
    BY <1>1, <1>2, <1>3, <1>4 DEF ScannerStep, connVars, FeedInv, FeedShape
  <1> QED
    BY <1>1, <1>3, <1>5 DEF connVars

\* An account is hidden.
LEMMA AdminHideIs ==
    ASSUME FeedInv, AdminHide
    PROVE  ScannerStep /\ UNCHANGED <<scan, mem, branch, pushing, outs, conn, client>>
  <1>1. hidden' = TRUE /\ UNCHANGED <<scan, mem, branch, pushing, outs, connVars>>
    BY DEF AdminHide
  <1>2. hidden' \in BOOLEAN
    BY <1>1
  <1> QED
    BY <1>1, <1>2 DEF ScannerStep, connVars, FeedInv, FeedShape

\* A transaction of the pool is published.
LEMMA PushReceiveIs ==
    ASSUME FeedInv, PushReceive
    PROVE  /\ ScannerStep /\ UNCHANGED <<scan, mem, branch, pushing, outs>>
           /\ Published([type |-> "mempool"])
  <1>1. /\ Publish([type |-> "mempool"])
        /\ UNCHANGED <<scan, mem, branch, hidden, pushing, outs, loop, got, sync, rd, write_queue_, wfail>>
    BY DEF PushReceive
  <1>2. GoodConn(conn) /\ client \in Client
    BY DEF FeedInv, FeedShape
  <1>3. GoodMsg([type |-> "mempool"]) /\ Published([type |-> "mempool"])
    BY <1>1, <1>2, BareMessages, PublishIs
  <1> QED
    BY <1>1, <1>3 DEF ScannerStep, FeedInv, FeedShape

-----------------------------------------------------------------------------
(* The answer to a message *)

\* The stream ends, with an error if it is not full already.
PushEnds ==
    /\ loop' = "done" /\ conn' = close_check(conn, write_queue_ + 1)
    /\ write_queue_' = write_queue_ + 1
    /\ client' = ToldError /\ sync' \in Sync

\* An error that does not end it.
PushMissed ==
    /\ got.type = "update" /\ ~Full
    /\ loop' = "zmq" /\ conn' = conn /\ write_queue_' = write_queue_ + 1
    /\ client' = ToldError /\ sync' = sync

\* Nothing to do with blocks: a warning that is left out, a pool receive.
PushOther ==
    /\ got.type # "update" /\ ~Full
    /\ got.type = "warning" => sync.receives_only
    /\ loop' = "zmq" /\ conn' = conn /\ write_queue_' \in {write_queue_, write_queue_ + 1}
    /\ client' \in {client, Told("mempool", 0, 0, {})} /\ sync' = sync

\* A check-in that is left out, and one that is sent.
PushSkips ==
    /\ got.type = "update" /\ Matches(got) /\ got.outs = {} /\ ~Full
    /\ loop' = "zmq" /\ conn' = conn /\ write_queue_' = write_queue_
    /\ client' = client /\ sync' = [sync EXCEPT !.height = got.new]

PushBlocks ==
    /\ got.type = "update" /\ Matches(got) /\ ~Full
    /\ loop' = "zmq" /\ conn' = conn /\ write_queue_' = write_queue_ + 1
    /\ client' = Told("blocks", Least(sync.last, got.old), got.new, got.outs)
    /\ sync' \in Sync /\ sync'.height = got.new /\ sync'.last = got.new
    /\ sync'.receives_only = sync.receives_only

\* A message is handled in one of five ways.
LEMMA PushIs ==
    ASSUME FeedInv, Push
    PROVE  /\ loop = "got" /\ GoodMsg(got)
           /\ UNCHANGED <<scanVars, rd, wfail>>
           /\ PushEnds \/ PushMissed \/ PushOther \/ PushSkips \/ PushBlocks
  <1>1. PICK p \in IF Full THEN {Ends(sync)} ELSE prep_update(got) :
          /\ sync' = p.sync
          /\ write_queue_' = IF p.kind = "none" THEN write_queue_ ELSE write_queue_ + 1
          /\ client' = IF p.kind = "none" THEN client ELSE Told(p.kind, p.start, p.end, p.found)
          /\ loop' = IF p.ok THEN "zmq" ELSE "done"
          /\ conn' = IF p.ok THEN conn ELSE close_check(conn, write_queue_')
    BY DEF Push
  <1>2. loop = "got" /\ GoodMsg(got) /\ UNCHANGED <<scanVars, rd, wfail>> /\ sync \in Sync
    BY DEF Push, FeedInv, FeedShape
  <1>3. \A s : p = Ends(s) => sync' = s /\ loop' = "done" /\ write_queue_' = write_queue_ + 1
                              /\ client' = ToldError
                              /\ conn' = close_check(conn, write_queue_ + 1)
    BY <1>1 DEF Ends, Prepared, ToldError
  <1>4. \A s : p = Nothing(s) => sync' = s /\ loop' = "zmq" /\ write_queue_' = write_queue_
                                 /\ client' = client /\ conn' = conn
    BY <1>1 DEF Nothing, Prepared
  <1>5. CASE Full
    BY <1>1, <1>2, <1>3, <1>5 DEF PushEnds
  <1>6. CASE ~Full /\ got.type = "warning"
    <2>1. p \in PrepWarning
      BY <1>1, <1>6 DEF prep_update
    <2>2. p = Ends(sync) \/ (p = Nothing(sync) /\ sync.receives_only)
      BY <2>1 DEF PrepWarning
    <2>3. CASE p = Ends(sync)
      BY <1>2, <1>3, <2>3 DEF PushEnds
    <2>4. CASE p = Nothing(sync) /\ sync.receives_only
      BY <1>2, <1>4, <1>6, <2>4 DEF PushOther
    <2> QED
      BY <2>2, <2>3, <2>4
  <1>7. CASE ~Full /\ got.type = "mempool"
    <2>1. p \in {Prepared("mempool", TRUE, sync, 0, 0, {})}
      BY <1>1, <1>7 DEF prep_update
    <2>2. /\ sync' = sync /\ loop' = "zmq" /\ write_queue_' = write_queue_ + 1
          /\ client' = Told("mempool", 0, 0, {}) /\ conn' = conn
      BY <1>1, <2>1 DEF Prepared
    <2> QED
      BY <1>2, <1>7, <2>2 DEF PushOther
  <1>8. CASE ~Full /\ got.type = "update"
    <2> DEFINE s == [sync EXCEPT !.height = got.new]
               t == [s EXCEPT !.last = got.new, !.on_tip = MaxHeight - got.new <= OnTip]
               full == Prepared("blocks", TRUE, t, Least(sync.last, got.old), got.new, got.outs)
    <2>1. p \in PrepUpdate(got)
      BY <1>1, <1>8 DEF prep_update
    <2>2. got.new \in Heights /\ got.old \in Heights /\ got.outs \in SUBSET Row
      BY <1>2, <1>8 DEF GoodMsg, GoodUpdate, UpdateMsg
    <2>3. s \in Sync
      <3>1. got.new \in 0..TxPool
        BY <2>2, FeedAssumption DEF Heights, TxPool
      <3> QED
        BY <1>2, <3>1 DEF Sync
    <2>4. \/ ~Matches(got) /\ p = Missed
          \/ Matches(got) /\ (p = Ends(s) \/ p = full \/ (got.outs = {} /\ p = Nothing(s)))
      BY <2>1 DEF PrepUpdate
    <2>5. CASE p = Missed
      <3>1. /\ sync' = sync /\ loop' = "zmq" /\ write_queue_' = write_queue_ + 1
            /\ client' = ToldError /\ conn' = conn
        BY <1>1, <2>5 DEF Missed, Prepared, ToldError
      <3> QED
        BY <1>2, <1>8, <3>1 DEF PushMissed
    <2>6. CASE p = Ends(s)
      BY <1>2, <1>3, <2>3, <2>6 DEF PushEnds
    <2>7. CASE Matches(got) /\ got.outs = {} /\ p = Nothing(s)
      BY <1>2, <1>4, <1>8, <2>7 DEF PushSkips
    <2>8. CASE Matches(got) /\ p = full
      <3> HIDE DEF s
      <3>1. t \in Sync /\ t.height = s.height /\ t.last = got.new /\ t.receives_only = s.receives_only
        <4>1. got.new \in 0..TxPool /\ (MaxHeight - got.new <= OnTip) \in BOOLEAN
          BY <2>2, FeedAssumption DEF Heights, TxPool
        <4> QED
          BY <2>3, <4>1 DEF Sync
      <3>2. s.height = got.new /\ s.receives_only = sync.receives_only
        BY <1>2 DEF s, Sync
      <3> HIDE DEF t
      <3>3. /\ sync' = t /\ loop' = "zmq" /\ write_queue_' = write_queue_ + 1 /\ conn' = conn
            /\ client' = Told("blocks", Least(sync.last, got.old), got.new, got.outs)
        BY <1>1, <2>8 DEF Prepared
      <3> QED
        BY <1>2, <1>8, <2>8, <3>1, <3>2, <3>3 DEF PushBlocks
    <2> QED
      BY <2>4, <2>5, <2>6, <2>7, <2>8
  <1>9. got.type \in {"update", "warning", "mempool"}
    BY <1>2 DEF GoodMsg, Msg, UpdateMsg
  <1> QED
    BY <1>5, <1>6, <1>7, <1>8, <1>9

\* What a client is told by a message that has nothing to do with blocks.
LEMMA ToldOtherIs ==
    ASSUME client \in Client, NEW c \in {client, Told("mempool", 0, 0, {})}
    PROVE  /\ c \in Client /\ c.known = client.known /\ c.base = client.base
           /\ c.told = client.told /\ c.lost = client.lost /\ c.closed = client.closed
           /\ (c.gap <=> client.gap) /\ (c.err <=> client.err)
  <1>1. CASE c = client
    BY <1>1
  <1>2. CASE c = Told("mempool", 0, 0, {})
    <2> DEFINE none == {}
    <2>1. /\ 0 \in 0..TxPool /\ 0 \in Heights /\ none \in SUBSET Row
          /\ c = Told("mempool", 0, 0, none)
          /\ "mempool" \notin {"sync", "blocks"} /\ "mempool" # "error" /\ "mempool" # "blocks"
      BY <1>2, FeedAssumption DEF TxPool, Heights
    <2>2. none = {}
      OBVIOUS
    <2> HIDE DEF none
    <2>3. /\ c \in Client /\ c.known = client.known /\ c.base = client.base
          /\ c.told = client.told \cup none /\ c.lost = client.lost /\ c.closed = client.closed
          /\ (c.gap <=> client.gap) /\ (c.err <=> client.err)
      <3>1. Tells(c, "mempool", 0, 0, none)
        BY <2>1, ToldIs
      <3> QED
        BY <2>1, <3>1 DEF Tells
    <2> QED
      BY <2>2, <2>3
  <1> QED
    BY <1>1, <1>2

\* What a client is told by the blocks of a check-in.
LEMMA ToldBlocksIs ==
    ASSUME client \in Client, NEW m, GoodUpdate(m), sync \in Sync,
           NEW c, c = Told("blocks", Least(sync.last, m.old), m.new, m.outs)
    PROVE  /\ c \in Client /\ c.known = m.new /\ c.base = client.base
           /\ c.told = client.told \cup m.outs /\ c.lost = client.lost
           /\ c.closed = client.closed
           /\ c.gap <=> (client.gap \/ (sync.last > client.known /\ m.old > client.known))
           /\ (c.err <=> client.err)
  <1> DEFINE start == Least(sync.last, m.old)
  <1>1. /\ m.new \in Heights /\ m.old \in Heights /\ m.outs \in SUBSET Row
        /\ sync.last \in 0..TxPool /\ client.known \in Heights /\ MaxHeight \in Nat
    BY FeedAssumption DEF GoodUpdate, UpdateMsg, Sync, Client
  <1>2. /\ start \in 0..TxPool
        /\ start > client.known <=> (sync.last > client.known /\ m.old > client.known)
    BY <1>1 DEF Least, TxPool, Heights
  <1>3. /\ c = Told("blocks", start, m.new, m.outs)
        /\ "blocks" \in {"sync", "blocks"} /\ "blocks" # "error"
    OBVIOUS
  <1> HIDE DEF start
  <1>4. /\ c \in Client /\ c.known = m.new /\ c.base = client.base
        /\ c.told = client.told \cup m.outs /\ c.lost = client.lost
        /\ c.closed = client.closed
        /\ c.gap <=> (client.gap \/ start > client.known)
        /\ (c.err <=> client.err)
    <2>1. Tells(c, "blocks", start, m.new, m.outs)
      BY <1>1, <1>2, <1>3, ToldIs
    <2> QED
      BY <1>3, <2>1 DEF Tells
  <1> QED
    BY <1>2, <1>4

\* A stream that ends has no subscription.
LEMMA PushEndsIs ==
    ASSUME FeedInv, PushEnds
    PROVE  /\ GoodConn(conn') /\ conn'.sub = "shut" /\ conn'.bus = <<>>
           /\ client' \in Client /\ client'.err
           /\ loop' = "done" /\ write_queue_' = write_queue_ + 1 /\ write_queue_' \in Nat
  <1>1. /\ GoodConn(conn) /\ client \in Client /\ write_queue_ \in Nat
        /\ conn.sub = "shut" => conn.bus = <<>>
    BY DEF FeedInv, FeedShape, FeedOrder
  <1>2. write_queue_ + 1 \in Nat /\ conn' = close_check(conn, write_queue_ + 1)
    BY <1>1 DEF PushEnds
  <1>3. Handled(conn, conn') /\ conn'.sub = "shut"
    BY <1>1, <1>2, ClosesHandle
  <1>4. GoodConn(conn') /\ conn'.bus = <<>>
    BY <1>1, <1>3 DEF Handled
  <1>5. client' \in Client /\ client'.err
    BY <1>1, ToldErrorIs DEF PushEnds
  <1> QED
    BY <1>2, <1>3, <1>4, <1>5 DEF PushEnds

\* Handling a message keeps FeedInv.
LEMMA PushKeeps == ASSUME FeedInv, Push PROVE FeedInv'
  <1>1. /\ loop = "got" /\ GoodMsg(got) /\ UNCHANGED <<scanVars, rd, wfail>>
        /\ PushEnds \/ PushMissed \/ PushOther \/ PushSkips \/ PushBlocks
    BY PushIs
  <1>2. CASE PushEnds
    <2>1. /\ GoodConn(conn') /\ conn'.sub = "shut" /\ conn'.bus = <<>>
          /\ client' \in Client /\ client'.err
          /\ loop' = "done" /\ write_queue_' \in Nat /\ sync' \in Sync
      BY <1>2, PushEndsIs DEF PushEnds
    <2>2. \A i \in 1..Len(conn'.bus) : GoodMsg(conn'.bus[i])
      BY <2>1
    <2>3. FeedShape'
      BY <1>1, <2>1, <2>2 DEF FeedInv, FeedShape, scanVars
    <2>4. FeedOrder'
      BY <2>1 DEF FeedOrder, LoggingIn
    <2>5. LeftOut'
      BY <2>1 DEF LeftOut
    <2> QED
      BY <2>3, <2>4, <2>5 DEF FeedInv
  <1>3. ASSUME conn' = conn, loop' = "zmq", write_queue_' \in Nat, sync' \in Sync,
               client' \in Client, client'.lost = client.lost, LeftOut'
        PROVE  FeedInv'
    <2>1. FeedShape'
      <3>1. UNCHANGED <<scan, mem, branch, hidden, pushing, outs, rd, wfail>>
        BY <1>1 DEF scanVars
      <3> QED
        BY <1>3, <3>1 DEF FeedInv, FeedShape
    <2>2. FeedOrder'
      BY <1>1, <1>3 DEF FeedInv, FeedOrder, LoggingIn
    <2> QED
      BY <1>3, <2>1, <2>2 DEF FeedInv
  <1>4. /\ client \in Client /\ sync \in Sync /\ write_queue_ \in Nat /\ write_queue_ + 1 \in Nat
        /\ client.known \in Heights
    BY DEF FeedInv, FeedShape, Client
  <1>5. CASE PushMissed
    <2>1. client' \in Client /\ client'.err /\ client'.lost = client.lost
      BY <1>4, <1>5, ToldErrorIs DEF PushMissed
    <2>2. LeftOut'
      BY <2>1 DEF LeftOut
    <2> QED
      BY <1>3, <1>4, <1>5, <2>1, <2>2 DEF PushMissed
  <1>6. CASE PushOther
    <2>1. /\ client' \in Client /\ client'.known = client.known /\ client'.lost = client.lost
          /\ (client'.err <=> client.err)
      BY <1>4, <1>6, ToldOtherIs DEF PushOther
    <2>2. sync' = sync
      BY <1>6 DEF PushOther
    <2>3. LeftOut'
      BY <2>1, <2>2 DEF FeedInv, LeftOut, TxPool
    <2> QED
      BY <1>3, <1>4, <1>6, <2>1, <2>3 DEF PushOther
  <1>7. ASSUME got.type = "update"
        PROVE  /\ GoodUpdate(got) /\ got.new \in Heights /\ got.old \in Heights
               /\ got.new # TxPool /\ got.new \in 0..TxPool
    <2>1. GoodUpdate(got) /\ got \in UpdateMsg
      BY <1>1, <1>7 DEF GoodMsg, GoodUpdate
    <2>2. got.new \in Heights /\ got.old \in Heights
      BY <2>1 DEF UpdateMsg
    <2> QED
      BY <2>1, <2>2, FeedAssumption DEF Heights, TxPool
  <1>8. CASE PushSkips
    <2>1. /\ got.type = "update" /\ Matches(got) /\ got.outs = {} /\ client' = client
          /\ sync' = [sync EXCEPT !.height = got.new]
      BY <1>8 DEF PushSkips
    <2>2. sync' \in Sync /\ sync'.last = sync.last /\ sync'.height = got.new
      BY <1>4, <1>7, <2>1 DEF Sync
    <2>3. LeftOut'
      <3>1. SUFFICES ASSUME sync.last # TxPool, ~client.err
                     PROVE  /\ sync.last = client.known /\ got.new # TxPool
                            /\ \A k \in Paying : ~(client.known < k /\ k <= got.new)
        BY <2>1, <2>2 DEF LeftOut, TxPool
      <3>2. /\ sync.last = client.known /\ sync.height # TxPool
            /\ \A k \in Paying : ~(client.known < k /\ k <= sync.height)
        BY <3>1 DEF FeedInv, LeftOut
      <3>3. sync.height = got.old
        BY <2>1, <3>2 DEF Matches
      <3>4. \A k \in Paying : ~(got.old < k /\ k <= got.new)
        BY <1>7, <2>1 DEF GoodUpdate
      <3>5. \A k \in Paying : k \in Heights
        BY FeedAssumption DEF Heights
      <3>6. \A k \in Paying : ~(client.known < k /\ k <= got.new)
        BY <1>4, <1>7, <2>1, <3>2, <3>3, <3>4, <3>5 DEF Heights
      <3> QED
        BY <1>7, <2>1, <3>2, <3>6
    <2> QED
      BY <1>3, <1>4, <1>8, <2>1, <2>2, <2>3 DEF PushSkips
  <1>9. CASE PushBlocks
    <2>1. /\ got.type = "update"
          /\ client' = Told("blocks", Least(sync.last, got.old), got.new, got.outs)
          /\ sync' \in Sync /\ sync'.height = got.new /\ sync'.last = got.new
      BY <1>9 DEF PushBlocks
    <2>2. client' \in Client /\ client'.known = got.new /\ client'.lost = client.lost
      BY <1>4, <1>7, <2>1, ToldBlocksIs
    <2>3. LeftOut'
      <3>1. \A k \in Paying : ~(got.new < k /\ k <= got.new)
        BY <1>7, <2>1, FeedAssumption DEF Heights
      <3> QED
        BY <1>7, <2>1, <2>2, <3>1 DEF LeftOut, TxPool
    <2> QED
      BY <1>3, <1>4, <1>9, <2>1, <2>2, <2>3 DEF PushBlocks
  <1> QED
    BY <1>1, <1>2, <1>5, <1>6, <1>8, <1>9

-----------------------------------------------------------------------------
(* FeedInv is an invariant *)

\* The steps, by what they do to the messages that wait.
LEMMA StepsOfNext ==
    ASSUME [Next]_vars
    PROVE  \/ UNCHANGED vars
           \/ QuietStep
           \/ ReadBadLogin \/ \E tx_sync, receives_only \in BOOLEAN :
                                 ReadLogin(tx_sync, receives_only)
           \/ Watch \/ Open \/ ZmqRead \/ Push
           \/ \E h : CheckIn(h)
           \/ \E h, b : SyncChain(h, b)
           \/ \E h \in 0 .. MaxHeight - 1 : AdminRescan(h)
           \/ PushUpdates \/ PushReceive \/ AdminHide
  BY DEF Next, FeedNext, ScannerNext, Served, QuietStep

\* A connection starts with nothing subscribed, read or written.
LEMMA FeedInit == Init => FeedInv
  <1> SUFFICES ASSUME Init PROVE FeedInv
    OBVIOUS
  <1> USE FeedAssumption
  <1>1. conn \in Connection /\ conn.sub = "open" /\ conn.bus = <<>> /\ conn.stage = "open"
        /\ conn.timer = "off" /\ ~conn.started
    <2>1. <<>> \in Seq(Msg)
      OBVIOUS
    <2> QED
      BY <2>1 DEF Init, Connection
  <1>2. GoodConn(conn) /\ \A i \in 1..Len(conn.bus) : GoodMsg(conn.bus[i])
    BY <1>1 DEF GoodConn
  <1>3. client \in Client /\ client.lost = {} /\ client.known = 0
    BY DEF Init, Client, Heights
  <1>4. sync \in Sync /\ sync.height = TxPool /\ sync.last = TxPool /\ ~sync.receives_only
    BY DEF Init, Sync, TxPool
  <1>5. branch \in [Heights -> 0..MaxReorgs]
    BY DEF Init, Heights
  <1>a. hidden \in BOOLEAN /\ rd \in BOOLEAN /\ wfail \in BOOLEAN /\ pushing = NoPush
    BY DEF Init
  <1>b. /\ scan \in Heights /\ mem \in Heights /\ scan <= mem /\ outs = {} /\ write_queue_ \in Nat
        /\ loop = "accept"
    BY DEF Init, Heights
  <1>6. FeedShape
    BY <1>2, <1>3, <1>4, <1>5, <1>a, <1>b DEF FeedShape, LoggingIn
  <1>7. FeedOrder
    BY <1>1, <1>3, <1>4 DEF Init, FeedOrder, LoggingIn
  <1>8. LeftOut
    BY <1>4 DEF LeftOut
  <1> QED
    BY <1>6, <1>7, <1>8 DEF FeedInv

\* Every step keeps FeedInv.
LEMMA FeedStep == FeedInv /\ [Next]_vars => FeedInv'
  <1> SUFFICES ASSUME FeedInv, [Next]_vars PROVE FeedInv'
    OBVIOUS
  <1>1. CASE UNCHANGED vars
    <2>1. /\ UNCHANGED <<scan, mem, branch, hidden, pushing, outs>>
          /\ UNCHANGED <<conn, loop, got, sync, rd, write_queue_, wfail, client>>
      BY <1>1 DEF vars, scanVars, connVars
    <2>2. FeedShape'
      BY <2>1 DEF FeedInv, FeedShape
    <2>3. FeedOrder'
      BY <2>1 DEF FeedInv, FeedOrder, TxPool
    <2>4. LeftOut'
      BY <2>1 DEF FeedInv, LeftOut, TxPool
    <2> QED
      BY <2>2, <2>3, <2>4 DEF FeedInv
  <1>2. CASE QuietStep
    BY <1>2, QuietSteps, QuietKeeps
  <1>3. CASE ReadBadLogin \/ \E tx_sync, receives_only \in BOOLEAN :
                                ReadLogin(tx_sync, receives_only)
    BY <1>3, ReadsKeep
  <1>4. CASE \E h : CheckIn(h)
    BY <1>4, CheckInIs, ScannerKeeps
  <1>5. CASE \E h, b : SyncChain(h, b)
    BY <1>5, SyncChainIs, ScannerKeeps
  <1>6. CASE \E h \in 0 .. MaxHeight - 1 : AdminRescan(h)
    BY <1>6, AdminRescanIs, ScannerKeeps
  <1>7. CASE PushUpdates \/ PushReceive \/ AdminHide
    BY <1>7, PushUpdatesIs, PushReceiveIs, AdminHideIs, ScannerKeeps
  <1> QED
    BY <1>1, <1>2, <1>3, <1>4, <1>5, <1>6, <1>7,
       StepsOfNext, WatchKeeps, OpenKeeps, ZmqReadKeeps, PushKeeps

-----------------------------------------------------------------------------
(* Messages that wait *)

\* What is found at a place after a step.
NextAt(i) == IF i = 0 THEN got' ELSE IF i <= Len(conn'.bus) THEN conn'.bus[i] ELSE pushing'

\* The check-ins that wait, and their order, stay as they are.
SamePending ==
    \E f \in [Updates -> Updates'] :
        /\ \A i, j \in Updates : i < j => f[i] < f[j]
        /\ \A i \in Updates : NextAt(f[i]) = At(i)
        /\ \A l \in Updates' : \E i \in Updates : f[i] = l

\* The check-ins that wait.
LEMMA UpdatesAreGood ==
    ASSUME FeedInv
    PROVE  /\ Len(conn.bus) \in Nat /\ Updates \subseteq Nat
           /\ \A i \in Updates : GoodUpdate(At(i)) /\ At(i).type = "update"
           /\ \A i \in Updates : At(i).new \in Heights /\ At(i).old \in Heights
                                 /\ At(i).old < At(i).new
           /\ \A i \in Updates : i <= Len(conn.bus) + 1
           /\ pushing # NoPush => Len(conn.bus) + 1 \in Updates /\ At(Len(conn.bus) + 1) = pushing
  <1>1. Len(conn.bus) \in Nat
    BY DEF FeedInv, FeedShape, GoodConn, Connection
  <1>2. ASSUME NEW i \in Updates PROVE GoodUpdate(At(i)) /\ At(i).type = "update"
    <2>1. /\ i \in 0..(Len(conn.bus) + 1) /\ (i = 0 => loop = "got")
          /\ (i = Len(conn.bus) + 1 => pushing # NoPush) /\ At(i).type = "update"
      BY DEF Updates, Slot
    <2>2. CASE i = 0
      BY <2>1, <2>2 DEF At, FeedInv, FeedShape, GoodMsg
    <2>3. CASE i \in 1..Len(conn.bus)
      BY <1>1, <2>1, <2>3 DEF At, FeedInv, FeedShape, GoodMsg
    <2>4. CASE i = Len(conn.bus) + 1
      BY <1>1, <2>1, <2>4 DEF At, FeedInv, FeedShape
    <2> QED
      BY <1>1, <2>1, <2>2, <2>3, <2>4
  <1>3. \A m : GoodUpdate(m) => m.new \in Heights /\ m.old \in Heights /\ m.old < m.new
                                /\ m.type = "update"
    BY DEF GoodUpdate, UpdateMsg
  <1>4. ASSUME pushing # NoPush
        PROVE  Len(conn.bus) + 1 \in Updates /\ At(Len(conn.bus) + 1) = pushing
    <2>1. GoodUpdate(pushing)
      BY <1>4 DEF FeedInv, FeedShape
    <2>2. At(Len(conn.bus) + 1) = pushing
      BY <1>1 DEF At
    <2> QED
      BY <1>1, <1>3, <1>4, <2>1, <2>2 DEF Updates, Slot
  <1>5. \A i \in Updates : i \in Nat /\ i <= Len(conn.bus) + 1
    BY <1>1 DEF Updates, Slot
  <1> QED
    BY <1>1, <1>2, <1>3, <1>4, <1>5

\* The same after the step.
NextUpdate(i) ==
    /\ i \in 0..(Len(conn'.bus) + 1)
    /\ i = 0 => loop' = "got"
    /\ i = Len(conn'.bus) + 1 => pushing' # NoPush
    /\ NextAt(i).type = "update"

\* The check-ins that wait after a step.
LEMMA NextUpdates == \A i : (i \in Updates' <=> NextUpdate(i)) /\ NextAt(i) = At(i)'
  BY DEF Updates, Slot, At, NextAt, NextUpdate

\* Messages that stay where they are.
LEMMA UnchangedPending ==
    ASSUME FeedInv, conn'.bus = conn.bus, pushing' = pushing,
           loop' = "got" <=> loop = "got", loop = "got" => got' = got
    PROVE  SamePending
  <1>1. \A i \in Updates : i \in Updates' /\ NextAt(i) = At(i)
    BY NextUpdates DEF NextAt, At, Updates, Slot, NextUpdate
  <1>2. \A i \in Updates' : i \in Updates
    BY NextUpdates DEF NextAt, At, Updates, Slot, NextUpdate
  <1> DEFINE f == [i \in Updates |-> i]
  <1>3. f \in [Updates -> Updates']
    BY <1>1
  <1> QED
    BY <1>1, <1>2, <1>3 DEF SamePending

\* A message read moves every place by one.
LEMMA ReadPending ==
    ASSUME FeedInv, ZmqRead PROVE SamePending
  <1>1. /\ UNCHANGED scanVars
        /\ loop = "zmq" /\ loop' = "got" /\ Len(conn.bus) >= 1 /\ got' = conn.bus[1]
        /\ Len(conn'.bus) = Len(conn.bus) - 1
        /\ \A i \in 1..(Len(conn.bus) - 1) : conn'.bus[i] = conn.bus[i + 1]
    BY ZmqReadIs
  <1>2. Len(conn.bus) \in Nat /\ Updates \subseteq Nat /\ pushing' = pushing
    BY <1>1, UpdatesAreGood DEF scanVars
  <1>3. \A i \in 1..(Len(conn.bus) + 1) : NextAt(i - 1) = At(i)
    BY <1>1, <1>2 DEF NextAt, At
  <1>4. \A i \in Updates : i - 1 \in Updates' /\ NextAt(i - 1) = At(i)
    <2> SUFFICES ASSUME NEW i \in Updates PROVE i - 1 \in Updates' /\ NextAt(i - 1) = At(i)
      OBVIOUS
    <2>1. /\ i \in 1..(Len(conn.bus) + 1) /\ At(i).type = "update"
          /\ i = Len(conn.bus) + 1 => pushing # NoPush
      BY <1>1, <1>2 DEF Updates, Slot
    <2>2. NextAt(i - 1) = At(i)
      BY <1>3, <2>1
    <2>3. NextUpdate(i - 1)
      BY <1>1, <1>2, <2>1, <2>2 DEF NextUpdate
    <2> QED
      BY <2>2, <2>3, NextUpdates
  <1>5. \A l \in Updates' : l + 1 \in Updates /\ l \in Nat
    <2> SUFFICES ASSUME NEW l \in Updates' PROVE l + 1 \in Updates /\ l \in Nat
      OBVIOUS
    <2>1. NextUpdate(l)
      BY NextUpdates
    <2>2. l \in 0..Len(conn.bus) /\ (l = Len(conn.bus) => pushing # NoPush)
          /\ NextAt(l).type = "update"
      BY <1>1, <1>2, <2>1 DEF NextUpdate
    <2>3. l + 1 \in 1..(Len(conn.bus) + 1) /\ (l + 1) - 1 = l
      BY <1>2, <2>2
    <2>4. NextAt(l) = At(l + 1)
      BY <1>3, <2>3
    <2> QED
      BY <1>2, <2>2, <2>3, <2>4 DEF Updates, Slot
  <1> DEFINE f == [i \in Updates |-> i - 1]
  <1>6. f \in [Updates -> Updates']
    BY <1>4
  <1>7. \A i, j \in Updates : i < j => f[i] < f[j]
    BY <1>2
  <1>8. \A i \in Updates : NextAt(f[i]) = At(i)
    BY <1>4
  <1>9. \A l \in Updates' : \E i \in Updates : f[i] = l
    BY <1>5
  <1> QED
    BY <1>6, <1>7, <1>8, <1>9 DEF SamePending

\* A message more, which is the check-in that was about to be published, or no
\* check-in.
LEMMA PublishPending ==
    ASSUME FeedInv, NEW m, GoodMsg(m), Published(m), conn.sub = "watching",
           client'.lost = {}, UNCHANGED <<loop, got>>,
           \/ m = pushing /\ pushing # NoPush /\ pushing' = NoPush
           \/ m.type # "update" /\ pushing' = pushing
    PROVE  SamePending
  <1> DEFINE n == Len(conn.bus)
  <1>1. n \in Nat /\ Updates \subseteq Nat
    BY UpdatesAreGood
  <1>2. /\ Len(conn'.bus) = n + 1 /\ conn'.bus[n + 1] = m
        /\ \A i \in 1..n : conn'.bus[i] = conn.bus[i]
    BY DEF Published
  <1> HIDE DEF n
  <1>3. \A i \in 0..n : NextAt(i) = At(i)
    BY <1>1, <1>2 DEF NextAt, At, n
  <1>4. NextAt(n + 1) = m /\ NextAt(n + 2) = pushing' /\ At(n + 1) = pushing
    BY <1>1, <1>2 DEF NextAt, At, n
  <1>5. \A i \in 0..n : i \in Updates <=> i \in Updates'
    <2> SUFFICES ASSUME NEW i \in 0..n PROVE i \in Updates <=> NextUpdate(i)
      BY NextUpdates
    <2> QED
      BY <1>1, <1>2, <1>3 DEF Updates, Slot, NextUpdate, n
  <1>6. n + 1 \in Updates' <=> m.type = "update"
    BY <1>1, <1>2, <1>4, NextUpdates DEF NextUpdate
  <1>7. n + 2 \in Updates' <=> pushing' # NoPush /\ pushing'.type = "update"
    BY <1>1, <1>2, <1>4, NextUpdates DEF NextUpdate
  <1>8. n + 1 \in Updates <=> pushing # NoPush /\ pushing.type = "update"
    BY <1>1, <1>4 DEF Updates, Slot, n
  <1>9. Updates \subseteq 0..(n + 1) /\ Updates' \subseteq 0..(n + 2)
    BY <1>1, <1>2, NextUpdates DEF Updates, Slot, NextUpdate, n
  <1>10. CASE m = pushing /\ pushing # NoPush /\ pushing' = NoPush
    <2> DEFINE f == [i \in Updates |-> i]
    <2>1. \A i \in Updates : i \in Updates' /\ NextAt(i) = At(i)
      BY <1>1, <1>3, <1>4, <1>5, <1>6, <1>8, <1>9, <1>10
    <2>2. \A l \in Updates' : l \in Updates
      BY <1>1, <1>5, <1>6, <1>7, <1>8, <1>9, <1>10
    <2>3. f \in [Updates -> Updates']
      BY <2>1
    <2> QED
      BY <2>1, <2>2, <2>3 DEF SamePending
  <1>11. CASE m.type # "update" /\ pushing' = pushing
    <2> DEFINE g(i) == IF i = n + 1 THEN n + 2 ELSE i
               f == [i \in Updates |-> g(i)]
    <2>1. \A i \in Updates : g(i) \in Updates' /\ NextAt(g(i)) = At(i)
      BY <1>1, <1>3, <1>4, <1>5, <1>7, <1>8, <1>9, <1>11
    <2>2. \A l \in Updates' : \E i \in Updates : g(i) = l
      <3> SUFFICES ASSUME NEW l \in Updates' PROVE \E i \in Updates : g(i) = l
        OBVIOUS
      <3>1. CASE l \in 0..n
        <4>1. l \in Updates /\ g(l) = l
          BY <1>1, <1>5, <3>1
        <4> QED
          BY <4>1
      <3>2. CASE l = n + 2
        <4>1. n + 1 \in Updates /\ g(n + 1) = l
          BY <1>7, <1>8, <1>11, <3>2
        <4> QED
          BY <4>1
      <3> QED
        BY <1>1, <1>6, <1>9, <1>11, <3>1, <3>2
    <2>3. f \in [Updates -> Updates']
      BY <2>1
    <2>4. \A i, j \in Updates : i < j => f[i] < f[j]
      BY <1>1, <1>9
    <2> HIDE DEF g
    <2> QED
      BY <2>1, <2>2, <2>3, <2>4 DEF SamePending
  <1> QED
    BY <1>10, <1>11

-----------------------------------------------------------------------------
(* Delivery *)

\* Steps that leave the messages alone, and store nothing.
SameClient ==
    /\ client'.base = client.base /\ client'.known = client.known
    /\ client'.told = client.told
    /\ (client'.err <=> client.err) /\ (client'.gap <=> client.gap)

\* Steps that leave the check-ins that wait keep the three parts of DeliveryInv.
LEMMA Transfer ==
    ASSUME FeedInv, FeedInv', SamePending, mem' <= mem, outs' \subseteq outs,
           loop' \in {"zmq", "got"} => loop \in {"zmq", "got"} /\ SameClient,
           Linked, Carried, Covered
    PROVE  Linked' /\ Carried' /\ Covered'
  <1>1. PICK f \in [Updates -> Updates'] :
          /\ \A i, j \in Updates : i < j => f[i] < f[j]
          /\ \A i \in Updates : NextAt(f[i]) = At(i)
          /\ \A l \in Updates' : \E i \in Updates : f[i] = l
    BY DEF SamePending
  <1>2. \A i : NextAt(i) = At(i)'
    BY NextUpdates
  <1>3. \A i \in Updates : At(i).new \in Heights /\ At(i).old \in Heights
    BY UpdatesAreGood
  <1>4. mem \in Heights /\ mem' \in Heights
    BY DEF FeedInv, FeedShape
  <1>5. Linked'
    <2> SUFFICES ASSUME NEW l \in Updates'
                 PROVE  \/ mem' <= NextAt(l).new
                        \/ \E k \in Updates' : l < k /\ NextAt(k).old <= NextAt(l).new
      BY <1>2 DEF Linked
    <2>1. PICK i \in Updates : f[i] = l
      BY <1>1
    <2>2. CASE mem <= At(i).new
      BY <1>1, <1>3, <1>4, <2>1, <2>2 DEF Heights
    <2>3. CASE \E j \in Updates : i < j /\ At(j).old <= At(i).new
      BY <1>1, <2>1, <2>3
    <2> QED
      BY <2>2, <2>3 DEF Linked
  <1>6. Carried'
    <2> SUFFICES ASSUME NEW l \in Updates', NEW o \in outs',
                        NextAt(l).old < o[1], o[1] <= NextAt(l).new,
                        \A k \in Updates' : l < k => o[1] <= NextAt(k).old
                 PROVE  o \in NextAt(l).outs
      BY <1>2 DEF Carried
    <2>1. PICK i \in Updates : f[i] = l
      BY <1>1
    <2>2. \A j \in Updates : i < j => o[1] <= At(j).old
      BY <1>1, <2>1
    <2> QED
      BY <1>1, <2>1, <2>2 DEF Carried
  <1>7. Covered'
    <2> SUFFICES ASSUME loop' \in {"zmq", "got"}, ~client'.err, ~client'.gap, NEW o \in outs',
                        client'.base < o[1], o[1] <= client'.known,
                        \A k \in Updates' : o[1] <= NextAt(k).old
                 PROVE  o \in client'.told
      BY <1>2 DEF Covered
    <2>1. \A j \in Updates : o[1] <= At(j).old
      BY <1>1
    <2> QED
      BY <2>1 DEF Covered, SameClient
  <1> QED
    BY <1>5, <1>6, <1>7

\* Handlers of the connection that only move messages, or none.
LEMMA QuietPending ==
    ASSUME FeedInv, Quiet, conn'.sub # "shut"
    PROVE  /\ SamePending /\ SameClient /\ client'.lost = client.lost
           /\ conn.sub = conn'.sub /\ conn'.bus = conn.bus
           /\ UNCHANGED <<scan, mem, branch, outs, pushing, sync, got>>
           /\ loop' = loop \/ (loop = "accept" /\ loop' = "read")
  <1>1. /\ conn'.bus = conn.bus /\ conn'.sub = conn.sub
        /\ UNCHANGED <<scan, mem, branch, outs, pushing, sync, got>>
        /\ loop' = loop \/ (loop = "accept" /\ loop' = "read")
    BY DEF Quiet, Handled
  <1>2. SameClient /\ client'.lost = client.lost
    BY DEF Quiet, FeedInv, FeedShape, Client, SameClient
  <1>3. SamePending
    BY <1>1, UnchangedPending
  <1> QED
    BY <1>1, <1>2, <1>3

\* The steps of a login leave the check-ins that wait.
LEMMA LoginPending ==
    ASSUME FeedInv,
           \/ Watch \/ Open
           \/ \E tx_sync, receives_only \in BOOLEAN : ReadLogin(tx_sync, receives_only),
           conn'.sub # "shut"
    PROVE  /\ SamePending /\ client'.lost = client.lost /\ conn.sub # "shut"
           /\ UNCHANGED <<scan, mem, branch, outs, pushing>>
           /\ conn'.bus = conn.bus
           /\ loop \in LoggingIn /\ loop' # "got"
           /\ \/ OpenTold
              \/ loop' \in LoggingIn /\ client' = client /\ sync' = sync
  <1>1. CASE \E tx_sync, receives_only \in BOOLEAN : ReadLogin(tx_sync, receives_only)
    <2>1. /\ UNCHANGED <<scan, mem, branch, outs, pushing, conn, client, sync>>
          /\ loop = "read" /\ loop' = "watch"
      BY <1>1 DEF ReadLogin, scanVars
    <2> QED
      BY <2>1, UnchangedPending DEF LoggingIn
  <1>2. CASE Watch
    <2>1. /\ UNCHANGED <<scan, mem, branch, outs, pushing, client, sync>>
          /\ loop = "watch" /\ loop' = "open"
      BY <1>2 DEF Watch, scanVars
    <2>2. conn'.bus = <<>> /\ conn.sub = "open" /\ conn.bus = <<>>
      BY <1>2, <2>1, WatchKeeps DEF FeedInv, FeedOrder
    <2> QED
      BY <2>1, <2>2, UnchangedPending DEF LoggingIn
  <1>3. CASE Open
    <2>1. /\ UNCHANGED <<scan, mem, branch, pushing, outs>> /\ loop = "open"
          /\ OpenDenied \/ OpenTold
      BY <1>3, OpenIs
    <2>2. ~OpenDenied
      <3>1. client_close(conn).sub = "shut"
        BY ClosesHandle, 0 \in Nat DEF FeedInv, FeedShape
      <3> QED
        BY <3>1 DEF OpenDenied
    <2>3. OpenTold /\ loop' = "zmq" /\ conn' = conn /\ client'.lost = client.lost
      BY <2>1, <2>2 DEF OpenTold
    <2> QED
      BY <2>1, <2>3, UnchangedPending DEF LoggingIn
  <1> QED
    BY <1>1, <1>2, <1>3

\* The message handled is no longer among those that wait.
LEMMA PushPending ==
    ASSUME FeedInv, Push, ~PushEnds
    PROVE  /\ UNCHANGED <<scan, mem, branch, outs, pushing, conn>>
           /\ loop = "got" /\ loop' = "zmq" /\ GoodMsg(got)
           /\ got.type = "update" => 0 \in Updates /\ At(0) = got
           /\ \A i \in Updates' : i \in Updates /\ NextAt(i) = At(i) /\ 0 < i
           /\ \A i \in Updates : 0 < i => i \in Updates'
           /\ \A i \in Updates : i = 0 \/ 0 < i
           /\ got.type # "update" => 0 \notin Updates
  <1>1. /\ UNCHANGED <<scan, mem, branch, outs, pushing, conn>>
        /\ loop = "got" /\ loop' = "zmq" /\ GoodMsg(got)
    BY PushIs DEF PushMissed, PushOther, PushSkips, PushBlocks, scanVars
  <1>2. Len(conn.bus) \in Nat /\ Updates \subseteq Nat
    BY UpdatesAreGood
  <1>3. got.type = "update" <=> 0 \in Updates
    BY <1>1, <1>2 DEF Updates, Slot, At
  <1>4. At(0) = got /\ \A i : i # 0 => NextAt(i) = At(i)
    BY <1>1 DEF At, NextAt
  <1>5. \A i \in Updates' : i \in Updates /\ i # 0
    <2> SUFFICES ASSUME NEW i, NextUpdate(i) PROVE i \in Updates /\ i # 0
      BY NextUpdates
    <2>1. i # 0 /\ i \in 0..(Len(conn.bus) + 1) /\ (i = Len(conn.bus) + 1 => pushing # NoPush)
          /\ NextAt(i).type = "update"
      BY <1>1 DEF NextUpdate
    <2> QED
      BY <1>4, <2>1 DEF Updates, Slot
  <1>6. \A i \in Updates : 0 < i => i \in Updates'
    <2> SUFFICES ASSUME NEW i \in Updates, 0 < i PROVE NextUpdate(i)
      BY NextUpdates
    <2>1. /\ i # 0 /\ i \in 0..(Len(conn.bus) + 1) /\ (i = Len(conn.bus) + 1 => pushing # NoPush)
          /\ At(i).type = "update"
      BY <1>2 DEF Updates, Slot
    <2> QED
      BY <1>1, <1>4, <2>1 DEF NextUpdate
  <1>7. /\ \A i \in Updates' : i \in Updates /\ NextAt(i) = At(i) /\ 0 < i
        /\ \A i \in Updates : i = 0 \/ 0 < i
    <2>1. \A i \in Updates : i \in Nat /\ (i = 0 \/ 0 < i)
      BY <1>2
    <2>2. \A i \in Updates' : i \in Updates /\ i # 0 /\ NextAt(i) = At(i)
      BY <1>4, <1>5
    <2> QED
      BY <2>1, <2>2, Zenon
  <1> QED
    BY <1>1, <1>3, <1>4, <1>6, <1>7

\* A stream that follows the check-ins one by one, and has left out only those
\* with nothing to tell, joins the blocks of the next to what was covered.
LEMMA NoGapBefore ==
    ASSUME FeedInv, GoodUpdate(got), Matches(got), ~client.err,
           ~(sync.last > client.known /\ got.old > client.known),
           NEW k \in Paying, client.known < k
    PROVE  ~(k <= got.old)
  <1>1. /\ client.known \in Heights /\ got.old \in Heights /\ sync.last \in 0..TxPool
        /\ k \in Heights /\ MaxHeight \in Nat
    BY FeedAssumption DEF FeedInv, FeedShape, Client, GoodUpdate, UpdateMsg, Sync, Heights
  <1> SUFFICES ASSUME k <= got.old PROVE FALSE
    OBVIOUS
  <1>2. sync.last <= client.known /\ sync.last # TxPool
    BY <1>1 DEF Heights, TxPool
  <1>3. sync.height # TxPool /\ ~(k <= sync.height)
    BY <1>2 DEF FeedInv, LeftOut
  <1>4. sync.height = got.old
    BY <1>3 DEF Matches
  <1> QED
    BY <1>3, <1>4

\* A check-in handled: what is stored and to be told is with those that wait.
LEMMA PushDelivers ==
    ASSUME FeedInv, FeedInv', Push, NothingDropped', Linked, Carried, Covered
    PROVE  Linked' /\ Carried' /\ Covered'
  <1>1. ~PushEnds
    BY PushEndsIs DEF NothingDropped
  <1>2. /\ UNCHANGED <<scan, mem, branch, outs, pushing, conn>>
        /\ loop = "got" /\ loop' = "zmq" /\ GoodMsg(got)
        /\ got.type = "update" => 0 \in Updates /\ At(0) = got
        /\ \A i \in Updates' : i \in Updates /\ NextAt(i) = At(i) /\ 0 < i
        /\ \A i \in Updates : 0 < i => i \in Updates'
        /\ \A i \in Updates : i = 0 \/ 0 < i
        /\ got.type # "update" => 0 \notin Updates
    BY <1>1, PushPending
  <1>3. \A i : NextAt(i) = At(i)'
    BY NextUpdates
  <1>a. \A i \in Updates', j \in Updates : i < j => j \in Updates' /\ NextAt(j) = At(j)
    <2> SUFFICES ASSUME NEW i \in Updates', NEW j \in Updates, i < j
                 PROVE  j \in Updates' /\ NextAt(j) = At(j)
      OBVIOUS
    <2>1. i \in Nat /\ j \in Nat /\ 0 < i
      BY <1>2, UpdatesAreGood
    <2>2. 0 < j
      BY <2>1
    <2> QED
      BY <1>2, <2>2
  <1>4. Linked'
    <2> SUFFICES ASSUME NEW i \in Updates'
                 PROVE  \/ mem <= At(i).new
                        \/ \E j \in Updates' : i < j /\ NextAt(j).old <= At(i).new
      BY <1>2, <1>3 DEF Linked
    <2>1. CASE mem <= At(i).new
      BY <2>1
    <2>2. CASE \E j \in Updates : i < j /\ At(j).old <= At(i).new
      <3>1. PICK j \in Updates : i < j /\ At(j).old <= At(i).new
        BY <2>2
      <3>2. j \in Updates' /\ NextAt(j) = At(j)
        BY <1>a, <3>1
      <3> QED
        BY <3>1, <3>2
    <2> QED
      BY <1>2, <2>1, <2>2 DEF Linked
  <1>5. Carried'
    <2> SUFFICES ASSUME NEW i \in Updates', NEW o \in outs,
                        At(i).old < o[1], o[1] <= At(i).new,
                        \A j \in Updates' : i < j => o[1] <= NextAt(j).old
                 PROVE  o \in At(i).outs
      BY <1>2, <1>3 DEF Carried
    <2>1. \A j \in Updates : i < j => o[1] <= At(j).old
      BY <1>a
    <2> QED
      BY <1>2, <2>1 DEF Carried
  <1>6. /\ client \in Client /\ sync \in Sync /\ mem \in Heights /\ scan <= mem /\ scan \in Heights
        /\ \A o \in outs : o[1] \in Paying /\ o[1] \in Heights /\ o[1] <= scan
        /\ client.known \in Heights
    <2>1. \A k \in Paying : k \in Heights
      BY FeedAssumption DEF Heights
    <2> QED
      BY <2>1 DEF FeedInv, FeedShape, Client
  <1>7. Covered'
    <2> SUFFICES ASSUME ~client'.err, ~client'.gap, NEW o \in outs,
                        client'.base < o[1], o[1] <= client'.known,
                        \A j \in Updates' : o[1] <= NextAt(j).old
                 PROVE  o \in client'.told
      BY <1>2, <1>3 DEF Covered
    <2>1. \A j \in Updates : 0 < j => o[1] <= At(j).old
      BY <1>2
    <2>2. ASSUME ~client.err, ~client.gap, client.base < o[1], o[1] <= client.known,
                 0 \in Updates => o[1] <= At(0).old
          PROVE  o \in client.told
      <3>1. \A j \in Updates : o[1] <= At(j).old
        BY <1>2, <2>1, <2>2
      <3> QED
        BY <1>2, <2>2, <3>1 DEF Covered
    <2>3. CASE PushMissed
      BY <1>6, <2>3, ToldErrorIs DEF PushMissed
    <2>4. CASE PushOther
      BY <1>2, <1>6, <2>2, <2>4, ToldOtherIs DEF PushOther
    <2>5. ASSUME got.type = "update"
          PROVE  /\ GoodUpdate(got) /\ got.new \in Heights /\ got.old \in Heights
                 /\ 0 \in Updates /\ At(0) = got
                 /\ got.old < o[1] /\ o[1] <= got.new => o \in got.outs
                 /\ o[1] <= got.new
      <3>1. GoodUpdate(got) /\ got.new \in Heights /\ got.old \in Heights
        BY <1>2, <2>5 DEF GoodMsg, GoodUpdate, UpdateMsg
      <3>2. 0 \in Updates /\ At(0) = got
        BY <1>2, <2>5
      <3>3. got.old < o[1] /\ o[1] <= got.new => o \in got.outs
        BY <2>1, <3>2 DEF Carried
      <3>4. o[1] <= got.new
        <4> SUFFICES ASSUME ~(o[1] <= got.new) PROVE FALSE
          OBVIOUS
        <4>1. ~(mem <= got.new)
          BY <1>6, <3>1 DEF Heights
        <4>2. PICK j \in Updates : 0 < j /\ At(j).old <= got.new
          BY <3>2, <4>1 DEF Linked
        <4>3. At(j).old \in Heights
          BY UpdatesAreGood
        <4> QED
          BY <1>6, <2>1, <3>1, <4>2, <4>3 DEF Heights
      <3> QED
        BY <3>1, <3>2, <3>3, <3>4
    <2>6. CASE PushSkips
      <3>1. got.type = "update" /\ got.outs = {} /\ client' = client
        BY <2>6 DEF PushSkips
      <3>2. o[1] <= got.old
        BY <1>6, <2>5, <3>1 DEF Heights
      <3> QED
        BY <2>2, <2>5, <3>1, <3>2
    <2>7. CASE PushBlocks
      <3>1. /\ got.type = "update" /\ Matches(got)
            /\ client' = Told("blocks", Least(sync.last, got.old), got.new, got.outs)
        BY <2>7 DEF PushBlocks
      <3>2. /\ client'.base = client.base /\ client'.told = client.told \cup got.outs
            /\ client'.gap <=> (client.gap \/ (sync.last > client.known /\ got.old > client.known))
            /\ (client'.err <=> client.err)
        BY <1>6, <2>5, <3>1, ToldBlocksIs
      <3>3. CASE got.old < o[1]
        BY <2>5, <3>1, <3>2, <3>3
      <3>4. CASE o[1] <= got.old
        <4>1. o[1] <= client.known
          <5> SUFFICES ASSUME client.known < o[1] PROVE FALSE
            BY <1>6 DEF Heights
          <5> QED
            BY <1>6, <2>5, <3>1, <3>2, <3>4, NoGapBefore
        <4> QED
          BY <2>2, <2>5, <3>1, <3>2, <3>4, <4>1
      <3> QED
        BY <1>6, <2>5, <3>1, <3>3, <3>4 DEF Heights
    <2> QED
      BY <1>1, <2>3, <2>4, <2>6, <2>7, PushIs
  <1> QED
    BY <1>4, <1>5, <1>7

\* A check-in committed: it starts where the scan thread was, at or above what
\* every check-in that waits ends with.
LEMMA CheckInDelivers ==
    ASSUME FeedInv, FeedInv', NEW new, CheckIn(new), Linked, Carried, Covered
    PROVE  Linked' /\ Carried' /\ Covered'
  <1> DEFINE n == Len(conn.bus) + 1
  <1>1. /\ ScannerStep /\ UNCHANGED <<branch, conn, client>>
        /\ pushing = NoPush /\ GoodUpdate(pushing')
        /\ pushing'.old = mem /\ pushing'.new = new /\ pushing'.outs = Received(mem, new)
        /\ \/ scan < mem /\ UNCHANGED <<scan, outs>>
           \/ scan = mem /\ scan' = new /\ outs' = outs \cup Received(mem, new)
        /\ mem < new /\ mem' = scan' /\ mem' <= new
    BY CheckInIs
  <1>2. UNCHANGED <<loop, got, conn, client>>
    BY <1>1 DEF ScannerStep
  <1>3. Len(conn.bus) \in Nat /\ Updates \subseteq Nat /\ \A i \in Updates : i <= n
    BY UpdatesAreGood
  <1>4. n \notin Updates
    BY <1>1, <1>3 DEF Updates, Slot
  <1>5. n \in Updates' /\ NextAt(n) = pushing'
    <2>1. NextAt(n) = pushing' /\ pushing'.type = "update" /\ pushing' # NoPush
      BY <1>1, <1>2, <1>3, NoPushIsNone DEF NextAt, GoodUpdate, UpdateMsg
    <2>2. NextUpdate(n)
      BY <1>2, <1>3, <2>1 DEF NextUpdate
    <2> QED
      BY <2>1, <2>2, NextUpdates
  <1>6. \A i \in Updates : i < n /\ i \in Updates' /\ NextAt(i) = At(i)
    <2> SUFFICES ASSUME NEW i \in Updates PROVE i < n /\ i \in Updates' /\ NextAt(i) = At(i)
      OBVIOUS
    <2>1. i \in 0..Len(conn.bus) /\ i < n
      BY <1>3, <1>4
    <2>2. NextAt(i) = At(i)
      BY <1>2, <1>3, <2>1 DEF NextAt, At
    <2>3. NextUpdate(i)
      BY <1>2, <1>3, <2>1, <2>2 DEF NextUpdate, Updates, Slot
    <2> QED
      BY <2>1, <2>2, <2>3, NextUpdates
  <1>7. \A i \in Updates' : i \in Updates \/ i = n
    <2> SUFFICES ASSUME NEW i, NextUpdate(i), i # n PROVE i \in Updates
      BY NextUpdates
    <2>1. i \in 0..Len(conn.bus)
      BY <1>2, <1>3 DEF NextUpdate
    <2>2. NextAt(i) = At(i)
      BY <1>2, <1>3, <2>1 DEF NextAt, At
    <2> QED
      BY <1>2, <1>3, <2>1, <2>2 DEF NextUpdate, Updates, Slot
  <1> HIDE DEF n
  <1>8. \A i : NextAt(i) = At(i)'
    BY NextUpdates
  <1>9. /\ mem \in Heights /\ new \in Heights /\ scan \in Heights /\ scan <= mem
        /\ \A o \in outs : o[1] \in Heights /\ o[1] <= scan
        /\ \A o \in Received(mem, new) : o[1] \in Heights /\ mem < o[1]
    <2>1. mem \in Heights /\ new \in Heights /\ scan \in Heights /\ scan <= mem
      BY <1>1 DEF FeedInv, FeedShape, GoodUpdate, UpdateMsg
    <2>2. \A k \in Paying : k \in Heights
      BY FeedAssumption DEF Heights
    <2>3. \A o \in outs : o[1] \in Heights /\ o[1] <= scan
      BY <2>2 DEF FeedInv, FeedShape
    <2>4. \A o \in Received(mem, new) : o[1] \in Heights /\ mem < o[1]
      BY <2>1, <2>2, ReceivedIs DEF FeedInv
    <2> QED
      BY <2>1, <2>3, <2>4
  <1>10. \A o \in outs' : o[1] <= mem => o \in outs
    BY <1>1, <1>9 DEF Heights
  <1>11. Linked'
    <2> SUFFICES ASSUME NEW i \in Updates'
                 PROVE  \/ mem' <= NextAt(i).new
                        \/ \E j \in Updates' : i < j /\ NextAt(j).old <= NextAt(i).new
      BY <1>8 DEF Linked
    <2>1. CASE i = n
      BY <1>1, <1>5, <2>1
    <2>2. CASE i \in Updates /\ mem <= At(i).new
      BY <1>1, <1>5, <1>6, <2>2
    <2>3. CASE i \in Updates /\ \E j \in Updates : i < j /\ At(j).old <= At(i).new
      BY <1>6, <2>3
    <2> QED
      BY <1>7, <2>1, <2>2, <2>3 DEF Linked
  <1>12. Carried'
    <2> SUFFICES ASSUME NEW i \in Updates', NEW o \in outs',
                        NextAt(i).old < o[1], o[1] <= NextAt(i).new,
                        \A j \in Updates' : i < j => o[1] <= NextAt(j).old
                 PROVE  o \in NextAt(i).outs
      BY <1>8 DEF Carried
    <2>1. CASE i = n
      <3>1. mem < o[1] /\ NextAt(i).outs = Received(mem, new)
        BY <1>1, <1>5, <2>1
      <3>2. o \notin outs
        BY <1>9, <3>1 DEF Heights
      <3> QED
        BY <1>1, <3>1, <3>2
    <2>2. CASE i \in Updates
      <3>1. o[1] <= mem
        BY <1>1, <1>5, <1>6, <2>2
      <3>2. \A j \in Updates : i < j => o[1] <= At(j).old
        BY <1>6
      <3> QED
        BY <1>6, <1>10, <2>2, <3>1, <3>2 DEF Carried
    <2> QED
      BY <1>7, <2>1, <2>2
  <1>13. Covered'
    <2> SUFFICES ASSUME loop \in {"zmq", "got"}, ~client.err, ~client.gap, NEW o \in outs',
                        client.base < o[1], o[1] <= client.known,
                        \A j \in Updates' : o[1] <= NextAt(j).old
                 PROVE  o \in client.told
      BY <1>2, <1>8 DEF Covered
    <2>1. o[1] <= mem
      BY <1>1, <1>5
    <2>2. \A j \in Updates : o[1] <= At(j).old
      BY <1>6
    <2> QED
      BY <1>10, <2>1, <2>2 DEF Covered
  <1> QED
    BY <1>11, <1>12, <1>13

\* Messages published while nothing is dropped.
LEMMA PublishedPending ==
    ASSUME FeedInv, NEW m, GoodMsg(m), Published(m), conn.sub = "watching", client'.lost = {}
    PROVE  client' = client
  <1>1. m.type \in {"update", "warning", "mempool"}
    BY DEF GoodMsg, Msg, UpdateMsg
  <1> QED
    BY <1>1 DEF Published

\* Every step keeps DeliveryInv.
LEMMA DeliveryStep == DeliveryInv /\ [Next]_vars => DeliveryInv'
  <1> SUFFICES ASSUME DeliveryInv, [Next]_vars, NothingDropped'
               PROVE  Linked' /\ Carried' /\ Covered'
    BY FeedStep DEF DeliveryInv
  <1>1. FeedInv /\ FeedInv'
    BY FeedStep DEF DeliveryInv
  <1>2. conn'.sub # "shut" /\ client'.lost = {} /\ mem \in Heights
    BY <1>1 DEF NothingDropped, FeedInv, FeedShape
  <1>3. NothingDropped => Linked /\ Carried /\ Covered
    BY DEF DeliveryInv
  <1>4. CASE UNCHANGED vars
    <2>1. UNCHANGED <<mem, outs, pushing, conn, loop, got, client>>
      BY <1>4 DEF vars, scanVars, connVars
    <2>2. SamePending /\ SameClient
      BY <1>1, <2>1, UnchangedPending DEF SameClient
    <2> QED
      BY <1>1, <1>2, <1>3, <2>1, <2>2, Transfer DEF NothingDropped, Heights
  <1>5. CASE QuietStep
    <2>1. Quiet
      BY <1>1, <1>5, QuietSteps
    <2>2. /\ SamePending /\ SameClient /\ client'.lost = client.lost
          /\ conn.sub = conn'.sub /\ UNCHANGED <<mem, outs>>
          /\ loop' = loop \/ (loop = "accept" /\ loop' = "read")
      BY <1>1, <1>2, <2>1, QuietPending
    <2> QED
      BY <1>1, <1>2, <1>3, <2>2, Transfer DEF NothingDropped, Heights
  <1>6. CASE ReadBadLogin
    <2>1. conn' = client_close(conn) /\ GoodConn(conn)
      BY <1>1, <1>6 DEF ReadBadLogin, FeedInv, FeedShape
    <2>2. conn'.sub = "shut"
      BY <2>1, ClosesHandle, 0 \in Nat
    <2> QED
      BY <1>2, <2>2
  <1>7. CASE \/ Watch \/ Open
             \/ \E tx_sync, receives_only \in BOOLEAN : ReadLogin(tx_sync, receives_only)
    <2>1. /\ SamePending /\ client'.lost = client.lost /\ conn.sub # "shut"
          /\ UNCHANGED <<scan, mem, branch, outs, pushing>>
          /\ loop \in LoggingIn /\ loop' # "got"
          /\ \/ OpenTold
             \/ loop' \in LoggingIn /\ client' = client /\ sync' = sync
      BY <1>1, <1>2, <1>7, LoginPending
    <2>2. Linked /\ Carried /\ Covered
      BY <1>2, <1>3, <2>1 DEF NothingDropped
    <2>3. CASE loop' \in LoggingIn
      BY <1>1, <1>2, <2>1, <2>2, <2>3, Transfer DEF LoggingIn, Heights
    <2>4. CASE OpenTold
      <3>1. PICK f \in [Updates -> Updates'] :
              /\ \A i, j \in Updates : i < j => f[i] < f[j]
              /\ \A i \in Updates : NextAt(f[i]) = At(i)
              /\ \A l \in Updates' : \E i \in Updates : f[i] = l
        BY <2>1 DEF SamePending
      <3>2. \A i : NextAt(i) = At(i)'
        BY NextUpdates
      <3>3. Linked'
        BY <2>1, <2>2, <3>1, <3>2 DEF Linked
      <3>4. Carried'
        BY <2>1, <2>2, <3>1, <3>2 DEF Carried
      <3>5. Covered'
        <4>1. /\ client'.known = scan /\ scan \in Heights
              /\ \/ client'.told = client.told \cup outs
                 \/ client'.base = scan
          BY <1>1, <2>4 DEF OpenTold, FeedInv, FeedShape
        <4>2. \A o \in outs : o[1] \in Heights
          <5>1. \A k \in Paying : k \in Heights
            BY FeedAssumption DEF Heights
          <5> QED
            BY <1>1, <5>1 DEF FeedInv, FeedShape
        <4> QED
          BY <2>1, <4>1, <4>2 DEF Covered, Heights
      <3> QED
        BY <3>3, <3>4, <3>5
    <2> QED
      BY <2>1, <2>3, <2>4
  <1>8. CASE ZmqRead
    <2>1. /\ UNCHANGED <<scanVars, client>> /\ loop = "zmq" /\ conn'.sub = conn.sub
      BY <1>1, <1>8, ZmqReadIs
    <2>2. SamePending /\ SameClient /\ UNCHANGED <<mem, outs>>
      BY <1>1, <1>8, <2>1, ReadPending DEF SameClient, scanVars
    <2> QED
      BY <1>1, <1>2, <1>3, <2>1, <2>2, Transfer DEF NothingDropped, Heights
  <1>9. CASE Push
    <2>1. NothingDropped
      <3>1. ~PushEnds
        BY <1>1, <1>2, PushEndsIs
      <3>2. conn' = conn /\ client \in Client /\ GoodMsg(got)
        BY <1>1, <1>9, <3>1, PushPending DEF FeedInv, FeedShape
      <3>3. client'.lost = client.lost
        <4>1. CASE PushMissed
          BY <3>2, <4>1, ToldErrorIs DEF PushMissed
        <4>2. CASE PushOther
          BY <3>2, <4>2, ToldOtherIs DEF PushOther
        <4>3. CASE PushSkips
          BY <4>3 DEF PushSkips
        <4>4. CASE PushBlocks
          <5>1. GoodUpdate(got) /\ sync \in Sync
            BY <1>1, <3>2, <4>4 DEF PushBlocks, GoodMsg, FeedInv, FeedShape
          <5> QED
            BY <3>2, <4>4, <5>1, ToldBlocksIs DEF PushBlocks
        <4> QED
          BY <1>1, <1>9, <3>1, <4>1, <4>2, <4>3, <4>4, PushIs
      <3> QED
        BY <1>2, <3>2, <3>3 DEF NothingDropped
    <2> QED
      BY <1>1, <1>3, <1>9, <2>1, PushDelivers
  <1>10. CASE \E h : CheckIn(h)
    <2>1. PICK h : CheckIn(h)
      BY <1>10
    <2>2. UNCHANGED <<conn, client>>
      BY <1>1, <2>1, CheckInIs
    <2>3. Linked /\ Carried /\ Covered
      BY <1>2, <1>3, <2>2 DEF NothingDropped
    <2> QED
      BY <1>1, <2>1, <2>3, CheckInDelivers
  <1>11. ASSUME NEW m, GoodMsg(m), Published(m), m.type # "update", pushing' = pushing,
                ScannerStep, mem' <= mem, outs' \subseteq outs
         PROVE  Linked' /\ Carried' /\ Covered'
    <2>1. UNCHANGED <<loop, got>> /\ conn'.sub = conn.sub
      BY <1>11 DEF ScannerStep, Published
    <2>2. SamePending /\ client' = client
      <3>1. CASE conn.sub = "watching"
        BY <1>1, <1>2, <1>11, <2>1, <3>1, PublishPending, PublishedPending
      <3>2. CASE conn.sub # "watching"
        <4>1. UNCHANGED <<conn, client>>
          BY <1>11, <3>2 DEF Published
        <4> QED
          BY <1>1, <1>11, <2>1, <4>1, UnchangedPending
      <3> QED
        BY <3>1, <3>2
    <2>3. SameClient /\ NothingDropped
      BY <1>2, <2>1, <2>2 DEF SameClient, NothingDropped
    <2> QED
      BY <1>1, <1>3, <1>11, <2>1, <2>2, <2>3, Transfer
  <1>12. CASE \E h, b : SyncChain(h, b)
    <2>1. PICK h, b : SyncChain(h, b)
      BY <1>12
    <2>2. /\ ScannerStep /\ pushing' = pushing /\ Published([type |-> "warning"])
          /\ mem' <= mem /\ outs' = {o \in outs : o[1] < h}
      BY <1>1, <2>1, SyncChainIs
    <2> QED
      BY <1>11, <2>2, BareMessages
  <1>13. CASE PushReceive
    <2>1. /\ ScannerStep /\ UNCHANGED <<scan, mem, branch, pushing, outs>>
          /\ Published([type |-> "mempool"])
      BY <1>1, <1>13, PushReceiveIs
    <2> QED
      BY <1>2, <1>11, <2>1, BareMessages DEF Heights
  <1>14. CASE AdminHide \/ \E h \in 0 .. MaxHeight - 1 : AdminRescan(h)
    <2>1. ScannerStep /\ UNCHANGED <<mem, pushing, conn, client>> /\ outs' \subseteq outs
      BY <1>1, <1>14, AdminHideIs, AdminRescanIs
    <2>2. UNCHANGED <<loop, got>>
      BY <2>1 DEF ScannerStep
    <2>3. SamePending /\ SameClient
      BY <1>1, <2>1, <2>2, UnchangedPending DEF SameClient
    <2> QED
      BY <1>1, <1>2, <1>3, <2>1, <2>2, <2>3, Transfer DEF NothingDropped, Heights
  <1>15. CASE PushUpdates
    <2>1. /\ ScannerStep /\ UNCHANGED <<scan, mem, branch, outs>>
          /\ pushing # NoPush /\ GoodUpdate(pushing) /\ pushing' = NoPush
          /\ Published(pushing)
      BY <1>1, <1>15, PushUpdatesIs
    <2>2. UNCHANGED <<loop, got>> /\ conn'.sub = conn.sub
      BY <2>1 DEF ScannerStep, Published
    <2>3. CASE conn.sub = "watching"
      <3>1. GoodMsg(pushing)
        BY <2>1 DEF GoodUpdate, GoodMsg, Msg
      <3>2. client' = client /\ SamePending
        BY <1>1, <1>2, <2>1, <2>2, <2>3, <3>1, PublishPending, PublishedPending
      <3>3. SameClient /\ NothingDropped
        BY <1>2, <2>2, <3>2 DEF SameClient, NothingDropped
      <3> QED
        BY <1>1, <1>2, <1>3, <2>1, <2>2, <3>2, <3>3, Transfer DEF Heights
    <2>4. CASE conn.sub # "watching"
      <3>1. conn' = conn /\ conn.sub = "open"
        BY <1>1, <1>2, <2>1, <2>4 DEF Published, FeedInv, FeedShape, GoodConn, Connection
      <3>2. conn'.bus = <<>> /\ loop \notin {"zmq", "got"}
        BY <1>1, <3>1 DEF FeedInv, FeedOrder
      <3>3. Updates' = {}
        <4>1. \A i : ~NextUpdate(i)
          BY <2>1, <2>2, <3>2 DEF NextUpdate
        <4> QED
          BY <4>1, NextUpdates
      <3> QED
        BY <2>2, <3>2, <3>3 DEF Linked, Carried, Covered
    <2> QED
      BY <2>3, <2>4
  <1> QED
    BY <1>4, <1>5, <1>6, <1>7, <1>8, <1>9, <1>10, <1>12, <1>13, <1>14, <1>15, StepsOfNext

\* While nothing was dropped, every output stored at a height the client was told
\* is covered has been told, or is in a check-in that waits: for every chain, every
\* bound of the queues, and every interleaving of the login, the check-ins, the
\* reorganisations, the rescans and the end of the stream.
THEOREM DeliveryHolds == Spec => []DeliveryInv
  <1>1. Init => DeliveryInv
    <2> SUFFICES ASSUME Init PROVE DeliveryInv
      OBVIOUS
    <2>1. FeedInv /\ conn.bus = <<>> /\ pushing = NoPush /\ loop = "accept" /\ outs = {}
      BY FeedInit DEF Init
    <2>2. Updates = {}
      BY <2>1 DEF Updates, Slot
    <2> QED
      BY <2>1, <2>2 DEF DeliveryInv, Linked, Carried, Covered
  <1> QED
    BY <1>1, DeliveryStep, PTL DEF Spec

\* NoSilentGap without conditions on the rescans, of a stream none of whose messages
\* was dropped for want of room in the socket (feed.inl: the SUB socket's high-water
\* mark).
THEOREM DeliveredWithoutGap == Spec => [](client.lost = {} => NoSilentGap)
  <1>1. DeliveryInv => (client.lost = {} => NoSilentGap)
    <2> SUFFICES ASSUME DeliveryInv, client.lost = {},
                        loop = "zmq", ~is_closing(conn), conn.bus = <<>>, pushing = NoPush,
                        ~client.err, ~client.gap
                 PROVE  {o \in outs : client.base < o[1] /\ o[1] <= client.known} \subseteq client.told
      BY DEF NoSilentGap
    <2>1. Covered
      BY DEF DeliveryInv, NothingDropped, is_closing
    <2>2. Updates = {}
      BY DEF Updates, Slot
    <2> QED
      BY <2>1, <2>2 DEF Covered
  <1> QED
    BY <1>1, DeliveryHolds, PTL

-----------------------------------------------------------------------------
(* Warnings *)

\* Nothing is to be told that was not before.
NoNewPending == \A l \in Updates' : \E i \in Updates : NextAt(l) = At(i)

\* Check-ins that stay are not new.
LEMMA SameIsNoNew == SamePending => NoNewPending
  BY DEF SamePending, NoNewPending

\* The rows of a span of the chain.
LEMMA RowsAre ==
    ASSUME NEW a, NEW b
    PROVE  /\ \A o \in Rows(a, b) : /\ o[1] \in Paying /\ a < o[1] /\ o[1] <= b
                                    /\ o = <<o[1], branch[o[1]]>>
           /\ \A k \in Paying : a < k /\ k <= b => <<k, branch[k]>> \in Rows(a, b)
  BY DEF Rows

\* Steps that tell nothing new and leave the chain.
LEMMA KeepsRecent ==
    ASSUME FeedInv, WarningInv, branch' = branch, NoNewPending, Recent' => Recent,
           loop' \in {"zmq", "got"} => loop \in {"zmq", "got"} /\ SameClient
    PROVE  Recent' => Faithful' /\ ToldRows'
  <1> SUFFICES ASSUME Recent' PROVE Faithful' /\ ToldRows'
    OBVIOUS
  <1>1. Faithful /\ ToldRows
    BY DEF WarningInv
  <1>2. Faithful'
    <2> SUFFICES ASSUME NEW l \in Updates'
                 PROVE  (At(l).outs = Rows(At(l).old, At(l).new))'
      BY DEF Faithful
    <2>1. PICK i \in Updates : NextAt(l) = At(i)
      BY DEF NoNewPending
    <2>2. At(i).outs = Rows(At(i).old, At(i).new) /\ At(l)' = At(i)
      BY <1>1, <2>1, NextUpdates DEF Faithful
    <2> QED
      BY <2>2 DEF Rows
  <1>3. ToldRows'
    BY <1>1 DEF ToldRows, SameClient, Rows
  <1> QED
    BY <1>2, <1>3

\* The rows are those of the chain that is followed, up to the scan height.
LEMMA StoredRows ==
    ASSUME FeedInv, FeedInv', outs = Rows(0, scan), [Next]_vars, [RescansKeep]_vars
    PROVE  outs' = Rows(0, scan)'
  <1> DEFINE next == Rows(0, scan)'
  <1>1. next = {<<k, branch'[k]>> : k \in {p \in Paying : 0 < p /\ p <= scan'}}
    BY DEF Rows
  <1> SUFFICES outs' = next
    OBVIOUS
  <1> HIDE DEF next
  <1>2. /\ scan \in Heights /\ mem \in Heights /\ scan' \in Heights /\ MaxHeight \in Nat
        /\ \A k \in Paying : k \in Heights /\ 0 < k
    BY FeedAssumption DEF FeedInv, FeedShape, Heights
  <1>3. \A o \in outs : o[1] \in Paying /\ o[1] <= scan /\ o = <<o[1], branch[o[1]]>>
    BY RowsAre
  <1>4. \A k \in Paying : k <= scan => <<k, branch[k]>> \in outs
    BY <1>2, RowsAre
  <1>5. ASSUME UNCHANGED <<scan, branch, outs>> PROVE outs' = next
    BY <1>1, <1>5 DEF Rows
  <1>6. CASE \E h : CheckIn(h)
    <2>1. PICK h : CheckIn(h)
      BY <1>6
    <2>2. /\ branch' = branch /\ GoodUpdate(pushing') /\ pushing'.new = h
          /\ \/ scan < mem /\ UNCHANGED <<scan, outs>>
             \/ scan = mem /\ scan' = h /\ outs' = outs \cup Received(mem, h)
          /\ mem < h
      BY <2>1, CheckInIs
    <2>3. CASE scan = mem /\ scan' = h /\ outs' = outs \cup Received(mem, h)
      <3>1. h \in Heights
        BY <1>2, <2>3
      <3>2. Received(mem, h) = {<<k, branch[k]>> : k \in {p \in Paying : mem < p /\ p <= h}}
        BY <1>2, <3>1, ReceivedIs DEF FeedInv, Rows
      <3>3. outs = {<<k, branch[k]>> : k \in {p \in Paying : 0 < p /\ p <= scan}}
        BY DEF Rows
      <3> DEFINE A == {p \in Paying : 0 < p /\ p <= scan}
                 B == {p \in Paying : mem < p /\ p <= h}
                 C == {p \in Paying : 0 < p /\ p <= h}
      <3>4. C = A \cup B
        BY <1>2, <2>2, <2>3, <3>1 DEF Heights
      <3>5. next = {<<k, branch[k]>> : k \in C}
        BY <1>1, <2>2, <2>3
      <3> QED
        BY <2>3, <3>2, <3>3, <3>4, <3>5
    <2> QED
      BY <1>5, <2>2, <2>3
  <1>7. CASE \E h, b : SyncChain(h, b)
    <2>1. PICK h, b : SyncChain(h, b)
      BY <1>7
    <2>2. /\ h \in 1..MaxHeight /\ scan' = Least(scan, h - 1)
          /\ outs' = {o \in outs : o[1] < h}
          /\ \A k \in Heights : k < h => branch'[k] = branch[k]
      BY <2>1, SyncChainIs
    <2>3. \A k \in Paying : k <= scan' <=> k <= scan /\ k < h
      BY <1>2, <2>2 DEF Least, Heights
    <2>4. ASSUME NEW o \in outs' PROVE o \in next
      <3>1. o \in outs /\ o[1] < h /\ o[1] \in Paying /\ o[1] <= scan /\ o = <<o[1], branch[o[1]]>>
        BY <1>3, <2>2, <2>4
      <3>2. branch'[o[1]] = branch[o[1]] /\ o[1] <= scan' /\ 0 < o[1]
        BY <1>2, <2>2, <2>3, <3>1
      <3> QED
        BY <1>1, <3>1, <3>2
    <2>5. ASSUME NEW o \in next PROVE o \in outs'
      <3>1. PICK k \in Paying : k <= scan' /\ o = <<k, branch'[k]>>
        BY <1>1, <2>5
      <3>2. k <= scan /\ k < h /\ branch'[k] = branch[k]
        BY <1>2, <2>2, <2>3, <3>1
      <3>3. o \in outs /\ o[1] = k
        BY <1>4, <3>1, <3>2
      <3> QED
        BY <2>2, <3>2, <3>3
    <2> QED
      BY <2>4, <2>5
  <1>8. CASE \E h \in 0 .. MaxHeight - 1 : AdminRescan(h)
    <2>1. PICK h \in 0 .. MaxHeight - 1 : AdminRescan(h)
      BY <1>8
    <2>2. /\ branch' = branch
          /\ h \in Heights /\ h < scan /\ scan' = h /\ outs' = {o \in outs : o[1] < h}
      BY <2>1, AdminRescanIs
    <2>3. h \notin Paying
      <3>1. scan' # scan
        BY <1>2, <2>2 DEF Heights
      <3>2. RescansKeep
        BY <3>1 DEF vars, scanVars
      <3> QED
        BY <2>1, <2>2, <3>2 DEF RescansKeep
    <2>4. \A k \in Paying : k <= scan' <=> k <= scan /\ k < h
      BY <1>2, <2>2, <2>3 DEF Heights
    <2>5. ASSUME NEW o \in outs' PROVE o \in next
      <3>1. o \in outs /\ o[1] < h /\ o[1] \in Paying /\ o[1] <= scan /\ o = <<o[1], branch[o[1]]>>
        BY <1>3, <2>2, <2>5
      <3>2. o[1] <= scan' /\ 0 < o[1]
        BY <1>2, <2>4, <3>1
      <3> QED
        BY <1>1, <2>2, <3>1, <3>2
    <2>6. ASSUME NEW o \in next PROVE o \in outs'
      <3>1. PICK k \in Paying : k <= scan' /\ o = <<k, branch[k]>>
        BY <1>1, <2>2, <2>6
      <3>2. k <= scan /\ k < h
        BY <2>4, <3>1
      <3>3. o \in outs /\ o[1] = k
        BY <1>4, <3>1, <3>2
      <3> QED
        BY <2>2, <3>2, <3>3
    <2> QED
      BY <2>5, <2>6
  <1>9. CASE ~(\E h : CheckIn(h)) /\ ~(\E h, b : SyncChain(h, b))
             /\ ~(\E h \in 0 .. MaxHeight - 1 : AdminRescan(h))
    <2>1. UNCHANGED <<scan, branch, outs>>
      <3>1. CASE UNCHANGED vars
        BY <3>1 DEF vars, scanVars
      <3>2. CASE QuietStep
        BY <3>2, QuietSteps DEF Quiet
      <3>3. CASE ReadBadLogin \/ Watch \/ ZmqRead \/ Push \/ Open
        BY <3>3 DEF ReadBadLogin, Watch, ZmqRead, Push, Open, scanVars
      <3>4. CASE \E tx_sync, receives_only \in BOOLEAN : ReadLogin(tx_sync, receives_only)
        BY <3>4 DEF ReadLogin, scanVars
      <3>5. CASE PushUpdates \/ PushReceive \/ AdminHide
        BY <3>5 DEF PushUpdates, PushReceive, AdminHide
      <3> QED
        BY <1>9, <3>1, <3>2, <3>3, <3>4, <3>5, StepsOfNext
    <2> QED
      BY <1>5, <2>1
  <1> QED
    BY <1>6, <1>7, <1>8, <1>9

\* A message handled by a stream that gets warnings and has none to come.
LEMMA PushTellsRows ==
    ASSUME FeedInv, WarningInv, Push, Recent'
    PROVE  Faithful' /\ ToldRows'
  <1>1. ~PushEnds
    BY PushEndsIs DEF Recent
  <1>2. /\ UNCHANGED <<scan, mem, branch, outs, pushing, conn>>
        /\ loop = "got" /\ loop' = "zmq" /\ GoodMsg(got)
        /\ got.type = "update" => 0 \in Updates /\ At(0) = got
        /\ \A i \in Updates' : i \in Updates /\ NextAt(i) = At(i) /\ 0 < i
    BY <1>1, PushPending
  <1>3. NoNewPending
    BY <1>2 DEF NoNewPending
  <1>4. client \in Client /\ sync \in Sync /\ client.known \in Heights
    BY DEF FeedInv, FeedShape, Client
  <1>5. ~PushMissed
    BY <1>4, ToldErrorIs DEF PushMissed, Recent
  <1>6. ASSUME client'.lost = client.lost, sync'.receives_only = sync.receives_only,
               client'.err <=> client.err, ~client.gap, got.type # "warning"
        PROVE  Recent
    BY <1>2, <1>6 DEF Recent, NoWarning
  <1>7. CASE PushOther
    <2>1. /\ client'.known = client.known /\ client'.base = client.base
          /\ client'.told = client.told /\ client'.lost = client.lost
          /\ (client'.gap <=> client.gap) /\ (client'.err <=> client.err)
      BY <1>4, <1>7, ToldOtherIs DEF PushOther
    <2>2. sync' = sync /\ got.type # "warning"
      BY <1>7 DEF PushOther, Recent
    <2>3. Recent
      BY <1>6, <2>1, <2>2 DEF Recent
    <2> QED
      BY <1>2, <1>3, <2>1, <2>3, KeepsRecent DEF SameClient
  <1>8. CASE PushSkips
    <2>1. client' = client /\ got.type = "update" /\ sync'.receives_only = sync.receives_only
      BY <1>4, <1>8 DEF PushSkips, Sync
    <2>2. Recent
      BY <1>6, <2>1 DEF Recent
    <2> QED
      BY <1>2, <1>3, <2>1, <2>2, KeepsRecent DEF SameClient
  <1>9. CASE PushBlocks
    <2>1. /\ got.type = "update" /\ Matches(got)
          /\ client' = Told("blocks", Least(sync.last, got.old), got.new, got.outs)
          /\ sync'.receives_only = sync.receives_only
      BY <1>9 DEF PushBlocks
    <2>2. GoodUpdate(got) /\ got.new \in Heights /\ got.old \in Heights
      BY <1>2, <2>1 DEF GoodMsg, GoodUpdate, UpdateMsg
    <2>3. /\ client'.base = client.base /\ client'.told = client.told \cup got.outs
          /\ client'.gap <=> (client.gap \/ (sync.last > client.known /\ got.old > client.known))
          /\ (client'.err <=> client.err) /\ client'.known = got.new
          /\ client'.lost = client.lost
      BY <1>4, <2>1, <2>2, ToldBlocksIs
    <2>4. Recent
      BY <1>6, <2>1, <2>3 DEF Recent
    <2>5. Faithful /\ ToldRows
      BY <2>4 DEF WarningInv
    <2>6. Faithful'
      <3> SUFFICES ASSUME NEW l \in Updates'
                   PROVE  (At(l).outs = Rows(At(l).old, At(l).new))'
        BY DEF Faithful
      <3>1. PICK i \in Updates : NextAt(l) = At(i)
        BY <1>3 DEF NoNewPending
      <3>2. At(i).outs = Rows(At(i).old, At(i).new) /\ At(l)' = At(i)
        BY <2>5, <3>1, NextUpdates DEF Faithful
      <3> QED
        BY <1>2, <3>2 DEF Rows
    <2>7. got.outs = Rows(got.old, got.new) /\ Rows(client.base, client.known) \subseteq client.told
      BY <1>2, <2>1, <2>5 DEF Faithful, ToldRows
    <2>8. \A k \in Paying : client.base < k /\ k <= got.new => <<k, branch[k]>> \in client'.told
      <3> SUFFICES ASSUME NEW k \in Paying, client.base < k, k <= got.new
                   PROVE  <<k, branch[k]>> \in client'.told
        OBVIOUS
      <3>1. k \in Heights
        BY FeedAssumption DEF Heights
      <3>2. CASE got.old < k
        <4>1. <<k, branch[k]>> \in Rows(got.old, got.new)
          BY <3>2, RowsAre
        <4> QED
          BY <2>3, <2>7, <4>1
      <3>3. CASE k <= got.old
        <4>1. k <= client.known
          <5> SUFFICES ASSUME client.known < k PROVE FALSE
            BY <1>4, <3>1 DEF Heights
          <5> QED
            BY <2>1, <2>2, <2>3, <2>4, <3>3, NoGapBefore DEF Recent
        <4>2. <<k, branch[k]>> \in Rows(client.base, client.known)
          BY <4>1, RowsAre
        <4> QED
          BY <2>3, <2>7, <4>2
      <3> QED
        BY <2>2, <3>1, <3>2, <3>3 DEF Heights
    <2>9. ToldRows'
      <3> DEFINE next == Rows(client.base, client.known)'
      <3>1. next = {<<k, branch[k]>> : k \in {p \in Paying : client.base < p /\ p <= got.new}}
        BY <1>2, <2>3 DEF Rows
      <3> HIDE DEF next
      <3>2. next \subseteq client'.told
        BY <2>8, <3>1
      <3> QED
        BY <3>2 DEF ToldRows, next
    <2> QED
      BY <2>6, <2>9
  <1> QED
    BY <1>1, <1>5, <1>7, <1>8, <1>9, PushIs

\* A warning that was published stays to be handled, or was dropped.
LEMMA WarningStays ==
    ASSUME FeedInv, NEW m, GoodMsg(m), Published(m), loop' = loop, got' = got, NoWarning'
    PROVE  NoWarning /\ (conn.sub = "watching" => m.type # "warning")
  <1>1. Len(conn.bus) \in Nat
    BY UpdatesAreGood
  <1>2. CASE conn.sub # "watching"
    BY <1>2 DEF Published, NoWarning
  <1>3. CASE conn.sub = "watching"
    BY <1>1, <1>3 DEF Published, NoWarning
  <1> QED
    BY <1>2, <1>3

\* Every step keeps WarningInv while rescans lose no row.
LEMMA WarningStep == WarningInv /\ [Next]_vars /\ [RescansKeep]_vars => WarningInv'
  <1> SUFFICES ASSUME WarningInv, [Next]_vars, [RescansKeep]_vars, Recent'
               PROVE  Faithful' /\ ToldRows'
    BY FeedStep, StoredRows DEF WarningInv
  <1>1. FeedInv /\ FeedInv' /\ outs = Rows(0, scan) /\ (Recent => Faithful /\ ToldRows)
    BY FeedStep DEF WarningInv
  <1>2. conn'.sub # "shut" /\ NoWarning' /\ ~sync'.receives_only /\ ~client'.err /\ ~client'.gap
    BY DEF Recent
  <1>3. CASE UNCHANGED vars
    <2>1. UNCHANGED <<branch, pushing, conn, loop, got, client, sync>>
      BY <1>3 DEF vars, scanVars, connVars
    <2>2. NoNewPending /\ SameClient
      BY <1>1, <2>1, UnchangedPending, SameIsNoNew DEF SameClient
    <2>3. Recent
      BY <1>2, <2>1 DEF Recent, NoWarning
    <2> QED
      BY <1>1, <2>1, <2>2, <2>3, KeepsRecent
  <1>4. CASE QuietStep
    <2>1. Quiet
      BY <1>1, <1>4, QuietSteps
    <2>2. /\ SamePending /\ SameClient /\ client'.lost = client.lost
          /\ conn.sub = conn'.sub /\ conn'.bus = conn.bus /\ UNCHANGED <<branch, sync, got>>
          /\ loop' = loop \/ (loop = "accept" /\ loop' = "read")
      BY <1>1, <1>2, <2>1, QuietPending
    <2>3. Recent
      BY <1>2, <2>2 DEF Recent, NoWarning, SameClient
    <2> QED
      BY <1>1, <2>2, <2>3, SameIsNoNew, KeepsRecent
  <1>5. CASE ReadBadLogin
    <2>1. conn' = client_close(conn) /\ GoodConn(conn)
      BY <1>1, <1>5 DEF ReadBadLogin, FeedInv, FeedShape
    <2>2. conn'.sub = "shut"
      BY <2>1, ClosesHandle, 0 \in Nat
    <2> QED
      BY <1>2, <2>2
  <1>6. CASE \/ Watch \/ Open
             \/ \E tx_sync, receives_only \in BOOLEAN : ReadLogin(tx_sync, receives_only)
    <2>1. /\ SamePending /\ client'.lost = client.lost /\ conn.sub # "shut"
          /\ UNCHANGED <<scan, mem, branch, outs, pushing>>
          /\ conn'.bus = conn.bus
          /\ loop \in LoggingIn /\ loop' # "got"
          /\ \/ OpenTold
             \/ loop' \in LoggingIn /\ client' = client /\ sync' = sync
      BY <1>1, <1>2, <1>6, LoginPending
    <2>2. ~sync.receives_only /\ loop # "got" /\ loop # "zmq"
      BY <1>1, <2>1 DEF FeedInv, FeedOrder, LoggingIn
    <2>3. (client'.err <=> client.err) /\ (client'.gap <=> client.gap)
      BY <2>1 DEF OpenTold
    <2>4. Recent
      BY <1>2, <2>1, <2>2, <2>3 DEF Recent, NoWarning
    <2>5. CASE loop' \in LoggingIn
      <3>1. loop' \notin {"zmq", "got"}
        BY <2>5 DEF LoggingIn
      <3> QED
        BY <1>1, <2>1, <2>4, <3>1, SameIsNoNew, KeepsRecent
    <2>6. CASE OpenTold
      <3>1. NoNewPending /\ Faithful
        BY <1>1, <2>1, <2>4, SameIsNoNew
      <3>2. Faithful'
        <4> SUFFICES ASSUME NEW l \in Updates'
                     PROVE  (At(l).outs = Rows(At(l).old, At(l).new))'
          BY DEF Faithful
        <4>1. PICK i \in Updates : NextAt(l) = At(i)
          BY <3>1 DEF NoNewPending
        <4>2. At(i).outs = Rows(At(i).old, At(i).new) /\ At(l)' = At(i)
          BY <3>1, <4>1, NextUpdates DEF Faithful
        <4> QED
          BY <2>1, <4>2 DEF Rows
      <3>3. /\ client'.known = scan
            /\ \/ client'.told = client.told \cup outs
               \/ client'.base = scan
        BY <2>6 DEF OpenTold
      <3>4. \A k \in Paying : client'.base < k /\ k <= scan => <<k, branch[k]>> \in client'.told
        <4>1. scan \in Heights /\ \A k \in Paying : k \in Heights /\ 0 < k
          BY <1>1, FeedAssumption DEF FeedInv, FeedShape, Heights
        <4>2. \A k \in Paying : k <= scan => <<k, branch[k]>> \in outs
          BY <1>1, <4>1, RowsAre
        <4> QED
          BY <3>3, <4>1, <4>2 DEF Heights
      <3>5. ToldRows'
        <4> DEFINE next == Rows(client.base, client.known)'
        <4>1. next = {<<k, branch[k]>> : k \in {p \in Paying : client'.base < p /\ p <= scan}}
          BY <2>1, <3>3 DEF Rows
        <4> HIDE DEF next
        <4>2. next \subseteq client'.told
          BY <3>4, <4>1
        <4> QED
          BY <4>2 DEF ToldRows, next
      <3> QED
        BY <3>2, <3>5
    <2> QED
      BY <2>1, <2>5, <2>6
  <1>7. CASE ZmqRead
    <2>1. /\ UNCHANGED <<scanVars, client, sync>> /\ loop = "zmq" /\ loop' = "got"
          /\ conn'.sub = conn.sub
          /\ Len(conn.bus) >= 1 /\ got' = conn.bus[1]
          /\ Len(conn'.bus) = Len(conn.bus) - 1
          /\ \A i \in 1..(Len(conn.bus) - 1) : conn'.bus[i] = conn.bus[i + 1]
          /\ Len(conn.bus) \in Nat
      BY <1>1, <1>7, ZmqReadIs, UpdatesAreGood
    <2>2. SamePending /\ SameClient /\ branch' = branch
      BY <1>1, <1>7, <2>1, ReadPending DEF SameClient, scanVars
    <2>3. \A i \in 1..Len(conn.bus) : conn.bus[i].type # "warning"
      <3> SUFFICES ASSUME NEW i \in 1..Len(conn.bus) PROVE conn.bus[i].type # "warning"
        OBVIOUS
      <3>1. CASE i = 1
        BY <1>2, <2>1, <3>1 DEF NoWarning
      <3>2. CASE i # 1
        <4>1. i - 1 \in 1..(Len(conn.bus) - 1) /\ (i - 1) + 1 = i
          BY <2>1, <3>2
        <4>2. conn'.bus[i - 1] = conn.bus[i] /\ i - 1 \in 1..Len(conn'.bus)
          BY <2>1, <4>1
        <4> QED
          BY <1>2, <4>2 DEF NoWarning
      <3> QED
        BY <3>1, <3>2
    <2>4. Recent
      BY <1>2, <2>1, <2>3 DEF Recent, NoWarning
    <2> QED
      BY <1>1, <2>1, <2>2, <2>4, SameIsNoNew, KeepsRecent
  <1>8. CASE Push
    BY <1>1, <1>8, PushTellsRows
  <1>9. ASSUME ScannerStep, UNCHANGED branch, NoNewPending,
               \/ UNCHANGED <<conn, client>>
               \/ \E m : GoodMsg(m) /\ Published(m)
        PROVE  Faithful' /\ ToldRows'
    <2>1. UNCHANGED <<loop, got, sync>>
      BY <1>9 DEF ScannerStep
    <2>2. /\ SameClient /\ conn'.sub = conn.sub /\ NoWarning
      <3>1. CASE UNCHANGED <<conn, client>>
        BY <1>2, <2>1, <3>1 DEF SameClient, NoWarning
      <3>2. CASE \E m : GoodMsg(m) /\ Published(m)
        <4>1. PICK m : GoodMsg(m) /\ Published(m)
          BY <3>2
        <4>2. NoWarning
          BY <1>1, <1>2, <2>1, <4>1, WarningStays
        <4> QED
          BY <4>1, <4>2 DEF Published, SameClient
      <3> QED
        BY <1>9, <3>1, <3>2
    <2>3. Recent
      BY <1>2, <2>1, <2>2 DEF Recent, SameClient
    <2> QED
      BY <1>1, <1>9, <2>1, <2>2, <2>3, KeepsRecent
  <1>10. CASE \E h : CheckIn(h)
    <2>1. PICK h : CheckIn(h)
      BY <1>10
    <2>2. /\ ScannerStep /\ UNCHANGED <<branch, conn, client>>
          /\ pushing = NoPush /\ GoodUpdate(pushing')
          /\ pushing'.old = mem /\ pushing'.new = h /\ pushing'.outs = Received(mem, h)
      BY <1>1, <2>1, CheckInIs
    <2>3. UNCHANGED <<loop, got, sync>> /\ mem \in Heights /\ h \in Heights
      BY <1>1, <2>2 DEF ScannerStep, FeedInv, FeedShape, GoodUpdate, UpdateMsg
    <2>4. Recent
      BY <1>2, <2>2, <2>3 DEF Recent, NoWarning
    <2>5. Faithful /\ ToldRows /\ Len(conn.bus) \in Nat
      BY <1>1, <2>4, UpdatesAreGood
    <2>6. ToldRows'
      BY <2>2, <2>3, <2>5 DEF ToldRows, Rows
    <2>7. Faithful'
      <3> SUFFICES ASSUME NEW l \in Updates'
                   PROVE  (At(l).outs = Rows(At(l).old, At(l).new))'
        BY DEF Faithful
      <3>1. NextUpdate(l) /\ NextAt(l) = At(l)'
        BY NextUpdates
      <3>2. CASE l = Len(conn.bus) + 1
        <4>1. At(l)' = pushing'
          BY <2>2, <2>5, <3>1, <3>2 DEF NextAt
        <4>2. pushing'.outs = Rows(mem, h)
          BY <1>1, <2>2, <2>3, ReceivedIs DEF FeedInv
        <4> QED
          BY <2>2, <4>1, <4>2 DEF Rows
      <3>3. CASE l # Len(conn.bus) + 1
        <4>1. l \in 0..Len(conn.bus)
          BY <2>2, <2>5, <3>1, <3>3 DEF NextUpdate
        <4>2. NextAt(l) = At(l)
          BY <2>2, <2>3, <2>5, <4>1 DEF NextAt, At
        <4>3. l \in Updates
          BY <2>2, <2>3, <2>5, <3>1, <4>1, <4>2 DEF NextUpdate, Updates, Slot
        <4>4. At(l).outs = Rows(At(l).old, At(l).new) /\ At(l)' = At(l)
          BY <2>5, <3>1, <4>2, <4>3 DEF Faithful
        <4> QED
          BY <2>2, <4>4 DEF Rows
      <3> QED
        BY <3>2, <3>3
    <2> QED
      BY <2>6, <2>7
  <1>11. CASE \E h, b : SyncChain(h, b)
    <2>1. PICK h, b : SyncChain(h, b)
      BY <1>11
    <2>2. /\ ScannerStep /\ pushing = NoPush /\ pushing' = pushing
          /\ Published([type |-> "warning"])
      BY <1>1, <2>1, SyncChainIs
    <2>3. UNCHANGED <<loop, got>>
      BY <2>2 DEF ScannerStep
    <2>4. conn.sub # "watching"
      BY <1>1, <1>2, <2>2, <2>3, BareMessages, WarningStays
    <2>5. conn' = conn /\ conn.sub = "open"
      BY <1>1, <1>2, <2>2, <2>4 DEF Published, FeedInv, FeedShape, GoodConn, Connection
    <2>6. conn'.bus = <<>> /\ loop \notin {"zmq", "got"}
      BY <1>1, <2>5 DEF FeedInv, FeedOrder
    <2>7. Updates' = {}
      <3>1. \A i : ~NextUpdate(i)
        BY <2>2, <2>3, <2>6 DEF NextUpdate
      <3> QED
        BY <3>1, NextUpdates
    <2> QED
      BY <2>3, <2>6, <2>7 DEF Faithful, ToldRows
  <1>12. CASE AdminHide \/ \E h \in 0 .. MaxHeight - 1 : AdminRescan(h)
    <2>1. ScannerStep /\ UNCHANGED <<branch, pushing, conn, client>>
      BY <1>1, <1>12, AdminHideIs, AdminRescanIs
    <2>2. UNCHANGED <<loop, got>>
      BY <2>1 DEF ScannerStep
    <2>3. NoNewPending
      BY <1>1, <2>1, <2>2, UnchangedPending, SameIsNoNew
    <2> QED
      BY <1>9, <2>1, <2>3
  <1>13. ASSUME NEW m, GoodMsg(m), Published(m), ScannerStep,
                \/ m = pushing /\ pushing # NoPush /\ pushing' = NoPush
                \/ m.type # "update" /\ pushing' = pushing
         PROVE  NoNewPending
    <2>1. UNCHANGED <<loop, got>> /\ Len(conn.bus) \in Nat
      BY <1>1, <1>13, UpdatesAreGood DEF ScannerStep
    <2> SUFFICES ASSUME NEW l, NextUpdate(l) PROVE \E i \in Updates : NextAt(l) = At(i)
      BY NextUpdates DEF NoNewPending
    <2> DEFINE n == Len(conn.bus)
    <2>2. /\ n \in Nat /\ Len(conn'.bus) \in {n, n + 1}
          /\ \A i \in 1..n : conn'.bus[i] = conn.bus[i]
          /\ Len(conn'.bus) = n + 1 => conn'.bus[n + 1] = m
      BY <1>13, <2>1 DEF Published
    <2>3. CASE l \in 0..n
      <3>1. NextAt(l) = At(l)
        BY <2>1, <2>2, <2>3 DEF NextAt, At
      <3>2. l \in Updates
        BY <2>1, <2>2, <2>3, <3>1 DEF NextUpdate, Updates, Slot
      <3> QED
        BY <3>1, <3>2
    <2>4. CASE l \notin 0..n
      <3>1. l \in (n + 1)..(n + 2)
        BY <2>2, <2>4 DEF NextUpdate
      <3>2. NextAt(l) = pushing /\ pushing # NoPush
        <4>1. NextAt(l) = pushing' \/ NextAt(l) = m
          BY <2>2, <3>1 DEF NextAt
        <4>2. NextAt(l) = pushing' => l = Len(conn'.bus) + 1 \/ NextAt(l) = m
          BY <2>2, <3>1 DEF NextAt, NextUpdate
        <4> QED
          BY <1>13, <4>1, <4>2 DEF NextUpdate
      <3>3. n + 1 \in Updates /\ At(n + 1) = pushing
        BY <1>1, <3>2, UpdatesAreGood
      <3> QED
        BY <3>2, <3>3
    <2> QED
      BY <2>3, <2>4
  <1>14. CASE PushReceive
    <2>1. /\ ScannerStep /\ UNCHANGED <<scan, mem, branch, pushing, outs>>
          /\ Published([type |-> "mempool"])
      BY <1>1, <1>14, PushReceiveIs
    <2>2. NoNewPending
      BY <1>13, <2>1, BareMessages
    <2> QED
      BY <1>9, <2>1, <2>2, BareMessages
  <1>15. CASE PushUpdates
    <2>1. /\ ScannerStep /\ UNCHANGED <<scan, mem, branch, outs>>
          /\ pushing # NoPush /\ GoodUpdate(pushing) /\ pushing' = NoPush
          /\ Published(pushing)
      BY <1>1, <1>15, PushUpdatesIs
    <2>2. GoodMsg(pushing)
      BY <2>1 DEF GoodUpdate, GoodMsg, Msg
    <2>3. NoNewPending
      BY <1>13, <2>1, <2>2
    <2> QED
      BY <1>9, <2>1, <2>2, <2>3
  <1> QED
    BY <1>3, <1>4, <1>5, <1>6, <1>7, <1>8, <1>10, <1>11, <1>12, <1>14, <1>15, StepsOfNext

\* NoSilentGap of every stream, whatever was dropped, while no rescan starts at
\* the height of a row: there storage::rescan and the scan that follows lose the
\* row, and with it what a client that relies on warnings can be told.
THEOREM NoSilentGapUnlessRowsAreLost ==
    Spec /\ [][RescansKeep]_vars => []NoSilentGap
  <1>1. Init => WarningInv
    <2> SUFFICES ASSUME Init PROVE WarningInv
      OBVIOUS
    <2>1. FeedInv /\ conn.bus = <<>> /\ pushing = NoPush /\ loop = "accept" /\ outs = {} /\ scan = 0
      BY FeedInit DEF Init
    <2>2. Updates = {}
      BY <2>1 DEF Updates, Slot
    <2>3. Rows(0, scan) = {}
      <3>1. \A k \in Paying : ~(0 < k /\ k <= scan)
        BY <2>1, FeedAssumption
      <3> QED
        BY <3>1 DEF Rows
    <2> QED
      BY <2>1, <2>2, <2>3 DEF WarningInv, Faithful, ToldRows
  <1>2. WarningInv /\ DeliveryInv => NoSilentGap
    <2> SUFFICES ASSUME WarningInv, DeliveryInv,
                        loop = "zmq", ~is_closing(conn), conn.bus = <<>>, pushing = NoPush,
                        ~client.err, ~client.gap, Warned,
                        NEW o \in outs, client.base < o[1], o[1] <= client.known
                 PROVE  o \in client.told
      BY DEF NoSilentGap
    <2>1. CASE client.lost = {}
      <3>1. Covered
        BY <2>1 DEF DeliveryInv, NothingDropped, is_closing
      <3>2. Updates = {}
        BY DEF Updates, Slot
      <3> QED
        BY <3>1, <3>2 DEF Covered
    <2>2. CASE client.lost # {}
      <3>1. ~sync.receives_only /\ "warning" \notin client.lost
        BY <2>2 DEF Warned
      <3>2. NoWarning
        BY <3>1 DEF NoWarning
      <3>3. ToldRows /\ outs = Rows(0, scan)
        BY <3>1, <3>2 DEF WarningInv, Recent, is_closing
      <3>4. o[1] \in Paying /\ o = <<o[1], branch[o[1]]>>
        BY <3>3, RowsAre
      <3>5. o \in Rows(client.base, client.known)
        BY <3>4, RowsAre
      <3> QED
        BY <3>3, <3>5 DEF ToldRows
    <2> QED
      BY <2>1, <2>2
  <1>3. Spec /\ [][RescansKeep]_vars => []WarningInv
    BY <1>1, WarningStep, PTL DEF Spec
  <1> QED
    BY <1>2, <1>3, DeliveryHolds, PTL

-----------------------------------------------------------------------------
(* Closing *)

\* A subscription is shut only when the client or an error asked for it.
OpenInv == FeedInv /\ StaysOpen

\* StaysOpen for every bound: in particular the login's timer, which the login does
\* not cancel, never ends a stream that is logged in.
THEOREM StaysOpenHolds == Spec => []StaysOpen
  <1>1. Init => OpenInv
    BY FeedInit DEF Init, OpenInv, StaysOpen
  <1>2. OpenInv /\ [Next]_vars => OpenInv'
    <2> SUFFICES ASSUME OpenInv, [Next]_vars,
                        rd', ~client'.closed, ~client'.err, ~wfail', conn'.sub = "shut"
                 PROVE  FALSE
      BY FeedStep DEF OpenInv, StaysOpen, is_closing
    <2>1. FeedInv /\ client \in Client /\ GoodConn(conn)
      BY DEF OpenInv, FeedInv, FeedShape
    <2>2. ~(rd /\ ~client.closed /\ ~client.err /\ ~wfail /\ conn.sub = "shut")
      BY DEF OpenInv, StaysOpen, is_closing
    <2>3. loop \in {"accept", "read"} => ~rd
      BY <2>1 DEF FeedInv, FeedOrder
    <2>4. CASE UNCHANGED vars
      BY <2>2, <2>4 DEF vars, scanVars, connVars
    <2>5. CASE WriteDone \/ WriteError
      BY <2>2, <2>5 DEF WriteDone, WriteError, Written, is_closing
    <2>6. CASE Accept \/ AcceptFails \/ ReadFails
      BY <2>3, <2>6 DEF Accept, AcceptFails, ReadFails
    <2>7. CASE LoginTimer
      <3>1. CASE loop = "read"
        BY <2>3, <2>7, <3>1 DEF LoginTimer
      <3>2. CASE loop # "read"
        <4>1. conn' = [conn EXCEPT !.timer = "off"] /\ UNCHANGED <<rd, client, wfail>>
          BY <2>7, <3>2 DEF LoginTimer, sync_pull
        <4>2. conn'.sub = conn.sub
          BY <2>1, <4>1 DEF GoodConn, Connection
        <4> QED
          BY <2>2, <4>1, <4>2
      <3> QED
        BY <3>1, <3>2
    <2>8. CASE ZmqAborted
      BY <2>2, <2>8 DEF ZmqAborted, is_closing
    <2>9. CASE CloseFrame
      BY <2>1, <2>9 DEF CloseFrame, Client
    <2>10. CASE ReadEnds
      BY <2>10 DEF ReadEnds
    <2>11. CASE CloseDone \/ ShutdownDone
      <3>1. conn.sub = "shut"
        BY <2>1, <2>11 DEF CloseDone, ShutdownDone, GoodConn
      <3> QED
        BY <2>2, <2>11, <3>1 DEF CloseDone, ShutdownDone
    <2>12. CASE ReadBadLogin
      BY <2>1, <2>12, ToldErrorIs DEF ReadBadLogin
    <2>13. CASE \E tx_sync, receives_only \in BOOLEAN : ReadLogin(tx_sync, receives_only)
      <3>1. conn' = conn /\ loop = "read" /\ conn.stage = "open"
        BY <2>13 DEF ReadLogin
      <3> QED
        BY <2>1, <3>1 DEF FeedInv, FeedOrder
    <2>14. CASE Watch
      BY <2>1, <2>14, WatchKeeps
    <2>15. CASE Open
      <3>1. UNCHANGED <<rd, wfail>> /\ (OpenDenied \/ OpenTold)
        BY <2>1, <2>15, OpenIs
      <3>2. CASE OpenDenied
        BY <2>1, <3>2, ToldErrorIs DEF OpenDenied
      <3>3. CASE OpenTold
        BY <2>2, <3>1, <3>3 DEF OpenTold
      <3> QED
        BY <3>1, <3>2, <3>3
    <2>16. CASE ZmqRead
      BY <2>1, <2>2, <2>16, ZmqReadIs
    <2>17. CASE Push
      <3>1. UNCHANGED <<rd, wfail>> /\ ~PushEnds
        BY <2>1, <2>17, PushIs, PushEndsIs
      <3>2. conn' = conn /\ GoodMsg(got)
        BY <2>1, <2>17, <3>1, PushPending
      <3>3. (client.closed => client'.closed) /\ (client.err => client'.err)
        <4>1. CASE PushMissed
          BY <2>1, <4>1, ToldErrorIs DEF PushMissed
        <4>2. CASE PushOther
          BY <2>1, <4>2, ToldOtherIs DEF PushOther
        <4>3. CASE PushSkips
          BY <4>3 DEF PushSkips
        <4>4. CASE PushBlocks
          <5>1. GoodUpdate(got) /\ sync \in Sync
            BY <2>1, <3>2, <4>4 DEF PushBlocks, GoodMsg, FeedInv, FeedShape
          <5> QED
            BY <2>1, <4>4, <5>1, ToldBlocksIs DEF PushBlocks
        <4> QED
          BY <2>1, <2>17, <3>1, <4>1, <4>2, <4>3, <4>4, PushIs
      <3> QED
        BY <2>2, <3>1, <3>2, <3>3
    <2>18. ASSUME ScannerStep PROVE FALSE
      <3>1. UNCHANGED <<rd, wfail>>
        BY <2>18 DEF ScannerStep
      <3>2. PICK m : (GoodMsg(m) /\ Published(m)) \/ UNCHANGED <<conn, client>>
        BY <2>18 DEF ScannerStep
      <3>3. conn'.sub = conn.sub /\ client'.closed = client.closed /\ client'.err = client.err
        BY <3>2 DEF Published
      <3> QED
        BY <2>2, <3>1, <3>3
    <2>19. CASE \E h : CheckIn(h)
      BY <2>1, <2>18, <2>19, CheckInIs
    <2>20. CASE \E h, b : SyncChain(h, b)
      BY <2>1, <2>18, <2>20, SyncChainIs
    <2>21. CASE \E h \in 0 .. MaxHeight - 1 : AdminRescan(h)
      BY <2>1, <2>18, <2>21, AdminRescanIs
    <2>22. CASE PushUpdates \/ PushReceive \/ AdminHide
      BY <2>1, <2>18, <2>22, PushUpdatesIs, PushReceiveIs, AdminHideIs
    <2> QED
      BY <2>4, <2>5, <2>6, <2>7, <2>8, <2>9, <2>10, <2>11, <2>12, <2>13, <2>14, <2>15,
         <2>16, <2>17, <2>19, <2>20, <2>21, <2>22, StepsOfNext DEF QuietStep
  <1>3. OpenInv => StaysOpen
    BY DEF OpenInv
  <1> QED
    BY <1>1, <1>2, <1>3, PTL DEF Spec

\* What begins a close.
LEMMA ClosesStart ==
    ASSUME NEW c, GoodConn(c), NEW q
    PROVE  /\ client_close(c).started = c.started
           /\ close_check(c, q).started => c.started \/ q = 0
           /\ Written(c, q).started => c.started \/ q = 0
           /\ cleanup(c).started = c.started
           /\ c.started \in BOOLEAN
  BY DEF client_close, close_check, cleanup, Written, GoodConn, Connection

\* FlushedFirst for every bound: the stream is closed only when every queued message
\* was written, or a write has failed.
THEOREM FlushedFirstHolds == Spec => FlushedFirst
  <1> DEFINE Flushed == ~conn.started /\ conn.started' => write_queue_' = 0 \/ wfail'
  <1>1. FeedInv /\ [Next]_vars => [Flushed]_vars
    <2> SUFFICES ASSUME FeedInv, [Next]_vars, ~conn.started, conn'.started, write_queue_' # 0, ~wfail'
                 PROVE  FALSE
      OBVIOUS
    <2>1. /\ GoodConn(conn) /\ client \in Client
          /\ loop \in {"accept", "read"} => write_queue_ = 0
      BY DEF FeedInv, FeedShape, FeedOrder
    <2>2. \A q : /\ close_check(conn, q).started => q = 0
                 /\ Written(conn, q).started => q = 0
                 /\ ~client_close(conn).started /\ ~cleanup(conn).started
      BY <2>1, ClosesStart
    <2>3. CASE UNCHANGED vars
      BY <2>3 DEF vars, connVars
    <2>4. CASE WriteDone \/ WriteError
      BY <2>2, <2>4 DEF WriteDone, WriteError
    <2>5. CASE Accept \/ AcceptFails \/ ReadFails
      BY <2>1, <2>5 DEF Accept, AcceptFails, ReadFails
    <2>6. CASE LoginTimer
      <3>1. CASE loop = "read"
        BY <2>1, <2>6, <3>1 DEF LoginTimer
      <3>2. CASE loop # "read"
        <4>1. conn' = [conn EXCEPT !.timer = "off"]
          BY <2>6, <3>2 DEF LoginTimer, sync_pull
        <4> QED
          BY <2>1, <4>1 DEF GoodConn, Connection
      <3> QED
        BY <3>1, <3>2
    <2>7. CASE ZmqAborted \/ CloseFrame \/ ReadEnds
      BY <2>2, <2>7 DEF ZmqAborted, CloseFrame, ReadEnds
    <2>8. CASE CloseDone
      <3>1. conn.stage = "closing"
        BY <2>8 DEF CloseDone
      <3>2. CASE conn' = [conn EXCEPT !.stage = "tls", !.timer = "tls"]
        BY <2>1, <3>2 DEF GoodConn, Connection
      <3>3. CASE conn' = cleanup(conn)
        BY <2>2, <3>3
      <3> QED
        BY <2>8, <3>2, <3>3 DEF CloseDone
    <2>9. CASE ShutdownDone
      BY <2>2, <2>9 DEF ShutdownDone
    <2>10. CASE ReadBadLogin
      BY <2>2, <2>10 DEF ReadBadLogin
    <2>11. CASE \E tx_sync, receives_only \in BOOLEAN : ReadLogin(tx_sync, receives_only)
      BY <2>11 DEF ReadLogin
    <2>12. CASE Watch
      <3>1. conn' = [conn EXCEPT !.sub = "watching"]
        BY <2>12 DEF Watch
      <3> QED
        BY <2>1, <3>1 DEF GoodConn, Connection
    <2>13. CASE Open
      BY <2>2, <2>13, OpenIs DEF OpenDenied, OpenTold
    <2>14. CASE ZmqRead
      BY <2>14, ZmqReadIs
    <2>15. CASE Push
      <3>1. CASE PushEnds
        BY <2>2, <3>1 DEF PushEnds
      <3>2. CASE ~PushEnds
        BY <2>15, <3>2, PushPending
      <3> QED
        BY <3>1, <3>2
    <2>16. ASSUME ScannerStep PROVE FALSE
      <3>1. PICK m : (GoodMsg(m) /\ Published(m)) \/ UNCHANGED <<conn, client>>
        BY <2>16 DEF ScannerStep
      <3>2. conn'.started = conn.started
        BY <3>1 DEF Published
      <3> QED
        BY <3>2
    <2>17. CASE \E h : CheckIn(h)
      BY <2>16, <2>17, CheckInIs
    <2>18. CASE \E h, b : SyncChain(h, b)
      BY <2>16, <2>18, SyncChainIs
    <2>19. CASE \E h \in 0 .. MaxHeight - 1 : AdminRescan(h)
      BY <2>16, <2>19, AdminRescanIs
    <2>20. CASE PushUpdates \/ PushReceive \/ AdminHide
      BY <2>16, <2>20, PushUpdatesIs, PushReceiveIs, AdminHideIs
    <2> QED
      BY <2>3, <2>4, <2>5, <2>6, <2>7, <2>8, <2>9, <2>10, <2>11, <2>12, <2>13, <2>14, <2>15,
         <2>17, <2>18, <2>19, <2>20, StepsOfNext DEF QuietStep
  <1>2. Spec => []FeedInv
    BY FeedInit, FeedStep, PTL DEF Spec
  <1> QED
    BY <1>1, <1>2, PTL DEF Spec, FlushedFirst

-----------------------------------------------------------------------------
(* Types and bounds *)

\* How full the two queues get: one message above the limit, which `<` lets in,
\* and the error that ends the stream.
QueueInv ==
    /\ FeedInv
    /\ Len(conn.bus) <= HighWater
    /\ write_queue_ <= QueueMax + 2
    /\ loop # "done" => write_queue_ <= QueueMax + 1
    /\ loop \in LoggingIn => write_queue_ = 0

\* FeedTypeOK for every bound: the queue of messages to write never holds more than
\* queue_max + 2, whatever the scanner publishes and however slowly it is written.
THEOREM FeedTypes == Spec => []FeedTypeOK
  <1>1. Init => QueueInv
    <2> SUFFICES ASSUME Init PROVE QueueInv
      OBVIOUS
    <2>1. write_queue_ = 0 /\ Len(conn.bus) = 0
      BY DEF Init
    <2> QED
      BY <2>1, FeedInit, FeedAssumption DEF QueueInv
  <1>2. QueueInv /\ [Next]_vars => QueueInv'
    <2> SUFFICES ASSUME QueueInv, [Next]_vars
                 PROVE  (/\ Len(conn.bus) <= HighWater
                         /\ write_queue_ <= QueueMax + 2
                         /\ loop # "done" => write_queue_ <= QueueMax + 1
                         /\ loop \in LoggingIn => write_queue_ = 0)'
      BY FeedStep DEF QueueInv
    <2>1. /\ FeedInv /\ HighWater \in Nat /\ QueueMax \in Nat /\ write_queue_ \in Nat
          /\ Len(conn.bus) \in Nat /\ Len(conn.bus) <= HighWater
          /\ write_queue_ <= QueueMax + 2
          /\ loop # "done" => write_queue_ <= QueueMax + 1
          /\ loop \in LoggingIn => write_queue_ = 0
      BY FeedAssumption, UpdatesAreGood DEF QueueInv, FeedInv, FeedShape
    <2>2. CASE UNCHANGED vars
      <3>1. UNCHANGED <<conn, write_queue_, loop>>
        BY <2>2 DEF vars, connVars
      <3> QED
        BY <2>1, <3>1
    <2>3. CASE QuietStep
      <3>1. Quiet
        BY <2>1, <2>3, QuietSteps
      <3>2. Len(conn'.bus) <= HighWater
        <4>1. conn'.bus = conn.bus \/ conn'.bus = <<>>
          BY <3>1 DEF Quiet, Handled
        <4> QED
          BY <2>1, <4>1
      <3>3. /\ write_queue_' \in Nat /\ write_queue_' <= write_queue_
            /\ loop' = loop \/ loop' = "done" \/ (loop = "accept" /\ loop' = "read")
        BY <3>1 DEF Quiet
      <3> QED
        BY <2>1, <3>2, <3>3 DEF LoggingIn
    <2>4. CASE ReadBadLogin
      <3>1. write_queue_' = 1 /\ loop' = "done" /\ conn' = client_close(conn)
        BY <2>4 DEF ReadBadLogin
      <3>2. conn'.bus = <<>>
        BY <2>1, <3>1, ClosesHandle, 0 \in Nat DEF FeedInv, FeedShape
      <3> QED
        BY <2>1, <3>1, <3>2 DEF LoggingIn
    <2>5. CASE \E tx_sync, receives_only \in BOOLEAN : ReadLogin(tx_sync, receives_only)
      <3>1. UNCHANGED <<conn, write_queue_>> /\ loop = "read" /\ loop' = "watch"
        BY <2>5 DEF ReadLogin
      <3> QED
        BY <2>1, <3>1 DEF LoggingIn
    <2>6. CASE Watch
      <3>1. UNCHANGED write_queue_ /\ loop = "watch" /\ loop' = "open" /\ conn'.bus = <<>>
        BY <2>1, <2>6, WatchKeeps DEF Watch
      <3> QED
        BY <2>1, <3>1 DEF LoggingIn
    <2>7. CASE Open
      <3>1. loop = "open" /\ write_queue_' = write_queue_ + 1 /\ (OpenDenied \/ OpenTold)
        BY <2>1, <2>7, OpenIs
      <3>2. conn'.bus = <<>> \/ conn'.bus = conn.bus
        BY <2>1, <3>1, ClosesHandle, 0 \in Nat DEF FeedInv, FeedShape, OpenDenied, OpenTold
      <3>3. loop' \in {"done", "zmq"}
        BY <3>1 DEF OpenDenied, OpenTold
      <3>4. Len(conn'.bus) <= HighWater
        BY <2>1, <3>2
      <3> QED
        BY <2>1, <3>1, <3>3, <3>4 DEF LoggingIn
    <2>8. CASE ZmqRead
      <3>1. UNCHANGED write_queue_ /\ loop = "zmq" /\ loop' = "got"
            /\ Len(conn'.bus) = Len(conn.bus) - 1
        BY <2>1, <2>8, ZmqReadIs
      <3> QED
        BY <2>1, <3>1 DEF LoggingIn
    <2>9. CASE Push
      <3>1. loop = "got"
        BY <2>1, <2>9, PushIs
      <3>2. CASE PushEnds
        <4>1. conn'.bus = <<>> /\ loop' = "done" /\ write_queue_' = write_queue_ + 1
          BY <2>1, <3>2, PushEndsIs
        <4> QED
          BY <2>1, <3>1, <4>1 DEF LoggingIn
      <3>3. CASE ~PushEnds
        <4>1. conn' = conn /\ loop' = "zmq"
          BY <2>1, <2>9, <3>3, PushPending
        <4>2. ~Full /\ write_queue_' \in {write_queue_, write_queue_ + 1}
          BY <2>1, <2>9, <3>3, PushIs DEF PushMissed, PushOther, PushSkips, PushBlocks
        <4>3. write_queue_ <= QueueMax
          BY <2>1, <4>2 DEF Full
        <4> QED
          BY <2>1, <4>1, <4>2, <4>3 DEF LoggingIn
      <3> QED
        BY <3>2, <3>3
    <2>10. ASSUME ScannerStep
           PROVE  (/\ Len(conn.bus) <= HighWater
                   /\ write_queue_ <= QueueMax + 2
                   /\ loop # "done" => write_queue_ <= QueueMax + 1
                   /\ loop \in LoggingIn => write_queue_ = 0)'
      <3>1. UNCHANGED <<loop, write_queue_>>
        BY <2>10 DEF ScannerStep
      <3>2. PICK m : (GoodMsg(m) /\ Published(m)) \/ UNCHANGED <<conn, client>>
        BY <2>10 DEF ScannerStep
      <3>3. Len(conn'.bus) <= HighWater
        BY <2>1, <3>2 DEF Published
      <3> QED
        BY <2>1, <3>1, <3>3 DEF LoggingIn
    <2>11. CASE \E h : CheckIn(h)
      BY <2>1, <2>10, <2>11, CheckInIs
    <2>12. CASE \E h, b : SyncChain(h, b)
      BY <2>1, <2>10, <2>12, SyncChainIs
    <2>13. CASE \E h \in 0 .. MaxHeight - 1 : AdminRescan(h)
      BY <2>1, <2>10, <2>13, AdminRescanIs
    <2>14. CASE PushUpdates \/ PushReceive \/ AdminHide
      BY <2>1, <2>10, <2>14, PushUpdatesIs, PushReceiveIs, AdminHideIs
    <2> QED
      BY <2>2, <2>3, <2>4, <2>5, <2>6, <2>7, <2>8, <2>9, <2>11, <2>12, <2>13, <2>14, StepsOfNext
  <1>3. QueueInv => FeedTypeOK
    <2> SUFFICES ASSUME QueueInv PROVE FeedTypeOK
      OBVIOUS
    <2>1. FeedShape /\ conn \in Connection
      BY DEF QueueInv, FeedInv, FeedShape, GoodConn
    <2>2. [conn EXCEPT !.bus = <<>>] \in
             [sub : {"open", "watching", "shut"}, bus : {<<>>}, timer : {"off", "login", "close", "tls"},
              stage : {"open", "closing", "tls", "clean"}, started : BOOLEAN]
      BY <2>1 DEF Connection
    <2>3. /\ scan \in 0..MaxHeight /\ mem \in 0..MaxHeight
          /\ branch \in [0..MaxHeight -> 0..MaxReorgs] /\ hidden \in BOOLEAN
          /\ outs \subseteq (1..MaxHeight) \X (0..MaxReorgs)
          /\ loop \in {"accept", "read", "watch", "open", "zmq", "got", "done"}
      BY <2>1 DEF FeedShape, Heights, Row, LoggingIn
    <2>4. sync.height \in 0..TxPool /\ sync.last \in 0..TxPool
      BY <2>1 DEF FeedShape, Sync
    <2>5. write_queue_ \in 0 .. QueueMax + 2 /\ Len(conn.bus) <= HighWater
      BY <2>1, FeedAssumption DEF QueueInv, FeedShape
    <2> QED
      BY <2>2, <2>3, <2>4, <2>5 DEF FeedTypeOK
  <1> QED
    BY <1>1, <1>2, <1>3, PTL DEF Spec
=============================================================================
