-------------------------- MODULE RestServerProofs --------------------------
(***************************************************************************)
(* Proofs about RestServer for any number of connections, any limits of    *)
(* the queues, any sizes of transactions, and any set of outputs.          *)
(***************************************************************************)
EXTENDS RestServer, TLAPS, FiniteSetTheorems, WellFoundedInduction

-----------------------------------------------------------------------------
(* Frames and sockets *)

(***************************************************************************)
(* A coroutine that does not wait for the daemon has no timer and no       *)
(* answer outstanding on its socket; nor has it an answer outstanding when *)
(* it has read one, even if its timer has expired since.  Whatever it does *)
(* for somebody, somebody is waiting for it.                               *)
(***************************************************************************)
FrameInv(e, f) ==
    /\ f.pc \in {"start", "pick"} =>
          ~f.sent /\ f.timer = "off" /\ f.io = "none"
    /\ f.pc = "read" /\ f.io = "done" => ~f.sent
    /\ f.pc # "start" \/ e \in Shared => f.queue # <<>>

GoodFrame(e, f) == f \in Frame /\ FrameInv(e, f)

GoodSocket(s) == s.sent = FALSE /\ s.timer = "off"

Socket == [sent : BOOLEAN, timer : Timer]

\* The inductive invariant behind PoolUsable.
SocketInv ==
    /\ frame \in [Endpoint -> Frame \cup {None}]
    /\ \A e \in Endpoint : frame[e] # None => FrameInv(e, frame[e])
    /\ pool \in Seq(Socket)
    /\ PoolUsable

\* One endpoint's frame is replaced, or dropped.
FrameSet(e, g) ==
    /\ e \in Endpoint
    /\ g = None \/ GoodFrame(e, g)
    /\ frame' = [frame EXCEPT ![e] = g]

\* A socket is taken from the pool, one that can be used is given back, or
\* neither.
PoolStep ==
    \/ pool' = pool
    \/ pool' = PoolLeft
    \/ pool' = Append(pool, [sent |-> FALSE, timer |-> "off"])

\* What such a step keeps.
LEMMA SocketsKept ==
    ASSUME SocketInv, PoolStep,
           frame' = frame \/ \E e \in Endpoint : \E g : FrameSet(e, g)
    PROVE  SocketInv'
<1>1. /\ frame' \in [Endpoint -> Frame \cup {None}]
      /\ \A e \in Endpoint : frame'[e] # None => FrameInv(e, frame'[e])
  <2>1. CASE frame' = frame
    BY <2>1 DEF SocketInv
  <2>2. CASE \E e \in Endpoint : \E g : FrameSet(e, g)
    <3>1. PICK e \in Endpoint : \E g : FrameSet(e, g)
      BY <2>2
    <3>2. PICK g : FrameSet(e, g)
      BY <3>1
    <3> QED
      BY <3>2 DEF SocketInv, FrameSet, GoodFrame
  <2> QED
    BY <2>1, <2>2
<1>2. pool' \in Seq(Socket) /\ PoolUsable'
  <2>1. CASE pool' = pool
    BY <2>1 DEF SocketInv, PoolUsable
  <2>2. CASE pool' = PoolLeft
    <3>1. CASE pool = <<>>
      BY <2>2, <3>1 DEF SocketInv, PoolUsable, PoolLeft
    <3>2. CASE pool # <<>>
      <4>1. Len(pool) \in Nat /\ Len(pool) # 0
        BY <3>2 DEF SocketInv
      <4>2. pool' = SubSeq(pool, 1, Len(pool) - 1)
        BY <2>2, <3>2 DEF PoolLeft
      <4> QED
        BY <4>1, <4>2 DEF SocketInv, PoolUsable
    <3> QED
      BY <3>1, <3>2
  <2>3. CASE pool' = Append(pool, [sent |-> FALSE, timer |-> "off"])
    BY <2>3 DEF SocketInv, PoolUsable, Socket, Timer
  <2> QED
    BY <2>1, <2>2, <2>3 DEF PoolStep
<1> QED
  BY <1>1, <1>2 DEF SocketInv, PoolUsable

\* A new frame starts with a usable socket.
LEMMA NewFrameGood ==
    ASSUME SocketInv, NEW c \in Conn, NEW e \in Endpoint
    PROVE  GoodFrame(e, NewFrame(c))
<1>1. GetAsyncClient.sent = FALSE
  <2>1. CASE pool = <<>>
    BY <2>1 DEF GetAsyncClient
  <2>2. CASE pool # <<>>
    <3>1. Len(pool) \in DOMAIN pool
      BY <2>2 DEF SocketInv
    <3>2. pool[Len(pool)] \in Socket
      BY <3>1 DEF SocketInv
    <3>3. ~pool[Len(pool)].sent
      BY <3>1 DEF SocketInv, PoolUsable
    <3> QED
      BY <2>2, <3>2, <3>3 DEF GetAsyncClient, Socket
  <2> QED
    BY <2>1, <2>2
<1>2. <<c>> \in Seq(Conn) /\ <<c>> # <<>>
  OBVIOUS
<1> QED
  BY <1>1, <1>2 DEF GoodFrame, Frame, FrameInv, NewFrame, Timer

\* What the steps of a coroutine do to its frame.
LEMMA FrameOps ==
    ASSUME NEW e \in Endpoint, NEW f, GoodFrame(e, f)
    PROVE  /\ \A stage \in {"call", "histogram", "distribution", "keys"} :
                 f.queue # <<>> => GoodFrame(e, Writes(f, stage))
           /\ f.pc # "start" => GoodFrame(e, Reads(f))
           /\ HasRead(f) =>
                 /\ GoodFrame(e, Cancelled(f)) /\ Cancelled(f).sent = FALSE
                 /\ Cancelled(f).timer = "off" /\ Cancelled(f).io = "none"
                 /\ Cancelled(f).queue = f.queue /\ f.queue # <<>>
           /\ f.sent = FALSE /\ f.timer = "off" /\ f.io = "none"
              /\ f.queue # <<>> =>
                 /\ GoodFrame(e, [f EXCEPT !.pc = "pick"])
                 /\ e \in Serial =>
                       GoodFrame(e, [f EXCEPT !.pc = "start", !.queue = Tail(@)])
           /\ \A c \in Conn : GoodFrame(e, [f EXCEPT !.queue = Append(@, c)])
<1> USE DEF GoodFrame, Frame, FrameInv, Timer
<1>1. ASSUME NEW stage \in {"call", "histogram", "distribution", "keys"},
             f.queue # <<>>
      PROVE  GoodFrame(e, Writes(f, stage))
  BY <1>1 DEF Writes
<1>2. ASSUME f.pc # "start"
      PROVE  GoodFrame(e, Reads(f))
  BY <1>2 DEF Reads
<1>3. ASSUME HasRead(f)
      PROVE  /\ GoodFrame(e, Cancelled(f)) /\ Cancelled(f).sent = FALSE
             /\ Cancelled(f).timer = "off" /\ Cancelled(f).io = "none"
             /\ Cancelled(f).queue = f.queue /\ f.queue # <<>>
  BY <1>3 DEF HasRead, Cancelled
<1>4. ASSUME f.sent = FALSE, f.timer = "off", f.io = "none", f.queue # <<>>
      PROVE  /\ GoodFrame(e, [f EXCEPT !.pc = "pick"])
             /\ e \in Serial =>
                   GoodFrame(e, [f EXCEPT !.pc = "start", !.queue = Tail(@)])
  <2>1. GoodFrame(e, [f EXCEPT !.pc = "pick"])
    BY <1>4
  <2>2. ASSUME e \in Serial
        PROVE  GoodFrame(e, [f EXCEPT !.pc = "start", !.queue = Tail(@)])
    <3>1. Tail(f.queue) \in Seq(Conn)
      BY <1>4
    <3>2. e \notin Shared
      BY <2>2 DEF Shared, Serial
    <3> QED
      BY <1>4, <3>1, <3>2
  <2> QED
    BY <2>1, <2>2
<1>5. \A c \in Conn : GoodFrame(e, [f EXCEPT !.queue = Append(@, c)])
  <2> SUFFICES ASSUME NEW c \in Conn
               PROVE  GoodFrame(e, [f EXCEPT !.queue = Append(@, c)])
    OBVIOUS
  <2>1. Append(f.queue, c) \in Seq(Conn) /\ Append(f.queue, c) # <<>>
    OBVIOUS
  <2> QED
    BY <2>1
<1> HIDE DEF GoodFrame, Frame, FrameInv, Timer
<1> QED
  BY <1>1, <1>2, <1>3, <1>4, <1>5

\* The frames of a state that satisfies SocketInv.
LEMMA FrameIsGood ==
    ASSUME SocketInv, NEW e \in Endpoint, frame[e] # None
    PROVE  GoodFrame(e, frame[e])
  BY DEF SocketInv, GoodFrame

\* The endpoints, by name.
LEMMA Endpoints ==
    /\ "daemon_status" \in Endpoint /\ "get_unspent_outs" \in Endpoint
    /\ "get_random_outs" \in Endpoint /\ "submit_raw_tx" \in Endpoint
    /\ Serial \subseteq Endpoint /\ Shared \subseteq Endpoint
  BY DEF Endpoint, Shared, Serial

\* A request joins a queue or starts a frame, or is answered at once.
JoinFrame(c, e) ==
    /\ frame[e] # None
    /\ frame' = [frame EXCEPT ![e].queue = Append(@, c)]
    /\ pool' = pool

StartFrame(c, e) ==
    /\ frame[e] = None
    /\ frame' = [frame EXCEPT ![e] = NewFrame(c)]
    /\ pool' = PoolLeft

\* A request that joins a queue leaves the pool alone.
LEMMA JoinSockets ==
    ASSUME SocketInv, NEW c \in Conn, NEW e \in Endpoint, JoinFrame(c, e)
    PROVE  PoolStep /\ \E g : FrameSet(e, g)
<1>1. GoodFrame(e, [frame[e] EXCEPT !.queue = Append(@, c)])
  BY FrameIsGood, FrameOps DEF JoinFrame
<1>2. frame' = [frame EXCEPT ![e] = [frame[e] EXCEPT !.queue = Append(@, c)]]
  BY DEF JoinFrame, SocketInv
<1> QED
  BY <1>1, <1>2 DEF FrameSet, JoinFrame, PoolStep

\* A request that starts a frame takes a socket of the pool, or none.
LEMMA StartSockets ==
    ASSUME SocketInv, NEW c \in Conn, NEW e \in Endpoint, StartFrame(c, e)
    PROVE  PoolStep /\ \E g : FrameSet(e, g)
  BY NewFrameGood DEF StartFrame, FrameSet, PoolStep

-----------------------------------------------------------------------------
(* What the coroutines do to the frames, the sockets and the connections *)

ConnType == conn \in [Conn -> Connection]

\* The resumers of the connections in A are called, and no others.
ConnTo(A) ==
    \A c \in Conn : IF c \in A THEN conn'[c].pc = "write"
                               ELSE conn'[c] = conn[c]

\* A step of the coroutine that answers nobody ...
CoKeep(e) ==
    /\ frame[e] # None /\ pool' = pool /\ conn' = conn
    /\ \E g : FrameSet(e, g) /\ g # None /\ g.queue = frame[e].queue

\* ... the one that answers the front of the queue ...
CoServe(e) ==
    /\ frame[e] # None /\ frame[e].queue # <<>> /\ pool' = pool
    /\ ConnTo({Head(frame[e].queue)})
    /\ \E g : FrameSet(e, g) /\ g # None /\ g.queue = Tail(frame[e].queue)

\* ... and the one that ends it, answering everyone.
CoDrop(e) ==
    /\ frame[e] # None /\ PoolStep
    /\ FrameSet(e, None)
    /\ ConnTo(Waiting(e))

\* A good frame is a frame.
LEMMA GoodIsSome == \A e, g : GoodFrame(e, g) => g # None
  BY NoneAssumption DEF GoodFrame

\* The connections whose resumers are called write their answers.
LEMMA AnswerAllTo ==
    ASSUME ConnType, NEW answers, AnswerAll(answers)
    PROVE  ConnTo(DOMAIN answers)
  BY DEF ConnType, AnswerAll, Answered, ConnTo, Connection

\* A frame is stored only when it is idle.
LEMMA StoreIdle ==
    ASSUME NEW f, f.sent = FALSE, f.timer = "off", pool' = StoreAsyncClient(f)
    PROVE  PoolStep
  BY DEF PoolStep, StoreAsyncClient

\* A frame that goes on.
LEMMA KeepsFrame ==
    ASSUME NEW e \in Endpoint, frame[e] # None, NEW g, GoodFrame(e, g),
           g.queue = frame[e].queue,
           frame' = [frame EXCEPT ![e] = g], pool' = pool, conn' = conn
    PROVE  CoKeep(e)
  BY GoodIsSome DEF CoKeep, FrameSet

\* A frame keeps its queue while it writes or reads.
LEMMA QueueKept ==
    ASSUME NEW e \in Endpoint, NEW f, GoodFrame(e, f)
    PROVE  /\ \A stage : Writes(f, stage).queue = f.queue
           /\ Reads(f).queue = f.queue
           /\ Cancelled(f).queue = f.queue
           /\ [f EXCEPT !.pc = "pick"].queue = f.queue
           /\ [f EXCEPT !.pc = "start", !.queue = Tail(@)].queue = Tail(f.queue)
  BY DEF GoodFrame, Frame, Writes, Reads, Cancelled

\* A request is written and its answer is awaited.
LEMMA ReadsKeep ==
    ASSUME SocketInv, NEW e \in Endpoint, frame[e] # None, Wrote(frame[e]),
           frame' = [frame EXCEPT ![e] = Reads(frame[e])],
           pool' = pool, conn' = conn
    PROVE  CoKeep(e)
<1>1. GoodFrame(e, frame[e])
  BY FrameIsGood
<1>2. frame[e].pc # "start"
  BY DEF Wrote
<1>3. GoodFrame(e, Reads(frame[e])) /\ Reads(frame[e]).queue = frame[e].queue
  BY <1>1, <1>2, FrameOps, QueueKept
<1> QED
  BY <1>3, KeepsFrame

\* The next request of a call is written.
LEMMA WritesKeep ==
    ASSUME SocketInv, NEW e \in Endpoint, frame[e] # None, frame[e].queue # <<>>,
           NEW stage \in {"call", "histogram", "distribution", "keys"},
           frame' = [frame EXCEPT ![e] = Writes(frame[e], stage)],
           pool' = pool, conn' = conn
    PROVE  CoKeep(e)
<1>1. GoodFrame(e, frame[e])
  BY FrameIsGood
<1>2. GoodFrame(e, Writes(frame[e], stage))
  BY <1>1, FrameOps
<1>3. Writes(frame[e], stage).queue = frame[e].queue
  BY <1>1, QueueKept
<1> QED
  BY <1>2, <1>3, KeepsFrame

\* ZeroMQ operations and timers keep a frame good, and its queue.
LEMMA IoSteps ==
    ASSUME SocketInv, NEW e \in Endpoint,
           ZmqWrite(e) \/ ZmqRead(e) \/ ZmqError(e) \/ TimerExpires(e)
              \/ OnTimeout(e)
    PROVE  CoKeep(e)
<1> DEFINE f == frame[e]
<1>1. GoodFrame(e, f)
  BY FrameIsGood DEF ZmqWrite, ZmqRead, ZmqError, TimerExpires, OnTimeout
<1>2. pool' = pool /\ conn' = conn /\ f # None
  BY DEF ZmqWrite, ZmqRead, ZmqError, TimerExpires, OnTimeout
<1>3. frame \in [Endpoint -> Frame \cup {None}]
  BY DEF SocketInv
<1> USE DEF GoodFrame, Frame, FrameInv, Timer
<1>4. CASE ZmqWrite(e)
  <2>1. GoodFrame(e, [f EXCEPT !.io = "done", !.sent = TRUE])
        /\ [f EXCEPT !.io = "done", !.sent = TRUE].queue = f.queue
    BY <1>1, <1>4 DEF ZmqWrite
  <2>2. frame' = [frame EXCEPT ![e] = [f EXCEPT !.io = "done", !.sent = TRUE]]
    BY <1>3, <1>4 DEF ZmqWrite
  <2> QED
    BY <1>2, <2>1, <2>2, KeepsFrame
<1>5. CASE ZmqRead(e)
  <2>1. GoodFrame(e, [f EXCEPT !.io = "done", !.sent = FALSE])
        /\ [f EXCEPT !.io = "done", !.sent = FALSE].queue = f.queue
    BY <1>1, <1>5 DEF ZmqRead
  <2>2. frame' = [frame EXCEPT ![e] = [f EXCEPT !.io = "done", !.sent = FALSE]]
    BY <1>3, <1>5 DEF ZmqRead
  <2> QED
    BY <1>2, <2>1, <2>2, KeepsFrame
<1>6. CASE ZmqError(e)
  <2>1. GoodFrame(e, [f EXCEPT !.io = "failed"])
        /\ [f EXCEPT !.io = "failed"].queue = f.queue
    BY <1>1, <1>6 DEF ZmqError
  <2>2. frame' = [frame EXCEPT ![e] = [f EXCEPT !.io = "failed"]]
    BY <1>3, <1>6 DEF ZmqError
  <2> QED
    BY <1>2, <2>1, <2>2, KeepsFrame
<1>7. CASE TimerExpires(e)
  <2>1. GoodFrame(e, [f EXCEPT !.timer = "fired"])
        /\ [f EXCEPT !.timer = "fired"].queue = f.queue
    BY <1>1, <1>7 DEF TimerExpires
  <2>2. frame' = [frame EXCEPT ![e] = [f EXCEPT !.timer = "fired"]]
    BY <1>3, <1>7 DEF TimerExpires
  <2> QED
    BY <1>2, <2>1, <2>2, KeepsFrame
<1>8. CASE OnTimeout(e)
  <2> DEFINE io == IF f.io = "pending" THEN "failed" ELSE f.io
  <2>1. GoodFrame(e, [f EXCEPT !.timer = "ran", !.io = io])
        /\ [f EXCEPT !.timer = "ran", !.io = io].queue = f.queue
    BY <1>1, <1>8 DEF OnTimeout
  <2>2. frame' = [frame EXCEPT ![e] = [f EXCEPT !.timer = "ran", !.io = io]]
    BY <1>3, <1>8 DEF OnTimeout
  <2> QED
    BY <1>2, <2>1, <2>2, KeepsFrame
<1> QED
  BY <1>4, <1>5, <1>6, <1>7, <1>8

\* The coroutine of /daemon_status.
LEMMA DaemonStatusStep ==
    ASSUME SocketInv, ConnType, DaemonStatusResume
    PROVE  CoKeep("daemon_status") \/ CoDrop("daemon_status")
<1> DEFINE e == "daemon_status" f == frame[e]
<1>1. e \in Endpoint /\ e \in Shared /\ f # None
  BY Endpoints DEF DaemonStatusResume, Shared
<1>2. GoodFrame(e, f)
  BY <1>1, FrameIsGood
<1>3. f.queue # <<>>
  BY <1>1, <1>2 DEF GoodFrame, FrameInv
<1>4. CASE /\ f.pc = "start" /\ frame' = [frame EXCEPT ![e] = Writes(f, "call")]
           /\ conn' = conn /\ pool' = pool
  BY <1>1, <1>3, <1>4, WritesKeep
<1>5. CASE Failed(f) /\ DaemonStatusSend(f, TRUE, "default")
  <2>1. pool' = pool /\ frame' = [frame EXCEPT ![e] = None]
    BY <1>5 DEF DaemonStatusSend
  <2>2. ConnTo(Waiting(e))
    BY <1>5, AnswerAllTo DEF DaemonStatusSend
  <2> QED
    BY <1>1, <2>1, <2>2 DEF CoDrop, PoolStep, FrameSet
<1>6. CASE /\ Wrote(f) /\ frame' = [frame EXCEPT ![e] = Reads(f)]
           /\ conn' = conn /\ pool' = pool
  BY <1>1, <1>6, ReadsKeep
<1>7. ASSUME HasRead(f), NEW value \in {"ok", "none"},
             DaemonStatusSend(Cancelled(f), FALSE, value)
      PROVE  CoDrop(e)
  <2>1. PoolStep
    BY <1>1, <1>2, <1>7, FrameOps, StoreIdle DEF DaemonStatusSend
  <2>2. ConnTo(Waiting(e))
    BY <1>7, AnswerAllTo DEF DaemonStatusSend
  <2>3. frame' = [frame EXCEPT ![e] = None]
    BY <1>7 DEF DaemonStatusSend
  <2> QED
    BY <1>1, <2>1, <2>2, <2>3 DEF CoDrop, FrameSet
<1> QED
  BY <1>4, <1>5, <1>6, <1>7 DEF DaemonStatusResume

\* The coroutine of /get_unspent_outs.
LEMMA GetUnspentOutsStep ==
    ASSUME SocketInv, ConnType, GetUnspentOutsResume
    PROVE  CoKeep("get_unspent_outs") \/ CoDrop("get_unspent_outs")
<1> DEFINE e == "get_unspent_outs" f == frame[e]
<1>1. e \in Endpoint /\ e \in Shared /\ f # None
  BY Endpoints DEF GetUnspentOutsResume, Shared
<1>2. GoodFrame(e, f)
  BY <1>1, FrameIsGood
<1>3. f.queue # <<>>
  BY <1>1, <1>2 DEF GoodFrame, FrameInv
<1>4. CASE /\ f.pc = "start" /\ frame' = [frame EXCEPT ![e] = Writes(f, "call")]
           /\ conn' = conn /\ pool' = pool
  BY <1>1, <1>3, <1>4, WritesKeep
<1>5. CASE Failed(f) /\ GetUnspentOutsSend(f, TRUE, "none")
  <2>1. pool' = pool /\ frame' = [frame EXCEPT ![e] = None]
    BY <1>5 DEF GetUnspentOutsSend
  <2>2. ConnTo(Waiting(e))
    BY <1>5, AnswerAllTo DEF GetUnspentOutsSend
  <2> QED
    BY <1>1, <2>1, <2>2 DEF CoDrop, PoolStep, FrameSet
<1>6. CASE /\ Wrote(f) /\ frame' = [frame EXCEPT ![e] = Reads(f)]
           /\ conn' = conn /\ pool' = pool
  BY <1>1, <1>6, ReadsKeep
<1>7. ASSUME HasRead(f), NEW fee \in {"fee", "no_fee", "none"},
             GetUnspentOutsSend(Cancelled(f), FALSE, fee)
      PROVE  CoDrop(e)
  <2>1. PoolStep
    BY <1>1, <1>2, <1>7, FrameOps, StoreIdle DEF GetUnspentOutsSend
  <2>2. ConnTo(Waiting(e))
    BY <1>7, AnswerAllTo DEF GetUnspentOutsSend
  <2>3. frame' = [frame EXCEPT ![e] = None]
    BY <1>7 DEF GetUnspentOutsSend
  <2> QED
    BY <1>1, <2>1, <2>2, <2>3 DEF CoDrop, FrameSet
<1> QED
  BY <1>4, <1>5, <1>6, <1>7 DEF GetUnspentOutsResume

\* The coroutine of /get_random_outs ends with an error.
LEMMA RandomOutsFails ==
    ASSUME ConnType, frame["get_random_outs"] # None, NEW answer,
           RandomOutsFail(answer)
    PROVE  CoDrop("get_random_outs")
<1>1. ConnTo(Waiting("get_random_outs"))
  BY AnswerAllTo DEF RandomOutsFail
<1> QED
  BY <1>1, Endpoints DEF RandomOutsFail, CoDrop, PoolStep, FrameSet

\* It answers the front of its queue.
LEMMA RandomOutsServes ==
    ASSUME SocketInv, ConnType, frame["get_random_outs"] # None,
           NEW f, GoodFrame("get_random_outs", f),
           f.queue = frame["get_random_outs"].queue, f.queue # <<>>,
           f.sent = FALSE, f.timer = "off", f.io = "none",
           NEW ring, RandomOutsSend(f, ring)
    PROVE  CoServe("get_random_outs")
<1> DEFINE e == "get_random_outs" g == [f EXCEPT !.pc = "start", !.queue = Tail(@)]
<1>1. e \in Endpoint /\ e \in Serial
  BY Endpoints DEF Serial
<1>2. GoodFrame(e, g) /\ g.queue = Tail(f.queue)
  BY <1>1, FrameOps, QueueKept
<1>3. Head(f.queue) \in Conn
  BY DEF GoodFrame, Frame
<1>4. ConnTo({Head(f.queue)})
  BY <1>3 DEF ConnType, RandomOutsSend, Answered, ConnTo, Connection
<1>5. frame' = [frame EXCEPT ![e] = g] /\ pool' = pool
  BY DEF RandomOutsSend
<1> HIDE DEF g
<1> QED
  BY <1>1, <1>2, <1>4, <1>5, GoodIsSome DEF CoServe, FrameSet

\* Its steps after a histogram: the distribution, or the selection.
LEMMA AfterHistogramGood ==
    ASSUME NEW e \in Endpoint, NEW f, GoodFrame(e, f), f.queue # <<>>,
           f.sent = FALSE, f.timer = "off", f.io = "none", NEW dist
    PROVE  /\ GoodFrame(e, AfterHistogram(f, dist))
           /\ AfterHistogram(f, dist).queue = f.queue
<1>1. GoodFrame(e, Writes(f, "distribution"))
  BY FrameOps
<1>2. GoodFrame(e, [f EXCEPT !.pc = "pick"])
  BY FrameOps
<1>3. Writes(f, "distribution").queue = f.queue
      /\ [f EXCEPT !.pc = "pick"].queue = f.queue
  BY QueueKept
<1> QED
  BY <1>1, <1>2, <1>3 DEF AfterHistogram

\* The coroutine of /get_random_outs.
LEMMA RandomOutsStep ==
    ASSUME SocketInv, ConnType,
           RandomOutsNext \/ RandomOutsCall \/ PickProposal \/ PickKeys
    PROVE  \/ CoKeep("get_random_outs") \/ CoServe("get_random_outs")
           \/ CoDrop("get_random_outs")
<1> DEFINE e == "get_random_outs" f == frame[e]
<1>1. e \in Endpoint /\ f # None
  BY Endpoints DEF RandomOutsNext, RandomOutsCall, PickProposal, PickKeys
<1>2. GoodFrame(e, f)
  BY <1>1, FrameIsGood
<1>3. f.pc \in {"start", "pick"} => f.sent = FALSE /\ f.timer = "off" /\ f.io = "none"
  BY <1>2 DEF GoodFrame, FrameInv, Frame
<1>4. HasRead(f) =>
         /\ GoodFrame(e, Cancelled(f)) /\ Cancelled(f).sent = FALSE
         /\ Cancelled(f).timer = "off" /\ Cancelled(f).io = "none"
         /\ Cancelled(f).queue = f.queue /\ f.queue # <<>>
  BY <1>1, <1>2, FrameOps
<1>5. CASE RandomOutsNext
  <2>1. f.pc = "start"
    BY <1>5 DEF RandomOutsNext
  <2>2. CASE f.queue = <<>>
    <3>1. /\ frame' = [frame EXCEPT ![e] = None] /\ conn' = conn
          /\ pool' = StoreAsyncClient(f)
      BY <1>5, <2>2 DEF RandomOutsNext
    <3>2. PoolStep
      BY <1>3, <2>1, <3>1, StoreIdle
    <3>3. Waiting(e) = {}
      BY <2>2 DEF Waiting
    <3>4. ConnTo(Waiting(e))
      BY <3>1, <3>3 DEF ConnTo
    <3> QED
      BY <1>1, <3>1, <3>2, <3>4 DEF CoDrop, FrameSet
  <2>3. CASE f.queue # <<>>
    <3>1. PICK dist : /\ frame' = [frame EXCEPT ![e] =
                          IF Amounts(f) # "ringct" THEN Writes(f, "histogram")
                                                  ELSE AfterHistogram(f, dist)]
                      /\ pool' = pool /\ conn' = conn
      BY <1>5, <2>3 DEF RandomOutsNext
    <3>2. GoodFrame(e, Writes(f, "histogram"))
          /\ Writes(f, "histogram").queue = f.queue
      BY <1>1, <1>2, <2>3, FrameOps, QueueKept
    <3>3. GoodFrame(e, AfterHistogram(f, dist))
          /\ AfterHistogram(f, dist).queue = f.queue
      BY <1>1, <1>2, <1>3, <2>1, <2>3, AfterHistogramGood
    <3> QED
      BY <1>1, <3>1, <3>2, <3>3, KeepsFrame
  <2> QED
    BY <2>2, <2>3
<1>6. CASE RandomOutsCall
  <2>1. CASE \E answer : RandomOutsFail(answer)
    BY <1>1, <2>1, RandomOutsFails
  <2>2. CASE /\ Wrote(f) /\ frame' = [frame EXCEPT ![e] = Reads(f)]
             /\ conn' = conn /\ pool' = pool
    BY <1>1, <2>2, ReadsKeep
  <2>3. CASE /\ HasRead(f) /\ conn' = conn /\ pool' = pool
             /\ frame' = [frame EXCEPT ![e] = AfterHistogram(Cancelled(f), pick.dist)]
    <3>1. GoodFrame(e, AfterHistogram(Cancelled(f), pick.dist))
          /\ AfterHistogram(Cancelled(f), pick.dist).queue = f.queue
      BY <1>1, <1>4, <2>3, AfterHistogramGood
    <3> QED
      BY <1>1, <2>3, <3>1, KeepsFrame
  <2>4. CASE /\ HasRead(f) /\ conn' = conn /\ pool' = pool
             /\ frame' = [frame EXCEPT ![e] = [Cancelled(f) EXCEPT !.pc = "pick"]]
    <3>1. GoodFrame(e, [Cancelled(f) EXCEPT !.pc = "pick"])
          /\ [Cancelled(f) EXCEPT !.pc = "pick"].queue = f.queue
      BY <1>1, <1>4, <2>4, FrameOps, QueueKept
    <3> QED
      BY <1>1, <2>4, <3>1, KeepsFrame
  <2> QED
    BY <1>6, <2>1, <2>2, <2>3, <2>4 DEF RandomOutsCall
<1>7. CASE PickProposal
  <2>1. f.pc = "pick" /\ f.queue # <<>>
    BY <1>2, <1>7 DEF PickProposal, GoodFrame, FrameInv
  <2>2. CASE RandomOutsFail("not_enough_mixin")
    BY <1>1, <2>2, RandomOutsFails
  <2>3. CASE RandomOutsSend(f, {})
    BY <1>1, <1>2, <1>3, <2>1, <2>3, RandomOutsServes
  <2>4. CASE /\ frame' = [frame EXCEPT ![e] = Writes(f, "keys")]
             /\ conn' = conn /\ pool' = pool
    BY <1>1, <2>1, <2>4, WritesKeep
  <2> QED
    BY <1>7, <2>2, <2>3, <2>4 DEF PickProposal
<1>8. CASE PickKeys
  <2>1. HasRead(f)
    BY <1>8 DEF PickKeys
  <2>2. ASSUME NEW ring, RandomOutsSend(Cancelled(f), ring)
        PROVE  CoServe(e)
    BY <1>1, <1>4, <2>1, <2>2, RandomOutsServes
  <2>3. CASE /\ frame' = [frame EXCEPT ![e] = [Cancelled(f) EXCEPT !.pc = "pick"]]
             /\ conn' = conn /\ pool' = pool
    <3>1. GoodFrame(e, [Cancelled(f) EXCEPT !.pc = "pick"])
          /\ [Cancelled(f) EXCEPT !.pc = "pick"].queue = f.queue
      BY <1>1, <1>4, <2>1, FrameOps, QueueKept
    <3> QED
      BY <1>1, <2>3, <3>1, KeepsFrame
  <2> QED
    BY <1>8, <2>2, <2>3 DEF PickKeys
<1> QED
  BY <1>5, <1>6, <1>7, <1>8

\* The coroutine of /submit_raw_tx.
LEMMA SubmitStep ==
    ASSUME SocketInv, ConnType, SubmitNext \/ SubmitResume
    PROVE  \/ CoKeep("submit_raw_tx") \/ CoServe("submit_raw_tx")
           \/ CoDrop("submit_raw_tx")
<1> DEFINE e == "submit_raw_tx" f == frame[e]
<1>1. e \in Endpoint /\ e \in Serial /\ f # None
  BY Endpoints DEF SubmitNext, SubmitResume, Serial
<1>2. GoodFrame(e, f)
  BY <1>1, FrameIsGood
<1>3. f.pc \in {"start", "pick"} => f.sent = FALSE /\ f.timer = "off" /\ f.io = "none"
  BY <1>2 DEF GoodFrame, FrameInv, Frame
<1>4. HasRead(f) =>
         /\ GoodFrame(e, Cancelled(f)) /\ Cancelled(f).sent = FALSE
         /\ Cancelled(f).timer = "off" /\ Cancelled(f).io = "none"
         /\ Cancelled(f).queue = f.queue /\ f.queue # <<>>
  BY <1>1, <1>2, FrameOps
<1>5. CASE SubmitNext
  <2>1. f.pc = "start"
    BY <1>5 DEF SubmitNext
  <2>2. CASE f.queue = <<>>
    <3>1. /\ frame' = [frame EXCEPT ![e] = None] /\ conn' = conn
          /\ pool' = StoreAsyncClient(f)
      BY <1>5, <2>2 DEF SubmitNext
    <3>2. PoolStep
      BY <1>3, <2>1, <3>1, StoreIdle
    <3>3. Waiting(e) = {}
      BY <2>2 DEF Waiting
    <3>4. ConnTo(Waiting(e))
      BY <3>1, <3>3 DEF ConnTo
    <3> QED
      BY <1>1, <3>1, <3>2, <3>4 DEF CoDrop, FrameSet
  <2>3. CASE f.queue # <<>>
    <3>1. /\ frame' = [frame EXCEPT ![e] = Writes(f, "call")]
          /\ pool' = pool /\ conn' = conn
      BY <1>5, <2>3 DEF SubmitNext
    <3>2. GoodFrame(e, Writes(f, "call")) /\ Writes(f, "call").queue = f.queue
      BY <1>1, <1>2, <2>3, FrameOps, QueueKept
    <3> QED
      BY <1>1, <3>1, <3>2, KeepsFrame
  <2> QED
    BY <2>2, <2>3
<1>6. CASE SubmitResume
  <2>1. CASE SubmitFail
    <3>1. ConnTo(Waiting(e))
      BY <2>1, AnswerAllTo DEF SubmitFail
    <3> QED
      BY <1>1, <2>1, <3>1 DEF SubmitFail, CoDrop, PoolStep, FrameSet
  <2>2. CASE /\ Wrote(f) /\ frame' = [frame EXCEPT ![e] = Reads(f)]
             /\ conn' = conn /\ pool' = pool
    BY <1>1, <2>2, ReadsKeep
  <2>3. ASSUME HasRead(f), NEW answer, SubmitSend(Cancelled(f), answer)
        PROVE  CoServe(e)
    <3> DEFINE k == Cancelled(f)
               g == [k EXCEPT !.pc = "start", !.queue = Tail(@)]
    <3>0. /\ GoodFrame(e, k) /\ k.sent = FALSE /\ k.timer = "off"
          /\ k.io = "none" /\ k.queue = f.queue /\ k.queue # <<>>
      BY <1>4, <2>3
    <3>1. GoodFrame(e, g) /\ g.queue = Tail(f.queue)
      <4> HIDE DEF k
      <4>1. GoodFrame(e, g)
        BY <1>1, <3>0, FrameOps
      <4>2. g.queue = Tail(k.queue)
        BY <1>1, <3>0, QueueKept
      <4> QED
        BY <3>0, <4>1, <4>2
    <3>2. ConnTo({Head(f.queue)})
      <4>1. AnswerAll([c \in {Head(k.queue)} |-> answer])
        BY <2>3 DEF SubmitSend
      <4>2. ConnTo(DOMAIN [c \in {Head(k.queue)} |-> answer])
        BY <4>1, AnswerAllTo
      <4> QED
        BY <3>0, <4>2
    <3>3. frame' = [frame EXCEPT ![e] = g] /\ pool' = pool
      BY <2>3 DEF SubmitSend
    <3> HIDE DEF g
    <3> QED
      BY <1>1, <1>4, <2>3, <3>1, <3>2, <3>3, GoodIsSome DEF CoServe, FrameSet
  <2> QED
    BY <1>6, <2>1, <2>2, <2>3 DEF SubmitResume
<1> QED
  BY <1>5, <1>6

\* A step of any coroutine.
LEMMA ResumeStep ==
    ASSUME SocketInv, ConnType, Resume
    PROVE  \E e \in Endpoint : CoKeep(e) \/ CoServe(e) \/ CoDrop(e)
  BY DaemonStatusStep, GetUnspentOutsStep, RandomOutsStep, SubmitStep,
     Endpoints DEF Resume

\* The steps that leave the frames and the pool alone.
LEMMA ConnSteps ==
    ASSUME NEW c, \/ Accept(c) \/ Handshaken(c) \/ Written(c) \/ ReadLate(c)
                  \/ Disconnect(c) \/ ConnTimerExpires(c) \/ ConnOnTimeout(c)
    PROVE  UNCHANGED <<frame, pool, cache, pick, outstanding>>
  BY DEF Accept, Handshaken, Written, ReadLate, Disconnect,
         ConnTimerExpires, ConnOnTimeout

-----------------------------------------------------------------------------
(* Answers *)

\* A full ring of unlocked outputs, or none.
Whole(ring) ==
    ring # {} => Cardinality(ring) = Mixin /\ ring \cap Locked = {}

GoodConn(g) == g \in Connection /\ g.answer # "no_fee" /\ Whole(g.ring)

ConnInv == conn \in [Conn -> Connection] /\ \A c \in Conn : GoodConn(conn[c])

CacheType ==
    cache \in [daemon_status : [result : {"none", "default", "ok"},
                                fresh : BOOLEAN],
               get_unspent_outs : [result : {"no_fee", "fee"}, fresh : BOOLEAN]]

\* The ring so far and what is proposed for it fit into a ring, and no
\* locked output has entered it.
PickInv ==
    /\ pick \in [dist : BOOLEAN, ring : SUBSET Output,
                 proposed : SUBSET Output, tries : 0..PickTries]
    /\ pick.ring \cap Locked = {}
    /\ Cardinality(pick.ring \cup pick.proposed) <= Mixin

\* The inductive invariant behind AnswersAreWhole.
AnswerInv == ConnInv /\ CacheType /\ PickInv

GoodAnswer == Error \cup {"default", "ok", "fee"}

\* One connection changes.
LEMMA ConnSet ==
    ASSUME ConnInv, NEW c \in Conn, NEW g, GoodConn(g),
           conn' = [conn EXCEPT ![c] = g]
    PROVE  ConnInv'
  BY DEF ConnInv, GoodConn

\* A connection that is closed, or that waits for its next request.
LEMMA ClosedGood ==
    /\ GoodConn(Closed)
    /\ GoodConn([Closed EXCEPT !.pc = "read", !.timer = "armed"])
  BY DEF GoodConn, Connection, Closed, Whole, Timer

\* A connection that moves on with its answer.
LEMMA MovedGood ==
    ASSUME NEW g, GoodConn(g)
    PROVE  /\ \A pc \in {"handshake", "read"} :
                 GoodConn([g EXCEPT !.pc = pc, !.timer = "armed"])
           /\ GoodConn([g EXCEPT !.timer = "fired"])
           /\ \A r \in Request :
                 GoodConn([g EXCEPT !.pc = "run", !.timer = "off", !.req = r])
<1> USE DEF GoodConn, Connection, Timer
<1>1. \A pc \in {"handshake", "read"} :
         GoodConn([g EXCEPT !.pc = pc, !.timer = "armed"])
  OBVIOUS
<1>2. GoodConn([g EXCEPT !.timer = "fired"])
  OBVIOUS
<1>3. \A r \in Request :
         GoodConn([g EXCEPT !.pc = "run", !.timer = "off", !.req = r])
  OBVIOUS
<1> QED
  BY <1>1, <1>2, <1>3

\* A connection that is answered.
LEMMA AnsweredGood ==
    ASSUME ConnInv, NEW c \in Conn, NEW answer \in GoodAnswer
    PROVE  /\ GoodConn(Answered(c, answer))
           /\ \A ring \in SUBSET Output : Whole(ring) =>
                 GoodConn([Answered(c, answer) EXCEPT !.ring = ring])
<1> DEFINE a == IF answer \in Error THEN "error" ELSE answer
<1>1. conn[c] \in Connection /\ Whole(conn[c].ring)
  BY DEF ConnInv, GoodConn
<1>2. a \in {"error", "default", "ok", "fee"}
  BY DEF GoodAnswer
<1>3. Answered(c, answer) =
         [conn[c] EXCEPT !.pc = "write", !.timer = "armed", !.req = None,
                         !.answer = a]
  BY DEF Answered
<1> HIDE DEF a
<1>4. GoodConn(Answered(c, answer))
  BY <1>1, <1>2, <1>3 DEF GoodConn, Connection, Timer
<1>5. ASSUME NEW ring \in SUBSET Output, Whole(ring)
      PROVE  GoodConn([Answered(c, answer) EXCEPT !.ring = ring])
  BY <1>4, <1>5 DEF GoodConn, Connection
<1> QED
  BY <1>4, <1>5

\* A number of connections are answered.
LEMMA AnswerAllGood ==
    ASSUME ConnInv, NEW answers, AnswerAll(answers),
           \A c \in DOMAIN answers : answers[c] \in GoodAnswer
    PROVE  ConnInv'
<1>1. \A c \in Conn : conn'[c] = IF c \in DOMAIN answers
                                   THEN Answered(c, answers[c]) ELSE conn[c]
  BY DEF AnswerAll
<1>2. ASSUME NEW c \in Conn PROVE GoodConn(conn'[c])
  <2>1. CASE c \in DOMAIN answers
    BY <1>1, <2>1, AnsweredGood
  <2>2. CASE c \notin DOMAIN answers
    BY <1>1, <2>2 DEF ConnInv
  <2> QED
    BY <2>1, <2>2
<1>3. conn' = [c \in Conn |-> conn'[c]]
  BY DEF AnswerAll
<1> QED
  BY <1>2, <1>3 DEF ConnInv, GoodConn

\* The steps of one connection alone.
LEMMA ConnStepsGood ==
    ASSUME ConnInv, NEW c \in Conn,
           \/ Accept(c) \/ Handshaken(c) \/ Written(c) \/ ReadLate(c)
           \/ Disconnect(c) \/ ConnTimerExpires(c) \/ ConnOnTimeout(c)
    PROVE  ConnInv'
<1>1. GoodConn(conn[c]) /\ conn \in [Conn -> Connection]
  BY DEF ConnInv
<1>2. Shutdown(c) => ConnInv'
  BY ConnSet, ClosedGood DEF Shutdown
<1>3. ReadRequest(c) => ConnInv'
  BY <1>2, ConnSet, ClosedGood DEF ReadRequest
<1>4. CASE Accept(c)
  <2>1. PICK pc \in {"handshake", "read"} :
           conn' = [conn EXCEPT ![c].pc = pc, ![c].timer = "armed"]
    BY <1>4 DEF Accept
  <2>2. conn' = [conn EXCEPT ![c] = [conn[c] EXCEPT !.pc = pc, !.timer = "armed"]]
    BY <1>1, <2>1 DEF Connection
  <2> QED
    BY <1>1, <2>2, ConnSet, MovedGood
<1>5. CASE ConnTimerExpires(c)
  <2>1. conn' = [conn EXCEPT ![c] = [conn[c] EXCEPT !.timer = "fired"]]
    BY <1>1, <1>5 DEF ConnTimerExpires, Connection
  <2> QED
    BY <1>1, <2>1, ConnSet, MovedGood
<1> QED
  BY <1>2, <1>3, <1>4, <1>5
     DEF Handshaken, Written, ReadLate, Disconnect, ConnOnTimeout

\* The requests of the endpoints with arguments.
LEMMA RequestTypes ==
    /\ [target |-> "daemon_status"] \in Request
    /\ [target |-> "get_unspent_outs"] \in Request
    /\ \A r \in Request : r.target = "get_random_outs" =>
          [target |-> "get_random_outs", amounts |-> r.amounts] \in Request
    /\ \A r \in Request : r.target = "submit_raw_tx" =>
          [target |-> "submit_raw_tx", valid |-> r.valid,
           size |-> r.size] \in Request
  BY DEF Request, Rings

\* A request is answered at once, with an answer that is made of something;
ReceiveAnswers(c) ==
    /\ frame' = frame /\ (pool' = pool \/ pool' = PoolLeft)
    /\ \/ \E a \in GoodAnswer : conn' = [conn EXCEPT ![c] = Answered(c, a)]
       \/ Shutdown(c)

\* or it waits for a frame.
ReceiveWaits(c, e, r) ==
    /\ JoinFrame(c, e) \/ StartFrame(c, e)
    /\ Waits(c, r) /\ r.target = e

\* What a request does.
LEMMA ReceiveEffect ==
    ASSUME CacheType, NEW c \in Conn, Receive(c)
    PROVE  /\ Accepts(c)
           /\ \/ ReceiveAnswers(c)
              \/ \E e \in Endpoint : \E r \in Request : ReceiveWaits(c, e, r)
<1>1. PICK r \in Request :
         \/ AnswerSync(c, r)
         \/ NoClient(c, r)
         \/ r.target = "daemon_status" /\ DaemonStatus(c)
         \/ r.target = "get_unspent_outs" /\ GetUnspentOuts(c)
         \/ r.target = "get_random_outs" /\ GetRandomOuts(c, r.amounts)
         \/ r.target = "submit_raw_tx" /\ SubmitRawTx(c, r.valid, r.size)
  BY DEF Receive
<1>2. CASE AnswerSync(c, r)
  <2>1. {"unknown", "unimplemented", "oversized", "bad_verb", "ok", "feed"}
           \subseteq GoodAnswer
    BY DEF GoodAnswer, Error
  <2> QED
    BY <1>2, <2>1 DEF AnswerSync, AnswerNow, ReceiveAnswers
<1>3. CASE NoClient(c, r)
  <2>1. "no_socket" \in GoodAnswer
    BY DEF GoodAnswer, Error
  <2> QED
    BY <1>3, <2>1 DEF NoClient, AnswerNow, ReceiveAnswers
<1>4. CASE r.target = "daemon_status" /\ DaemonStatus(c)
  <2>1. cache["daemon_status"].result \in GoodAnswer /\ "load" \in GoodAnswer
    BY DEF CacheType, GoodAnswer, Error
  <2>2. CASE \E a \in GoodAnswer : AnswerNow(c, a)
    BY <1>4, <2>2 DEF DaemonStatus, AnswerNow, ReceiveAnswers
  <2>3. CASE /\ JoinFrame(c, "daemon_status") \/ StartFrame(c, "daemon_status")
             /\ Waits(c, [target |-> "daemon_status"])
    BY <1>4, <2>3, Endpoints, RequestTypes DEF DaemonStatus, ReceiveWaits
  <2> QED
    BY <1>4, <2>1, <2>2, <2>3 DEF DaemonStatus, JoinFrame, StartFrame
<1>5. CASE r.target = "get_unspent_outs" /\ GetUnspentOuts(c)
  <2>1. "load" \in GoodAnswer
        /\ Generate(cache["get_unspent_outs"].result) \subseteq GoodAnswer
    BY DEF CacheType, GoodAnswer, Error, Generate
  <2>2. CASE \E a \in GoodAnswer : AnswerNow(c, a)
    BY <1>5, <2>2 DEF GetUnspentOuts, AnswerNow, ReceiveAnswers
  <2>3. CASE /\ \/ JoinFrame(c, "get_unspent_outs")
                \/ StartFrame(c, "get_unspent_outs")
             /\ Waits(c, [target |-> "get_unspent_outs"])
    BY <1>5, <2>3, Endpoints, RequestTypes DEF GetUnspentOuts, ReceiveWaits
  <2> QED
    BY <1>5, <2>1, <2>2, <2>3 DEF GetUnspentOuts, JoinFrame, StartFrame
<1>6. CASE r.target = "get_random_outs" /\ GetRandomOuts(c, r.amounts)
  <2> DEFINE q == [target |-> "get_random_outs", amounts |-> r.amounts]
  <2>1. "load" \in GoodAnswer /\ "exceeded_limit" \in GoodAnswer
    BY DEF GoodAnswer, Error
  <2>2. CASE \E a \in GoodAnswer : AnswerNow(c, a)
    BY <1>6, <2>2 DEF GetRandomOuts, AnswerNow, ReceiveAnswers
  <2>3. CASE /\ \/ JoinFrame(c, "get_random_outs")
                \/ StartFrame(c, "get_random_outs")
             /\ Waits(c, q)
    <3>1. q \in Request /\ q.target = "get_random_outs"
      BY <1>6, RequestTypes
    <3>2. Accepts(c)
      BY <1>6 DEF GetRandomOuts
    <3> HIDE DEF q
    <3> QED
      BY <2>3, <3>1, <3>2, Endpoints DEF ReceiveWaits
  <2> QED
    BY <1>6, <2>1, <2>2, <2>3 DEF GetRandomOuts, JoinFrame, StartFrame
<1>7. CASE r.target = "submit_raw_tx" /\ SubmitRawTx(c, r.valid, r.size)
  <2> DEFINE q == [target |-> "submit_raw_tx", valid |-> r.valid, size |-> r.size]
  <2>0. Accepts(c)
    BY <1>7 DEF SubmitRawTx
  <2>1. "load" \in GoodAnswer /\ "bad_client_tx" \in GoodAnswer
    BY DEF GoodAnswer, Error
  <2>2. CASE ReceiveAnswers(c)
    BY <2>0, <2>2
  <2>3. CASE /\ JoinFrame(c, "submit_raw_tx") \/ StartFrame(c, "submit_raw_tx")
             /\ Waits(c, q)
    <3>1. q \in Request /\ q.target = "submit_raw_tx"
      BY <1>7, RequestTypes
    <3> HIDE DEF q
    <3> QED
      BY <2>0, <2>3, <3>1, Endpoints DEF ReceiveWaits
  <2> HIDE DEF q
  <2> QED
    BY <1>7, <2>1, <2>2, <2>3
       DEF SubmitRawTx, AnswerNow, JoinFrame, StartFrame, ReceiveAnswers, q
<1> QED
  BY <1>1, <1>2, <1>3, <1>4, <1>5, <1>6, <1>7

\* A request keeps the connections good.
LEMMA ReceiveConn ==
    ASSUME ConnInv, CacheType, NEW c \in Conn, Receive(c)
    PROVE  ConnInv'
<1>1. CASE ReceiveAnswers(c)
  BY <1>1, ConnSet, AnsweredGood, ClosedGood DEF ReceiveAnswers, Shutdown
<1>2. ASSUME NEW e \in Endpoint, NEW r \in Request, ReceiveWaits(c, e, r)
      PROVE  ConnInv'
  <2>1. conn' = [conn EXCEPT ![c] =
                    [conn[c] EXCEPT !.pc = "run", !.timer = "off", !.req = r]]
    BY <1>2 DEF ReceiveWaits, Waits, ConnInv, Connection
  <2> QED
    BY <2>1, ConnSet, MovedGood DEF ConnInv
<1> QED
  BY <1>1, <1>2, ReceiveEffect

\* Every step keeps the frames and the pool good.
LEMMA SocketStep ==
    ASSUME SocketInv, AnswerInv, [Next]_vars
    PROVE  SocketInv'
<1>0. ConnType
  BY DEF AnswerInv, ConnInv, ConnType
<1>1. CASE Resume
  <2>1. PICK e \in Endpoint : CoKeep(e) \/ CoServe(e) \/ CoDrop(e)
    BY <1>0, <1>1, ResumeStep
  <2>2. \E g : FrameSet(e, g)
    BY <2>1 DEF CoKeep, CoServe, CoDrop
  <2>3. PoolStep
    BY <2>1 DEF CoKeep, CoServe, CoDrop, PoolStep
  <2> QED
    BY <2>2, <2>3, SocketsKept
<1>2. ASSUME NEW e \in Endpoint,
             ZmqWrite(e) \/ ZmqRead(e) \/ ZmqError(e) \/ TimerExpires(e)
                \/ OnTimeout(e)
      PROVE  SocketInv'
  <2>1. CoKeep(e)
    BY <1>2, IoSteps
  <2> QED
    BY <2>1, SocketsKept DEF CoKeep, PoolStep
<1>3. ASSUME NEW e \in Shared, CacheExpires(e)
      PROVE  SocketInv'
  BY <1>3, SocketsKept DEF CacheExpires, PoolStep
<1>4. ASSUME NEW c \in Conn, Receive(c)
      PROVE  SocketInv'
  <2>1. CASE ReceiveAnswers(c)
    BY <2>1, SocketsKept DEF PoolStep, ReceiveAnswers
  <2>2. ASSUME NEW e \in Endpoint, NEW r, ReceiveWaits(c, e, r)
        PROVE  SocketInv'
    BY <2>2, JoinSockets, StartSockets, SocketsKept DEF ReceiveWaits
  <2> QED
    BY <1>4, <2>1, <2>2, ReceiveEffect DEF AnswerInv
<1>5. ASSUME NEW c \in Conn,
             \/ Accept(c) \/ Handshaken(c) \/ Written(c) \/ ReadLate(c)
             \/ Disconnect(c) \/ ConnTimerExpires(c) \/ ConnOnTimeout(c)
      PROVE  SocketInv'
  BY <1>5, ConnSteps, SocketsKept DEF PoolStep
<1>6. CASE UNCHANGED vars
  BY <1>6, SocketsKept DEF vars, work, PoolStep
<1> QED
  BY <1>1, <1>2, <1>3, <1>4, <1>5, <1>6 DEF Next

\* The coroutines keep the connections good.
LEMMA ResumeConn ==
    ASSUME SocketInv, ConnInv, PickInv, Resume
    PROVE  ConnInv'
<1>1. CASE conn' = conn
  BY <1>1 DEF ConnInv
<1>2. CASE DaemonStatusResume
  <2>1. {"default", "ok", "none"} \subseteq GoodAnswer
    BY DEF GoodAnswer, Error
  <2>2. ASSUME NEW f, NEW error, NEW value \in {"default", "ok", "none"},
               DaemonStatusSend(f, error, value)
        PROVE  ConnInv'
    BY <2>1, <2>2, AnswerAllGood DEF DaemonStatusSend
  <2> QED
    BY <1>1, <1>2, <2>2 DEF DaemonStatusResume
<1>3. CASE GetUnspentOutsResume
  <2>1. \A fee \in {"fee", "no_fee", "none"} : Generate(fee) \subseteq GoodAnswer
    BY DEF GoodAnswer, Error, Generate
  <2>2. ASSUME NEW f, NEW error, NEW fee \in {"fee", "no_fee", "none"},
               GetUnspentOutsSend(f, error, fee)
        PROVE  ConnInv'
    <3>1. PICK answers \in [Waiting("get_unspent_outs") -> Generate(fee)] :
             AnswerAll(answers)
      BY <2>2 DEF GetUnspentOutsSend
    <3>2. \A c \in DOMAIN answers : answers[c] \in GoodAnswer
      BY <2>1
    <3> QED
      BY <3>1, <3>2, AnswerAllGood
  <2> QED
    BY <1>1, <1>3, <2>2 DEF GetUnspentOutsResume
<1>4. ASSUME NEW answer \in GoodAnswer, RandomOutsFail(answer)
      PROVE  ConnInv'
  BY <1>4, AnswerAllGood DEF RandomOutsFail
<1>5. ASSUME NEW f \in Frame, f.queue # <<>>, NEW ring \in SUBSET Output,
             Whole(ring), RandomOutsSend(f, ring)
      PROVE  ConnInv'
  <2>1. Head(f.queue) \in Conn
    BY <1>5 DEF Frame
  <2>2. "ok" \in GoodAnswer
    BY DEF GoodAnswer
  <2> QED
    BY <1>5, <2>1, <2>2, ConnSet, AnsweredGood DEF RandomOutsSend
<1>6. {"daemon_timeout", "bad_daemon_response", "not_enough_mixin"}
         \subseteq GoodAnswer
  BY DEF GoodAnswer, Error
<1>7. CASE RandomOutsNext
  BY <1>1, <1>7 DEF RandomOutsNext
<1>8. CASE RandomOutsCall
  BY <1>1, <1>4, <1>6, <1>8 DEF RandomOutsCall
<1> DEFINE e == "get_random_outs" f == frame[e]
<1>9. f # None => GoodFrame(e, f)
  BY FrameIsGood, Endpoints
<1>10. CASE PickProposal
  <2>1. CASE RandomOutsSend(f, {})
    <3>1. f \in Frame /\ f.queue # <<>>
      BY <1>9, <1>10 DEF PickProposal, GoodFrame, FrameInv
    <3>2. Whole({})
      BY DEF Whole
    <3> QED
      BY <1>5, <2>1, <3>1, <3>2
  <2> QED
    BY <1>1, <1>4, <1>6, <1>10, <2>1 DEF PickProposal
<1>11. CASE PickKeys
  <2> DEFINE ring == pick.ring \cup (pick.proposed \ Locked)
  <2>1. HasRead(f) /\ f # None
    BY <1>11 DEF PickKeys
  <2>2. Cancelled(f) \in Frame /\ Cancelled(f).queue # <<>>
    BY <1>9, <2>1, FrameOps, Endpoints DEF GoodFrame
  <2>3. CASE RingDone /\ RandomOutsSend(Cancelled(f), ring)
    <3>1. ring = pick.ring \cup pick.proposed
      BY <2>3 DEF RingDone
    <3>2. ring \in SUBSET Output /\ ring \cap Locked = {}
      BY DEF PickInv
    <3>3. Cardinality(ring) = Mixin
      <4>1. IsFiniteSet(ring)
        BY <3>2, LimitAssumption, FS_Subset
      <4>2. Cardinality(ring) \in Nat
        BY <4>1, FS_CardinalityType
      <4>3. Cardinality(pick.ring \cup pick.proposed) >= Mixin
        BY <2>3 DEF RingDone
      <4>4. Cardinality(pick.ring \cup pick.proposed) <= Mixin
        BY DEF PickInv
      <4>5. Cardinality(ring) >= Mixin /\ Cardinality(ring) <= Mixin
        BY <3>1, <4>3, <4>4
      <4> HIDE DEF ring
      <4> QED
        BY <4>2, <4>5, LimitAssumption
    <3>4. Whole(ring)
      BY <3>2, <3>3 DEF Whole
    <3> HIDE DEF ring
    <3> QED
      BY <1>5, <2>2, <2>3, <3>2, <3>4
  <2> QED
    BY <1>1, <1>11, <2>3 DEF PickKeys
<1>12. CASE SubmitNext
  BY <1>1, <1>12 DEF SubmitNext
<1>13. CASE SubmitResume
  <2>1. {"ok", "rejected", "bad_daemon_response", "daemon_timeout"}
           \subseteq GoodAnswer
    BY DEF GoodAnswer, Error
  <2>2. CASE SubmitFail
    BY <2>1, <2>2, AnswerAllGood DEF SubmitFail
  <2>3. ASSUME NEW k, NEW answer \in {"ok", "rejected", "bad_daemon_response"},
               SubmitSend(k, answer)
        PROVE  ConnInv'
    BY <2>1, <2>3, AnswerAllGood DEF SubmitSend
  <2> QED
    BY <1>1, <1>13, <2>2, <2>3 DEF SubmitResume
<1> QED
  BY <1>2, <1>3, <1>7, <1>8, <1>10, <1>11, <1>12, <1>13 DEF Resume

\* A step of the selection keeps the ring within its bounds.
LEMMA PickStep ==
    ASSUME SocketInv, PickInv, [Next]_vars
    PROVE  PickInv'
<1>1. IsFiniteSet(Output) /\ Mixin \in Nat /\ PickTries \in Nat
  BY LimitAssumption
<1>2. pick' = pick => PickInv'
  BY DEF PickInv
<1>3. ASSUME NEW dist \in BOOLEAN,
             pick' = [dist |-> dist, ring |-> {}, proposed |-> {}, tries |-> 0]
      PROVE  PickInv'
  <2>1. /\ pick' \in [dist : BOOLEAN, ring : SUBSET Output,
                      proposed : SUBSET Output, tries : 0..PickTries]
        /\ pick'.ring = {} /\ pick'.proposed = {}
    BY <1>1, <1>3
  <2>2. Cardinality(pick'.ring \cup pick'.proposed) = 0
    BY <2>1, FS_EmptySet
  <2> QED
    BY <1>1, <2>1, <2>2 DEF PickInv
<1>4. pick' = NoPick => PickInv'
  BY <1>3 DEF NoPick
<1>5. CASE RandomOutsNext
  <2>1. pick.dist \in BOOLEAN
    BY DEF PickInv
  <2>2. \A dist : [NoPick EXCEPT !.dist = dist] =
            [dist |-> dist, ring |-> {}, proposed |-> {}, tries |-> 0]
    BY DEF NoPick
  <2> QED
    BY <1>3, <1>4, <1>5, <2>1, <2>2 DEF RandomOutsNext
<1>6. CASE RandomOutsCall
  <2>1. CASE pick' = [pick EXCEPT !.dist = TRUE]
    BY <2>1 DEF PickInv
  <2> QED
    BY <1>2, <1>6, <2>1 DEF RandomOutsCall, RandomOutsFail
<1>7. CASE PickProposal
  <2>1. ASSUME ~Exhausted, NEW new \in SUBSET (Output \ pick.ring),
               Cardinality(new) <= Mixin - Cardinality(pick.ring),
               pick' = [pick EXCEPT !.proposed = new, !.tries = @ + 1]
        PROVE  PickInv'
    <3>1. /\ pick.ring \in SUBSET Output /\ pick.proposed \in SUBSET Output
          /\ pick.tries \in 0..PickTries
      BY DEF PickInv
    <3>2. IsFiniteSet(pick.ring) /\ IsFiniteSet(new)
      BY <1>1, <3>1, FS_Subset
    <3>3. Cardinality(pick.ring) \in Nat /\ Cardinality(new) \in Nat
      BY <3>2, FS_CardinalityType
    <3>4. pick.ring \cap new = {}
      OBVIOUS
    <3>5. Cardinality(pick.ring \cup new) = Cardinality(pick.ring) + Cardinality(new)
      <4>1. Cardinality(pick.ring \cup new) =
              Cardinality(pick.ring) + Cardinality(new) - Cardinality(pick.ring \cap new)
        BY <3>2, FS_Union
      <4>2. Cardinality(pick.ring \cap new) = 0
        BY <3>4, FS_EmptySet
      <4> QED
        BY <3>3, <4>1, <4>2
    <3>6. Cardinality(pick.ring \cup new) <= Mixin
      BY <1>1, <2>1, <3>3, <3>5
    <3>7. pick.tries + 1 \in 0..PickTries
      BY <1>1, <2>1, <3>1 DEF Exhausted
    <3>8. /\ pick' \in [dist : BOOLEAN, ring : SUBSET Output,
                        proposed : SUBSET Output, tries : 0..PickTries]
          /\ pick'.ring = pick.ring /\ pick'.proposed = new
      BY <2>1, <3>7 DEF PickInv
    <3> QED
      BY <3>6, <3>8 DEF PickInv
  <2> QED
    BY <1>2, <1>7, <2>1 DEF PickProposal, RandomOutsFail
<1>8. CASE PickKeys
  <2> DEFINE ring == pick.ring \cup (pick.proposed \ Locked)
  <2>1. CASE pick' = [pick EXCEPT !.ring = ring, !.proposed = {}]
    <3>1. /\ pick' \in [dist : BOOLEAN, ring : SUBSET Output,
                        proposed : SUBSET Output, tries : 0..PickTries]
          /\ pick'.ring = ring /\ pick'.proposed = {}
      BY <2>1 DEF PickInv
    <3>2. ring \cap Locked = {}
      BY DEF PickInv
    <3>3. IsFiniteSet(pick.ring \cup pick.proposed)
      BY <1>1, FS_Subset DEF PickInv
    <3>4. ring \cup {} \in SUBSET (pick.ring \cup pick.proposed)
      OBVIOUS
    <3>5. /\ Cardinality(ring \cup {}) <= Cardinality(pick.ring \cup pick.proposed)
          /\ IsFiniteSet(ring \cup {})
      BY <3>3, <3>4, FS_Subset
    <3>6. Cardinality(ring \cup {}) \in Nat
          /\ Cardinality(pick.ring \cup pick.proposed) \in Nat
      BY <3>3, <3>5, FS_CardinalityType
    <3>7. Cardinality(ring \cup {}) <= Mixin
      BY <1>1, <3>5, <3>6 DEF PickInv
    <3> HIDE DEF ring
    <3> QED
      BY <3>1, <3>2, <3>7 DEF PickInv
  <2> QED
    BY <1>2, <1>8, <2>1 DEF PickKeys
<1>9. CASE DaemonStatusResume \/ GetUnspentOutsResume \/ SubmitNext \/ SubmitResume
  BY <1>2, <1>9 DEF DaemonStatusResume, GetUnspentOutsResume, SubmitNext,
                    SubmitResume
<1>10. ASSUME NEW e, \/ ZmqWrite(e) \/ ZmqRead(e) \/ ZmqError(e)
                     \/ TimerExpires(e) \/ OnTimeout(e) \/ CacheExpires(e)
       PROVE  PickInv'
  BY <1>2, <1>10 DEF ZmqWrite, ZmqRead, ZmqError, TimerExpires, OnTimeout,
                     CacheExpires
<1>11. ASSUME NEW c \in Conn, Receive(c)
       PROVE  PickInv'
  <2>1. pick' = pick \/ pick' = NoPick
    BY <1>11 DEF Receive, AnswerSync, NoClient, AnswerNow, DaemonStatus,
                 GetUnspentOuts, GetRandomOuts, SubmitRawTx
  <2> QED
    BY <1>2, <1>4, <2>1
<1>12. ASSUME NEW c \in Conn,
              \/ Accept(c) \/ Handshaken(c) \/ Written(c) \/ ReadLate(c)
              \/ Disconnect(c) \/ ConnTimerExpires(c) \/ ConnOnTimeout(c)
       PROVE  PickInv'
  BY <1>2, <1>12, ConnSteps
<1>13. CASE UNCHANGED vars
  BY <1>2, <1>13 DEF vars, work
<1> QED
  BY <1>5, <1>6, <1>7, <1>8, <1>9, <1>10, <1>11, <1>12, <1>13 DEF Next, Resume

\* The cached results are always of their kinds.
LEMMA CacheStep ==
    ASSUME CacheType, [Next]_vars
    PROVE  CacheType'
<1>1. cache' = cache => CacheType'
  BY DEF CacheType
<1> DEFINE Daemon == [result : {"none", "default", "ok"}, fresh : BOOLEAN]
           Fee == [result : {"no_fee", "fee"}, fresh : BOOLEAN]
<1>2. cache["daemon_status"] \in Daemon /\ cache["get_unspent_outs"] \in Fee
  BY DEF CacheType
<1>3. ASSUME NEW d \in Daemon, cache' = [cache EXCEPT !["daemon_status"] = d]
      PROVE  CacheType'
  BY <1>3 DEF CacheType
<1>4. ASSUME NEW f \in Fee, cache' = [cache EXCEPT !["get_unspent_outs"] = f]
      PROVE  CacheType'
  BY <1>4 DEF CacheType
<1>5. ASSUME NEW c, DaemonStatus(c)
      PROVE  CacheType'
  <2>1. CASE cache' = [cache EXCEPT !["daemon_status"].result = "none"]
    <3>1. cache' = [cache EXCEPT !["daemon_status"] =
                       [cache["daemon_status"] EXCEPT !.result = "none"]]
      BY <2>1 DEF CacheType
    <3>2. [cache["daemon_status"] EXCEPT !.result = "none"] \in Daemon
      BY <1>2
    <3> QED
      BY <1>3, <3>1, <3>2
  <2> QED
    BY <1>1, <1>5, <2>1 DEF DaemonStatus
<1>6. ASSUME NEW c, GetUnspentOuts(c)
      PROVE  CacheType'
  <2>1. CASE cache' = [cache EXCEPT !["get_unspent_outs"].result = "no_fee"]
    <3>1. cache' = [cache EXCEPT !["get_unspent_outs"] =
                       [cache["get_unspent_outs"] EXCEPT !.result = "no_fee"]]
      BY <2>1 DEF CacheType
    <3>2. [cache["get_unspent_outs"] EXCEPT !.result = "no_fee"] \in Fee
      BY <1>2
    <3> QED
      BY <1>4, <3>1, <3>2
  <2> QED
    BY <1>1, <1>6, <2>1 DEF GetUnspentOuts
<1>7. ASSUME NEW c, Receive(c)
      PROVE  CacheType'
  <2>1. CASE DaemonStatus(c) \/ GetUnspentOuts(c)
    BY <1>5, <1>6, <2>1
  <2>2. CASE ~(DaemonStatus(c) \/ GetUnspentOuts(c))
    BY <1>1, <1>7, <2>2 DEF Receive, AnswerSync, NoClient, GetRandomOuts,
                            SubmitRawTx
  <2> QED
    BY <2>1, <2>2
<1>8. CASE DaemonStatusResume
  <2>1. ASSUME NEW f, NEW error, NEW value \in {"default", "ok", "none"},
               DaemonStatusSend(f, error, value)
        PROVE  CacheType'
    <3> DEFINE fresh == value # "none" \/ cache["daemon_status"].fresh
    <3>1. [result |-> value, fresh |-> fresh] \in Daemon
      <4>1. fresh \in BOOLEAN
        BY <1>2
      <4> HIDE DEF fresh
      <4> QED
        BY <4>1
    <3>2. cache' = [cache EXCEPT !["daemon_status"] =
                       [result |-> value, fresh |-> fresh]]
      BY <2>1 DEF DaemonStatusSend
    <3> HIDE DEF fresh
    <3> QED
      BY <1>3, <3>1, <3>2
  <2> QED
    BY <1>1, <1>8, <2>1 DEF DaemonStatusResume
<1>9. CASE GetUnspentOutsResume
  <2>1. ASSUME NEW f, NEW error, NEW fee \in {"fee", "no_fee", "none"},
               GetUnspentOutsSend(f, error, fee)
        PROVE  CacheType'
    <3> DEFINE was == cache["get_unspent_outs"]
               new == IF fee = "none" THEN [was EXCEPT !.result = "no_fee"]
                                      ELSE [result |-> fee, fresh |-> TRUE]
    <3>1. new \in Fee
      BY <1>2
    <3>2. cache' = [cache EXCEPT !["get_unspent_outs"] = new]
      BY <2>1 DEF GetUnspentOutsSend
    <3> HIDE DEF new
    <3> QED
      BY <1>4, <3>1, <3>2
  <2> QED
    BY <1>1, <1>9, <2>1 DEF GetUnspentOutsResume
<1>10. ASSUME NEW e \in Shared, CacheExpires(e)
       PROVE  CacheType'
  BY <1>2, <1>10 DEF CacheExpires, Shared, CacheType
<1>11. CASE RandomOutsNext \/ RandomOutsCall \/ PickProposal \/ PickKeys
            \/ SubmitNext \/ SubmitResume
  BY <1>1, <1>11 DEF RandomOutsNext, RandomOutsCall, PickProposal, PickKeys,
                     SubmitNext, SubmitResume
<1>12. ASSUME NEW e, \/ ZmqWrite(e) \/ ZmqRead(e) \/ ZmqError(e)
                     \/ TimerExpires(e) \/ OnTimeout(e)
       PROVE  CacheType'
  BY <1>1, <1>12 DEF ZmqWrite, ZmqRead, ZmqError, TimerExpires, OnTimeout
<1>13. ASSUME NEW c \in Conn,
              \/ Accept(c) \/ Handshaken(c) \/ Written(c) \/ ReadLate(c)
              \/ Disconnect(c) \/ ConnTimerExpires(c) \/ ConnOnTimeout(c)
       PROVE  CacheType'
  BY <1>1, <1>13, ConnSteps
<1>14. CASE UNCHANGED vars
  BY <1>1, <1>14 DEF vars, work
<1> QED
  BY <1>7, <1>8, <1>9, <1>10, <1>11, <1>12, <1>13, <1>14 DEF Next, Resume

\* Every step keeps the answers whole.
LEMMA AnswerStep ==
    ASSUME SocketInv, AnswerInv, [Next]_vars
    PROVE  AnswerInv'
<1>1. ConnInv /\ CacheType /\ PickInv
  BY DEF AnswerInv
<1>2. CacheType' /\ PickInv'
  BY <1>1, CacheStep, PickStep
<1>3. conn' = conn => ConnInv'
  BY <1>1 DEF ConnInv
<1>4. CASE Resume
  BY <1>1, <1>2, <1>4, ResumeConn DEF AnswerInv
<1>5. ASSUME NEW e, \/ ZmqWrite(e) \/ ZmqRead(e) \/ ZmqError(e)
                    \/ TimerExpires(e) \/ OnTimeout(e) \/ CacheExpires(e)
      PROVE  AnswerInv'
  BY <1>2, <1>3, <1>5 DEF ZmqWrite, ZmqRead, ZmqError, TimerExpires,
                          OnTimeout, CacheExpires, AnswerInv
<1>6. ASSUME NEW c \in Conn, Receive(c)
      PROVE  AnswerInv'
  BY <1>1, <1>2, <1>6, ReceiveConn DEF AnswerInv
<1>7. ASSUME NEW c \in Conn,
             \/ Accept(c) \/ Handshaken(c) \/ Written(c) \/ ReadLate(c)
             \/ Disconnect(c) \/ ConnTimerExpires(c) \/ ConnOnTimeout(c)
      PROVE  AnswerInv'
  BY <1>1, <1>2, <1>7, ConnStepsGood DEF AnswerInv
<1>8. CASE UNCHANGED vars
  BY <1>2, <1>3, <1>8 DEF vars, work, AnswerInv
<1> QED
  BY <1>4, <1>5, <1>6, <1>7, <1>8 DEF Next

\* Both invariants hold at the start.
LEMMA InitServer ==
    ASSUME Init
    PROVE  SocketInv /\ AnswerInv
<1>1. SocketInv
  BY DEF Init, SocketInv, PoolUsable
<1>2. ConnInv
  BY ClosedGood DEF Init, ConnInv, GoodConn
<1>3. CacheType
  BY DEF Init, CacheType
<1>4. PickInv
  <2>1. Cardinality(pick.ring \cup pick.proposed) = 0
    BY FS_EmptySet DEF Init, NoPick
  <2> QED
    BY <2>1, LimitAssumption DEF Init, NoPick, PickInv
<1> QED
  BY <1>1, <1>2, <1>3, <1>4 DEF AnswerInv

\* Both invariants hold throughout.
LEMMA ServerInvariant == Spec => [](SocketInv /\ AnswerInv)
<1>1. Init => SocketInv /\ AnswerInv
  BY InitServer
<1>2. SocketInv /\ AnswerInv /\ [Next]_vars => (SocketInv /\ AnswerInv)'
  BY SocketStep, AnswerStep
<1> QED
  BY <1>1, <1>2, PTL DEF Spec

\* Whatever races there are between the timers and the I/O of the four
\* coroutines, a socket that is given back can be used.
THEOREM PoolIsUsable == Spec => []PoolUsable
<1>1. SocketInv => PoolUsable
  BY DEF SocketInv
<1> QED
  BY <1>1, ServerInvariant, PTL

\* No answer is made from a cached response that was never filled, and every
\* ring that is answered is full and unlocked.
THEOREM AnswersWhole == Spec => []AnswersAreWhole
<1>1. AnswerInv => AnswersAreWhole
  BY DEF AnswerInv, ConnInv, GoodConn, Whole, AnswersAreWhole, FeesAreReal,
         RingsAreFull
<1> QED
  BY <1>1, ServerInvariant, PTL

-----------------------------------------------------------------------------
(* Queues *)

\* Connection c is at position i of the queue of endpoint e.
At(e, i, c) ==
    /\ e \in Endpoint /\ frame[e] # None
    /\ i \in DOMAIN frame[e].queue /\ frame[e].queue[i] = c

\* Those who run are those who wait in a queue, and they wait once.
Awaited ==
    /\ \A c \in Conn : conn[c].pc = "run" <=> \E e, i : At(e, i, c)
    /\ \A c, e, i, d, j : At(e, i, c) /\ At(d, j, c) => e = d /\ i = j

\* The inductive invariant behind AwaitedOnce.  While a connection waits it
\* has no timer, so that nothing but its resumer moves it.
WaitInv ==
    /\ Awaited
    /\ \A c \in Conn : conn[c].pc = "run" => conn[c].timer = "off"

\* WaitInv is what AwaitedOnce says.
LEMMA WaitImplies ==
    ASSUME SocketInv, WaitInv
    PROVE  AwaitedOnce
<1>1. \A c \in Conn :
         conn[c].pc = "run" <=>
            \E e \in Endpoint : frame[e] # None /\ c \in Waiting(e)
  <2>1. ASSUME NEW c \in Conn
        PROVE  (\E e, i : At(e, i, c)) <=>
                  \E e \in Endpoint : frame[e] # None /\ c \in Waiting(e)
    BY DEF At, Waiting
  <2> QED
    BY <2>1 DEF WaitInv, Awaited
<1>2. \A e, d \in Endpoint : frame[e] # None /\ frame[d] # None =>
         \A i \in DOMAIN frame[e].queue, j \in DOMAIN frame[d].queue :
            frame[e].queue[i] = frame[d].queue[j] => e = d /\ i = j
  BY DEF WaitInv, Awaited, At
<1>3. \A e \in Serial :
         frame[e] # None /\ frame[e].pc # "start" => frame[e].queue # <<>>
  BY Endpoints DEF SocketInv, FrameInv
<1> QED
  BY <1>1, <1>2, <1>3 DEF AwaitedOnce

\* Steps that leave the queues and those who wait alone.
LEMMA WaitKept ==
    ASSUME WaitInv,
           \A e, i, c : At(e, i, c)' <=> At(e, i, c),
           \A c \in Conn : /\ conn'[c].pc = "run" <=> conn[c].pc = "run"
                           /\ conn'[c].pc = "run" => conn'[c].timer = "off"
    PROVE  WaitInv'
<1>1. ASSUME NEW c \in Conn
      PROVE  conn'[c].pc = "run" <=> \E e, i : At(e, i, c)'
  BY DEF WaitInv, Awaited
<1>2. ASSUME NEW c, NEW e, NEW i, NEW d, NEW j, At(e, i, c)', At(d, j, c)'
      PROVE  e = d /\ i = j
  BY <1>2 DEF WaitInv, Awaited
<1>3. Awaited'
  BY <1>1, <1>2 DEF Awaited
<1> QED
  BY <1>3 DEF WaitInv

\* A queue is read at the same positions as long as it does not change.
LEMMA AtKept ==
    ASSUME SocketInv, NEW e \in Endpoint, NEW g, frame[e] # None,
           FrameSet(e, g), g # None, g.queue = frame[e].queue
    PROVE  \A d, i, c : At(d, i, c)' <=> At(d, i, c)
  BY DEF SocketInv, FrameSet, At

\* A coroutine goes on.
LEMMA KeepWaits ==
    ASSUME SocketInv, WaitInv, NEW e \in Endpoint, CoKeep(e)
    PROVE  WaitInv'
<1>1. \A d, i, c : At(d, i, c)' <=> At(d, i, c)
  BY AtKept DEF CoKeep
<1>2. conn' = conn
  BY DEF CoKeep
<1> QED
  BY <1>1, <1>2, WaitKept DEF WaitInv

\* A connection that does not wait moves on without waiting.
LEMMA IdleWaits ==
    ASSUME WaitInv, ConnType, frame' = frame, NEW c \in Conn, NEW g,
           conn[c].pc # "run", g.pc # "run", conn' = [conn EXCEPT ![c] = g]
    PROVE  WaitInv'
<1>1. \A d, i, k : At(d, i, k)' <=> At(d, i, k)
  BY DEF At
<1>2. \A k \in Conn : /\ conn'[k].pc = "run" <=> conn[k].pc = "run"
                      /\ conn'[k].pc = "run" => conn'[k].timer = "off"
  BY DEF ConnType, WaitInv
<1> QED
  BY <1>1, <1>2, WaitKept

\* Everyone in the queue of a frame is answered, and the frame is dropped.
LEMMA DropWaits ==
    ASSUME SocketInv, WaitInv, NEW e \in Endpoint, CoDrop(e)
    PROVE  WaitInv'
<1>1. \A d, i, c : At(d, i, c)' <=> At(d, i, c) /\ d # e
  BY DEF SocketInv, CoDrop, FrameSet, At
<1>2. \A c \in Conn : c \in Waiting(e) <=> \E i : At(e, i, c)
  BY DEF CoDrop, At, Waiting
<1>3. \A c \in Conn : IF c \in Waiting(e) THEN conn'[c].pc = "write"
                                          ELSE conn'[c] = conn[c]
  BY DEF CoDrop, ConnTo
<1>4. ASSUME NEW c \in Conn
      PROVE  conn'[c].pc = "run" <=> \E d, i : At(d, i, c)'
  <2>1. CASE c \in Waiting(e)
    <3>1. PICK i : At(e, i, c)
      BY <1>2, <2>1
    <3>2. \A d, j : At(d, j, c) => d = e
      BY <3>1 DEF WaitInv, Awaited
    <3>3. conn'[c].pc = "write"
      BY <1>3, <2>1
    <3> QED
      BY <1>1, <3>2, <3>3
  <2>2. CASE c \notin Waiting(e)
    <3>1. conn'[c] = conn[c]
      BY <1>3, <2>2
    <3>2. \A d, i : At(d, i, c)' <=> At(d, i, c)
      BY <1>1, <1>2, <2>2
    <3> QED
      BY <3>1, <3>2 DEF WaitInv, Awaited
  <2> QED
    BY <2>1, <2>2
<1>5. ASSUME NEW c, NEW d, NEW i, NEW b, NEW j, At(d, i, c)', At(b, j, c)'
      PROVE  d = b /\ i = j
  BY <1>1, <1>5 DEF WaitInv, Awaited
<1>6. \A c \in Conn : conn'[c].pc = "run" => conn'[c].timer = "off"
  BY <1>3 DEF WaitInv
<1>7. Awaited'
  BY <1>4, <1>5 DEF Awaited
<1> QED
  BY <1>6, <1>7 DEF WaitInv

\* The front of a queue is answered and leaves it; the others move up.
LEMMA ServeWaits ==
    ASSUME SocketInv, WaitInv, NEW e \in Endpoint, CoServe(e)
    PROVE  WaitInv'
<1> DEFINE q == frame[e].queue
<1>1. frame[e] # None /\ q \in Seq(Conn) /\ q # <<>> /\ Len(q) \in Nat
  BY FrameIsGood DEF CoServe, GoodFrame, Frame
<1>2. PICK g : FrameSet(e, g) /\ g # None /\ g.queue = Tail(q)
  BY DEF CoServe
<1>3. \A i, c : At(e, i, c)' <=> i \in 1..(Len(q) - 1) /\ At(e, i + 1, c)
  <2>1. frame'[e] = g
    BY <1>2 DEF SocketInv, FrameSet
  <2>2. /\ DOMAIN Tail(q) = 1..(Len(q) - 1)
        /\ \A i \in 1..(Len(q) - 1) : Tail(q)[i] = q[i + 1]
    BY <1>1
  <2>3. \A i \in 1..(Len(q) - 1) : i + 1 \in DOMAIN q
    BY <1>1
  <2> QED
    BY <1>1, <1>2, <2>1, <2>2, <2>3 DEF At
<1>4. \A d, i, c : d # e => (At(d, i, c)' <=> At(d, i, c))
  BY <1>2 DEF SocketInv, FrameSet, At
<1>0. PICK h : h = Head(q)
  OBVIOUS
<1>5. At(e, 1, h) /\ h \in Conn
  BY <1>0, <1>1 DEF At
<1>6. \A i, c : At(e, i, c) => i \in 1..Len(q)
  BY <1>1 DEF At
<1>7. \A c \in Conn : IF c = h THEN conn'[c].pc = "write"
                                ELSE conn'[c] = conn[c]
  BY <1>0 DEF CoServe, ConnTo
<1> HIDE DEF q
<1>8. \A d, i : ~At(d, i, h)'
  <2>1. \A d, i : At(d, i, h) => d = e /\ i = 1
    BY <1>5 DEF WaitInv, Awaited
  <2>2. \A d, i : d # e => ~At(d, i, h)'
    BY <1>4, <2>1
  <2>3. \A i \in 1..(Len(q) - 1) : i + 1 # 1
    BY <1>1
  <2>4. \A i : ~At(e, i, h)'
    BY <1>3, <2>1, <2>3
  <2> QED
    BY <2>2, <2>4
<1>9. ASSUME NEW c \in Conn
      PROVE  conn'[c].pc = "run" <=> \E d, i : At(d, i, c)'
  <2>1. CASE c = h
    BY <1>7, <1>8, <2>1
  <2>2. CASE c # h
    <3>1. conn'[c] = conn[c]
      BY <1>7, <2>2
    <3>2. ASSUME NEW d, NEW i, At(d, i, c)
          PROVE  \E j : At(d, j, c)'
      <4>1. CASE d # e
        BY <1>4, <3>2, <4>1
      <4>2. CASE d = e
        <5>1. i \in 1..Len(q)
          BY <1>6, <3>2, <4>2
        <5>2. i # 1
          BY <1>5, <2>2, <3>2, <4>2 DEF At
        <5>3. i - 1 \in 1..(Len(q) - 1) /\ (i - 1) + 1 = i
          BY <1>1, <5>1, <5>2
        <5>4. At(e, i - 1, c)'
          BY <1>3, <3>2, <4>2, <5>3
        <5> QED
          BY <4>2, <5>4
      <4> QED
        BY <4>1, <4>2
    <3>3. ASSUME NEW d, NEW i, At(d, i, c)'
          PROVE  \E j : At(d, j, c)
      BY <1>3, <1>4, <3>3
    <3> QED
      BY <3>1, <3>2, <3>3 DEF WaitInv, Awaited
  <2> QED
    BY <2>1, <2>2
<1>10. ASSUME NEW c, NEW d, NEW i, NEW b, NEW j, At(d, i, c)', At(b, j, c)'
       PROVE  d = b /\ i = j
  <2>1. \E k : At(d, k, c) /\ (IF d = e THEN i \in 1..(Len(q) - 1) /\ k = i + 1 ELSE k = i)
    BY <1>3, <1>4, <1>10
  <2>2. \E k : At(b, k, c) /\ (IF b = e THEN j \in 1..(Len(q) - 1) /\ k = j + 1 ELSE k = j)
    BY <1>3, <1>4, <1>10
  <2> QED
    BY <1>1, <2>1, <2>2 DEF WaitInv, Awaited
<1>11. \A c \in Conn : conn'[c].pc = "run" => conn'[c].timer = "off"
  BY <1>7 DEF WaitInv
<1>12. Awaited'
  BY <1>9, <1>10 DEF Awaited
<1> QED
  BY <1>11, <1>12 DEF WaitInv

\* A connection that does not wait enters one queue, at its end.
LEMMA JoinWaits ==
    ASSUME SocketInv, ConnType, WaitInv, NEW c \in Conn, NEW e \in Endpoint,
           NEW r, conn[c].pc # "run", ReceiveWaits(c, e, r)
    PROVE  WaitInv'
<1>1. PICK n : \A d, i, k : At(d, i, k)' <=> At(d, i, k) \/ (d = e /\ i = n /\ k = c)
  <2>1. CASE JoinFrame(c, e)
    <3> DEFINE q == frame[e].queue
    <3>1. frame[e] \in Frame /\ frame[e] # None
      BY <2>1, FrameIsGood DEF JoinFrame, GoodFrame
    <3>2. q \in Seq(Conn)
      BY <3>1 DEF Frame
    <3>3. frame' = [frame EXCEPT ![e] = [frame[e] EXCEPT !.queue = Append(q, c)]]
      BY <2>1 DEF JoinFrame, SocketInv
    <3>4. /\ frame'[e].queue = Append(q, c)
          /\ frame'[e] \in Frame
          /\ \A d \in Endpoint : d # e => frame'[d] = frame[d]
      <4>1. Append(q, c) \in Seq(Conn)
        BY <3>2
      <4>2. /\ frame'[e] = [frame[e] EXCEPT !.queue = Append(q, c)]
            /\ \A d \in Endpoint : d # e => frame'[d] = frame[d]
        BY <3>3 DEF SocketInv
      <4> HIDE DEF q
      <4> QED
        BY <3>1, <4>1, <4>2 DEF Frame
    <3>5. frame'[e] # None
      BY <3>4, NoneAssumption
    <3>6. /\ DOMAIN Append(q, c) = DOMAIN q \cup {Len(q) + 1}
          /\ \A i \in DOMAIN q : Append(q, c)[i] = q[i] /\ i # Len(q) + 1
          /\ Append(q, c)[Len(q) + 1] = c
      BY <3>2
    <3>7. PICK n : n = Len(q) + 1
      OBVIOUS
    <3> HIDE DEF q
    <3>8. \A d, i, k : At(d, i, k)' <=> At(d, i, k) \/ (d = e /\ i = n /\ k = c)
      BY <3>1, <3>4, <3>5, <3>6, <3>7 DEF At, q
    <3> QED
      BY <3>8
  <2>2. CASE StartFrame(c, e)
    <3>1. frame'[e] = NewFrame(c) /\ \A d \in Endpoint : d # e => frame'[d] = frame[d]
      BY <2>2 DEF StartFrame, SocketInv
    <3>2. NewFrame(c) # None
      BY NewFrameGood, GoodIsSome
    <3>3. NewFrame(c).queue = <<c>>
      BY DEF NewFrame
    <3>4. DOMAIN <<c>> = {1} /\ <<c>>[1] = c
      OBVIOUS
    <3>5. frame[e] = None
      BY <2>2 DEF StartFrame
    <3>6. \A d, i, k : At(d, i, k)' <=> At(d, i, k) \/ (d = e /\ i = 1 /\ k = c)
      BY <3>1, <3>2, <3>3, <3>4, <3>5 DEF At
    <3> QED
      BY <3>6
  <2> QED
    BY <2>1, <2>2 DEF ReceiveWaits
<1>2. \A d, i : ~At(d, i, c)
  BY DEF WaitInv, Awaited
<1>3. /\ conn'[c].pc = "run" /\ conn'[c].timer = "off"
      /\ \A k \in Conn : k # c => conn'[k] = conn[k]
  BY DEF ReceiveWaits, Waits, ConnType, Connection
<1>4. ASSUME NEW k \in Conn
      PROVE  conn'[k].pc = "run" <=> \E d, i : At(d, i, k)'
  <2>1. CASE k = c
    BY <1>1, <1>3, <2>1
  <2>2. CASE k # c
    <3>1. \A d, i : At(d, i, k)' <=> At(d, i, k)
      BY <1>1, <2>2
    <3>2. conn'[k] = conn[k]
      BY <1>3, <2>2
    <3> QED
      BY <3>1, <3>2 DEF WaitInv, Awaited
  <2> QED
    BY <2>1, <2>2
<1>5. ASSUME NEW k, NEW d, NEW i, NEW b, NEW j, At(d, i, k)', At(b, j, k)'
      PROVE  d = b /\ i = j
  <2>1. CASE k = c
    BY <1>1, <1>2, <1>5, <2>1
  <2>2. CASE k # c
    BY <1>1, <1>5, <2>2 DEF WaitInv, Awaited
  <2> QED
    BY <2>1, <2>2
<1>6. \A k \in Conn : conn'[k].pc = "run" => conn'[k].timer = "off"
  BY <1>3 DEF WaitInv
<1>7. Awaited'
  BY <1>4, <1>5 DEF Awaited
<1> QED
  BY <1>6, <1>7 DEF WaitInv

\* The steps of one connection alone are steps of one that does not wait.
LEMMA ConnWaits ==
    ASSUME ConnType, WaitInv, NEW c \in Conn,
           \/ Accept(c) \/ Handshaken(c) \/ Written(c) \/ ReadLate(c)
           \/ Disconnect(c) \/ ConnTimerExpires(c) \/ ConnOnTimeout(c)
    PROVE  WaitInv'
<1>1. conn[c].pc # "run"
  BY DEF WaitInv, Accept, Handshaken, Written, ReadLate, Disconnect,
         ConnTimerExpires, ConnOnTimeout
<1>2. frame' = frame
  BY ConnSteps
<1>3. conn[c] \in Connection /\ conn \in [Conn -> Connection]
  BY DEF ConnType
<1>4. Closed.pc # "run" /\ [Closed EXCEPT !.pc = "read", !.timer = "armed"].pc # "run"
  BY DEF Closed
<1>5. Shutdown(c) => WaitInv'
  BY <1>1, <1>2, <1>4, IdleWaits DEF Shutdown
<1>6. ReadRequest(c) => WaitInv'
  BY <1>1, <1>2, <1>4, <1>5, IdleWaits DEF ReadRequest
<1>7. CASE Accept(c)
  <2>1. PICK pc \in {"handshake", "read"} :
           conn' = [conn EXCEPT ![c].pc = pc, ![c].timer = "armed"]
    BY <1>7 DEF Accept
  <2> DEFINE g == [conn[c] EXCEPT !.pc = pc, !.timer = "armed"]
  <2>2. conn' = [conn EXCEPT ![c] = g]
    BY <1>3, <2>1 DEF Connection
  <2>3. g.pc # "run"
    BY <1>3 DEF Connection
  <2> HIDE DEF g
  <2> QED
    BY <1>1, <1>2, <2>2, <2>3, IdleWaits
<1>8. CASE ConnTimerExpires(c)
  <2> DEFINE g == [conn[c] EXCEPT !.timer = "fired"]
  <2>1. conn' = [conn EXCEPT ![c] = g]
    BY <1>3, <1>8 DEF ConnTimerExpires, Connection
  <2>2. g.pc # "run"
    BY <1>1, <1>3 DEF Connection
  <2> HIDE DEF g
  <2> QED
    BY <1>1, <1>2, <2>1, <2>2, IdleWaits
<1> QED
  BY <1>5, <1>6, <1>7, <1>8
     DEF Handshaken, Written, ReadLate, Disconnect, ConnOnTimeout

\* Every step keeps each waiting connection in one queue.
LEMMA WaitStep ==
    ASSUME SocketInv, AnswerInv, WaitInv, [Next]_vars
    PROVE  WaitInv'
<1>0. ConnType /\ CacheType
  BY DEF AnswerInv, ConnInv, ConnType
<1>1. CASE Resume
  <2>1. PICK e \in Endpoint : CoKeep(e) \/ CoServe(e) \/ CoDrop(e)
    BY <1>0, <1>1, ResumeStep
  <2> QED
    BY <2>1, KeepWaits, ServeWaits, DropWaits
<1>2. ASSUME NEW e \in Endpoint,
             ZmqWrite(e) \/ ZmqRead(e) \/ ZmqError(e) \/ TimerExpires(e)
                \/ OnTimeout(e)
      PROVE  WaitInv'
  BY <1>2, IoSteps, KeepWaits
<1>3. CASE frame' = frame /\ conn' = conn
  <2>1. \A e, i, c : At(e, i, c)' <=> At(e, i, c)
    BY <1>3 DEF At
  <2> QED
    BY <1>3, <2>1, WaitKept DEF WaitInv
<1>4. ASSUME NEW c \in Conn, Receive(c)
      PROVE  WaitInv'
  <2>1. conn[c].pc # "run"
    BY <1>0, <1>4, ReceiveEffect DEF Accepts
  <2>2. CASE ReceiveAnswers(c)
    <3>1. Closed.pc # "run" /\ \A a : Answered(c, a).pc # "run"
      BY <1>0 DEF Closed, Answered, ConnType, Connection
    <3> QED
      BY <1>0, <2>1, <2>2, <3>1, IdleWaits DEF ReceiveAnswers, Shutdown
  <2>3. ASSUME NEW e \in Endpoint, NEW r, ReceiveWaits(c, e, r)
        PROVE  WaitInv'
    BY <1>0, <2>1, <2>3, JoinWaits
  <2> QED
    BY <1>0, <1>4, <2>2, <2>3, ReceiveEffect
<1>5. ASSUME NEW c \in Conn,
             \/ Accept(c) \/ Handshaken(c) \/ Written(c) \/ ReadLate(c)
             \/ Disconnect(c) \/ ConnTimerExpires(c) \/ ConnOnTimeout(c)
      PROVE  WaitInv'
  BY <1>0, <1>5, ConnWaits
<1> QED
  BY <1>1, <1>2, <1>3, <1>4, <1>5 DEF Next, CacheExpires, vars, work

\* WaitInv holds throughout.
LEMMA WaitInvariant == Spec => []WaitInv
<1>1. Init => WaitInv
  <2> SUFFICES ASSUME Init PROVE WaitInv
    OBVIOUS
  <2>1. \A c \in Conn : conn[c].pc # "run"
    BY DEF Init, Closed
  <2>2. \A e, i, c : ~At(e, i, c)
    BY DEF Init, At
  <2> QED
    BY <2>1, <2>2 DEF WaitInv, Awaited
<1>2. SocketInv /\ AnswerInv /\ WaitInv /\ [Next]_vars => WaitInv'
  BY WaitStep
<1> QED
  BY <1>1, <1>2, ServerInvariant, PTL DEF Spec

\* However requests, answers, timeouts and disconnections interleave, every
\* connection that waits is in exactly one queue, once, and so is resumed
\* once; and nobody else is resumed.
THEOREM WaitersAreAwaitedOnce == Spec => []AwaitedOnce
<1>1. SocketInv /\ WaitInv => AwaitedOnce
  BY WaitImplies
<1> QED
  BY <1>1, WaitInvariant, ServerInvariant, PTL

-----------------------------------------------------------------------------
(* The sizes of the queued messages *)

\* A set of naturals that is not empty has a least element.
LEMMA LeastSize ==
    ASSUME NEW T, T \subseteq Nat, T # {}
    PROVE  \E x \in T : \A y \in T : x <= y
<1> DEFINE R == OpToRel(<, Nat)
<1>1. IsWellFoundedOn(R, Nat)
  BY NatLessThanWellFounded
<1>2. \A x, y \in Nat : <<y, x>> \in R <=> y < x
  BY DEF OpToRel
<1> HIDE DEF R
<1>3. PICK x \in T : \A y \in T : ~ (<<y, x>> \in R)
  BY <1>1, WFMin
<1>4. \A y \in T : y \in Nat /\ x \in Nat /\ ~(y < x)
  BY <1>2, <1>3
<1>5. \A y \in T : x <= y
  BY <1>4
<1> QED
  BY <1>5

\* u holds the sums of the sizes from position m on, up to each of 0..n.
Sums(u, n, m, size) ==
    u = [i \in 0..n |-> IF i < m THEN 0 ELSE u[i - 1] + size[i]]

Sizes(n, size) == n \in Nat /\ \A i \in 1..n : size[i] \in Nat

\* Such sums exist, and they are naturals.
LEMMA SumsExist ==
    ASSUME NEW n \in Nat, NEW m \in {1, 2}, NEW size, Sizes(n, size)
    PROVE  \E u \in [0..n -> Nat] : Sums(u, n, m, size)
<1> DEFINE Has(k) == \E u \in [0..k -> Nat] : Sums(u, k, m, size)
           T == {k \in 0..n : ~Has(k)}
<1>0. \A k : k \in T <=> k \in 0..n /\ ~Has(k)
  OBVIOUS
<1>1. SUFFICES ASSUME T # {} PROVE FALSE
  <2>1. n \in 0..n
    OBVIOUS
  <2> HIDE DEF T, Has
  <2>2. T = {} => Has(n)
    BY <1>0, <2>1
  <2> QED
    BY <1>1, <2>2 DEF Has
<1>2. PICK k \in T : \A j \in T : k <= j
  <2>1. T \subseteq Nat
    OBVIOUS
  <2> HIDE DEF T
  <2> QED
    BY <1>1, <2>1, LeastSize
<1>3. k \in 0..n /\ ~Has(k)
  BY <1>2
<1>4. CASE k = 0
  <2> DEFINE u == [i \in 0..0 |-> 0]
  <2>1. u \in [0..k -> Nat]
    BY <1>4
  <2>2. \A i \in 0..k : i < m /\ i = 0
    BY <1>4
  <2>3. Sums(u, k, m, size)
    BY <1>4, <2>2 DEF Sums
  <2> QED
    BY <1>3, <2>1, <2>3
<1>5. CASE k > 0
  <2>0. k - 1 \in 0..n /\ ~(k <= k - 1)
    BY <1>3, <1>5
  <2>1. Has(k - 1)
    <3> HIDE DEF T, Has
    <3> QED
      BY <1>0, <1>2, <2>0
  <2>2. PICK v \in [0..(k - 1) -> Nat] : Sums(v, k - 1, m, size)
    BY <2>1
  <2>3. \A i \in 0..(k - 1) : v[i] = IF i < m THEN 0 ELSE v[i - 1] + size[i]
    BY <2>2 DEF Sums
  <2> DEFINE new == IF k < m THEN 0 ELSE v[k - 1] + size[k]
             u == [i \in 0..k |-> IF i = k THEN new ELSE v[i]]
  <2>4. new \in Nat
    BY <1>3, <1>5 DEF Sizes
  <2> HIDE DEF new
  <2>5. u \in [0..k -> Nat]
    BY <1>3, <1>5, <2>4
  <2>6. \A i \in 0..k : u[i] = IF i < m THEN 0 ELSE u[i - 1] + size[i]
    <3> SUFFICES ASSUME NEW i \in 0..k
                 PROVE  u[i] = IF i < m THEN 0 ELSE u[i - 1] + size[i]
      OBVIOUS
    <3>1. i < m \/ i - 1 \in 0..(k - 1)
      BY <1>3
    <3>2. CASE i = k
      BY <1>3, <1>5, <3>1, <3>2 DEF new
    <3>3. CASE i # k
      <4>1. i \in 0..(k - 1)
        BY <1>3, <3>3
      <4> QED
        BY <1>3, <2>3, <3>1, <4>1
    <3> QED
      BY <3>2, <3>3
  <2> HIDE DEF u
  <2>7. Sums(u, k, m, size)
    BY <2>5, <2>6 DEF Sums
  <2> QED
    BY <1>3, <2>5, <2>7
<1> QED
  BY <1>3, <1>4, <1>5

\* They are determined by the sizes.
LEMMA SumsUnique ==
    ASSUME NEW n \in Nat, NEW m \in {1, 2}, NEW size, NEW u, NEW v,
           Sums(u, n, m, size), Sums(v, n, m, size)
    PROVE  u = v
<1> DEFINE T == {i \in 0..n : u[i] # v[i]}
<1>1. /\ u = [i \in 0..n |-> IF i < m THEN 0 ELSE u[i - 1] + size[i]]
      /\ v = [i \in 0..n |-> IF i < m THEN 0 ELSE v[i - 1] + size[i]]
  BY DEF Sums
<1>2. CASE T = {}
  <2>1. \A i \in 0..n : u[i] = v[i]
    BY <1>2
  <2>2. /\ u = [i \in 0..n |-> u[i]]
        /\ v = [i \in 0..n |-> v[i]]
    BY <1>1
  <2> QED
    BY <2>1, <2>2
<1>3. CASE T # {}
  <2>1. PICK j \in T : \A i \in T : j <= i
    <3>1. T \subseteq Nat
      OBVIOUS
    <3> HIDE DEF T
    <3> QED
      BY <1>3, <3>1, LeastSize
  <2>2. j \in 0..n /\ u[j] # v[j]
    BY <2>1
  <2>3. /\ u[j] = IF j < m THEN 0 ELSE u[j - 1] + size[j]
        /\ v[j] = IF j < m THEN 0 ELSE v[j - 1] + size[j]
    BY <1>1, <2>2
  <2>4. ~(j < m)
    BY <2>2, <2>3
  <2>5. j - 1 \in 0..n /\ ~(j <= j - 1)
    BY <2>2, <2>4
  <2>6. u[j - 1] = v[j - 1]
    BY <2>1, <2>5
  <2> QED
    BY <2>2, <2>3, <2>6
<1> QED
  BY <1>2, <1>3

\* From k and from l on, the next n sums have the same differences.
SameSizes(u, v, n, k, l) ==
    \A i \in 1..n : u[i + k] - u[i + k - 1] = v[i + l] - v[i + l - 1]

SameGrowth(u, v, n, k, l) == u[n + k] - u[k] = v[n + l] - v[l]

\* The sums of two lists grow alike where their sizes are the same.
LEMMA SumsShift ==
    ASSUME NEW n \in Nat, NEW k \in Nat, NEW l \in Nat,
           NEW u \in [0..(n + k) -> Nat], NEW v \in [0..(n + l) -> Nat],
           SameSizes(u, v, n, k, l)
    PROVE  SameGrowth(u, v, n, k, l)
<1> DEFINE T == {j \in 0..n : u[j + k] - u[k] # v[j + l] - v[l]}
<1>1. SUFFICES ASSUME T # {} PROVE FALSE
  <2>1. n \in 0..n
    OBVIOUS
  <2> QED
    BY <1>1, <2>1 DEF SameGrowth
<1>2. PICK j \in T : \A i \in T : j <= i
  <2>1. T \subseteq Nat
    OBVIOUS
  <2> HIDE DEF T
  <2> QED
    BY <1>1, <2>1, LeastSize
<1>3. j \in 0..n /\ u[j + k] - u[k] # v[j + l] - v[l]
  BY <1>2
<1>4. k \in 0..(n + k) /\ l \in 0..(n + l)
  OBVIOUS
<1>5. j # 0
  BY <1>3, <1>4
<1>6. j - 1 \in 0..n /\ j \in 1..n /\ j - 1 \notin T
  <2>1. j - 1 \in 0..n /\ j \in 1..n /\ ~(j <= j - 1)
    BY <1>3, <1>5
  <2> HIDE DEF T
  <2> QED
    BY <1>2, <2>1
<1>7. u[(j - 1) + k] - u[k] = v[(j - 1) + l] - v[l]
  BY <1>6
<1>8. u[j + k] - u[j + k - 1] = v[j + l] - v[j + l - 1]
  BY <1>6 DEF SameSizes
<1>9. (j - 1) + k = j + k - 1 /\ (j - 1) + l = j + l - 1
  BY <1>6
<1>10. /\ j + k \in 0..(n + k) /\ j + k - 1 \in 0..(n + k)
       /\ j + l \in 0..(n + l) /\ j + l - 1 \in 0..(n + l)
  BY <1>6
<1>11. /\ u[j + k] \in Nat /\ u[j + k - 1] \in Nat /\ u[k] \in Nat
       /\ v[j + l] \in Nat /\ v[j + l - 1] \in Nat /\ v[l] \in Nat
  BY <1>4, <1>10
<1>12. u[j + k - 1] - u[k] = v[j + l - 1] - v[l]
  BY <1>7, <1>9
<1>13. PICK a, b, c, x, y, z :
          /\ a = u[j + k] /\ b = u[j + k - 1] /\ c = u[k]
          /\ x = v[j + l] /\ y = v[j + l - 1] /\ z = v[l]
  OBVIOUS
<1>14. u[j + k] - u[k] = v[j + l] - v[l]
  <2> HIDE DEF T
  <2>1. /\ a \in Nat /\ b \in Nat /\ c \in Nat
        /\ x \in Nat /\ y \in Nat /\ z \in Nat
        /\ a - b = x - y /\ b - c = y - z
    BY <1>8, <1>11, <1>12, <1>13
  <2>2. a - c = x - z
    BY <2>1
  <2> QED
    BY <1>13, <2>2
<1> QED
  BY <1>3, <1>14

\* TotalFrom is the last of the sums.
LEMMA TotalIsSum ==
    ASSUME NEW s \in Seq(Nat), NEW m \in {1, 2}
    PROVE  \E u \in [0..Len(s) -> Nat] :
              Sums(u, Len(s), m, s) /\ TotalFrom(m, s) = u[Len(s)]
<1>1. Len(s) \in Nat /\ Sizes(Len(s), s)
  BY DEF Sizes
<1>2. PICK u \in [0..Len(s) -> Nat] : Sums(u, Len(s), m, s)
  BY <1>1, SumsExist
<1> DEFINE Body(v) == [i \in 0..Len(s) |-> IF i < m THEN 0 ELSE v[i - 1] + s[i]]
           w == CHOOSE v : v = Body(v)
<1>3. TotalFrom(m, s) = w[Len(s)]
  BY DEF TotalFrom
<1>4. u = Body(u)
  BY <1>2 DEF Sums
<1>5. w = Body(w)
  BY <1>4
<1> HIDE DEF w
<1>6. Sums(w, Len(s), m, s)
  BY <1>5 DEF Sums
<1>7. w = u
  BY <1>1, <1>2, <1>6, SumsUnique
<1> QED
  BY <1>2, <1>3, <1>7

\* The total is a natural number.
LEMMA TotalType == \A s \in Seq(Nat), m \in {1, 2} : TotalFrom(m, s) \in Nat
<1> SUFFICES ASSUME NEW s \in Seq(Nat), NEW m \in {1, 2}
             PROVE  TotalFrom(m, s) \in Nat
  OBVIOUS
<1>1. PICK u \in [0..Len(s) -> Nat] : TotalFrom(m, s) = u[Len(s)]
  BY TotalIsSum
<1> QED
  BY <1>1

\* A message that is added at the end adds its size.
LEMMA TotalAppend ==
    ASSUME NEW s \in Seq(Nat), NEW m \in {1, 2}, NEW x \in Nat, m <= Len(s) + 1
    PROVE  TotalFrom(m, Append(s, x)) = TotalFrom(m, s) + x
<1> DEFINE n == Len(s) t == Append(s, x)
<1>1. n \in Nat /\ t \in Seq(Nat) /\ Len(t) = n + 1 /\ t[n + 1] = x
      /\ \A i \in 1..n : t[i] = s[i] /\ s[i] \in Nat
  OBVIOUS
<1>2. PICK u \in [0..n -> Nat] : Sums(u, n, m, s) /\ TotalFrom(m, s) = u[n]
  BY TotalIsSum
<1>3. PICK v \in [0..Len(t) -> Nat] :
         Sums(v, Len(t), m, t) /\ TotalFrom(m, t) = v[Len(t)]
  BY <1>1, TotalIsSum
<1> HIDE DEF n, t
<1>4. \A i \in 0..n : u[i] = IF i < m THEN 0 ELSE u[i - 1] + s[i]
  <2>1. Sums(u, n, m, s)
    BY <1>1, <1>2
  <2> QED
    BY <2>1 DEF Sums
<1>5. \A i \in 0..(n + 1) : v[i] = IF i < m THEN 0 ELSE v[i - 1] + t[i]
  <2>1. Sums(v, n + 1, m, t)
    BY <1>1, <1>3
  <2> QED
    BY <2>1 DEF Sums
<1>6. SameSizes(u, v, n, 0, 0)
  <2> SUFFICES ASSUME NEW i \in 1..n
               PROVE  u[i + 0] - u[i + 0 - 1] = v[i + 0] - v[i + 0 - 1]
    BY DEF SameSizes
  <2>1. /\ u[i] \in Nat /\ u[i - 1] \in Nat /\ v[i] \in Nat /\ v[i - 1] \in Nat
        /\ i \in 0..n /\ i - 1 \in 0..n /\ i \in 0..(n + 1) /\ i - 1 \in 0..(n + 1)
        /\ i + 0 = i /\ i + 0 - 1 = i - 1
    BY <1>1, SMTT(30)
  <2>2. CASE i < m
    <3>1. u[i] = 0 /\ v[i] = 0 /\ u[i - 1] = 0 /\ v[i - 1] = 0
      BY <1>1, <1>4, <1>5, <2>1, <2>2
    <3> QED
      BY <2>1, <3>1
  <2>3. CASE ~(i < m)
    <3>1. u[i] = u[i - 1] + s[i] /\ v[i] = v[i - 1] + s[i] /\ s[i] \in Nat
      BY <1>1, <1>4, <1>5, <2>1, <2>3
    <3>2. PICK a, b, c, d, e : /\ a = u[i] /\ b = u[i - 1] /\ c = v[i]
                                /\ d = v[i - 1] /\ e = s[i]
      OBVIOUS
    <3>3. /\ a \in Nat /\ b \in Nat /\ c \in Nat /\ d \in Nat /\ e \in Nat
          /\ a = b + e /\ c = d + e
      BY <2>1, <3>1, <3>2
    <3>4. a - b = c - d
      BY <3>3
    <3> QED
      BY <2>1, <3>2, <3>4
  <2> QED
    BY <2>2, <2>3
<1>7. u[n] - u[0] = v[n] - v[0]
  <2>1. v \in [0..(n + 1) -> Nat]
    BY <1>1, <1>3
  <2> DEFINE w == [i \in 0..n |-> v[i]]
  <2>2. w \in [0..(n + 0) -> Nat] /\ u \in [0..(n + 0) -> Nat]
    BY <1>1, <2>1, SMTT(30)
  <2>3. SameSizes(u, w, n, 0, 0)
    BY <1>1, <1>6 DEF SameSizes
  <2>4. w[0] = v[0] /\ w[n] = v[n]
    BY <1>1
  <2> HIDE DEF w
  <2>5. SameGrowth(u, w, n, 0, 0)
    BY <1>1, <2>2, <2>3, SumsShift
  <2>6. u[n + 0] - u[0] = w[n + 0] - w[0] /\ n + 0 = n
    BY <1>1, <2>5 DEF SameGrowth
  <2> QED
    BY <2>4, <2>6
<1>8. u[0] = 0 /\ v[0] = 0
  <2>1. 0 \in 0..n /\ 0 \in 0..(n + 1) /\ 0 < m
    BY <1>1
  <2> QED
    BY <1>4, <1>5, <2>1
<1>9. v[n + 1] = v[n] + x
  BY <1>1, <1>5, SMTT(30) DEF n
<1>10. u[n] \in Nat /\ v[n] \in Nat
  BY <1>1, <1>2, <1>3
<1> QED
  BY <1>1, <1>2, <1>3, <1>7, <1>8, <1>9, <1>10 DEF n, t

\* When the front has been sent, the rest is what was left to send.
LEMMA TotalTail ==
    ASSUME NEW s \in Seq(Nat), s # <<>>
    PROVE  TotalFrom(1, Tail(s)) = TotalFrom(2, s)
<1> DEFINE t == Tail(s) n == Len(t)
<1>1. /\ n \in Nat /\ t \in Seq(Nat) /\ Len(s) = n + 1
      /\ \A i \in 1..n : t[i] = s[i + 1] /\ t[i] \in Nat
  OBVIOUS
<1>2. PICK u \in [0..Len(s) -> Nat] :
         Sums(u, Len(s), 2, s) /\ TotalFrom(2, s) = u[Len(s)]
  BY TotalIsSum
<1>3. PICK v \in [0..n -> Nat] : Sums(v, n, 1, t) /\ TotalFrom(1, t) = v[n]
  BY <1>1, TotalIsSum
<1> HIDE DEF n, t
<1>4. \A i \in 0..(n + 1) : u[i] = IF i < 2 THEN 0 ELSE u[i - 1] + s[i]
  <2>1. Sums(u, n + 1, 2, s)
    BY <1>1, <1>2
  <2> QED
    BY <2>1 DEF Sums
<1>5. \A i \in 0..n : v[i] = IF i < 1 THEN 0 ELSE v[i - 1] + t[i]
  <2>1. Sums(v, n, 1, t)
    BY <1>1, <1>3
  <2> QED
    BY <2>1 DEF Sums
<1>6. SameSizes(u, v, n, 1, 0)
  <2> SUFFICES ASSUME NEW i \in 1..n
               PROVE  u[i + 1] - u[i + 1 - 1] = v[i + 0] - v[i + 0 - 1]
    BY DEF SameSizes
  <2>1. /\ i + 1 \in 0..(n + 1) /\ i \in 0..(n + 1) /\ i \in 0..n /\ i - 1 \in 0..n
        /\ ~(i + 1 < 2) /\ ~(i < 1)
        /\ i + 0 = i /\ i + 0 - 1 = i - 1 /\ i + 1 - 1 = i
    BY <1>1
  <2>2. u[i + 1] \in Nat /\ u[i] \in Nat /\ v[i] \in Nat /\ v[i - 1] \in Nat
    BY <1>1, <2>1
  <2>3. u[i + 1] = u[i + 1 - 1] + s[i + 1] /\ v[i] = v[i - 1] + t[i]
    BY <1>4, <1>5, <2>1
  <2>4. u[i + 1] = u[i] + t[i] /\ t[i] \in Nat
    BY <1>1, <2>1, <2>3
  <2>5. PICK a, b, c, d, e :
          a = u[i + 1] /\ b = u[i] /\ c = v[i] /\ d = v[i - 1] /\ e = t[i]
    OBVIOUS
  <2>6. /\ a \in Nat /\ b \in Nat /\ c \in Nat /\ d \in Nat /\ e \in Nat
        /\ a = b + e /\ c = d + e
    BY <2>2, <2>3, <2>4, <2>5
  <2>7. a - b = c - d
    BY <2>6
  <2> QED
    BY <2>1, <2>5, <2>7
<1>7. u[n + 1] - u[1] = v[n + 0] - v[0]
  <2>1. u \in [0..(n + 1) -> Nat] /\ v \in [0..(n + 0) -> Nat]
    BY <1>1
  <2>2. SameGrowth(u, v, n, 1, 0)
    BY <1>1, <1>6, <2>1, SumsShift
  <2> QED
    BY <2>2 DEF SameGrowth
<1>8. u[1] = 0 /\ v[0] = 0
  BY <1>1, <1>4, <1>5
<1>9. u[n + 1] \in Nat /\ v[n] \in Nat /\ n + 0 = n
  BY <1>1
<1> QED
  BY <1>1, <1>2, <1>3, <1>7, <1>8, <1>9 DEF t

\* When the front starts to be sent, its size is no longer counted.
LEMMA TotalNext ==
    ASSUME NEW s \in Seq(Nat), s # <<>>
    PROVE  TotalFrom(1, s) = TotalFrom(2, s) + s[1] /\ s[1] \in Nat
<1> DEFINE n == Len(s) - 1
<1>1. /\ n \in Nat /\ Len(s) = n + 1 /\ s[1] \in Nat
      /\ \A i \in 1..(n + 1) : s[i] \in Nat
  OBVIOUS
<1>2. PICK u \in [0..Len(s) -> Nat] :
         Sums(u, Len(s), 1, s) /\ TotalFrom(1, s) = u[Len(s)]
  BY TotalIsSum
<1>3. PICK v \in [0..Len(s) -> Nat] :
         Sums(v, Len(s), 2, s) /\ TotalFrom(2, s) = v[Len(s)]
  BY TotalIsSum
<1> HIDE DEF n
<1>4. \A i \in 0..(n + 1) : u[i] = IF i < 1 THEN 0 ELSE u[i - 1] + s[i]
  <2>1. Sums(u, n + 1, 1, s)
    BY <1>1, <1>2
  <2> QED
    BY <2>1 DEF Sums
<1>5. \A i \in 0..(n + 1) : v[i] = IF i < 2 THEN 0 ELSE v[i - 1] + s[i]
  <2>1. Sums(v, n + 1, 2, s)
    BY <1>1, <1>3
  <2> QED
    BY <2>1 DEF Sums
<1>6. SameSizes(u, v, n, 1, 1)
  <2> SUFFICES ASSUME NEW i \in 1..n
               PROVE  u[i + 1] - u[i + 1 - 1] = v[i + 1] - v[i + 1 - 1]
    BY DEF SameSizes
  <2>1. /\ i + 1 \in 0..(n + 1) /\ i + 1 \in 1..(n + 1) /\ i \in 0..(n + 1)
        /\ ~(i + 1 < 2) /\ ~(i + 1 < 1) /\ i + 1 - 1 = i
    BY <1>1
  <2>2. u[i + 1] \in Nat /\ u[i] \in Nat /\ v[i + 1] \in Nat /\ v[i] \in Nat
    BY <1>1, <2>1
  <2>3. u[i + 1] = u[i + 1 - 1] + s[i + 1] /\ v[i + 1] = v[i + 1 - 1] + s[i + 1]
    BY <1>4, <1>5, <2>1
  <2>4. u[i + 1] = u[i] + s[i + 1] /\ v[i + 1] = v[i] + s[i + 1] /\ s[i + 1] \in Nat
    BY <1>1, <2>1, <2>3
  <2>5. PICK a, b, c, d, e :
          a = u[i + 1] /\ b = u[i] /\ c = v[i + 1] /\ d = v[i] /\ e = s[i + 1]
    OBVIOUS
  <2>6. /\ a \in Nat /\ b \in Nat /\ c \in Nat /\ d \in Nat /\ e \in Nat
        /\ a = b + e /\ c = d + e
    BY <2>2, <2>4, <2>5
  <2>7. a - b = c - d
    BY <2>6
  <2> QED
    BY <2>1, <2>5, <2>7
<1>7. u[n + 1] - u[1] = v[n + 1] - v[1]
  <2>1. u \in [0..(n + 1) -> Nat] /\ v \in [0..(n + 1) -> Nat]
    BY <1>1
  <2>2. SameGrowth(u, v, n, 1, 1)
    BY <1>1, <1>6, <2>1, SumsShift
  <2> QED
    BY <2>2 DEF SameGrowth
<1>8. u[0] = 0 /\ v[1] = 0 /\ u[1] = u[0] + s[1]
  <2>1. 0 \in 0..(n + 1) /\ 1 \in 0..(n + 1) /\ 1 - 1 = 0
    BY <1>1
  <2> QED
    BY <1>4, <1>5, <2>1
<1>9. u[n + 1] \in Nat /\ v[n + 1] \in Nat
  BY <1>1
<1> QED
  BY <1>1, <1>2, <1>3, <1>7, <1>8, <1>9

-----------------------------------------------------------------------------
(* The limit of /submit_raw_tx *)

Submit == "submit_raw_tx"

First(f) == IF f.pc = "start" THEN 1 ELSE 2

\* The inductive invariant behind SubmitBounded: frame::outstanding counts
\* every message that waits to be sent, whatever else it counts.
SubmitInv ==
    /\ outstanding \in Nat
    /\ frame[Submit] # None =>
          /\ QueueSizes \in Seq(Nat)
          /\ QueuedSize <= outstanding
          /\ Len(frame[Submit].queue) > 1 => outstanding <= SubmitTxMax

\* The queue of the frame.
LEMMA SubmitQueue ==
    ASSUME SocketInv, frame[Submit] # None
    PROVE  /\ Submit \in Endpoint /\ GoodFrame(Submit, frame[Submit])
           /\ frame[Submit] \in Frame /\ frame[Submit].queue \in Seq(Conn)
           /\ DOMAIN frame[Submit].queue = 1..Len(frame[Submit].queue)
           /\ Len(frame[Submit].queue) \in Nat
           /\ DOMAIN QueueSizes = DOMAIN frame[Submit].queue
           /\ First(frame[Submit]) \in {1, 2}
           /\ QueuedSize = TotalFrom(First(frame[Submit]), QueueSizes)
<1>1. Submit \in Endpoint
  BY Endpoints DEF Submit
<1>2. GoodFrame(Submit, frame[Submit])
  BY <1>1, FrameIsGood
<1>3. frame[Submit] \in Frame /\ frame[Submit].queue \in Seq(Conn)
  BY <1>2 DEF GoodFrame, Frame
<1>4. /\ DOMAIN frame[Submit].queue = 1..Len(frame[Submit].queue)
      /\ Len(frame[Submit].queue) \in Nat
  BY <1>3
<1>5. DOMAIN QueueSizes = DOMAIN frame[Submit].queue
  BY DEF QueueSizes, Submit
<1>6. First(frame[Submit]) \in {1, 2}
  BY DEF First
<1>7. QueuedSize = TotalFrom(First(frame[Submit]), QueueSizes)
  BY DEF QueuedSize, First, Submit
<1> QED
  BY <1>1, <1>2, <1>3, <1>4, <1>5, <1>6, <1>7

\* SubmitInv is what SubmitBounded says.
LEMMA SubmitImplies ==
    ASSUME SocketInv, SubmitInv
    PROVE  SubmitBounded
<1> SUFFICES ASSUME frame[Submit] # None
             PROVE  /\ QueuedSize <= outstanding
                    /\ Len(frame[Submit].queue) > 1 => QueuedSize <= SubmitTxMax
  BY DEF SubmitBounded, Submit
<1>1. QueuedSize \in Nat
  BY SubmitQueue, TotalType DEF SubmitInv
<1> QED
  BY <1>1, LimitAssumption DEF SubmitInv

\* A step after which the same messages wait to be sent.
Steady ==
    /\ frame[Submit] # None /\ frame'[Submit] # None
    /\ frame'[Submit].queue = frame[Submit].queue
    /\ First(frame'[Submit]) = First(frame[Submit])
    /\ \A i \in DOMAIN frame[Submit].queue :
          conn'[frame[Submit].queue[i]] = conn[frame[Submit].queue[i]]
    /\ \/ outstanding' = outstanding
       \/ /\ outstanding' \in Nat /\ outstanding <= outstanding'
          /\ outstanding' <= SubmitTxMax

\* Such a step keeps the invariant.
LEMMA SteadyKeeps ==
    ASSUME SocketInv, SubmitInv, Steady
    PROVE  SubmitInv'
<1>1. QueueSizes' = QueueSizes
  BY DEF QueueSizes, Steady, Submit
<1>2. QueuedSize' = QueuedSize
  BY <1>1 DEF QueuedSize, First, Steady, Submit
<1>3. QueuedSize \in Nat
  BY SubmitQueue, TotalType DEF SubmitInv, Steady
<1>4. outstanding' \in Nat /\ outstanding \in Nat /\ outstanding <= outstanding'
  BY DEF Steady, SubmitInv
<1>5. QueueSizes \in Seq(Nat) /\ QueuedSize <= outstanding
      /\ (Len(frame[Submit].queue) > 1 => outstanding <= SubmitTxMax)
  BY DEF SubmitInv, Steady
<1>6. QueuedSize' <= outstanding'
  BY <1>2, <1>3, <1>4, <1>5
<1>7. Len(frame'[Submit].queue) > 1 => outstanding' <= SubmitTxMax
  BY <1>5 DEF Steady
<1> QED
  BY <1>1, <1>4, <1>5, <1>6, <1>7 DEF SubmitInv

\* Without a frame there is nothing to keep.
LEMMA SubmitAbsent ==
    ASSUME frame'[Submit] = None, outstanding' \in Nat
    PROVE  SubmitInv'
  BY DEF SubmitInv

\* Who waits for /submit_raw_tx waits for nothing else.
LEMMA SubmitWaiter ==
    ASSUME SocketInv, WaitInv, frame[Submit] # None,
           NEW i \in DOMAIN frame[Submit].queue
    PROVE  /\ At(Submit, i, frame[Submit].queue[i])
           /\ frame[Submit].queue[i] \in Conn
           /\ conn[frame[Submit].queue[i]].pc = "run"
<1>1. At(Submit, i, frame[Submit].queue[i])
  BY SubmitQueue DEF At
<1>2. frame[Submit].queue[i] \in Conn
  BY SubmitQueue
<1> QED
  BY <1>1, <1>2 DEF WaitInv, Awaited

\* A step of another coroutine.
LEMMA OtherSteady ==
    ASSUME SocketInv, WaitInv, SubmitInv, NEW e \in Endpoint, e # Submit,
           CoKeep(e) \/ CoServe(e) \/ CoDrop(e), outstanding' = outstanding
    PROVE  SubmitInv'
<1>1. frame'[Submit] = frame[Submit]
  BY Endpoints DEF CoKeep, CoServe, CoDrop, FrameSet, SocketInv, Submit
<1>2. CASE frame[Submit] = None
  BY <1>1, <1>2, SubmitAbsent DEF SubmitInv
<1>3. CASE frame[Submit] # None
  <2>1. ASSUME NEW i \in DOMAIN frame[Submit].queue
        PROVE  conn'[frame[Submit].queue[i]] = conn[frame[Submit].queue[i]]
    <3>1. PICK c : c = frame[Submit].queue[i]
      OBVIOUS
    <3>2. c \in Conn /\ At(Submit, i, c)
      BY <1>3, <3>1, SubmitWaiter
    <3>3. \A j : ~At(e, j, c)
      BY <3>2 DEF WaitInv, Awaited
    <3>4. CASE CoKeep(e)
      BY <3>4 DEF CoKeep
    <3>5. CASE CoServe(e)
      <4>1. frame[e] # None /\ frame[e].queue # <<>> /\ frame[e].queue \in Seq(Conn)
        BY <3>5, FrameIsGood DEF CoServe, GoodFrame, Frame
      <4>2. 1 \in DOMAIN frame[e].queue /\ Head(frame[e].queue) = frame[e].queue[1]
        BY <4>1
      <4>3. At(e, 1, Head(frame[e].queue))
        BY <4>1, <4>2 DEF At
      <4>4. c # Head(frame[e].queue)
        BY <3>3, <4>3
      <4>5. ConnTo({Head(frame[e].queue)})
        BY <3>5 DEF CoServe
      <4> QED
        BY <3>1, <3>2, <4>4, <4>5 DEF ConnTo
    <3>6. CASE CoDrop(e)
      <4>1. c \notin Waiting(e)
        BY <3>3, <3>6 DEF Waiting, At, CoDrop
      <4> QED
        BY <3>1, <3>2, <3>6, <4>1 DEF CoDrop, ConnTo
    <3> QED
      BY <3>4, <3>5, <3>6
  <2>2. Steady
    BY <1>1, <1>3, <2>1 DEF Steady
  <2> QED
    BY <2>2, SteadyKeeps
<1> QED
  BY <1>2, <1>3

\* A step of a connection that does not wait.
LEMMA IdleSteady ==
    ASSUME SocketInv, ConnType, WaitInv, SubmitInv,
           frame'[Submit] = frame[Submit],
           NEW c \in Conn, NEW g, conn[c].pc # "run" \/ g = conn[c],
           conn' = [conn EXCEPT ![c] = g],
           \/ outstanding' = outstanding
           \/ /\ outstanding' \in Nat /\ outstanding <= outstanding'
              /\ outstanding' <= SubmitTxMax
    PROVE  SubmitInv'
<1>1. CASE frame[Submit] = None
  BY <1>1, SubmitAbsent DEF SubmitInv
<1>2. CASE frame[Submit] # None
  <2>1. ASSUME NEW i \in DOMAIN frame[Submit].queue
        PROVE  conn'[frame[Submit].queue[i]] = conn[frame[Submit].queue[i]]
    <3>1. PICK d : d = frame[Submit].queue[i]
      OBVIOUS
    <3>2. d \in Conn /\ conn[d].pc = "run"
      BY <1>2, <3>1, SubmitWaiter
    <3>3. conn'[d] = conn[d]
      BY <3>2 DEF ConnType
    <3> QED
      BY <3>1, <3>3
  <2>2. Steady
    BY <1>2, <2>1 DEF Steady
  <2> QED
    BY <2>2, SteadyKeeps
<1> QED
  BY <1>1, <1>2

\* The head of the loop: the front of the queue is no longer counted, and
\* frame::outstanding falls by its size, but not below zero.
LEMMA SubmitNextKeeps ==
    ASSUME SocketInv, WaitInv, SubmitInv, SubmitNext
    PROVE  SubmitInv'
<1> DEFINE f == frame[Submit] s == QueueSizes
<1>1. f # None /\ f.pc = "start" /\ conn' = conn
  BY DEF SubmitNext, Submit
<1>2. frame \in [Endpoint -> Frame \cup {None}] /\ Submit \in Endpoint /\ f \in Frame
  BY <1>1, SubmitQueue DEF SocketInv
<1>3. CASE f.queue = <<>>
  <2>1. frame'[Submit] = None /\ outstanding' = 0
    BY <1>2, <1>3 DEF SubmitNext, Submit
  <2> QED
    BY <2>1, SubmitAbsent
<1>4. CASE f.queue # <<>>
  <2>1. frame'[Submit] = Writes(f, "call")
    BY <1>2, <1>4 DEF SubmitNext, Submit
  <2>2. Writes(f, "call").queue = f.queue /\ Writes(f, "call").pc = "write"
    BY <1>2 DEF Writes, Frame
  <2>3. s \in Seq(Nat) /\ s # <<>> /\ s[1] = conn[Head(f.queue)].req.size
    <3>1. s \in Seq(Nat) /\ f.queue \in Seq(Conn) /\ DOMAIN s = DOMAIN f.queue
      BY <1>1, SubmitQueue DEF SubmitInv
    <3>2. 1 \in DOMAIN f.queue /\ Head(f.queue) = f.queue[1]
      BY <1>4, <3>1
    <3>3. s # <<>>
      BY <3>1, <3>2
    <3>4. s[1] = conn[f.queue[1]].req.size
      BY <3>2 DEF QueueSizes, Submit
    <3> QED
      BY <3>1, <3>2, <3>3, <3>4
  <2>4. /\ TotalFrom(1, s) = TotalFrom(2, s) + s[1] /\ s[1] \in Nat
        /\ TotalFrom(2, s) \in Nat
    BY <2>3, TotalNext, TotalType
  <2>5. outstanding' = IF outstanding <= s[1] THEN 0 ELSE outstanding - s[1]
    BY <1>4, <2>3 DEF SubmitNext, Submit
  <2>6. QueueSizes' = s
    BY <1>1, <2>1, <2>2 DEF QueueSizes, Submit
  <2>7. QueuedSize' = TotalFrom(2, s)
    BY <2>1, <2>2, <2>6 DEF QueuedSize, Submit
  <2>8. QueuedSize = TotalFrom(1, s)
    BY <1>1 DEF QueuedSize, Submit
  <2>9. /\ outstanding \in Nat /\ QueuedSize <= outstanding
        /\ (Len(f.queue) > 1 => outstanding <= SubmitTxMax)
    BY <1>1 DEF SubmitInv
  <2>10. SubmitTxMax \in Nat
    BY LimitAssumption
  <2> HIDE DEF s, f
  <2>11. outstanding' \in Nat /\ TotalFrom(2, s) <= outstanding'
         /\ outstanding' <= outstanding
    BY <2>4, <2>5, <2>8, <2>9
  <2>12. Len(f.queue) > 1 => outstanding' <= SubmitTxMax
    BY <2>9, <2>10, <2>11
  <2> QED
    BY <2>1, <2>2, <2>3, <2>6, <2>7, <2>11, <2>12 DEF SubmitInv
<1> QED
  BY <1>3, <1>4

\* The front of the queue is answered.
LEMMA SubmitSendKeeps ==
    ASSUME SocketInv, ConnType, WaitInv, SubmitInv, frame[Submit] # None,
           HasRead(frame[Submit]), NEW answer,
           SubmitSend(Cancelled(frame[Submit]), answer)
    PROVE  SubmitInv'
<1> DEFINE f == frame[Submit] q == f.queue s == QueueSizes
<1>1. /\ f \in Frame /\ q \in Seq(Conn) /\ s \in Seq(Nat) /\ DOMAIN s = DOMAIN q
      /\ Submit \in Endpoint /\ GoodFrame(Submit, f) /\ Len(q) \in Nat
      /\ DOMAIN q = 1..Len(q)
  BY SubmitQueue DEF SubmitInv
<1>2. q # <<>> /\ f.pc = "read" /\ Cancelled(f).queue = q
  BY <1>1, FrameOps DEF HasRead
<1>3. frame'[Submit] = [Cancelled(f) EXCEPT !.pc = "start", !.queue = Tail(@)]
      /\ outstanding' = outstanding
  BY <1>1 DEF SubmitSend, SocketInv, Submit
<1>4. frame'[Submit].queue = Tail(q) /\ frame'[Submit].pc = "start"
  BY <1>1, <1>2, <1>3 DEF Cancelled, Frame
<1>5. ConnTo({Head(q)})
  <2>1. AnswerAll([c \in {Head(q)} |-> answer])
    BY <1>2 DEF SubmitSend
  <2>2. ConnTo(DOMAIN [c \in {Head(q)} |-> answer])
    BY <2>1, AnswerAllTo
  <2> QED
    BY <2>2
<1>6. /\ Len(q) > 0 /\ Head(q) = q[1] /\ DOMAIN Tail(q) = 1..(Len(q) - 1)
      /\ \A i \in 1..(Len(q) - 1) : Tail(q)[i] = q[i + 1]
  BY <1>1, <1>2
<1>7. ASSUME NEW i \in 1..(Len(q) - 1)
      PROVE  conn'[q[i + 1]] = conn[q[i + 1]]
  <2>1. i + 1 \in DOMAIN q /\ 1 \in DOMAIN q /\ i + 1 # 1
    BY <1>1, <1>6
  <2>2. At(Submit, i + 1, q[i + 1]) /\ At(Submit, 1, q[1]) /\ q[i + 1] \in Conn
    BY <2>1, SubmitWaiter
  <2>3. q[i + 1] # q[1]
    BY <2>1, <2>2 DEF WaitInv, Awaited
  <2> QED
    BY <1>5, <1>6, <2>2, <2>3 DEF ConnTo
<1>8. Len(s) = Len(q) /\ s # <<>>
  BY <1>1, <1>2
<1>9. QueueSizes' = Tail(s)
  <2>1. QueueSizes' = [i \in 1..(Len(q) - 1) |-> conn'[Tail(q)[i]].req.size]
    BY <1>4, <1>6 DEF QueueSizes, Submit
  <2>2. \A i \in 1..(Len(q) - 1) : conn'[Tail(q)[i]].req.size = s[i + 1]
    <3> TAKE i \in 1..(Len(q) - 1)
    <3>1. i + 1 \in DOMAIN q
      BY <1>1, <1>6
    <3>2. s[i + 1] = conn[q[i + 1]].req.size
      BY <3>1 DEF QueueSizes, Submit
    <3> QED
      BY <1>6, <1>7, <3>2
  <2>3. Tail(s) = [i \in 1..(Len(q) - 1) |-> s[i + 1]]
    <3>1. Tail(s) = [i \in 1..(Len(s) - 1) |-> s[i + 1]]
      <4> HIDE DEF s
      <4>1. /\ Tail(s) \in Seq(Nat) /\ DOMAIN Tail(s) = 1..(Len(s) - 1)
            /\ \A i \in 1..(Len(s) - 1) : Tail(s)[i] = s[i + 1]
        BY <1>1, <1>8
      <4>2. Tail(s) = [i \in DOMAIN Tail(s) |-> Tail(s)[i]]
        <5>1. PICK t : t = Tail(s)
          OBVIOUS
        <5>2. t \in Seq(Nat)
          BY <4>1, <5>1, Zenon
        <5>3. t = [i \in DOMAIN t |-> t[i]]
          BY <5>2
        <5> QED
          BY <5>1, <5>3, Zenon
      <4> QED
        BY <4>1, <4>2, Zenon
    <3> QED
      BY <1>8, <3>1
  <2> HIDE DEF s, q
  <2> QED
    BY <2>1, <2>2, <2>3
<1>10. TotalFrom(1, Tail(s)) = TotalFrom(2, s) /\ Tail(s) \in Seq(Nat)
  BY <1>1, <1>8, TotalTail
<1>11. QueuedSize' = TotalFrom(1, Tail(s))
  BY <1>4, <1>9 DEF QueuedSize, Submit
<1>12. QueuedSize = TotalFrom(2, s)
  BY <1>2 DEF QueuedSize, Submit
<1>13. /\ outstanding \in Nat /\ QueuedSize <= outstanding
       /\ (Len(q) > 1 => outstanding <= SubmitTxMax)
  BY DEF SubmitInv
<1>14. Len(Tail(q)) = Len(q) - 1
  BY <1>1, <1>2
<1> HIDE DEF s, q, f
<1>15. Len(Tail(q)) > 1 => outstanding <= SubmitTxMax
  BY <1>1, <1>13, <1>14
<1> QED
  BY <1>3, <1>4, <1>9, <1>10, <1>11, <1>12, <1>13, <1>15 DEF SubmitInv

\* The coroutine's other steps.
LEMMA SubmitResumeKeeps ==
    ASSUME SocketInv, ConnType, WaitInv, SubmitInv, SubmitResume
    PROVE  SubmitInv'
<1> DEFINE f == frame[Submit]
<1>1. f # None
  BY DEF SubmitResume, Submit
<1>2. frame \in [Endpoint -> Frame \cup {None}] /\ Submit \in Endpoint /\ f \in Frame
  BY <1>1, SubmitQueue DEF SocketInv
<1>3. CASE SubmitFail
  <2>1. frame'[Submit] = None /\ outstanding' = 0
    BY <1>2, <1>3 DEF SubmitFail, Submit
  <2> QED
    BY <2>1, SubmitAbsent
<1>4. CASE /\ Wrote(f) /\ frame' = [frame EXCEPT ![Submit] = Reads(f)]
           /\ conn' = conn /\ outstanding' = outstanding
  <2>1. frame'[Submit] = Reads(f)
    BY <1>2, <1>4
  <2>2. Reads(f).queue = f.queue /\ Reads(f).pc = "read" /\ f.pc = "write"
    BY <1>2, <1>4 DEF Reads, Wrote, Frame
  <2>3. Reads(f) # None
    <3>1. GoodFrame(Submit, Reads(f))
      BY <1>1, <1>2, <2>2, FrameOps, SubmitQueue
    <3> QED
      BY <3>1, GoodIsSome
  <2>4. Steady
    BY <1>1, <1>4, <2>1, <2>2, <2>3 DEF Steady, First
  <2> QED
    BY <2>4, SteadyKeeps
<1>5. ASSUME HasRead(f), NEW answer, SubmitSend(Cancelled(f), answer)
      PROVE  SubmitInv'
  BY <1>1, <1>5, SubmitSendKeeps
<1> QED
  BY <1>3, <1>4, <1>5 DEF SubmitResume, Submit

\* A message joins the queue, and its size is counted.
LEMMA SubmitJoins ==
    ASSUME SocketInv, ConnType, WaitInv, SubmitInv, NEW c \in Conn,
           conn[c].pc # "run", NEW size \in Nat, NEW valid,
           JoinFrame(c, Submit),
           Waits(c, [target |-> Submit, valid |-> valid, size |-> size]),
           size + outstanding <= SubmitTxMax, outstanding' = outstanding + size
    PROVE  SubmitInv'
<1> DEFINE f == frame[Submit] q == f.queue s == QueueSizes
<1>0. f # None
  BY DEF JoinFrame
<1>1. /\ f \in Frame /\ q \in Seq(Conn) /\ s \in Seq(Nat) /\ DOMAIN s = DOMAIN q
      /\ Submit \in Endpoint /\ GoodFrame(Submit, f) /\ Len(q) \in Nat
      /\ DOMAIN q = 1..Len(q)
  BY <1>0, SubmitQueue DEF SubmitInv
<1>2. frame'[Submit] = [f EXCEPT !.queue = Append(q, c)]
  BY <1>1 DEF JoinFrame, SocketInv
<1>3. frame'[Submit].queue = Append(q, c) /\ frame'[Submit].pc = f.pc
  BY <1>1, <1>2 DEF Frame
<1>4. conn'[c].req.size = size /\ \A d \in Conn : d # c => conn'[d] = conn[d]
  BY DEF Waits, ConnType, Connection
<1>5. \A i \in DOMAIN q : q[i] # c /\ q[i] \in Conn
  <2> TAKE i \in DOMAIN q
  <2>1. q[i] \in Conn /\ conn[q[i]].pc = "run"
    BY <1>0, SubmitWaiter
  <2> QED
    BY <2>1
<1>6. /\ DOMAIN Append(q, c) = 1..(Len(q) + 1)
      /\ \A i \in 1..Len(q) : Append(q, c)[i] = q[i]
      /\ Append(q, c)[Len(q) + 1] = c
  BY <1>1
<1>7. Len(s) = Len(q)
  BY <1>1
<1>8. QueueSizes' = Append(s, size)
  <2>1. QueueSizes' = [i \in 1..(Len(q) + 1) |-> conn'[Append(q, c)[i]].req.size]
    BY <1>3, <1>6 DEF QueueSizes, Submit
  <2>2. \A i \in 1..Len(q) : conn'[Append(q, c)[i]].req.size = s[i]
    <3> TAKE i \in 1..Len(q)
    <3>1. i \in DOMAIN q
      BY <1>1
    <3>2. s[i] = conn[q[i]].req.size
      BY <3>1 DEF QueueSizes, Submit
    <3> QED
      BY <1>4, <1>5, <1>6, <3>1, <3>2
  <2>3. conn'[Append(q, c)[Len(q) + 1]].req.size = size
    BY <1>4, <1>6
  <2>4. PICK t : t = Append(s, size)
    OBVIOUS
  <2>5. /\ t \in Seq(Nat) /\ DOMAIN t = 1..(Len(q) + 1)
        /\ \A i \in 1..Len(q) : t[i] = s[i]
        /\ t[Len(q) + 1] = size
    <3> HIDE DEF s, q
    <3> QED
      BY <1>1, <1>7, <2>4
  <2>6. t = [i \in DOMAIN t |-> t[i]]
    BY <2>5
  <2>7. \A i \in 1..(Len(q) + 1) : conn'[Append(q, c)[i]].req.size = t[i]
    <3> TAKE i \in 1..(Len(q) + 1)
    <3>1. i \in 1..Len(q) \/ i = Len(q) + 1
      BY <1>1
    <3> HIDE DEF s, q
    <3> QED
      BY <2>2, <2>3, <2>5, <3>1
  <2> HIDE DEF s, q
  <2>8. QueueSizes' = t
    BY <2>1, <2>5, <2>6, <2>7
  <2> QED
    BY <2>4, <2>8
<1>9. First(f) \in {1, 2} /\ First(f) <= Len(s) + 1
  <2>1. f.pc # "start" => q # <<>>
    BY <1>1 DEF GoodFrame, FrameInv
  <2>2. q # <<>> => Len(q) >= 1
    BY <1>1
  <2> HIDE DEF s, q, f
  <2> QED
    BY <1>1, <1>7, <2>1, <2>2 DEF First
<1>10. TotalFrom(First(f), Append(s, size)) = TotalFrom(First(f), s) + size
  <2> HIDE DEF s, q, f
  <2> QED
    BY <1>1, <1>9, TotalAppend
<1>11. QueuedSize' = TotalFrom(First(f), Append(s, size))
  BY <1>3, <1>8 DEF QueuedSize, First, Submit
<1>12. QueuedSize = TotalFrom(First(f), s)
  BY DEF QueuedSize, First, Submit
<1>13. QueuedSize \in Nat
  <2> HIDE DEF s, q, f
  <2> QED
    BY <1>1, <1>9, <1>12, TotalType
<1>14. outstanding \in Nat /\ QueuedSize <= outstanding
  BY <1>0 DEF SubmitInv
<1>15. SubmitTxMax \in Nat
  BY LimitAssumption
<1>16. Append(s, size) \in Seq(Nat)
  <2> HIDE DEF s
  <2> QED
    BY <1>1
<1> HIDE DEF s, q, f
<1>17. outstanding' \in Nat /\ QueuedSize' <= outstanding' /\ outstanding' <= SubmitTxMax
  BY <1>10, <1>11, <1>12, <1>13, <1>14, <1>15
<1> QED
  BY <1>8, <1>16, <1>17 DEF SubmitInv

\* A message starts the frame.
LEMMA SubmitStarts ==
    ASSUME SocketInv, ConnType, NEW c \in Conn, NEW size \in Nat, NEW valid,
           StartFrame(c, Submit),
           Waits(c, [target |-> Submit, valid |-> valid, size |-> size]),
           outstanding' = size
    PROVE  SubmitInv'
<1>1. Submit \in Endpoint
  BY Endpoints DEF Submit
<1>2. frame'[Submit] = NewFrame(c)
  BY <1>1 DEF StartFrame, SocketInv
<1>3. NewFrame(c).queue = <<c>> /\ NewFrame(c).pc = "start"
  BY DEF NewFrame
<1>4. conn'[c].req.size = size
  BY DEF Waits, ConnType, Connection
<1>5. QueueSizes' = <<size>>
  <2>1. QueueSizes' = [i \in DOMAIN <<c>> |-> conn'[<<c>>[i]].req.size]
    BY <1>2, <1>3 DEF QueueSizes, Submit
  <2>2. DOMAIN <<c>> = {1} /\ <<c>>[1] = c
    OBVIOUS
  <2>3. QueueSizes' = [i \in {1} |-> size]
    BY <1>4, <2>1, <2>2
  <2>4. <<size>> = [i \in {1} |-> size]
    OBVIOUS
  <2> QED
    BY <2>3, <2>4
<1>6. TotalFrom(1, <<size>>) = size
  <2>1. <<size>> \in Seq(Nat) /\ <<size>> # <<>> /\ <<size>>[1] = size
        /\ Len(<<size>>) = 1
    OBVIOUS
  <2>2. PICK u \in [0..1 -> Nat] :
           Sums(u, 1, 1, <<size>>) /\ TotalFrom(1, <<size>>) = u[1]
    BY <2>1, TotalIsSum
  <2>3. \A i \in 0..1 : u[i] = IF i < 1 THEN 0 ELSE u[i - 1] + <<size>>[i]
    BY <2>2 DEF Sums
  <2>4. u[0] = 0 /\ u[1] = u[0] + <<size>>[1]
    <3>1. 0 \in 0..1 /\ 1 \in 0..1 /\ 0 < 1 /\ ~(1 < 1) /\ 1 - 1 = 0
      OBVIOUS
    <3> QED
      BY <2>3, <3>1
  <2> QED
    BY <2>1, <2>2, <2>4
<1>7. QueuedSize' = size
  BY <1>2, <1>3, <1>5, <1>6 DEF QueuedSize, Submit
<1>8. QueueSizes' \in Seq(Nat) /\ Len(frame'[Submit].queue) = 1
  BY <1>2, <1>3, <1>5
<1> QED
  BY <1>7, <1>8 DEF SubmitInv

\* What /submit_raw_tx does when a request arrives.
LEMMA SubmitRawTxKeeps ==
    ASSUME SocketInv, ConnType, WaitInv, SubmitInv, NEW c \in Conn,
           NEW valid \in BOOLEAN, NEW size \in Nat, SubmitRawTx(c, valid, size)
    PROVE  SubmitInv'
<1>0. conn[c].pc # "run" /\ outstanding \in Nat /\ SubmitTxMax \in Nat
  BY LimitAssumption DEF SubmitRawTx, Accepts, SubmitInv
<1>1. CASE frame' = frame /\ \E g : conn' = [conn EXCEPT ![c] = g]
  <2>1. PICK g : conn' = [conn EXCEPT ![c] = g]
    BY <1>1
  <2>2. \/ outstanding' = outstanding
        \/ /\ outstanding' = outstanding + size
           /\ ~(SubmitTxMax < size + outstanding)
        \/ frame[Submit] = None /\ frame'[Submit] = NewFrame(c)
    BY <1>0 DEF SubmitRawTx, AnswerNow, Counted, SocketInv, Endpoint, Shared, Serial, Submit
  <2>3. Submit \in Endpoint /\ NewFrame(c) # None
    BY Endpoints, NewFrameGood, GoodIsSome DEF Submit
  <2>4. \/ outstanding' = outstanding
        \/ /\ outstanding' \in Nat /\ outstanding <= outstanding'
           /\ outstanding' <= SubmitTxMax
    BY <1>0, <1>1, <2>2, <2>3
  <2> QED
    BY <1>0, <1>1, <2>1, <2>4, IdleSteady
<1>2. CASE /\ JoinFrame(c, Submit)
           /\ Waits(c, [target |-> Submit, valid |-> valid, size |-> size])
           /\ ~(SubmitTxMax < size + outstanding)
           /\ outstanding' = outstanding + size
  <2>1. size + outstanding <= SubmitTxMax
    BY <1>0, <1>2
  <2> QED
    BY <1>0, <1>2, <2>1, SubmitJoins
<1>3. CASE /\ StartFrame(c, Submit)
           /\ Waits(c, [target |-> Submit, valid |-> valid, size |-> size])
           /\ outstanding' = size
  BY <1>3, SubmitStarts
<1> QED
  BY <1>1, <1>2, <1>3 DEF SubmitRawTx, AnswerNow, Counted, JoinFrame,
                          StartFrame, Submit

\* What any request does.
LEMMA SubmitReceives ==
    ASSUME SocketInv, ConnType, CacheType, WaitInv, SubmitInv, NEW c \in Conn,
           Receive(c)
    PROVE  SubmitInv'
<1>1. conn[c].pc # "run"
  BY ReceiveEffect DEF Accepts
<1>2. CASE frame'[Submit] = frame[Submit] /\ outstanding' = outstanding
  <2>1. CASE ReceiveAnswers(c)
    BY <1>1, <1>2, <2>1, IdleSteady DEF ReceiveAnswers, Shutdown
  <2>2. ASSUME NEW e \in Endpoint, NEW r, ReceiveWaits(c, e, r)
        PROVE  SubmitInv'
    <3>1. conn' = [conn EXCEPT ![c] =
                      [conn[c] EXCEPT !.pc = "run", !.timer = "off", !.req = r]]
      BY <2>2 DEF ReceiveWaits, Waits, ConnType, Connection
    <3> QED
      BY <1>1, <1>2, <3>1, IdleSteady
  <2> QED
    BY <2>1, <2>2, ReceiveEffect
<1>3. PICK r \in Request :
         \/ AnswerSync(c, r)
         \/ NoClient(c, r)
         \/ r.target = "daemon_status" /\ DaemonStatus(c)
         \/ r.target = "get_unspent_outs" /\ GetUnspentOuts(c)
         \/ r.target = "get_random_outs" /\ GetRandomOuts(c, r.amounts)
         \/ r.target = "submit_raw_tx" /\ SubmitRawTx(c, r.valid, r.size)
  BY DEF Receive
<1>4. CASE AnswerSync(c, r) \/ NoClient(c, r)
  BY <1>2, <1>4 DEF AnswerSync, NoClient, AnswerNow
<1>5. CASE DaemonStatus(c) \/ GetUnspentOuts(c) \/ GetRandomOuts(c, r.amounts)
  <2>1. outstanding' = outstanding
    BY <1>5 DEF DaemonStatus, GetUnspentOuts, GetRandomOuts, AnswerNow
  <2>2. frame'[Submit] = frame[Submit]
    BY <1>5, Endpoints DEF DaemonStatus, GetUnspentOuts, GetRandomOuts, AnswerNow,
                           SocketInv, Submit
  <2> QED
    BY <1>2, <2>1, <2>2
<1>6. CASE r.target = "submit_raw_tx" /\ SubmitRawTx(c, r.valid, r.size)
  <2>1. r.valid \in BOOLEAN /\ r.size \in Nat
    BY <1>6, LimitAssumption DEF Request, Rings
  <2> QED
    BY <1>6, <2>1, SubmitRawTxKeeps
<1> QED
  BY <1>3, <1>4, <1>5, <1>6

\* Every step keeps the count.
LEMMA SubmitStepKeeps ==
    ASSUME SocketInv, AnswerInv, WaitInv, SubmitInv, [Next]_vars
    PROVE  SubmitInv'
<1>0. ConnType /\ CacheType
  BY DEF AnswerInv, ConnInv, ConnType
<1>1. CASE Resume
  <2>1. CASE DaemonStatusResume
    <3>1. outstanding' = outstanding
      BY <2>1 DEF DaemonStatusResume
    <3> QED
      BY <1>0, <2>1, <3>1, DaemonStatusStep, OtherSteady, Endpoints DEF Submit
  <2>2. CASE GetUnspentOutsResume
    <3>1. outstanding' = outstanding
      BY <2>2 DEF GetUnspentOutsResume
    <3> QED
      BY <1>0, <2>2, <3>1, GetUnspentOutsStep, OtherSteady, Endpoints DEF Submit
  <2>3. CASE RandomOutsNext \/ RandomOutsCall \/ PickProposal \/ PickKeys
    <3>1. outstanding' = outstanding
      BY <2>3 DEF RandomOutsNext, RandomOutsCall, PickProposal, PickKeys
    <3> QED
      BY <1>0, <2>3, <3>1, RandomOutsStep, OtherSteady, Endpoints DEF Submit
  <2> QED
    BY <1>0, <1>1, <2>1, <2>2, <2>3, SubmitNextKeeps, SubmitResumeKeeps DEF Resume
<1>2. ASSUME NEW e \in Endpoint,
             ZmqWrite(e) \/ ZmqRead(e) \/ ZmqError(e) \/ TimerExpires(e)
                \/ OnTimeout(e)
      PROVE  SubmitInv'
  <2>1. outstanding' = outstanding /\ conn' = conn
    BY <1>2 DEF ZmqWrite, ZmqRead, ZmqError, TimerExpires, OnTimeout
  <2>2. CASE e # Submit
    BY <1>2, <2>1, <2>2, IoSteps, OtherSteady
  <2>3. CASE e = Submit
    <3>1. CoKeep(Submit)
      BY <1>2, <2>3, IoSteps
    <3>2. frame[Submit] # None
      BY <3>1 DEF CoKeep
    <3>3. frame[Submit] \in Frame
      BY <3>2, SubmitQueue
    <3>4. frame'[Submit] # None /\ frame'[Submit].queue = frame[Submit].queue
      BY <2>3, <3>1 DEF CoKeep, FrameSet, SocketInv
    <3>5. frame'[Submit].pc = frame[Submit].pc
      BY <1>2, <2>3, <3>3 DEF ZmqWrite, ZmqRead, ZmqError, TimerExpires,
                              OnTimeout, SocketInv, Frame
    <3>6. Steady
      BY <2>1, <3>2, <3>4, <3>5 DEF Steady, First
    <3> QED
      BY <3>6, SteadyKeeps
  <2> QED
    BY <2>2, <2>3
<1>3. CASE frame' = frame /\ conn' = conn /\ outstanding' = outstanding
  <2>1. CASE frame[Submit] = None
    BY <1>3, <2>1, SubmitAbsent DEF SubmitInv
  <2>2. CASE frame[Submit] # None
    BY <1>3, <2>2, SteadyKeeps DEF Steady
  <2> QED
    BY <2>1, <2>2
<1>4. ASSUME NEW c \in Conn, Receive(c)
      PROVE  SubmitInv'
  BY <1>0, <1>4, SubmitReceives
<1>5. ASSUME NEW c \in Conn,
             \/ Accept(c) \/ Handshaken(c) \/ Written(c) \/ ReadLate(c)
             \/ Disconnect(c) \/ ConnTimerExpires(c) \/ ConnOnTimeout(c)
      PROVE  SubmitInv'
  <2>1. conn[c].pc # "run"
    BY <1>5 DEF WaitInv, Accept, Handshaken, Written, ReadLate, Disconnect,
                ConnTimerExpires, ConnOnTimeout
  <2>2. frame' = frame /\ outstanding' = outstanding
    BY <1>5, ConnSteps DEF Accept, Handshaken, Written, ReadLate, Disconnect,
                ConnTimerExpires, ConnOnTimeout
  <2>3. \E g : conn' = [conn EXCEPT ![c] = g]
    <3>1. ConnTimerExpires(c) => conn' = [conn EXCEPT ![c] = [conn[c] EXCEPT !.timer = "fired"]]
      BY <1>0 DEF ConnTimerExpires, ConnType, Connection
    <3>2. Accept(c) => \E pc \in {"handshake", "read"} :
             conn' = [conn EXCEPT ![c] = [conn[c] EXCEPT !.pc = pc, !.timer = "armed"]]
      BY <1>0 DEF Accept, ConnType, Connection
    <3>3. Shutdown(c) => conn' = [conn EXCEPT ![c] = Closed]
      BY DEF Shutdown
    <3>4. ReadRequest(c) => \E g : conn' = [conn EXCEPT ![c] = g]
      BY DEF ReadRequest, Shutdown
    <3> QED
      BY <1>5, <3>1, <3>2, <3>3, <3>4
         DEF Handshaken, Written, ReadLate, Disconnect, ConnOnTimeout
  <2> QED
    BY <1>0, <2>1, <2>2, <2>3, IdleSteady
<1> QED
  BY <1>1, <1>2, <1>3, <1>4, <1>5 DEF Next, CacheExpires, vars, work

\* However many messages are submitted, refused, sent and answered, in
\* whatever order, those that wait take no more than submit_tx_max, but for
\* one that started the frame: every size is counted before its message can
\* be sent, and what is taken off again was counted.
THEOREM SubmitIsBounded == Spec => []SubmitBounded
<1>1. Init => SubmitInv
  <2> SUFFICES ASSUME Init PROVE SubmitInv
    OBVIOUS
  <2>1. frame[Submit] = None /\ outstanding = 0
    BY Endpoints DEF Init, Submit
  <2> QED
    BY <2>1 DEF SubmitInv
<1>2. SocketInv /\ AnswerInv /\ WaitInv /\ SubmitInv /\ [Next]_vars => SubmitInv'
  BY SubmitStepKeeps
<1>3. SocketInv /\ SubmitInv => SubmitBounded
  BY SubmitImplies
<1> QED
  BY <1>1, <1>2, <1>3, WaitInvariant, ServerInvariant, PTL DEF Spec
=============================================================================
