----------------------------- MODULE RestServer -----------------------------
(***************************************************************************)
(* The REST server (src/rest_server.cpp) and the calls it forwards to the  *)
(* daemon: connections with their timers, and the four endpoints that are  *)
(* answered asynchronously after a ZeroMQ exchange with monerod.           *)
(*                                                                         *)
(* Each of those endpoints keeps at most one frame: a coroutine that owns  *)
(* a REQ socket, a timer and the queue of connections that wait for it.    *)
(* /daemon_status and /get_unspent_outs make one call for all who wait,    *)
(* and cache its result; /get_random_outs and /submit_raw_tx serve their   *)
(* queue one request at a time over one socket.  A frame runs on a strand, *)
(* so the resumption of its coroutine and its timeout handler interleave   *)
(* in any order, but never overlap.                                        *)
(*                                                                         *)
(* A timer is "off"; "armed"; "fired" when it expired and its handler is   *)
(* queued, so that it can no longer be cancelled; or "ran".  A socket of   *)
(* type REQ must receive the answer of one request before it sends the     *)
(* next: sent says that an answer is outstanding.                          *)
(***************************************************************************)
EXTENDS Integers, Sequences, FiniteSets

CONSTANTS
    Conn,           \* connections
    None,           \* no frame, no request
    WaitQueueMax,   \* config::daemon_wait_queue_max
    RandomOutsMax,  \* config::get_random_outs_max
    SubmitTxMax,    \* config::submit_tx_max
    TxSizes,        \* bound: sizes of a submitted transaction
    Output,         \* global indexes of the outputs to pick decoys from
    Locked,         \* those that are locked
    Mixin,          \* the number of decoys that is asked for
    PickTries,      \* attempts of pick_random_outputs, 64 in the code
    Mixes           \* bound: sets of asynchronous endpoints used together

ASSUME LimitAssumption ==
    /\ Mixes \subseteq SUBSET {"daemon_status", "get_unspent_outs",
                              "get_random_outs", "submit_raw_tx"}
    /\ WaitQueueMax \in Nat /\ RandomOutsMax \in Nat /\ SubmitTxMax \in Nat
    /\ TxSizes \subseteq Nat \ {0}
    /\ Mixin \in Nat /\ PickTries \in Nat
    /\ Locked \subseteq Output /\ IsFiniteSet(Output)

Shared == {"daemon_status", "get_unspent_outs"}
Serial == {"get_random_outs", "submit_raw_tx"}
Endpoint == Shared \cup Serial

(***************************************************************************)
(* What a client may send.  Every synchronous endpoint is "sync" here; its *)
(* answer is ready when the handler returns.                               *)
(***************************************************************************)
Rings == {"ringct", "mixed", "plain"}
Request ==
    [target : {"daemon_status", "get_unspent_outs", "sync", "feed",
               "unknown", "unimplemented", "oversized", "bad_verb"}]
    \cup [target : {"get_random_outs"}, amounts : Rings \cup {"too_many"}]
    \cup [target : {"submit_raw_tx"}, valid : BOOLEAN, size : TxSizes]

\* Answers that are not of status 200, by what caused them.
Error ==
    {"unknown", "unimplemented", "oversized", "bad_verb", "feed", "load",
     "exceeded_limit", "daemon_timeout", "bad_daemon_response", "rejected",
     "account_not_found", "not_enough_amount", "not_enough_mixin",
     "bad_client_tx", "no_socket", "none"}

VARIABLES
    conn,         \* the connections
    frame,        \* the active frame of each endpoint (cache.status)
    pool,         \* rest_server_data::clients
    cache,        \* cached_result of the two shared endpoints
    pick,         \* locals of the /get_random_outs coroutine
    outstanding,  \* frame::outstanding of /submit_raw_tx
    used          \* the asynchronous endpoints the clients use

work == <<conn, frame, pool, cache, pick, outstanding>>
vars == <<work, used>>

Timer == {"off", "armed", "fired", "ran"}

Closed == [pc |-> "closed", timer |-> "off", req |-> None,
           answer |-> "none", ring |-> {}]
NoPick == [dist |-> FALSE, ring |-> {}, proposed |-> {}, tries |-> 0]

Connection ==
    [pc : {"closed", "handshake", "read", "run", "write"}, timer : Timer,
     req : Request \cup {None},
     answer : {"none", "error", "default", "ok", "fee", "no_fee"},
     ring : SUBSET Output]

Frame ==
    [pc : {"start", "pick", "write", "read"},
     io : {"none", "pending", "done", "failed"}, timer : Timer,
     stage : {"call", "histogram", "distribution", "keys"},
     sent : BOOLEAN, queue : Seq(Conn)]

ASSUME NoneAssumption == None \notin Frame

TypeOK ==
    /\ conn \in [Conn -> Connection]
    /\ frame \in [Endpoint -> Frame \cup {None}]
    /\ pool \in Seq([sent : BOOLEAN, timer : Timer])
    /\ cache \in [daemon_status : [result : {"none", "default", "ok"},
                                   fresh : BOOLEAN],
                  get_unspent_outs : [result : {"no_fee", "fee"},
                                      fresh : BOOLEAN]]
    /\ pick \in [dist : BOOLEAN, ring : SUBSET Output,
                 proposed : SUBSET Output, tries : 0..PickTries]
    /\ outstanding \in Nat
    /\ used \subseteq Endpoint

(***************************************************************************)
(* cache.last starts at the epoch of the steady clock, which may be less   *)
(* than daemon_cache_timeout ago.                                          *)
(***************************************************************************)
Init ==
    /\ conn = [c \in Conn |-> Closed]
    /\ frame = [e \in Endpoint |-> None]
    /\ pool = <<>>
    /\ pick = NoPick
    /\ outstanding = 0
    /\ used \in Mixes
    /\ \E fresh \in SUBSET (Shared \cap used) :
          cache = [daemon_status |->
                      [result |-> "none", fresh |-> "daemon_status" \in fresh],
                   get_unspent_outs |->
                      [result |-> "no_fee",
                       fresh |-> "get_unspent_outs" \in fresh]]

Waiting(e) == {frame[e].queue[i] : i \in DOMAIN frame[e].queue}

-----------------------------------------------------------------------------
(* Sockets, timers and frames. *)

\* get_async_client: the socket last given back, or a new one.
GetAsyncClient ==
    IF pool # <<>> THEN pool[Len(pool)] ELSE [sent |-> FALSE, timer |-> "off"]

PoolLeft == IF pool # <<>> THEN SubSeq(pool, 1, Len(pool) - 1) ELSE pool

\* store_async_client: the socket, and the timer whose handler may reach it.
StoreAsyncClient(f) == Append(pool, [sent |-> f.sent, timer |-> f.timer])

NewFrame(c) ==
    [pc |-> "start", io |-> "none", timer |-> "off", stage |-> "call",
     sent |-> GetAsyncClient.sent, queue |-> <<c>>]

\* set_timeout(..., false), then async_write.
Writes(f, stage) == [f EXCEPT !.pc = "write", !.io = "pending",
                              !.timer = "armed", !.stage = stage]

\* Mutant: the timeout is not renewed for the answer.
ReadsUntimed(f) == [f EXCEPT !.pc = "read", !.io = "pending",
                             !.timer = "off"]

\* set_timeout(..., true) has succeeded, then async_read.
Reads(f) == [f EXCEPT !.pc = "read", !.io = "pending", !.timer = "armed"]

\* The read has completed and timer.cancel() has succeeded.
Cancelled(f) == [f EXCEPT !.timer = "off", !.io = "none"]

\* I/O has failed, or has completed when it was too late to stop the timer.
Failed(f) == f.io = "failed" \/ (f.io = "done" /\ f.timer # "armed")

Wrote(f) == f.pc = "write" /\ f.io = "done"
HasRead(f) == f.pc = "read" /\ f.io = "done"

\* write_msg_op and read_msg_op complete.
ZmqWrite(e) ==
    /\ frame[e] # None /\ frame[e].pc = "write" /\ frame[e].io = "pending"
    /\ frame' = [frame EXCEPT ![e].io = "done", ![e].sent = TRUE]
    /\ UNCHANGED <<conn, pool, cache, pick, outstanding>>

ZmqRead(e) ==
    /\ frame[e] # None /\ frame[e].pc = "read" /\ frame[e].io = "pending"
    /\ frame' = [frame EXCEPT ![e].io = "done", ![e].sent = FALSE]
    /\ UNCHANGED <<conn, pool, cache, pick, outstanding>>

ZmqError(e) ==
    /\ frame[e] # None /\ frame[e].io = "pending"
    /\ frame' = [frame EXCEPT ![e].io = "failed"]
    /\ UNCHANGED <<conn, pool, cache, pick, outstanding>>

TimerExpires(e) ==
    /\ frame[e] # None /\ frame[e].timer = "armed"
    /\ frame' = [frame EXCEPT ![e].timer = "fired"]
    /\ UNCHANGED <<conn, pool, cache, pick, outstanding>>

\* on_timeout: client.close = true, and the pending operation is cancelled.
OnTimeout(e) ==
    /\ frame[e] # None /\ frame[e].timer = "fired"
    /\ frame' = [frame EXCEPT ![e].timer = "ran",
                              ![e].io = IF @ = "pending" THEN "failed" ELSE @]
    /\ UNCHANGED <<conn, pool, cache, pick, outstanding>>

-----------------------------------------------------------------------------
(* Connections. *)

\* The response is generated: resume() sets the timeout and starts to write.
Answered(c, answer) ==
    [conn[c] EXCEPT !.pc = "write", !.timer = "armed", !.req = None,
                    !.answer = IF answer \in Error THEN "error" ELSE answer]

\* The resumers of some connections are called, each with its own answer.
AnswerAll(answers) ==
    conn' = [c \in Conn |-> IF c \in DOMAIN answers
                              THEN Answered(c, answers[c]) ELSE conn[c]]

Shutdown(c) == conn' = [conn EXCEPT ![c] = Closed]

Accept(c) ==
    /\ conn[c].pc = "closed"
    /\ \E pc \in {"handshake", "read"} :
          conn' = [conn EXCEPT ![c].pc = pc, ![c].timer = "armed"]
    /\ UNCHANGED <<frame, pool, cache, pick, outstanding>>

\* The head of the loop: set_timeout fails if the last one has expired.
ReadRequest(c) ==
    IF conn[c].timer = "armed"
      THEN conn' = [conn EXCEPT ![c] =
                       [Closed EXCEPT !.pc = "read", !.timer = "armed"]]
      ELSE Shutdown(c)

Handshaken(c) ==
    /\ conn[c].pc = "handshake"
    /\ ReadRequest(c)
    /\ UNCHANGED <<frame, pool, cache, pick, outstanding>>

\* The response is written; without keep-alive the connection ends.
Written(c) ==
    /\ conn[c].pc = "write"
    /\ ReadRequest(c) \/ Shutdown(c)
    /\ UNCHANGED <<frame, pool, cache, pick, outstanding>>

\* Any I/O of the connection fails, or the timer's handler runs.
Disconnect(c) ==
    /\ conn[c].pc \in {"handshake", "read", "write"}
    /\ Shutdown(c)
    /\ UNCHANGED <<frame, pool, cache, pick, outstanding>>

ConnTimerExpires(c) ==
    /\ conn[c].timer = "armed"
    /\ conn' = [conn EXCEPT ![c].timer = "fired"]
    /\ UNCHANGED <<frame, pool, cache, pick, outstanding>>

ConnOnTimeout(c) ==
    /\ conn[c].timer = "fired"
    /\ Shutdown(c)
    /\ UNCHANGED <<frame, pool, cache, pick, outstanding>>

\* async_response runs when the read has completed in time.
Accepts(c) == conn[c].pc = "read" /\ conn[c].timer = "armed"

\* The read has completed, but the timer's handler is queued: shut down.
ReadLate(c) ==
    /\ conn[c].pc = "read" /\ conn[c].timer = "fired"
    /\ Shutdown(c)
    /\ UNCHANGED <<frame, pool, cache, pick, outstanding>>

\* The connection waits for its resumer.
Waits(c, r) ==
    conn' = [conn EXCEPT ![c].pc = "run", ![c].timer = "off", ![c].req = r]

\* Handler functions that answer at once.
AnswerNow(c, answer) ==
    /\ conn' = [conn EXCEPT ![c] = Answered(c, answer)]
    /\ UNCHANGED <<frame, pool, pick, outstanding>>

(***************************************************************************)
(* async_response: the tests that come before any handler, and the         *)
(* handlers that are not asynchronous.  A websocket takes the socket away. *)
(***************************************************************************)
AnswerSync(c, r) ==
    /\ Accepts(c)
    /\ \/ /\ r.target \in {"unknown", "unimplemented", "oversized",
                           "bad_verb", "sync", "feed"}
          /\ AnswerNow(c, IF r.target = "sync" THEN "ok" ELSE r.target)
       \/ /\ r.target = "feed"
          /\ Shutdown(c)
          /\ UNCHANGED <<frame, pool, pick, outstanding>>
    /\ UNCHANGED cache

-----------------------------------------------------------------------------
(* /daemon_status *)

\* handle: from the cache, by joining the active frame, or with a new one.
DaemonStatus(c) ==
    LET e == "daemon_status" IN
    /\ Accepts(c)
    /\ \/ /\ cache[e].result # "none" /\ cache[e].fresh
          /\ AnswerNow(c, cache[e].result)
          /\ UNCHANGED cache
       \/ /\ ~(cache[e].result # "none" /\ cache[e].fresh)
          /\ frame[e] # None
          /\ IF WaitQueueMax < Len(frame[e].queue)
               THEN AnswerNow(c, "load")
               ELSE /\ frame' = [frame EXCEPT ![e].queue = Append(@, c)]
                    /\ Waits(c, [target |-> e])
                    /\ UNCHANGED <<pool, pick, outstanding>>
          /\ UNCHANGED cache
       \/ /\ ~(cache[e].result # "none" /\ cache[e].fresh)
          /\ frame[e] = None
          /\ frame' = [frame EXCEPT ![e] = NewFrame(c)]
          /\ pool' = PoolLeft
          /\ cache' = [cache EXCEPT ![e].result = "none"]
          /\ Waits(c, [target |-> e])
          /\ UNCHANGED <<pick, outstanding>>

\* Mutant: the socket is given back after an error too.
DaemonStatusReuse(f, error, value) ==
    /\ pool' = StoreAsyncClient(f)
    /\ frame' = [frame EXCEPT !["daemon_status"] = None]
    /\ cache' = [cache EXCEPT !["daemon_status"] =
                    [result |-> value, fresh |-> value # "none" \/ @.fresh]]
    /\ AnswerAll([c \in Waiting("daemon_status") |-> value])

\* send_response: the socket is kept unless I/O failed; a value is cached,
\* the default response after an I/O error included.
DaemonStatusSend(f, error, value) ==
    /\ pool' = IF error THEN pool ELSE StoreAsyncClient(f)
    /\ frame' = [frame EXCEPT !["daemon_status"] = None]
    /\ cache' = [cache EXCEPT !["daemon_status"] =
                    [result |-> value, fresh |-> value # "none" \/ @.fresh]]
    /\ AnswerAll([c \in Waiting("daemon_status") |-> value])

DaemonStatusResume ==
    LET e == "daemon_status" f == frame[e] IN
    /\ f # None
    /\ \/ /\ f.pc = "start"
          /\ frame' = [frame EXCEPT ![e] = Writes(f, "call")]
          /\ UNCHANGED <<conn, pool, cache>>
       \/ Failed(f) /\ DaemonStatusSend(f, TRUE, "default")
       \/ /\ Wrote(f) /\ ~Failed(f)
          /\ frame' = [frame EXCEPT ![e] = Reads(f)]
          /\ UNCHANGED <<conn, pool, cache>>
       \/ /\ HasRead(f) /\ ~Failed(f)
          /\ \E value \in {"ok", "none"} :
                DaemonStatusSend(Cancelled(f), FALSE, value)
    /\ UNCHANGED <<pick, outstanding>>

-----------------------------------------------------------------------------
(* /get_unspent_outs *)

\* generate_response: the account is opened and the fee tested after the
\* daemon has answered.  The answer names the fee it was made from.
Generate(fee) ==
    IF fee = "none" THEN {"daemon_timeout"}
    ELSE {"account_not_found", "not_enough_amount"}
         \cup IF fee = "fee" THEN {fee} ELSE {"bad_daemon_response"}

GetUnspentOuts(c) ==
    LET e == "get_unspent_outs" IN
    /\ Accepts(c)
    /\ \/ /\ cache[e].fresh
          /\ \E answer \in Generate(cache[e].result) : AnswerNow(c, answer)
          /\ UNCHANGED cache
       \/ /\ ~cache[e].fresh /\ frame[e] # None
          /\ IF WaitQueueMax < Len(frame[e].queue)
               THEN AnswerNow(c, "load")
               ELSE /\ frame' = [frame EXCEPT ![e].queue = Append(@, c)]
                    /\ Waits(c, [target |-> e])
                    /\ UNCHANGED <<pool, pick, outstanding>>
          /\ UNCHANGED cache
       \/ /\ ~cache[e].fresh /\ frame[e] = None
          /\ frame' = [frame EXCEPT ![e] = NewFrame(c)]
          /\ pool' = PoolLeft
          /\ cache' = [cache EXCEPT ![e].result = "no_fee"]
          /\ Waits(c, [target |-> e])
          /\ UNCHANGED <<pick, outstanding>>

\* send_response: an error answers everyone with daemon_timeout, and leaves
\* the time of the cached fee alone.
GetUnspentOutsSend(f, error, fee) ==
    /\ pool' = IF error THEN pool ELSE StoreAsyncClient(f)
    /\ frame' = [frame EXCEPT !["get_unspent_outs"] = None]
    /\ cache' = [cache EXCEPT !["get_unspent_outs"] =
                    IF fee = "none" THEN [@ EXCEPT !.result = "no_fee"]
                                    ELSE [result |-> fee, fresh |-> TRUE]]
    /\ \E answers \in [Waiting("get_unspent_outs") -> Generate(fee)] :
          AnswerAll(answers)

\* The daemon's own answer may be the default one (a fee of zero).
GetUnspentOutsResume ==
    LET e == "get_unspent_outs" f == frame[e] IN
    /\ f # None
    /\ \/ /\ f.pc = "start"
          /\ frame' = [frame EXCEPT ![e] = Writes(f, "call")]
          /\ UNCHANGED <<conn, pool, cache>>
       \/ Failed(f) /\ GetUnspentOutsSend(f, TRUE, "none")
       \/ /\ Wrote(f) /\ ~Failed(f)
          /\ frame' = [frame EXCEPT ![e] = Reads(f)]
          /\ UNCHANGED <<conn, pool, cache>>
       \/ /\ HasRead(f) /\ ~Failed(f)
          /\ \E fee \in {"fee", "no_fee", "none"} :
                GetUnspentOutsSend(Cancelled(f), FALSE, fee)
    /\ UNCHANGED <<pick, outstanding>>

\* daemon_cache_timeout passes.
CacheExpires(e) ==
    /\ cache[e].fresh
    /\ cache' = [cache EXCEPT ![e].fresh = FALSE]
    /\ UNCHANGED <<conn, frame, pool, pick, outstanding>>

-----------------------------------------------------------------------------
(* /get_random_outs *)

GetRandomOuts(c, amounts) ==
    LET e == "get_random_outs"
        r == [target |-> e, amounts |-> amounts] IN
    /\ Accepts(c)
    /\ \/ amounts = "too_many" /\ AnswerNow(c, "exceeded_limit")
       \/ /\ amounts # "too_many" /\ frame[e] # None
          /\ IF RandomOutsMax < Len(frame[e].queue)
               THEN AnswerNow(c, "load")
               ELSE /\ frame' = [frame EXCEPT ![e].queue = Append(@, c)]
                    /\ Waits(c, r)
                    /\ UNCHANGED <<pool, pick, outstanding>>
       \/ /\ amounts # "too_many" /\ frame[e] = None
          /\ frame' = [frame EXCEPT ![e] = NewFrame(c)]
          /\ pool' = PoolLeft
          /\ pick' = NoPick
          /\ Waits(c, r)
          /\ UNCHANGED outstanding
    /\ UNCHANGED cache

\* send_response with an error: everyone in the queue gets it, and the
\* socket is not used again.
RandomOutsFail(answer) ==
    /\ AnswerAll([c \in Waiting("get_random_outs") |-> answer])
    /\ frame' = [frame EXCEPT !["get_random_outs"] = None]
    /\ UNCHANGED <<pool, pick>>

\* Mutant: the request stays at the front of the queue.
RandomOutsSendAgain(f, ring) ==
    /\ conn' = [conn EXCEPT ![Head(f.queue)] =
                   [Answered(Head(f.queue), "ok") EXCEPT !.ring = ring]]
    /\ frame' = [frame EXCEPT !["get_random_outs"] = [f EXCEPT !.pc = "start"]]
    /\ UNCHANGED pool

\* send_response without one: the front of the queue is answered.
RandomOutsSend(f, ring) ==
    /\ conn' = [conn EXCEPT ![Head(f.queue)] =
                   [Answered(Head(f.queue), "ok") EXCEPT !.ring = ring]]
    /\ frame' = [frame EXCEPT !["get_random_outs"] =
                    [f EXCEPT !.pc = "start", !.queue = Tail(@)]]
    /\ UNCHANGED pool

Amounts(f) == conn[Head(f.queue)].req.amounts

\* The distribution of RingCT outputs is kept for the next request, for as
\* long as daemon_cache_timeout.
AfterHistogram(f, dist) ==
    IF Amounts(f) # "plain" /\ ~dist THEN Writes(f, "distribution")
                                      ELSE [f EXCEPT !.pc = "pick"]

\* The head of the coroutine's loop.
RandomOutsNext ==
    LET e == "get_random_outs" f == frame[e] IN
    /\ f # None /\ f.pc = "start"
    /\ \/ /\ f.queue = <<>>
          /\ frame' = [frame EXCEPT ![e] = None]
          /\ pool' = StoreAsyncClient(f)
          /\ pick' = NoPick
       \/ /\ f.queue # <<>>
          /\ \E dist \in {FALSE, pick.dist} :
                /\ pick' = [NoPick EXCEPT !.dist = dist]
                /\ frame' = [frame EXCEPT ![e] =
                      IF Amounts(f) # "ringct" THEN Writes(f, "histogram")
                                               ELSE AfterHistogram(f, dist)]
          /\ UNCHANGED pool
    /\ UNCHANGED <<conn, cache, outstanding>>

\* An exchange with the daemon about histograms or the distribution.
RandomOutsCall ==
    LET e == "get_random_outs" f == frame[e] IN
    /\ f # None /\ f.stage \in {"histogram", "distribution", "keys"}
    /\ \/ Failed(f) /\ RandomOutsFail("daemon_timeout")
       \/ /\ Wrote(f) /\ ~Failed(f)
          /\ frame' = [frame EXCEPT ![e] = Reads(f)]
          /\ UNCHANGED <<conn, pool, pick>>
       \/ /\ HasRead(f) /\ ~Failed(f)
          /\ RandomOutsFail("bad_daemon_response")
       \/ /\ HasRead(f) /\ ~Failed(f) /\ f.stage = "histogram"
          /\ frame' = [frame EXCEPT ![e] =
                          AfterHistogram(Cancelled(f), pick.dist)]
          /\ UNCHANGED <<conn, pool, pick>>
       \/ /\ HasRead(f) /\ ~Failed(f) /\ f.stage = "distribution"
          /\ frame' = [frame EXCEPT ![e] =
                          [Cancelled(f) EXCEPT !.pc = "pick"]]
          /\ pick' = [pick EXCEPT !.dist = TRUE]
          /\ UNCHANGED <<conn, pool>>
    /\ UNCHANGED <<cache, outstanding>>

Exhausted == pick.tries = PickTries

\* pick_random_outputs, the selection of one attempt: new outputs that are
\* not in the ring yet, at most as many as it lacks.  An amount without
\* enough outputs has no ring at all.
PickProposal ==
    LET e == "get_random_outs" f == frame[e] IN
    /\ f # None /\ f.pc = "pick"
    /\ \/ Exhausted /\ RandomOutsFail("not_enough_mixin")
       \/ /\ pick.tries = 0
          /\ RandomOutsSend(f, {})
          /\ UNCHANGED pick
       \/ /\ ~Exhausted
          /\ \E new \in SUBSET (Output \ pick.ring) :
                /\ Cardinality(new) <= Mixin - Cardinality(pick.ring)
                /\ pick' = [pick EXCEPT !.proposed = new, !.tries = @ + 1]
          /\ frame' = [frame EXCEPT ![e] = Writes(f, "keys")]
          /\ UNCHANGED <<conn, pool>>
    /\ UNCHANGED <<cache, outstanding>>

\* Mutant: a ring is complete although some of its outputs are locked.
RingDoneLocked == Cardinality(pick.ring \cup pick.proposed) >= Mixin

\* The attempt completed the ring: nothing was dropped as a duplicate or
\* because it is locked.
RingDone ==
    /\ Cardinality(pick.ring \cup pick.proposed) >= Mixin
    /\ pick.proposed \cap Locked = {}

\* The keys of the proposed outputs have arrived.
PickKeys ==
    LET e == "get_random_outs" f == frame[e]
        ring == pick.ring \cup (pick.proposed \ Locked) IN
    /\ f # None /\ f.stage = "keys" /\ HasRead(f) /\ ~Failed(f)
    /\ IF RingDone
         THEN /\ RandomOutsSend(Cancelled(f), ring)
              /\ UNCHANGED pick
         ELSE /\ pick' = [pick EXCEPT !.ring = ring, !.proposed = {}]
              /\ frame' = [frame EXCEPT ![e] =
                              [Cancelled(f) EXCEPT !.pc = "pick"]]
              /\ UNCHANGED <<conn, pool>>
    /\ UNCHANGED <<cache, outstanding>>

-----------------------------------------------------------------------------
(* /submit_raw_tx *)

\* Mutant: the size of a message that joins the queue is not counted.
SubmitUncounted(size) == outstanding

Counted(size) == outstanding + size

\* handle.  A transaction that does not parse is refused after its size was
\* added to outstanding; with no active frame, the new one is dropped too.
SubmitRawTx(c, valid, size) ==
    LET e == "submit_raw_tx"
        r == [target |-> e, valid |-> valid, size |-> size] IN
    /\ Accepts(c)
    /\ \/ /\ frame[e] # None
          /\ IF SubmitTxMax < size + outstanding
               THEN AnswerNow(c, "load")
               ELSE /\ outstanding' = Counted(size)
                    /\ IF valid
                         THEN /\ frame' = [frame EXCEPT ![e].queue =
                                              Append(@, c)]
                              /\ Waits(c, r)
                         ELSE /\ conn' = [conn EXCEPT ![c] =
                                            Answered(c, "bad_client_tx")]
                              /\ UNCHANGED frame
                    /\ UNCHANGED <<pool, pick>>
       \/ /\ frame[e] = None /\ valid
          /\ frame' = [frame EXCEPT ![e] = NewFrame(c)]
          /\ outstanding' = size
          /\ pool' = PoolLeft
          /\ Waits(c, r)
          /\ UNCHANGED pick
       \/ /\ frame[e] = None /\ ~valid
          /\ conn' = [conn EXCEPT ![c] = Answered(c, "bad_client_tx")]
          /\ pool' = PoolLeft
          /\ UNCHANGED <<frame, pick, outstanding>>
    /\ UNCHANGED cache

SubmitFail ==
    /\ AnswerAll([c \in Waiting("submit_raw_tx") |-> "daemon_timeout"])
    /\ frame' = [frame EXCEPT !["submit_raw_tx"] = None]
    /\ outstanding' = 0
    /\ UNCHANGED pool

\* The first of the queue is answered.  When the daemon relayed its transaction
\* the handler also adds it to the copy of the pool (lines 1539-1540): that half
\* of the step is SubmitRelayed of module Mempool; no state kept here depends on
\* it.
SubmitSend(f, answer) ==
    /\ AnswerAll([c \in {Head(f.queue)} |-> answer])
    /\ frame' = [frame EXCEPT !["submit_raw_tx"] =
                    [f EXCEPT !.pc = "start", !.queue = Tail(@)]]
    /\ UNCHANGED <<pool, outstanding>>

\* The head of the coroutine's loop.
SubmitNext ==
    LET e == "submit_raw_tx" f == frame[e] IN
    /\ f # None /\ f.pc = "start"
    /\ \/ /\ f.queue = <<>>
          /\ frame' = [frame EXCEPT ![e] = None]
          /\ pool' = StoreAsyncClient(f)
          /\ outstanding' = 0
       \/ /\ f.queue # <<>>
          /\ LET size == conn[Head(f.queue)].req.size IN
             outstanding' = IF outstanding <= size THEN 0
                                                   ELSE outstanding - size
          /\ frame' = [frame EXCEPT ![e] = Writes(f, "call")]
          /\ UNCHANGED pool
    /\ UNCHANGED <<conn, cache, pick>>

SubmitResume ==
    LET e == "submit_raw_tx" f == frame[e] IN
    /\ f # None
    /\ \/ Failed(f) /\ SubmitFail
       \/ /\ Wrote(f) /\ ~Failed(f)
          /\ frame' = [frame EXCEPT ![e] = Reads(f)]
          /\ UNCHANGED <<conn, pool, outstanding>>
       \/ /\ HasRead(f) /\ ~Failed(f)
          /\ \E answer \in {"ok", "rejected", "bad_daemon_response"} :
                SubmitSend(Cancelled(f), answer)
    /\ UNCHANGED <<cache, pick>>

-----------------------------------------------------------------------------

\* Requests that are answered before a socket is asked for.
NeedsNone(r) ==
    \/ /\ r.target = "daemon_status"
       /\ cache[r.target].result # "none" /\ cache[r.target].fresh
    \/ r.target = "get_unspent_outs" /\ cache[r.target].fresh
    \/ r.target = "get_random_outs" /\ r.amounts = "too_many"

\* make_async_client fails when a new socket is needed.
NoClient(c, r) ==
    /\ Accepts(c)
    /\ r.target \in Endpoint /\ ~NeedsNone(r)
    /\ frame[r.target] = None /\ pool = <<>>
    /\ AnswerNow(c, "no_socket")
    /\ UNCHANGED cache

\* The next request of a connection.
Receive(c) ==
    \E r \in Request :
        /\ r.target \in Endpoint => r.target \in used
        /\ \/ AnswerSync(c, r)
           \/ NoClient(c, r)
           \/ r.target = "daemon_status" /\ DaemonStatus(c)
           \/ r.target = "get_unspent_outs" /\ GetUnspentOuts(c)
           \/ r.target = "get_random_outs" /\ GetRandomOuts(c, r.amounts)
           \/ r.target = "submit_raw_tx" /\ SubmitRawTx(c, r.valid, r.size)

\* The coroutine of a frame takes its next step.
Resume ==
    \/ DaemonStatusResume \/ GetUnspentOutsResume
    \/ RandomOutsNext \/ RandomOutsCall \/ PickProposal \/ PickKeys
    \/ SubmitNext \/ SubmitResume

Next ==
    /\ \/ Resume
       \/ \E e \in Endpoint : \/ ZmqWrite(e) \/ ZmqRead(e) \/ ZmqError(e)
                              \/ TimerExpires(e) \/ OnTimeout(e)
       \/ \E e \in Shared : CacheExpires(e)
       \/ \E c \in Conn :
             \/ Accept(c) \/ Receive(c) \/ Handshaken(c) \/ Written(c)
             \/ ReadLate(c) \/ Disconnect(c)
             \/ ConnTimerExpires(c) \/ ConnOnTimeout(c)
    /\ used' = used

Spec == Init /\ [][Next]_vars

(***************************************************************************)
(* The I/O threads run every handler that is queued, and timers expire.    *)
(* Nothing is assumed of the daemon, which may never answer, nor of the    *)
(* clients.                                                                *)
(***************************************************************************)
Fairness ==
    /\ WF_work(DaemonStatusResume) /\ WF_work(GetUnspentOutsResume)
    /\ WF_work(RandomOutsNext \/ RandomOutsCall \/ PickProposal \/ PickKeys)
    /\ WF_work(SubmitNext \/ SubmitResume)
    /\ \A e \in Endpoint : WF_work(TimerExpires(e)) /\ WF_work(OnTimeout(e))

FairSpec == Spec /\ Fairness

-----------------------------------------------------------------------------
(* Properties *)

\* A socket in rest_server_data::clients can be used: it awaits no answer
\* (a REQ socket in that state refuses the next request), and no timeout
\* handler of the frame that gave it back can still reach it, which would
\* dereference the moved-from socket.  Timer and I/O race in every frame.
PoolUsable ==
    \A i \in DOMAIN pool : ~pool[i].sent /\ pool[i].timer = "off"

\* Every connection that waits for a resumer is in exactly one queue, once:
\* it is answered, and not answered twice (a second call would write to a
\* coroutine that has moved on).  Nobody else is in a queue, and a coroutine
\* that serves its queue one by one is never busy for nobody.
AwaitedOnce ==
    /\ \A c \in Conn :
          conn[c].pc = "run" <=>
              \E e \in Endpoint : frame[e] # None /\ c \in Waiting(e)
    /\ \A e, d \in Endpoint : frame[e] # None /\ frame[d] # None =>
          \A i \in DOMAIN frame[e].queue, j \in DOMAIN frame[d].queue :
              frame[e].queue[i] = frame[d].queue[j] => e = d /\ i = j
    /\ \A e \in Serial :
          frame[e] # None /\ frame[e].pc # "start" => frame[e].queue # <<>>

\* What is left to sum up from position first on.
TotalFrom(first, sizes) ==
    LET upTo[i \in 0..Len(sizes)] ==
            IF i < first THEN 0 ELSE upTo[i - 1] + sizes[i] IN
    upTo[Len(sizes)]

\* The sizes of the messages in the queue of /submit_raw_tx.
QueueSizes ==
    LET q == frame["submit_raw_tx"].queue IN
    [i \in DOMAIN q |-> conn[q[i]].req.size]

\* The front of the queue is being sent, unless the coroutine is at the head
\* of its loop.
QueuedSize ==
    TotalFrom(IF frame["submit_raw_tx"].pc = "start" THEN 1 ELSE 2, QueueSizes)

\* The messages that wait to be sent by /submit_raw_tx take no more memory
\* than submit_tx_max (config.h), but for the one that started the frame.
SubmitBounded ==
    frame["submit_raw_tx"] # None =>
        /\ QueuedSize <= outstanding
        /\ Len(frame["submit_raw_tx"].queue) > 1 => QueuedSize <= SubmitTxMax

\* A successful answer of /get_unspent_outs is made from a fee the daemon
\* sent, whatever the cache was reset to and whenever: the cached response
\* and its time are written at different moments, and the time starts at
\* the epoch of the clock with no response at all.
FeesAreReal == \A c \in Conn : conn[c].answer # "no_fee"

\* An answer of /get_random_outs holds a full ring of distinct unlocked
\* outputs, or no ring, however many attempts dropped some of them.
RingsAreFull ==
    \A c \in Conn : conn[c].ring # {} =>
        /\ Cardinality(conn[c].ring) = Mixin
        /\ conn[c].ring \cap Locked = {}

\* A successful answer is made of what the daemon sent, and whole.
AnswersAreWhole == FeesAreReal /\ RingsAreFull

\* Every request that was accepted is answered, even if the daemon never
\* says anything: some timer is always running for it.
EveryRequestAnswered ==
    \A c \in Conn : conn[c].pc = "run" ~> conn[c].pc # "run"
=============================================================================
