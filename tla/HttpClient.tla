----------------------------- MODULE HttpClient -----------------------------
(***************************************************************************)
(* net::http::client (net/http/client.cpp): the client that posts webhooks *)
(* and fetches the exchange rates.  Any thread queues a message; one       *)
(* coroutine, client_loop, runs on the strand of the shared client_state   *)
(* and takes the messages one by one over one socket: resolve, connect,    *)
(* handshake, write, read, shutdown.  The client keeps only a weak         *)
(* reference to the state, which lives as long as a loop, a dispatched     *)
(* call or a waiting timer refers to it.                                   *)
(*                                                                         *)
(* A loop is stopped at its pending operation, pc; the operation completes *)
(* (res) on its own, and its handler then waits for the strand, which is   *)
(* where an expired timer can run first.  DNS, TCP, TLS and the servers    *)
(* are external: an operation may succeed, fail, or never complete.        *)
(***************************************************************************)
EXTENDS Naturals, Sequences, FiniteSets, TLC

CONSTANTS
  Messages,      \* the messages that may be queued, each at most once
  Gets,          \* those with a notifier (GET); the others are POSTs
  Host,          \* Host[m]: the host and port of the URL of m
  Https,         \* the messages with an https URL
  Loops          \* identities of client_loop coroutines

ASSUME MessagesAssumption ==
  /\ IsFiniteSet(Messages) /\ Loops # {}
  /\ Gets \subseteq Messages /\ Https \subseteq Messages

VARIABLES
  dispatched, \* messages on their way through dispatch(strand, ...)
  outgoing,   \* client_state::outgoing
  pc,         \* pc[l]: the operation loop l waits for
  res,        \* res[l]: how it completed, "pending" before
  conn,       \* client_state::sock: the open connection
  timer,      \* iteration the waiting timer was set for, 0 when none waits
  expired,    \* iterations of expired timers whose handler is on the strand
  iteration,  \* client_state::iteration, from 1 here so that 0 is no timer
  ended,      \* messages popped, in that order
  notified,   \* notified[m]: calls made to the notifier of m
  cutBy,      \* history: iterations of the timers that cut a later message short
  late        \* history: messages whose timer ran out during their name lookup

vars == <<dispatched, outgoing, pc, res, conn, timer, expired, iteration, ended,
          notified, cutBy, late>>

Operations == {"resolve", "connect", "handshake", "write", "read", "shutdown"}

NoConn == [to |-> "none", tls |-> FALSE, shut |-> FALSE]

(* A loop exists from boost::asio::post until its while loop ends. *)
Running == {l \in Loops : pc[l] # "none"}

(* The weak reference of the client can be locked: something still holds   *)
(* the state.                                                              *)
Alive == Running # {} \/ dispatched # <<>> \/ timer # 0 \/ expired # {}

Queued == {dispatched[i] : i \in DOMAIN dispatched}
            \cup {outgoing[i] : i \in DOMAIN outgoing}
            \cup {ended[i] : i \in DOMAIN ended}

Init ==
  /\ dispatched = <<>> /\ outgoing = <<>> /\ ended = <<>>
  /\ pc = [l \in Loops |-> "none"]
  /\ res = [l \in Loops |-> "pending"]
  /\ conn = NoConn
  /\ timer = 0 /\ expired = {} /\ iteration = 1
  /\ notified = [m \in Messages |-> 0]
  /\ cutBy = {} /\ late = {}

-----------------------------------------------------------------------------
(* The identity of the client_loop that boost::asio::post(strand, ...) makes. *)
FreeLoop == CHOOSE l \in Loops : l \notin Running

(* queue_async: with no state alive a new one is made, with the message in *)
(* its queue and a loop posted; otherwise the message is dispatched to the *)
(* strand of the state.                                                    *)
QueueAsync(m) ==
  /\ m \notin Queued
  /\ IF Alive
     THEN /\ dispatched' = Append(dispatched, m)
          /\ UNCHANGED <<outgoing, pc, iteration, conn>>
     ELSE /\ outgoing' = <<m>>
          /\ pc' = [pc EXCEPT ![FreeLoop] = "posted"]
          /\ iteration' = 1 /\ conn' = NoConn
          /\ UNCHANGED dispatched
  /\ UNCHANGED <<res, timer, expired, ended, notified, cutBy, late>>

(* Mutant: every message starts a loop. *)
StartsLoopAlways(q) == TRUE

(* Mutant: a message starts no loop. *)
StartsLoopNever(q) == FALSE

(* The dispatched call appends the message and posts a loop when the queue *)
(* was empty.                                                              *)
StartsLoop(q) == q = <<>>

Dispatched ==
  /\ dispatched # <<>>
  /\ StartsLoop(outgoing) => Running # Loops
  /\ outgoing' = Append(outgoing, Head(dispatched))
  /\ dispatched' = Tail(dispatched)
  /\ pc' = IF StartsLoop(outgoing) THEN [pc EXCEPT ![FreeLoop] = "posted"] ELSE pc
  /\ UNCHANGED <<res, conn, timer, expired, iteration, ended, notified, cutBy, late>>

-----------------------------------------------------------------------------
(* An operation completes.  A socket that was shut down only fails, the    *)
(* outcome of a read is the status and the keep-alive of the response, and *)
(* a lookup is not interrupted.                                            *)
Outcomes(op) ==
  CASE op = "read" /\ ~conn.shut -> {"error", "status", "close", "keep"}
    [] op = "resolve" \/ (op # "read" /\ ~conn.shut) -> {"ok", "error"}
    [] OTHER -> {"error"}

Completes(l) ==
  /\ pc[l] \in Operations /\ res[l] = "pending"
  /\ \E r \in Outcomes(pc[l]) :
       /\ res' = [res EXCEPT ![l] = r]
       /\ conn' = CASE r = "ok" /\ pc[l] = "connect" ->
                        [NoConn EXCEPT !.to = Host[Head(outgoing)]]
                   [] r = "ok" /\ pc[l] = "handshake" -> [conn EXCEPT !.tls = TRUE]
                   [] OTHER -> conn
  /\ UNCHANGED <<dispatched, outgoing, pc, timer, expired, iteration, ended, notified,
                 cutBy, late>>

(* steady_timer: the wait ends and its handler is queued on the strand. *)
TimerExpires ==
  /\ timer # 0
  /\ expired' = expired \cup {timer}
  /\ timer' = 0
  /\ UNCHANGED <<dispatched, outgoing, pc, res, conn, iteration, ended, notified, cutBy,
                 late>>

(* Mutant: the timer's iteration is not compared. *)
NeverStale(i) == FALSE

(* on_timeout ignores the timer of an earlier iteration. *)
Stale(i) == i < iteration

(* resolver.cancel(), cancel() and shutdown() of the socket: a pending     *)
(* operation of the socket is aborted, a connected socket is useless from  *)
(* then on, and a running lookup goes on.  The timer is not set again for  *)
(* what follows the lookup.                                                *)
OnTimeout(i) ==
  /\ i \in expired
  /\ expired' = expired \ {i}
  /\ IF Stale(i)
     THEN UNCHANGED <<res, conn, cutBy, late>>
     ELSE /\ res' = [l \in Loops |->
                IF pc[l] \in Operations \ {"resolve"} /\ res[l] = "pending"
                  THEN "error" ELSE res[l]]
          /\ conn' = IF conn.to # "none" THEN [conn EXCEPT !.shut = TRUE] ELSE conn
          /\ cutBy' = IF i = iteration THEN cutBy ELSE cutBy \cup {i}
          /\ late' = IF \E l \in Loops : pc[l] = "resolve"
                       THEN late \cup {Head(outgoing)} ELSE late
  /\ UNCHANGED <<dispatched, outgoing, pc, timer, iteration, ended, notified>>

-----------------------------------------------------------------------------
(* client_loop.  The top of the loop over queue q: nothing left ends the   *)
(* coroutine, otherwise the timer is set for iteration i (which cancels a  *)
(* timer still waiting) and the loop resolves, or writes over the          *)
(* connection it keeps.                                                    *)
Top(l, q, i, reuse) ==
  /\ pc' = [pc EXCEPT ![l] = IF q = <<>> THEN "none"
                             ELSE IF reuse THEN "write" ELSE "resolve"]
  /\ timer' = IF q = <<>> THEN timer ELSE i
  /\ iteration' = i

Waits(l, op) ==
  /\ pc' = [pc EXCEPT ![l] = op]
  /\ UNCHANGED <<outgoing, conn, timer, iteration, ended, notified>>

(* The front message m is finished with: its notifier is called, with the  *)
(* error or with the response; it is popped; the connection is kept when   *)
(* the next message goes to the same host and port, and closed otherwise,  *)
(* after an SSL shutdown for https.                                        *)
Notifies(m) == IF m \in Gets THEN [notified EXCEPT ![m] = @ + 1] ELSE notified

KeepsConn(m, q) == q # <<>> /\ Host[Head(q)] = Host[m]

(* outgoing.pop_front() *)
Rest(q) == Tail(q)

Finish(l, keep) ==
  LET m == Head(outgoing)
      q == Rest(outgoing)
      reuse == keep /\ KeepsConn(m, q)
  IN /\ outgoing' = q
     /\ ended' = Append(ended, m)
     /\ notified' = Notifies(m)
     /\ IF m \in Https /\ ~reuse
        THEN /\ pc' = [pc EXCEPT ![l] = "shutdown"]
             /\ UNCHANGED <<conn, timer, iteration>>
        ELSE /\ conn' = IF reuse THEN conn ELSE NoConn
             /\ Top(l, q, iteration + 1, reuse)

(* The coroutine is entered for the first time. *)
Started(l) ==
  /\ pc[l] = "posted"
  /\ Top(l, outgoing, iteration, FALSE)
  /\ UNCHANGED <<dispatched, outgoing, res, conn, expired, ended, notified, cutBy, late>>

(* The handler of the completed operation resumes the coroutine. *)
Resumed(l) ==
  /\ pc[l] \in Operations /\ res[l] # "pending"
  /\ pc[l] # "shutdown" => outgoing # <<>>
  /\ res' = [res EXCEPT ![l] = "pending"]
  /\ LET m == Head(outgoing) IN
     CASE pc[l] = "shutdown" ->
            /\ conn' = NoConn
            /\ Top(l, outgoing, iteration + 1, FALSE)
            /\ UNCHANGED <<outgoing, ended, notified>>
       [] pc[l] # "shutdown" /\ res[l] = "error" -> Finish(l, FALSE)
       [] pc[l] = "resolve" /\ res[l] # "error" -> Waits(l, "connect")
       [] pc[l] = "connect" /\ res[l] # "error" ->
            Waits(l, IF m \in Https THEN "handshake" ELSE "write")
       [] pc[l] = "handshake" /\ res[l] # "error" -> Waits(l, "write")
       [] pc[l] = "write" /\ res[l] # "error" -> Waits(l, "read")
       [] OTHER -> Finish(l, res[l] = "keep")
  /\ UNCHANGED <<dispatched, expired, cutBy, late>>
-----------------------------------------------------------------------------
Next ==
  \/ \E m \in Messages : QueueAsync(m)
  \/ Dispatched
  \/ TimerExpires
  \/ \E i \in expired : OnTimeout(i)
  \/ \E l \in Loops : Completes(l) \/ Started(l) \/ Resumed(l)

Spec == Init /\ [][Next]_vars

(* A lookup ends by itself and a socket that was shut down reports it;     *)
(* nothing makes a silent server answer.                                   *)
CertainlyCompletes(l) == (pc[l] = "resolve" \/ conn.shut) /\ Completes(l)

(* The io_context runs every handler posted to the strand, and every timer *)
(* waiting expires.                                                        *)
Fairness ==
  /\ WF_vars(Dispatched) /\ WF_vars(TimerExpires)
  /\ \A i \in 1..(Cardinality(Messages) + 1) : WF_vars(OnTimeout(i))
  /\ \A l \in Loops :
       WF_vars(CertainlyCompletes(l)) /\ WF_vars(Started(l)) /\ WF_vars(Resumed(l))

FairSpec == Spec /\ Fairness

-----------------------------------------------------------------------------
(* Types, and no message handed over is in two places at once or twice in  *)
(* the same queue.                                                         *)
TypeOK ==
  LET all == dispatched \o outgoing \o ended IN
  /\ Cardinality(Queued) = Len(all)
  /\ pc \in [Loops -> Operations \cup {"none", "posted"}]
  /\ res \in [Loops -> {"pending", "ok", "error", "status", "close", "keep"}]
  /\ iteration \in 1..(Len(all) + 1)
  /\ timer \in 0..iteration
  /\ notified \in [Messages -> Nat]

(* The state has one socket, one parser and one queue: two client_loops on *)
(* the same state would close the socket under each other and both serve   *)
(* the same front message.  This is so for plain http URLs (Https = {}): a *)
(* message that is queued during the SSL shutdown after the last one, when *)
(* the queue is empty already, does start a second loop.                   *)
OneLoop == Cardinality(Running) <= 1

(* What async_write, async_read and notify_error assert: while a loop has  *)
(* an operation for a message pending, that message is in the queue.       *)
FrontExists ==
  \A l \in Loops : (pc[l] \in Operations \ {"shutdown"}) => outgoing # <<>>

(* A kept connection only carries messages for the host and port it was    *)
(* opened to, in the clear or under TLS as the URL asks.                   *)
RightServer ==
  \A l \in Loops : pc[l] \in {"write", "read"} =>
    /\ conn.to = Host[Head(outgoing)]
    /\ conn.tls <=> Head(outgoing) \in Https

(* A timer whose expiry reaches the strand late never cuts short the       *)
(* message that came after the one it was set for.                         *)
TimersCutTheirOwn == cutBy = {}

(* Every message queued is done with, whatever its server does, and the    *)
(* notifier of a GET is called exactly once: the timer keeps one silent    *)
(* server from holding up every later webhook.  The exception is a front   *)
(* message whose name lookup outlasted its timer: the timer is spent, so   *)
(* nothing bounds the connect, write and read that follow, and a server    *)
(* that stays silent then keeps the whole queue waiting.                   *)
EveryMessageEnds ==
  \A m \in Messages :
    (m \in Queued) ~>
      \/ (\E i \in DOMAIN ended : ended[i] = m) /\ (m \in Gets => notified[m] = 1)
      \/ outgoing # <<>> /\ Head(outgoing) \in late
=============================================================================
