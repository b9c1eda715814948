-------------------------- MODULE HttpClientProofs --------------------------
(***************************************************************************)
(* Proofs about HttpClient, for any number of messages, hosts and loops: a *)
(* late timer never cuts another message short, every message is ended and *)
(* notified once, and, without https, one loop serves the queue and posts  *)
(* each message to its own server.                                         *)
(***************************************************************************)
EXTENDS HttpClient, SequenceTheorems, FiniteSetTheorems, TLAPS

-----------------------------------------------------------------------------
(* Timers *)

(* No timer was set for an iteration still to come. *)
TimerInv ==
  /\ iteration \in Nat \ {0} /\ timer \in Nat /\ expired \subseteq Nat
  /\ timer <= iteration
  /\ \A i \in expired : i <= iteration
  /\ cutBy = {}

(* Iterations only grow, and a timer is set for the present one. *)
LEMMA TopTimer ==
  ASSUME TimerInv, NEW l, NEW q, NEW i \in Nat, NEW reuse, i >= iteration,
         Top(l, q, i, reuse), UNCHANGED <<expired, cutBy>>
  PROVE  TimerInv'
  BY DEF TimerInv, Top

(* A loop that finishes a message ends, or begins a later iteration. *)
LEMMA FinishTimer ==
  ASSUME TimerInv, NEW l, NEW keep, Finish(l, keep), UNCHANGED <<expired, cutBy>>
  PROVE  TimerInv'
<1> DEFINE m == Head(outgoing)
           q == Rest(outgoing)
           reuse == keep /\ KeepsConn(m, q)
<1>1. \/ UNCHANGED <<timer, iteration>>
      \/ Top(l, q, iteration + 1, reuse)
  BY DEF Finish
<1>2. iteration + 1 \in Nat /\ iteration + 1 >= iteration
  BY DEF TimerInv
<1>3. CASE UNCHANGED <<timer, iteration>>
  BY <1>3 DEF TimerInv
<1>4. CASE Top(l, q, iteration + 1, reuse)
  BY <1>2, <1>4, TopTimer
<1> QED
  BY <1>1, <1>3, <1>4

(* What a resumed coroutine does with the queue. *)
LEMMA ResumedKinds ==
  ASSUME NEW l \in Loops, Resumed(l)
  PROVE  \/ /\ pc[l] = "shutdown" /\ conn' = NoConn
            /\ Top(l, outgoing, iteration + 1, FALSE)
            /\ UNCHANGED <<outgoing, ended, notified>>
         \/ /\ pc[l] # "shutdown"
            /\ \E keep : Finish(l, keep) /\ (keep => pc[l] = "read")
         \/ pc[l] = "resolve" /\ res[l] # "error" /\ Waits(l, "connect")
         \/ /\ pc[l] = "connect" /\ res[l] # "error"
            /\ Waits(l, IF Head(outgoing) \in Https THEN "handshake" ELSE "write")
         \/ pc[l] = "handshake" /\ res[l] # "error" /\ Waits(l, "write")
         \/ pc[l] = "write" /\ res[l] # "error" /\ Waits(l, "read")
<1>1. CASE pc[l] = "shutdown"
  BY <1>1 DEF Resumed
<1>2. CASE pc[l] # "shutdown" /\ res[l] = "error"
  <2>1. Finish(l, FALSE)
    BY <1>2 DEF Resumed
  <2> QED
    BY <1>2, <2>1
<1>3. CASE res[l] # "error" /\ pc[l] = "resolve"
  BY <1>3 DEF Resumed
<1>4. CASE res[l] # "error" /\ pc[l] = "connect"
  BY <1>4 DEF Resumed
<1>5. CASE res[l] # "error" /\ pc[l] = "handshake"
  BY <1>5 DEF Resumed
<1>6. CASE res[l] # "error" /\ pc[l] = "write"
  BY <1>6 DEF Resumed
<1>7. CASE res[l] # "error" /\ pc[l] = "read"
  <2>1. Finish(l, res[l] = "keep")
    BY <1>7 DEF Resumed
  <2> QED
    BY <1>7, <2>1
<1> QED
  BY <1>1, <1>2, <1>3, <1>4, <1>5, <1>6, <1>7 DEF Resumed, Operations

(* Every step of the client, its timers and the network keeps this. *)
LEMMA TimerStep == TimerInv /\ [Next]_vars => TimerInv'
<1> SUFFICES ASSUME TimerInv, [Next]_vars PROVE TimerInv'
  OBVIOUS
<1>1. ASSUME NEW m \in Messages, QueueAsync(m) PROVE TimerInv'
  <2>1. UNCHANGED <<timer, expired, cutBy>> /\ (~Alive => iteration' = 1)
        /\ (Alive => iteration' = iteration)
    BY <1>1 DEF QueueAsync
  <2>2. ~Alive => timer = 0 /\ expired = {}
    BY DEF Alive
  <2> QED
    BY <2>1, <2>2 DEF TimerInv
<1>2. CASE Dispatched \/ UNCHANGED vars
  BY <1>2 DEF Dispatched, TimerInv, vars
<1>7. CASE TimerExpires
  BY <1>7 DEF TimerExpires, TimerInv
<1>3. ASSUME NEW i \in expired, OnTimeout(i) PROVE TimerInv'
  <2>1. i \in Nat /\ i <= iteration
    BY <1>3 DEF TimerInv
  <2>2. cutBy' = cutBy
    BY <1>3, <2>1 DEF OnTimeout, Stale, TimerInv
  <2> QED
    BY <1>3, <2>2 DEF OnTimeout, TimerInv
<1>4. ASSUME NEW l \in Loops, Completes(l) PROVE TimerInv'
  BY <1>4 DEF Completes, TimerInv
<1>5. ASSUME NEW l \in Loops, Started(l) PROVE TimerInv'
  <2>1. Top(l, outgoing, iteration, FALSE) /\ UNCHANGED <<expired, cutBy>>
    BY <1>5 DEF Started
  <2>2. iteration \in Nat /\ iteration >= iteration
    BY DEF TimerInv
  <2> QED
    BY <2>1, <2>2, TopTimer
<1>6. ASSUME NEW l \in Loops, Resumed(l) PROVE TimerInv'
  <2>1. UNCHANGED <<expired, cutBy>>
    BY <1>6 DEF Resumed
  <2>2. ASSUME Top(l, outgoing, iteration + 1, FALSE) PROVE TimerInv'
    <3>1. iteration + 1 \in Nat /\ iteration + 1 >= iteration
      BY DEF TimerInv
    <3> QED
      BY <2>1, <2>2, <3>1, TopTimer
  <2>3. ASSUME NEW keep, Finish(l, keep) PROVE TimerInv'
    BY <2>1, <2>3, FinishTimer
  <2>4. ASSUME NEW op, Waits(l, op) PROVE TimerInv'
    BY <2>1, <2>4 DEF Waits, TimerInv
  <2> QED
    BY <1>6, <2>2, <2>3, <2>4, ResumedKinds, Zenon
<1> QED
  BY <1>1, <1>2, <1>3, <1>4, <1>5, <1>6, <1>7 DEF Next

(* A timer whose handler runs late finds its iteration passed, whatever    *)
(* was queued, ended or started anew since: it cuts no later message.      *)
THEOREM TimersAreOwn == Spec => []TimersCutTheirOwn
<1>1. Init => TimerInv
  BY DEF Init, TimerInv
<1>2. TimerInv => TimersCutTheirOwn
  BY DEF TimerInv, TimersCutTheirOwn
<1> QED
  BY <1>1, <1>2, TimerStep, PTL DEF Spec

-----------------------------------------------------------------------------
(* Messages *)

Distinct(s) == \A i, j \in DOMAIN s : s[i] = s[j] => i = j
In(m, s) == \E i \in DOMAIN s : s[i] = m

(* Each message is in one of the three queues at most, and there once. *)
QueuedOnce ==
  /\ Distinct(dispatched) /\ Distinct(outgoing) /\ Distinct(ended)
  /\ \A m : /\ ~(In(m, dispatched) /\ In(m, outgoing))
            /\ ~(In(m, dispatched) /\ In(m, ended))
            /\ ~(In(m, outgoing) /\ In(m, ended))

(* The notifier of a GET was called once when the GET was popped, and not  *)
(* before.                                                                 *)
NotifiedOnce ==
  \A m \in Messages : notified[m] = IF m \in Gets /\ In(m, ended) THEN 1 ELSE 0

(* A message waiting in the queue has a loop to take it: no new state, with *)
(* an empty queue, replaces one that still holds messages.                  *)
NoneStranded == outgoing # <<>> => Running # {}

QueuesTyped ==
  /\ dispatched \in Seq(Messages) /\ outgoing \in Seq(Messages)
  /\ ended \in Seq(Messages) /\ notified \in [Messages -> Nat]
  /\ pc \in [Loops -> Operations \cup {"none", "posted"}]

MessageInv == QueuesTyped /\ QueuedOnce /\ NotifiedOnce /\ NoneStranded

(* A message new to a queue is appended to it once. *)
LEMMA AppendedOnce ==
  ASSUME NEW s \in Seq(Messages), NEW m \in Messages, Distinct(s), ~In(m, s)
  PROVE  /\ Append(s, m) \in Seq(Messages) /\ Distinct(Append(s, m))
         /\ \A x : In(x, Append(s, m)) <=> In(x, s) \/ x = m
<1> DEFINE t == Append(s, m)
<1>1. /\ t \in Seq(Messages) /\ DOMAIN t = DOMAIN s \cup {Len(s) + 1}
      /\ t[Len(s) + 1] = m /\ \A i \in DOMAIN s : t[i] = s[i]
  OBVIOUS
<1> HIDE DEF t
<1>2. Distinct(t)
  BY <1>1 DEF Distinct, In
<1>3. \A x : In(x, t) <=> In(x, s) \/ x = m
  BY <1>1 DEF In
<1> QED
  BY <1>1, <1>2, <1>3 DEF t

(* The front leaves the queue, and nothing else does. *)
LEMMA PoppedOnce ==
  ASSUME NEW s \in Seq(Messages), s # <<>>, Distinct(s)
  PROVE  /\ Tail(s) \in Seq(Messages) /\ Distinct(Tail(s))
         /\ Head(s) \in Messages
         /\ \A x : In(x, Tail(s)) <=> In(x, s) /\ x # Head(s)
<1> DEFINE t == Tail(s)
<1>1. /\ t \in Seq(Messages) /\ Len(s) \in Nat \ {0} /\ Len(t) = Len(s) - 1
      /\ DOMAIN t = 1..Len(t) /\ DOMAIN s = 1..Len(s)
      /\ \A i \in DOMAIN t : t[i] = s[i + 1]
      /\ Head(s) = s[1] /\ Head(s) \in Messages
  OBVIOUS
<1> HIDE DEF t
<1>2. /\ \A i \in DOMAIN t : i + 1 \in DOMAIN s /\ i + 1 # 1 /\ i \in Int
      /\ \A i \in DOMAIN s : i # 1 => i - 1 \in DOMAIN t /\ t[i - 1] = s[i]
  BY <1>1
<1>3. Distinct(t)
  <2> SUFFICES ASSUME NEW i \in DOMAIN t, NEW j \in DOMAIN t, t[i] = t[j] PROVE i = j
    BY DEF Distinct
  <2>1. i + 1 = j + 1
    BY <1>1, <1>2 DEF Distinct
  <2> QED
    BY <1>2, <2>1
<1>4. ASSUME NEW x, In(x, t) PROVE In(x, s) /\ x # s[1]
  <2>1. PICK i \in DOMAIN t : t[i] = x
    BY <1>4 DEF In
  <2>2. s[i + 1] = x /\ i + 1 \in DOMAIN s /\ i + 1 # 1 /\ 1 \in DOMAIN s
    BY <1>1, <1>2, <2>1
  <2> QED
    BY <2>2 DEF In, Distinct
<1>5. ASSUME NEW x, In(x, s), x # s[1] PROVE In(x, t)
  <2>1. PICK i \in DOMAIN s : s[i] = x
    BY <1>5 DEF In
  <2> QED
    BY <1>2, <1>5, <2>1 DEF In
<1> QED
  BY <1>1, <1>3, <1>4, <1>5 DEF t

(* The front message goes from the queue to the ended ones, and its        *)
(* notifier is called.                                                     *)
LEMMA FinishMessage ==
  ASSUME MessageInv, NEW l \in Loops, NEW keep, Finish(l, keep), outgoing # <<>>,
         pc[l] # "none", UNCHANGED dispatched
  PROVE  MessageInv'
<1> DEFINE m == Head(outgoing)
           q == Tail(outgoing)
<1>1. QueuesTyped /\ QueuedOnce /\ NotifiedOnce /\ NoneStranded
  BY DEF MessageInv
<1>2. /\ outgoing' = q /\ ended' = Append(ended, m) /\ notified' = Notifies(m)
  BY DEF Finish, Rest
<1>3. \E op \in Operations \cup {"none"} :
         pc' = [pc EXCEPT ![l] = op] /\ (op = "none" => q = <<>>)
  BY DEF Finish, Rest, Top, Operations
<1>4. /\ q \in Seq(Messages) /\ Distinct(q) /\ m \in Messages
      /\ \A x : In(x, q) <=> In(x, outgoing) /\ x # m
  BY <1>1, PoppedOnce DEF QueuesTyped, QueuedOnce
<1>5. In(m, outgoing)
  <2>1. 1 \in DOMAIN outgoing /\ outgoing[1] = m
    BY <1>1 DEF QueuesTyped
  <2> QED
    BY <2>1 DEF In
<1>6. ~In(m, ended) /\ ~In(m, dispatched)
  BY <1>1, <1>5 DEF QueuedOnce
<1>7. /\ Append(ended, m) \in Seq(Messages) /\ Distinct(Append(ended, m))
      /\ \A x : In(x, Append(ended, m)) <=> In(x, ended) \/ x = m
  BY <1>1, <1>4, <1>6, AppendedOnce DEF QueuesTyped, QueuedOnce
<1> HIDE DEF m, q
<1>8. QueuedOnce'
  BY <1>1, <1>2, <1>4, <1>6, <1>7 DEF QueuedOnce
<1>9. NotifiedOnce' /\ notified' \in [Messages -> Nat]
  <2>1. /\ notified' \in [Messages -> Nat]
        /\ \A x \in Messages : notified'[x] = IF x = m /\ m \in Gets THEN notified[x] + 1
                                                                    ELSE notified[x]
    BY <1>1, <1>2, <1>4 DEF Notifies, QueuesTyped
  <2>2. ASSUME NEW x \in Messages
        PROVE  notified'[x] = IF x \in Gets /\ In(x, ended') THEN 1 ELSE 0
    BY <1>1, <1>2, <1>6, <1>7, <2>1 DEF NotifiedOnce
  <2> QED
    BY <2>1, <2>2 DEF NotifiedOnce
<1>10. QueuesTyped'
  BY <1>1, <1>2, <1>3, <1>4, <1>7, <1>9 DEF QueuesTyped
<1>11. NoneStranded'
  BY <1>1, <1>2, <1>3 DEF NoneStranded, Running, QueuesTyped, Operations
<1> QED
  BY <1>8, <1>9, <1>10, <1>11 DEF MessageInv

(* A step that moves no message, and ends no loop while messages wait. *)
LEMMA MovedLoop ==
  ASSUME MessageInv, NEW l \in Loops, NEW op \in Operations \cup {"none"},
         pc' = [pc EXCEPT ![l] = op], op = "none" => outgoing = <<>>,
         UNCHANGED <<dispatched, outgoing, ended, notified>>
  PROVE  MessageInv'
<1>1. QueuesTyped' /\ QueuedOnce' /\ NotifiedOnce'
  BY DEF MessageInv, QueuesTyped, QueuedOnce, NotifiedOnce
<1>2. NoneStranded'
  BY DEF MessageInv, QueuesTyped, NoneStranded, Running, Operations
<1> QED
  BY <1>1, <1>2 DEF MessageInv

(* A free loop is one that is not running. *)
LEMMA FreeLoopIsFree ==
  ASSUME Running # Loops
  PROVE  FreeLoop \in Loops /\ FreeLoop \notin Running
<1>1. \E l \in Loops : l \notin Running
  BY DEF Running
<1> QED
  BY <1>1 DEF FreeLoop

(* Queueing, a turn of the dispatcher and every end of a loop keep each
   message in one place. *)
LEMMA MessageStep == MessageInv /\ [Next]_vars => MessageInv'
<1> SUFFICES ASSUME MessageInv, [Next]_vars PROVE MessageInv'
  OBVIOUS
<1>t. QueuesTyped /\ QueuedOnce /\ NotifiedOnce /\ NoneStranded
  BY DEF MessageInv
<1>1. ASSUME NEW m \in Messages, QueueAsync(m) PROVE MessageInv'
  <2>1. ~In(m, dispatched) /\ ~In(m, outgoing) /\ ~In(m, ended)
    BY <1>1 DEF QueueAsync, Queued, In
  <2>2. CASE Alive
    <3>1. dispatched' = Append(dispatched, m)
          /\ UNCHANGED <<outgoing, pc, ended, notified>>
      BY <1>1, <2>2 DEF QueueAsync
    <3>2. /\ Append(dispatched, m) \in Seq(Messages) /\ Distinct(Append(dispatched, m))
          /\ \A x : In(x, Append(dispatched, m)) <=> In(x, dispatched) \/ x = m
      BY <1>t, <2>1, AppendedOnce DEF QueuesTyped, QueuedOnce
    <3>3. QueuedOnce'
      BY <1>t, <2>1, <3>1, <3>2 DEF QueuedOnce
    <3>4. QueuesTyped' /\ NotifiedOnce' /\ NoneStranded'
      BY <1>t, <3>1, <3>2 DEF QueuesTyped, NotifiedOnce, NoneStranded, Running
    <3> QED
      BY <3>3, <3>4 DEF MessageInv
  <2>3. CASE ~Alive
    <3>1. /\ outgoing' = <<m>> /\ pc' = [pc EXCEPT ![FreeLoop] = "posted"]
          /\ UNCHANGED <<dispatched, ended, notified>>
      BY <1>1, <2>3 DEF QueueAsync
    <3>2. Running = {} /\ outgoing = <<>>
      BY <1>t, <2>3 DEF Alive, NoneStranded
    <3>3. FreeLoop \in Loops
      BY <3>2, FreeLoopIsFree, MessagesAssumption
    <3>4. /\ <<m>> \in Seq(Messages) /\ Distinct(<<m>>)
          /\ \A x : In(x, <<m>>) <=> x = m
      BY DEF Distinct, In
    <3>5. QueuedOnce'
      BY <1>t, <2>1, <3>1, <3>4 DEF QueuedOnce
    <3>6. QueuesTyped' /\ NotifiedOnce'
      BY <1>t, <3>1, <3>4 DEF QueuesTyped, NotifiedOnce
    <3>7. NoneStranded'
      BY <1>t, <3>1, <3>3 DEF QueuesTyped, NoneStranded, Running
    <3> QED
      BY <3>5, <3>6, <3>7 DEF MessageInv
  <2> QED
    BY <2>2, <2>3
<1>2. CASE Dispatched
  <2> DEFINE m == Head(dispatched)
  <2>1. /\ dispatched # <<>> /\ dispatched' = Tail(dispatched)
        /\ outgoing' = Append(outgoing, m) /\ UNCHANGED <<ended, notified>>
    BY <1>2 DEF Dispatched
  <2>2. /\ Tail(dispatched) \in Seq(Messages) /\ Distinct(Tail(dispatched))
        /\ m \in Messages
        /\ \A x : In(x, Tail(dispatched)) <=> In(x, dispatched) /\ x # m
    BY <1>t, <2>1, PoppedOnce DEF QueuesTyped, QueuedOnce
  <2>3. In(m, dispatched)
    <3>1. 1 \in DOMAIN dispatched /\ dispatched[1] = m
      BY <1>t, <2>1 DEF QueuesTyped
    <3> QED
      BY <3>1 DEF In
  <2>4. ~In(m, outgoing) /\ ~In(m, ended)
    BY <1>t, <2>3 DEF QueuedOnce
  <2>5. /\ Append(outgoing, m) \in Seq(Messages) /\ Distinct(Append(outgoing, m))
        /\ \A x : In(x, Append(outgoing, m)) <=> In(x, outgoing) \/ x = m
    BY <1>t, <2>2, <2>4, AppendedOnce DEF QueuesTyped, QueuedOnce
  <2>6. /\ pc' \in [Loops -> Operations \cup {"none", "posted"}]
        /\ \E l \in Loops : pc'[l] # "none"
    <3>1. CASE outgoing = <<>>
      <4>1. Running # Loops /\ pc' = [pc EXCEPT ![FreeLoop] = "posted"]
        BY <1>2, <3>1 DEF Dispatched, StartsLoop
      <4> QED
        BY <1>t, <4>1, FreeLoopIsFree DEF QueuesTyped
    <3>2. CASE outgoing # <<>>
      <4>1. pc' = pc
        BY <1>2, <3>2 DEF Dispatched, StartsLoop
      <4> QED
        BY <1>t, <3>2, <4>1 DEF QueuesTyped, NoneStranded, Running
    <3> QED
      BY <3>1, <3>2
  <2> HIDE DEF m
  <2>7. QueuedOnce'
    BY <1>t, <2>1, <2>2, <2>4, <2>5 DEF QueuedOnce
  <2>8. QueuesTyped' /\ NotifiedOnce' /\ NoneStranded'
    BY <1>t, <2>1, <2>2, <2>5, <2>6 DEF QueuesTyped, NotifiedOnce, NoneStranded, Running
  <2> QED
    BY <2>7, <2>8 DEF MessageInv
<1>3. CASE UNCHANGED <<dispatched, outgoing, pc, ended, notified>>
  BY <1>t, <1>3 DEF MessageInv, QueuesTyped, QueuedOnce, NotifiedOnce, NoneStranded, Running
<1>4. CASE TimerExpires \/ (\E i \in expired : OnTimeout(i))
           \/ (\E l \in Loops : Completes(l)) \/ UNCHANGED vars
  BY <1>3, <1>4 DEF TimerExpires, OnTimeout, Completes, vars
<1>5. ASSUME NEW l \in Loops, Started(l) PROVE MessageInv'
  <2> DEFINE op == IF outgoing = <<>> THEN "none" ELSE "resolve"
  <2>1. pc' = [pc EXCEPT ![l] = op] /\ UNCHANGED <<dispatched, outgoing, ended, notified>>
    BY <1>5 DEF Started, Top
  <2>2. op \in Operations \cup {"none"} /\ (op = "none" => outgoing = <<>>)
    BY DEF Operations
  <2> HIDE DEF op
  <2> QED
    BY <2>1, <2>2, MovedLoop
<1>6. ASSUME NEW l \in Loops, Resumed(l) PROVE MessageInv'
  <2>1. /\ UNCHANGED dispatched /\ pc[l] # "none"
        /\ pc[l] # "shutdown" => outgoing # <<>>
    BY <1>6 DEF Resumed, Operations
  <2>2. ASSUME Top(l, outgoing, iteration + 1, FALSE), UNCHANGED <<outgoing, ended, notified>>
        PROVE MessageInv'
    <3> DEFINE op == IF outgoing = <<>> THEN "none" ELSE "resolve"
    <3>1. pc' = [pc EXCEPT ![l] = op]
      BY <2>2 DEF Top
    <3>2. op \in Operations \cup {"none"} /\ (op = "none" => outgoing = <<>>)
      BY DEF Operations
    <3> HIDE DEF op
    <3> QED
      BY <2>1, <2>2, <3>1, <3>2, MovedLoop
  <2>3. ASSUME NEW keep, Finish(l, keep), pc[l] # "shutdown" PROVE MessageInv'
    BY <2>1, <2>3, FinishMessage
  <2>4. ASSUME NEW op \in Operations, Waits(l, op) PROVE MessageInv'
    <3>1. pc' = [pc EXCEPT ![l] = op] /\ UNCHANGED <<outgoing, ended, notified>>
          /\ op # "none"
      BY <2>4 DEF Waits, Operations
    <3> QED
      BY <2>1, <3>1, MovedLoop
  <2>5. {"connect", "handshake", "write", "read"} \subseteq Operations
    BY DEF Operations
  <2> QED
    BY <1>6, <2>2, <2>3, <2>4, <2>5, ResumedKinds
<1> QED
  BY <1>1, <1>2, <1>4, <1>5, <1>6 DEF Next

(* Each message queued is posted, or given up, once: it is in one place,   *)
(* its notifier is called once and only when it is popped, and whatever is *)
(* queued has a loop to take it, through every end and start of the loop,  *)
(* with https or without.                                                  *)
THEOREM MessagesEndOnce == Spec => [](QueuedOnce /\ NotifiedOnce /\ NoneStranded)
<1>1. Init => MessageInv
  BY DEF Init, MessageInv, QueuesTyped, QueuedOnce, NotifiedOnce, NoneStranded, Distinct, In
<1>2. MessageInv => QueuedOnce /\ NotifiedOnce /\ NoneStranded
  BY DEF MessageInv
<1> QED
  BY <1>1, <1>2, MessageStep, PTL DEF Spec

-----------------------------------------------------------------------------
(* One loop, when no message needs an SSL shutdown. *)

(* With no https message a loop is only ever stopped with its message in   *)
(* the queue, so the queue is empty exactly when no loop runs.             *)
LoopInv ==
  /\ outgoing \in Seq(Messages) /\ dispatched \in Seq(Messages)
  /\ pc \in [Loops -> (Operations \ {"handshake", "shutdown"}) \cup {"none", "posted"}]
  /\ \A l \in Running : outgoing # <<>>
  /\ \A k, l \in Running : k = l

Opened(r) == r \notin {"pending", "error"}

(* The connection a loop writes to, or just opened, is the one of the       *)
(* message at the front.                                                    *)
ServerInv ==
  /\ conn \in [to : {conn.to}, tls : {FALSE}, shut : BOOLEAN]
  /\ res \in [Loops -> {"pending", "ok", "error", "status", "close", "keep"}]
  /\ \A l \in Loops :
       pc[l] \in {"write", "read"} \/ (pc[l] = "connect" /\ Opened(res[l])) =>
         conn.to = Host[Head(outgoing)]

PlainInv == LoopInv /\ ServerInv

(* A loop goes to the next message over the connection of the last one only
   when both have one server. *)
LEMMA FinishPlain ==
  ASSUME Https = {}, PlainInv, NEW l \in Loops, NEW keep, Finish(l, keep),
         keep => pc[l] = "read", pc[l] \in Operations,
         UNCHANGED dispatched, res' = [res EXCEPT ![l] = "pending"]
  PROVE  PlainInv'
<1> DEFINE m == Head(outgoing)
           q == Tail(outgoing)
           reuse == keep /\ KeepsConn(m, q)
<1>1. /\ outgoing' = q /\ conn' = IF reuse THEN conn ELSE NoConn
      /\ pc' = [pc EXCEPT ![l] = IF q = <<>> THEN "none"
                                 ELSE IF reuse THEN "write" ELSE "resolve"]
  BY DEF Finish, Rest, Top
<1>2. l \in Running /\ Running = {l} /\ outgoing # <<>>
  BY DEF PlainInv, LoopInv, Running, Operations
<1>3. q \in Seq(Messages)
  BY <1>2 DEF PlainInv, LoopInv
<1> HIDE DEF q, m
<1>4. Running' \subseteq {l} /\ (q = <<>> => Running' = {})
  BY <1>1, <1>2 DEF Running, PlainInv, LoopInv
<1>5. LoopInv'
  BY <1>1, <1>3, <1>4 DEF PlainInv, LoopInv, Operations
<1>6. reuse => Host[Head(q)] = conn.to
  BY DEF PlainInv, ServerInv, KeepsConn, m
<1>7. ServerInv'
  <2>1. /\ conn' \in [to : {conn'.to}, tls : {FALSE}, shut : BOOLEAN]
        /\ res' \in [Loops -> {"pending", "ok", "error", "status", "close", "keep"}]
    BY <1>1 DEF PlainInv, ServerInv, NoConn
  <2>2. ASSUME NEW k \in Loops, \/ pc'[k] \in {"write", "read"}
                                \/ pc'[k] = "connect" /\ Opened(res'[k])
        PROVE  conn'.to = Host[Head(outgoing')]
    <3>1. k = l
      BY <1>4, <2>2 DEF Running
    <3>2. pc'[l] = "write" /\ reuse
      BY <1>1, <2>2, <3>1 DEF PlainInv, LoopInv
    <3> QED
      BY <1>1, <1>6, <3>2
  <2> QED
    BY <2>1, <2>2 DEF ServerInv
<1> QED
  BY <1>5, <1>7 DEF PlainInv

(* Every step without https keeps one loop, writing to the right server. *)
LEMMA PlainStep ==
  ASSUME Https = {}, PlainInv, [Next]_vars
  PROVE  PlainInv'
<1>t. LoopInv /\ ServerInv
  BY DEF PlainInv
<1>1. ASSUME NEW m \in Messages, QueueAsync(m) PROVE PlainInv'
  <2>1. UNCHANGED res
    BY <1>1 DEF QueueAsync
  <2>2. CASE Alive
    <3>1. dispatched' = Append(dispatched, m) /\ UNCHANGED <<outgoing, pc, conn>>
      BY <1>1, <2>2 DEF QueueAsync
    <3>2. LoopInv'
      BY <1>t, <3>1 DEF LoopInv, Running
    <3>3. ServerInv'
      BY <1>t, <2>1, <3>1 DEF ServerInv
    <3> QED
      BY <3>2, <3>3 DEF PlainInv
  <2>3. CASE ~Alive
    <3>1. /\ outgoing' = <<m>> /\ pc' = [pc EXCEPT ![FreeLoop] = "posted"]
          /\ conn' = NoConn /\ UNCHANGED dispatched
      BY <1>1, <2>3 DEF QueueAsync
    <3>2. Running = {}
      BY <2>3 DEF Alive
    <3>3. \A l \in Loops : pc[l] = "none"
      BY <3>2 DEF Running
    <3>4. FreeLoop \in Loops
      BY <3>2, FreeLoopIsFree, MessagesAssumption
    <3>5. \A l \in Loops : pc'[l] = IF l = FreeLoop THEN "posted" ELSE "none"
      BY <1>t, <3>1, <3>3, <3>4 DEF LoopInv
    <3>6. LoopInv'
      BY <1>t, <3>1, <3>4, <3>5 DEF LoopInv, Running
    <3>7. ServerInv'
      BY <1>t, <2>1, <3>1, <3>5 DEF ServerInv, NoConn
    <3> QED
      BY <3>6, <3>7 DEF PlainInv
  <2> QED
    BY <2>2, <2>3
<1>2. CASE Dispatched
  <2>1. /\ dispatched # <<>> /\ dispatched' = Tail(dispatched)
        /\ outgoing' = Append(outgoing, Head(dispatched)) /\ UNCHANGED <<conn, res>>
    BY <1>2 DEF Dispatched
  <2>2. /\ dispatched' \in Seq(Messages) /\ outgoing' \in Seq(Messages)
        /\ outgoing' # <<>> /\ (outgoing # <<>> => Head(outgoing') = Head(outgoing))
    BY <1>t, <2>1 DEF LoopInv
  <2>3. CASE outgoing # <<>>
    <3>1. pc' = pc
      BY <1>2, <2>3 DEF Dispatched, StartsLoop
    <3>2. LoopInv'
      BY <1>t, <2>2, <3>1 DEF LoopInv, Running
    <3>3. ServerInv'
      BY <1>t, <2>1, <2>2, <2>3, <3>1 DEF ServerInv
    <3> QED
      BY <3>2, <3>3 DEF PlainInv
  <2>4. CASE outgoing = <<>>
    <3>1. pc' = [pc EXCEPT ![FreeLoop] = "posted"]
      BY <1>2, <2>4 DEF Dispatched, StartsLoop
    <3>2. \A l \in Loops : pc[l] = "none"
      BY <1>t, <2>4 DEF LoopInv, Running
    <3>3. \A l \in Loops : pc'[l] \in {"posted", "none"} /\ (pc'[l] = "posted" => l = FreeLoop)
      BY <1>t, <3>1, <3>2 DEF LoopInv
    <3>4. LoopInv'
      BY <1>t, <2>2, <3>1, <3>3 DEF LoopInv, Running
    <3>5. ServerInv'
      BY <1>t, <2>1, <3>3 DEF ServerInv
    <3> QED
      BY <3>4, <3>5 DEF PlainInv
  <2> QED
    BY <2>3, <2>4
<1>3. CASE UNCHANGED <<dispatched, outgoing, pc, res, conn>>
  BY <1>t, <1>3 DEF PlainInv, LoopInv, ServerInv, Running
<1>4. CASE TimerExpires \/ UNCHANGED vars
  BY <1>3, <1>4 DEF TimerExpires, vars
<1>5. ASSUME NEW i \in expired, OnTimeout(i) PROVE PlainInv'
  <2>1. UNCHANGED <<dispatched, outgoing, pc>>
    BY <1>5 DEF OnTimeout
  <2>2. LoopInv'
    BY <1>t, <2>1 DEF LoopInv, Running
  <2>3. /\ conn' = conn \/ conn' = [conn EXCEPT !.shut = TRUE]
        /\ res' \in [Loops -> {"pending", "ok", "error", "status", "close", "keep"}]
        /\ \A l \in Loops : Opened(res'[l]) => Opened(res[l])
    BY <1>t, <1>5 DEF OnTimeout, ServerInv, Opened
  <2>4. conn'.to = conn.to /\ conn' \in [to : {conn.to}, tls : {FALSE}, shut : BOOLEAN]
    BY <1>t, <2>3 DEF ServerInv
  <2>5. ServerInv'
    BY <1>t, <2>1, <2>3, <2>4 DEF ServerInv
  <2> QED
    BY <2>2, <2>5 DEF PlainInv
<1>6. ASSUME NEW l \in Loops, Completes(l) PROVE PlainInv'
  <2>1. UNCHANGED <<dispatched, outgoing, pc>> /\ pc[l] \in Operations \ {"handshake", "shutdown"}
    BY <1>t, <1>6 DEF Completes, LoopInv, Operations
  <2>2. LoopInv'
    BY <1>t, <2>1 DEF LoopInv, Running
  <2>3. Running = {l}
    BY <1>t, <2>1 DEF LoopInv, Running, Operations
  <2>4. PICK r \in Outcomes(pc[l]) :
          /\ res' = [res EXCEPT ![l] = r]
          /\ conn' = CASE r = "ok" /\ pc[l] = "connect" ->
                            [NoConn EXCEPT !.to = Host[Head(outgoing)]]
                       [] r = "ok" /\ pc[l] = "handshake" -> [conn EXCEPT !.tls = TRUE]
                       [] OTHER -> conn
    BY <1>6 DEF Completes
  <2>5. r \in {"ok", "error", "status", "close", "keep"}
    BY <2>4 DEF Outcomes
  <2>6. res' \in [Loops -> {"pending", "ok", "error", "status", "close", "keep"}]
    BY <1>t, <2>4, <2>5 DEF ServerInv
  <2>7. CASE r = "ok" /\ pc[l] = "connect"
    <3>1. conn' = [NoConn EXCEPT !.to = Host[Head(outgoing)]]
      BY <2>4, <2>7
    <3>2. conn'.to = Host[Head(outgoing)]
          /\ conn' \in [to : {conn'.to}, tls : {FALSE}, shut : BOOLEAN]
      BY <3>1 DEF NoConn
    <3> QED
      BY <2>1, <2>2, <2>6, <3>2 DEF PlainInv, ServerInv
  <2>8. CASE ~(r = "ok" /\ pc[l] = "connect")
    <3>1. conn' = conn
      BY <2>1, <2>4, <2>8
    <3>2. pc[l] = "connect" => r = "error"
      BY <2>4, <2>8 DEF Outcomes
    <3>3. \A k \in Loops : pc[k] = "connect" /\ Opened(res'[k]) => Opened(res[k])
      BY <1>t, <2>4, <3>2 DEF ServerInv, Opened
    <3>4. ServerInv'
      BY <1>t, <2>1, <2>6, <3>1, <3>3 DEF ServerInv
    <3> QED
      BY <2>2, <3>4 DEF PlainInv
  <2> QED
    BY <2>7, <2>8
<1>7. ASSUME NEW l \in Loops, Started(l) PROVE PlainInv'
  <2>1. /\ UNCHANGED <<dispatched, outgoing, conn, res>> /\ l \in Running
        /\ pc' = [pc EXCEPT ![l] = IF outgoing = <<>> THEN "none" ELSE "resolve"]
    BY <1>7 DEF Started, Top, Running
  <2>2. outgoing # <<>>
    BY <1>t, <2>1 DEF LoopInv
  <2>3. pc' = [pc EXCEPT ![l] = "resolve"] /\ Running' = Running
    BY <1>t, <2>1, <2>2 DEF Running, LoopInv
  <2>4. LoopInv'
    BY <1>t, <2>1, <2>3 DEF LoopInv, Operations
  <2>5. ServerInv'
    BY <1>t, <2>1, <2>3 DEF ServerInv, LoopInv
  <2> QED
    BY <2>4, <2>5 DEF PlainInv
<1>8. ASSUME NEW l \in Loops, Resumed(l) PROVE PlainInv'
  <2>1. /\ UNCHANGED dispatched /\ res' = [res EXCEPT ![l] = "pending"]
        /\ pc[l] \in Operations \ {"handshake", "shutdown"} /\ res[l] # "pending"
    BY <1>t, <1>8 DEF Resumed, LoopInv, Operations
  <2>2. ASSUME NEW keep, Finish(l, keep), keep => pc[l] = "read" PROVE PlainInv'
    BY <2>1, <2>2, FinishPlain
  <2>3. ASSUME NEW op \in {"connect", "write", "read"}, Waits(l, op),
               op = "connect" \/ conn.to = Host[Head(outgoing)]
        PROVE  PlainInv'
    <3>1. pc' = [pc EXCEPT ![l] = op] /\ UNCHANGED <<outgoing, conn>>
      BY <2>3 DEF Waits
    <3>2. Running' = Running
      BY <1>t, <2>1, <3>1 DEF Running, LoopInv, Operations
    <3>3. LoopInv'
      BY <1>t, <2>1, <3>1, <3>2 DEF LoopInv, Operations
    <3>4. ServerInv'
      BY <1>t, <2>1, <2>3, <3>1 DEF ServerInv, LoopInv, Opened
    <3> QED
      BY <3>3, <3>4 DEF PlainInv
  <2>4. CASE pc[l] = "resolve" /\ Waits(l, "connect")
    BY <2>3, <2>4
  <2>5. CASE /\ pc[l] = "connect" /\ res[l] # "error"
             /\ Waits(l, IF Head(outgoing) \in Https THEN "handshake" ELSE "write")
    <3>1. Waits(l, "write")
      BY <2>5
    <3>2. Opened(res[l])
      BY <2>1, <2>5 DEF Opened
    <3> QED
      BY <1>t, <2>3, <2>5, <3>1, <3>2 DEF ServerInv
  <2>6. CASE pc[l] = "write" /\ Waits(l, "read")
    BY <1>t, <2>3, <2>6 DEF ServerInv
  <2> QED
    BY <1>8, <2>1, <2>2, <2>4, <2>5, <2>6, ResumedKinds, Zenon
<1> QED
  BY <1>1, <1>2, <1>4, <1>5, <1>6, <1>7, <1>8 DEF Next

(* So both hold throughout. *)
LEMMA PlainInvariant ==
  ASSUME Https = {}
  PROVE  Spec => []PlainInv
<1>1. Init => PlainInv
  BY DEF Init, PlainInv, LoopInv, ServerInv, Running, NoConn
<1>2. PlainInv /\ [Next]_vars => PlainInv'
  BY PlainStep
<1> QED
  BY <1>1, <1>2, PTL DEF Spec

(* Without https, one client_loop at most serves the queue, however        *)
(* queue_async, the dispatched calls and the end of the loop interleave.   *)
(* (An SSL shutdown waits with its message popped already, and lets a      *)
(* second loop start.)                                                     *)
THEOREM LoopsAreOne ==
  ASSUME Https = {}
  PROVE  Spec => []OneLoop
<1>1. PlainInv => OneLoop
  <2> SUFFICES ASSUME PlainInv PROVE OneLoop
    OBVIOUS
  <2>1. CASE Running = {}
    BY <2>1, FS_EmptySet DEF OneLoop
  <2>2. CASE Running # {}
    <3> PICK l \in Running : TRUE
      BY <2>2
    <3>1. Running = {l}
      BY DEF PlainInv, LoopInv
    <3>2. Cardinality({l}) = 1
      BY FS_Singleton
    <3> QED
      BY <3>1, <3>2 DEF OneLoop
  <2> QED
    BY <2>1, <2>2
<1> QED
  BY <1>1, PlainInvariant, PTL

(* Without https, a pending operation has its message in the queue, and    *)
(* what is written goes to the host and port of that message, also over a  *)
(* connection that was kept from an earlier one.                           *)
THEOREM ServersAreRight ==
  ASSUME Https = {}
  PROVE  Spec => [](FrontExists /\ RightServer)
<1>1. PlainInv => FrontExists /\ RightServer
  <2> SUFFICES ASSUME PlainInv PROVE FrontExists /\ RightServer
    OBVIOUS
  <2>1. FrontExists
    BY DEF PlainInv, LoopInv, FrontExists, Running, Operations
  <2>2. conn.tls = FALSE
    BY DEF PlainInv, ServerInv
  <2>3. \A l \in Loops : pc[l] \in {"write", "read"} => conn.to = Host[Head(outgoing)]
    BY DEF PlainInv, ServerInv
  <2>4. RightServer
    BY <2>2, <2>3 DEF RightServer
  <2> QED
    BY <2>1, <2>4
<1> QED
  BY <1>1, PlainInvariant, PTL
=============================================================================
