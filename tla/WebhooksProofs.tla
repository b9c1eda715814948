--------------------------- MODULE WebhooksProofs ---------------------------
(***************************************************************************)
(* Proofs about Webhooks, for any number of payments, hooks, scanners,     *)
(* blocks, reorganisations and rescans.                                    *)
(***************************************************************************)
EXTENDS Webhooks, TLAPS

Kind == Payments \cup SpendTxs \cup {Empty}

(* What the steps need to know of the shape of the tables. *)
Typed ==
  /\ chain \in Seq(Kind) /\ scan \in Nat /\ scan <= Len(chain)
  /\ \A o \in outputs : o.height \in Nat
  /\ \A e \in events : e.hook \in ConfirmHooks /\ e.height \in Nat
  /\ hooks \subseteq Hooks
  /\ \A v \in DOMAIN view : view[v].from \in Nat /\ \A o \in view[v].known : o.height \in Nat
  /\ view = [v \in DOMAIN view |-> view[v]]
  /\ rescans \in Nat /\ rollbacks \in Nat

(* A copy given to a scanner is a view like the others. *)
LEMMA AssignTyped ==
  ASSUME Typed, NEW v, Assign(v)
  PROVE  /\ DOMAIN view' = DOMAIN view \cup {v}
         /\ view'[v] = [from |-> scan, known |-> outputs]
         /\ \A w \in DOMAIN view : w # v => view'[w] = view[w]
         /\ view' = [w \in DOMAIN view' |-> view'[w]]
  BY DEF Assign, Typed

-----------------------------------------------------------------------------
(* What the operators of a check-in compute. *)

(* A confirmation is reported for one of the blocks begin .. end-1. *)
LEMMA ConfirmationsRange ==
  ASSUME NEW e, e.height \in Nat, Requested[e.hook] \in Nat,
         NEW begin \in Nat, NEW end \in Nat, NEW c \in Confirmations(e, begin, end)
  PROVE  /\ c \in Nat \ {0}
         /\ begin <= e.height + c - 1 /\ e.height + c - 1 < end
  BY DEF Confirmations, MaxOf, MinOf

(* An event that the check-in of a block at or above it does not finish is *)
(* owed more confirmations than there are blocks.                          *)
LEMMA UnfinishedIsOwed ==
  ASSUME NEW e, e.height \in Nat, Requested[e.hook] \in Nat,
         NEW begin \in Nat, NEW end \in Nat, begin < end, e.height < end,
         ~Finished(e, begin, end)
  PROVE  end - e.height < Requested[e.hook]
<1> DEFINE this_begin == MaxOf(begin, e.height)
           first == this_begin - e.height + 1
           final == MaxOf(first, MinOf(Requested[e.hook], end - e.height))
<1>1. this_begin \in Nat /\ this_begin < end /\ this_begin >= e.height
  BY DEF MaxOf
<1>2. first \in Nat /\ final \in Nat /\ first <= final
  BY <1>1 DEF MaxOf, MinOf
<1>3. Confirmations(e, begin, end) = first..final
  BY <1>1 DEF Confirmations
<1>4. final \in Confirmations(e, begin, end)
  BY <1>2, <1>3
<1>5. final < Requested[e.hook]
  BY <1>2, <1>4 DEF Finished
<1> QED
  BY <1>2, <1>5 DEF MaxOf, MinOf

(* What is found in blocks from+1 .. to. *)
LEMMA ReceivedRows ==
  ASSUME NEW from \in Nat, NEW to \in Nat
  PROVE  /\ \A i \in Nat : from < i /\ i <= to /\ chain[i] \in Payments =>
                [tx |-> chain[i], height |-> i] \in Received(from, to)
         /\ \A o \in Received(from, to) :
                /\ o.height \in Nat /\ from < o.height /\ o.height <= to
                /\ o.tx = chain[o.height] /\ o.tx \in Payments
                /\ o = [tx |-> o.tx, height |-> o.height]
  BY DEF Received

(* The events a check-in of outputs outs adds. *)
LEMMA NewEvents ==
  ASSUME NEW outs, NEW e \in Matching(CheckHooks(outs))
  PROVE  /\ e.hook \in hooks /\ e.hook \in ConfirmHooks
         /\ \E o \in outs : e.tx = o.tx /\ e.height = o.height
  BY DEF Matching, CheckHooks

(* A check-in of blocks from+1 .. to that moved the account. *)
Moved(from, to) ==
  /\ from <= scan /\ scan < to /\ to <= Len(chain)
  /\ scan' = to /\ outputs' = outputs \cup Received(from, to)
  /\ UNCHANGED <<chain, hooks, failed, rollbacks, rescans>>
  /\ \A e \in events' :
       /\ e \in events \/ e \in Matching(CheckHooks(Received(from, to)))
       /\ ~Finished(e, scan + 1, to + 1)
  /\ \E notices :
       /\ told' = told \cup notices /\ again' = again \cup (told \cap notices)
       /\ \A n \in notices :
            \/ n.hook \in SpendHooks
            \/ \E e \in events \cup Matching(CheckHooks(Received(from, to))) :
               \E c \in Confirmations(e, scan + 1, to + 1) :
                  n = [hook |-> e.hook, tx |-> e.tx, height |-> e.height, conf |-> c]

(* A check-in that moves the account: what becomes of events and notices.  *)
LEMMA StoreEffect ==
  ASSUME Typed, NEW v, NEW from \in Nat, NEW to \in Nat, from <= scan, scan < to,
         to <= Len(chain), Store(v, from, to), ~failed, ~failed'
  PROVE  /\ Moved(from, to)
         /\ view' = [view EXCEPT ![v] = [from |-> to,
                        known |-> view[v].known \cup Received(from, to)]]
<1> DEFINE found == Received(from, to)
           known == view[v].known \cup found
           spends == Spent(from, to, known)
           outs == outputs \cup found
           ongoing == events \cup Matching(CheckHooks(found))
           begin == OngoingStart(from)
           due == {e \in ongoing : Confirmations(e, begin, to + 1) # {}}
           notices == SpendNotices(spends) \cup
                      UNION {{[hook |-> e.hook, tx |-> e.tx, height |-> e.height,
                               conf |-> c] : c \in Confirmations(e, begin, to + 1)} : e \in due}
<1>1. begin = scan + 1
  BY DEF OngoingStart, MaxOf, Typed
<1>2. /\ scan' = to /\ outputs' = outs
      /\ events' = {e \in ongoing : ~Finished(e, begin, to + 1)}
      /\ SendWebhookAsync(notices)
      /\ view' = [view EXCEPT ![v] = [from |-> to, known |-> known]]
      /\ UNCHANGED <<chain, hooks, failed, rollbacks, rescans>>
  BY DEF Store
<1>3. \A n \in SpendNotices(spends) : n.hook \in SpendHooks
  BY DEF SpendNotices
<1>4. ASSUME NEW n \in notices
      PROVE  \/ n.hook \in SpendHooks
             \/ \E e \in ongoing : \E c \in Confirmations(e, begin, to + 1) :
                   n = [hook |-> e.hook, tx |-> e.tx, height |-> e.height, conf |-> c]
  <2>1. CASE n \in SpendNotices(spends)
    BY <1>3, <2>1
  <2>2. CASE \E e \in due : n \in
               {[hook |-> e.hook, tx |-> e.tx, height |-> e.height, conf |-> c] :
                  c \in Confirmations(e, begin, to + 1)}
    <3>1. PICK e \in due : n \in
               {[hook |-> e.hook, tx |-> e.tx, height |-> e.height, conf |-> c] :
                  c \in Confirmations(e, begin, to + 1)}
      BY <2>2
    <3>2. e \in ongoing
      OBVIOUS
    <3>3. \E c \in Confirmations(e, begin, to + 1) :
             n = [hook |-> e.hook, tx |-> e.tx, height |-> e.height, conf |-> c]
      BY <3>1
    <3> QED
      BY <3>2, <3>3
  <2> QED
    BY <2>1, <2>2
<1>5. told' = told \cup notices /\ again' = again \cup (told \cap notices)
  BY <1>2 DEF SendWebhookAsync
<1> HIDE DEF notices, due, begin, ongoing
<1>6. /\ told' = told \cup notices /\ again' = again \cup (told \cap notices)
      /\ \A n \in notices :
           \/ n.hook \in SpendHooks
           \/ \E e \in ongoing : \E c \in Confirmations(e, scan + 1, to + 1) :
                 n = [hook |-> e.hook, tx |-> e.tx, height |-> e.height, conf |-> c]
  BY <1>1, <1>4, <1>5
<1>7. \A e \in events' : e \in ongoing /\ ~Finished(e, scan + 1, to + 1)
  BY <1>1, <1>2
<1> QED
  BY <1>2, <1>6, <1>7 DEF ongoing, Moved

-----------------------------------------------------------------------------
(* The steps, as the invariants see them. *)

(* A check-in, by what it does with the account. *)
LEMMA CheckInKinds ==
  ASSUME Typed, NEW v, CheckIn(v)
  PROVE  /\ v \in DOMAIN view /\ view[v].from \in Nat
         /\ \E to \in Nat : /\ view[v].from < to /\ to <= Len(chain)
                            /\ \/ /\ UNCHANGED <<database, history>>
                                  /\ \/ view' = [w \in DOMAIN view \ {v} |-> view[w]]
                                     \/ view' = [view EXCEPT ![v] = [from |-> to,
                                          known |-> view[v].known
                                                      \cup Received(view[v].from, to)]]
                               \/ /\ view[v].from <= scan /\ scan < to
                                  /\ Store(v, view[v].from, to)
<1>1. v \in DOMAIN view /\ view[v].from \in Nat
  BY DEF CheckIn, Typed
<1>2. PICK to \in (view[v].from + 1)..Len(chain) :
       CASE scan < view[v].from ->
              /\ view' = [w \in DOMAIN view \ {v} |-> view[w]]
              /\ UNCHANGED <<database, history>>
         [] scan >= view[v].from /\ to <= scan ->
              /\ view' = [view EXCEPT ![v] = [from |-> to,
                            known |-> view[v].known \cup Received(view[v].from, to)]]
              /\ UNCHANGED <<database, history>>
         [] OTHER -> Store(v, view[v].from, to)
  BY DEF CheckIn
<1>3. to \in Nat /\ view[v].from < to /\ to <= Len(chain) /\ scan \in Nat
  BY <1>1 DEF Typed
<1>4. CASE scan < view[v].from
  BY <1>1, <1>2, <1>3, <1>4
<1>5. CASE scan >= view[v].from /\ to <= scan
  BY <1>1, <1>2, <1>3, <1>5
<1>6. CASE ~(scan < view[v].from) /\ ~(scan >= view[v].from /\ to <= scan)
  <2>1. Store(v, view[v].from, to)
    BY <1>2, <1>6
  <2>2. view[v].from <= scan /\ scan < to
    BY <1>1, <1>3, <1>6
  <2> QED
    BY <1>1, <1>3, <2>1, <2>2
<1> QED
  BY <1>4, <1>5, <1>6

(* The views stay views when one moves on or is dropped. *)
LEMMA ViewTyped ==
  ASSUME Typed, NEW v \in DOMAIN view, NEW to \in Nat,
         \/ view' = [w \in DOMAIN view \ {v} |-> view[w]]
         \/ view' = [view EXCEPT ![v] = [from |-> to,
                       known |-> view[v].known \cup Received(view[v].from, to)]]
  PROVE  /\ \A w \in DOMAIN view' :
              view'[w].from \in Nat /\ \A o \in view'[w].known : o.height \in Nat
         /\ view' = [w \in DOMAIN view' |-> view'[w]]
<1>1. \A o \in Received(view[v].from, to) : o.height \in Nat
  BY ReceivedRows DEF Typed
<1> QED
  BY <1>1 DEF Typed

(* Every step keeps the shape of the tables. *)
LEMMA TypedStep == Typed /\ [Next]_vars => Typed'
<1> SUFFICES ASSUME Typed, [Next]_vars PROVE Typed'
  OBVIOUS
<1>1. ASSUME NEW b \in Kind, NewBlock(b) PROVE Typed'
  <2>1. chain' \in Seq(Kind) /\ Len(chain') = Len(chain) + 1 /\ Len(chain) \in Nat
    BY <1>1 DEF NewBlock, Typed
  <2> QED
    BY <1>1, <2>1 DEF NewBlock, Typed, history
<1>2. ASSUME NEW h \in DOMAIN chain, Rollback(h) PROVE Typed'
  <2>1. /\ h \in 1..Len(chain) /\ chain' = SubSeq(chain, 1, h - 1)
        /\ scan' = (IF h <= scan THEN h - 1 ELSE scan)
    BY <1>2 DEF Rollback, Typed
  <2>2. chain' \in Seq(Kind) /\ Len(chain') = h - 1
    BY <2>1 DEF Typed
  <2>3. scan' \in Nat /\ (h <= scan => scan' <= Len(chain'))
    BY <2>1, <2>2 DEF Typed
  <2>4. scan' <= Len(chain')
    BY <2>1, <2>2 DEF Typed
  <2>5. view' = view
    BY <1>2 DEF Rollback
  <2>6. outputs' \subseteq outputs /\ events' \subseteq events
    BY <1>2 DEF Rollback, OutputsBelow, RolledBackEvents
  <2>7. hooks' = hooks /\ rescans' = rescans /\ rollbacks' = rollbacks + 1
    BY <1>2 DEF Rollback
  <2> QED
    BY <2>2, <2>3, <2>4, <2>5, <2>6, <2>7 DEF Typed
<1>3. ASSUME NEW h \in 1..scan, Rescan(h) PROVE Typed'
  BY <1>3 DEF Rescan, OutputsBelow, Typed
<1>4. ASSUME NEW h \in Hooks, AddWebhook(h) PROVE Typed'
  BY <1>4 DEF AddWebhook, Typed
<1>5. ASSUME NEW h \in Hooks, ClearWebhook(h) PROVE Typed'
  BY <1>5 DEF ClearWebhook, EventsWithout, Typed, history
<1>6. CASE ClearAccount
  BY <1>6 DEF ClearAccount, Typed, history
<1>7. ASSUME NEW v, Assign(v) PROVE Typed'
  <2>1. UNCHANGED <<database, history>>
    BY <1>7 DEF Assign
  <2>2. UNCHANGED <<chain, scan, outputs, hooks, events, rollbacks, rescans>>
    BY <2>1 DEF database, history
  <2>3. /\ DOMAIN view' = DOMAIN view \cup {v}
        /\ view'[v] = [from |-> scan, known |-> outputs]
        /\ \A w \in DOMAIN view : w # v => view'[w] = view[w]
        /\ view' = [w \in DOMAIN view' |-> view'[w]]
    BY <1>7, AssignTyped
  <2>4. view'[v].from \in Nat /\ \A o \in view'[v].known : o.height \in Nat
    BY <2>3 DEF Typed
  <2> QED
    BY <2>2, <2>3, <2>4 DEF Typed
<1>8. ASSUME NEW v, CheckIn(v), ~failed PROVE Typed'
  <2>1. v \in DOMAIN view /\ view[v].from \in Nat
    BY <1>8, CheckInKinds
  <2>2. PICK to \in Nat : /\ view[v].from < to /\ to <= Len(chain)
              /\ \/ /\ UNCHANGED <<database, history>>
                    /\ \/ view' = [w \in DOMAIN view \ {v} |-> view[w]]
                       \/ view' = [view EXCEPT ![v] = [from |-> to,
                            known |-> view[v].known \cup Received(view[v].from, to)]]
                 \/ /\ view[v].from <= scan /\ scan < to
                    /\ Store(v, view[v].from, to)
    BY <1>8, CheckInKinds
  <2>3. CASE /\ UNCHANGED <<database, history>>
             /\ \/ view' = [w \in DOMAIN view \ {v} |-> view[w]]
                \/ view' = [view EXCEPT ![v] = [from |-> to,
                     known |-> view[v].known \cup Received(view[v].from, to)]]
    <3>1. /\ \A w \in DOMAIN view' :
               view'[w].from \in Nat /\ \A o \in view'[w].known : o.height \in Nat
          /\ view' = [w \in DOMAIN view' |-> view'[w]]
      BY <2>1, <2>3, ViewTyped
    <3>2. UNCHANGED <<chain, scan, outputs, hooks, events, rollbacks, rescans>>
      BY <2>3 DEF database, history
    <3> QED
      BY <3>1, <3>2 DEF Typed
  <2>4. CASE view[v].from <= scan /\ scan < to /\ Store(v, view[v].from, to) /\ ~failed'
    <3> DEFINE from == view[v].from
    <3>0. from \in Nat /\ from <= scan /\ Store(v, from, to)
      BY <2>1, <2>4
    <3> HIDE DEF from
    <3>5. /\ Moved(from, to)
          /\ view' = [view EXCEPT ![v] = [from |-> to,
                         known |-> view[v].known \cup Received(from, to)]]
      BY <1>8, <2>2, <2>4, <3>0, StoreEffect
    <3>1. /\ scan' = to /\ outputs' = outputs \cup Received(from, to)
          /\ UNCHANGED <<chain, hooks, rollbacks, rescans>>
          /\ view' = [view EXCEPT ![v] = [from |-> to,
                         known |-> view[v].known \cup Received(from, to)]]
          /\ \A e \in events' :
               e \in events \/ e \in Matching(CheckHooks(Received(from, to)))
      BY <3>5 DEF Moved
    <3>2. \A o \in Received(from, to) : o.height \in Nat
      BY <3>0, ReceivedRows
    <3>3. \A e \in events' : e.hook \in ConfirmHooks /\ e.height \in Nat
      BY <3>1, <3>2, NewEvents DEF Typed
    <3>4. /\ \A w \in DOMAIN view' :
               view'[w].from \in Nat /\ \A o \in view'[w].known : o.height \in Nat
          /\ view' = [w \in DOMAIN view' |-> view'[w]]
      BY <2>1, <3>1, ViewTyped DEF from
    <3> QED
      BY <2>2, <3>1, <3>2, <3>3, <3>4 DEF Typed
  <2>5. CASE Store(v, view[v].from, to) /\ failed'
    <3>1. UNCHANGED <<database, view, rollbacks, rescans>>
      BY <1>8, <2>5 DEF Store
    <3> QED
      BY <3>1 DEF Typed, database
  <2> QED
    BY <2>2, <2>3, <2>4, <2>5
<1>9. CASE UNCHANGED vars
  BY <1>9 DEF vars, Typed
<1> QED
  BY <1>1, <1>2, <1>3, <1>4, <1>5, <1>6, <1>7, <1>8, <1>9 DEF Next, Kind

(* A check-in that failed: a row that an event or a spend needs is missing. *)
Broken(v, from, to) ==
  LET found == Received(from, to)
      outs == outputs \cup found
  IN /\ from <= scan /\ scan < to /\ to <= Len(chain)
     /\ UNCHANGED <<database, told, again, rollbacks, rescans>>
     /\ \/ \E e \in events \cup Matching(CheckHooks(found)) : ~Resolvable(e, outs)
        \/ ~SpendsResolvable(Spent(from, to, view[v].known \cup found), outs)

(* The steps of the specification, the check-ins by what they do. *)
LEMMA StepKinds ==
  ASSUME Typed, [Next]_vars
  PROVE  \/ UNCHANGED <<database, history>>
         \/ \E b \in Kind : NewBlock(b)
         \/ \E h \in DOMAIN chain : Rollback(h)
         \/ \E h \in 1..scan : Rescan(h)
         \/ \E h \in Hooks : AddWebhook(h) \/ ClearWebhook(h)
         \/ ClearAccount
         \/ \E from, to \in Nat : Moved(from, to)
         \/ \E v, from, to : from \in Nat /\ to \in Nat /\ Broken(v, from, to)
<1>1. CASE UNCHANGED vars
  BY <1>1 DEF vars, database, history
<1>2. ASSUME NEW v, Assign(v) PROVE UNCHANGED <<database, history>>
  BY <1>2 DEF Assign
<1>3. ASSUME NEW v, CheckIn(v), ~failed
      PROVE  \/ UNCHANGED <<database, history>>
             \/ \E from, to \in Nat : Moved(from, to)
             \/ \E w, from, to : from \in Nat /\ to \in Nat /\ Broken(w, from, to)
  <2> DEFINE from == view[v].from
  <2>1. from \in Nat
    BY <1>3, CheckInKinds
  <2>2. PICK to \in Nat : /\ from < to /\ to <= Len(chain)
              /\ \/ UNCHANGED <<database, history>>
                 \/ from <= scan /\ scan < to /\ Store(v, from, to)
    BY <1>3, CheckInKinds
  <2> HIDE DEF from
  <2>3. CASE from <= scan /\ scan < to /\ Store(v, from, to) /\ ~failed'
    <3>1. Moved(from, to)
      BY <1>3, <2>1, <2>2, <2>3, StoreEffect
    <3> QED
      BY <2>1, <3>1
  <2>4. CASE from <= scan /\ scan < to /\ Store(v, from, to) /\ failed'
    <3> DEFINE found == Received(from, to)
               ongoing == events \cup Matching(CheckHooks(found))
               due == {e \in ongoing : Confirmations(e, OngoingStart(from), to + 1) # {}}
               outs == outputs \cup found
               spends == Spent(from, to, view[v].known \cup found)
    <3>1. ~((\A e \in due : Resolvable(e, outs)) /\ SpendsResolvable(spends, outs))
      BY <1>3, <2>4 DEF Store
    <3>2. UNCHANGED <<database, view, told, again, rollbacks, rescans>>
      BY <1>3, <2>4 DEF Store
    <3>3. due \subseteq ongoing
      OBVIOUS
    <3> HIDE DEF due
    <3>4. \/ \E e \in ongoing : ~Resolvable(e, outs)
          \/ ~SpendsResolvable(spends, outs)
      BY <3>1, <3>3
    <3>5. Broken(v, from, to)
      BY <2>2, <2>4, <3>2, <3>4 DEF Broken
    <3> QED
      BY <2>1, <3>5
  <2> QED
    BY <2>2, <2>3, <2>4
<1> QED
  BY <1>1, <1>2, <1>3, Zenon DEF Next, Kind

-----------------------------------------------------------------------------
(* Notices *)

(* What was told about confirmations is about blocks already scanned. *)
ToldInv ==
  \A n \in told : n.hook \in ConfirmHooks =>
     /\ n.height \in Nat /\ n.conf \in Nat
     /\ n.height + n.conf <= scan + 1

NoticeInv == Typed /\ ToldInv /\ PaymentsToldOnce

(* Every step keeps this: no confirmation that was told is told again. *)
LEMMA NoticeStep == NoticeInv /\ [Next]_vars => NoticeInv'
<1> SUFFICES ASSUME NoticeInv, [Next]_vars PROVE NoticeInv'
  OBVIOUS
<1>1. Typed /\ ToldInv /\ PaymentsToldOnce /\ scan \in Nat
  BY DEF NoticeInv, Typed
<1>2. SUFFICES ToldInv' /\ PaymentsToldOnce'
  BY <1>1, TypedStep DEF NoticeInv
<1>3. CASE UNCHANGED <<scan, told, again>>
  BY <1>1, <1>3 DEF ToldInv, PaymentsToldOnce
<1>4. CASE UNCHANGED <<database, history>> \/ (\E b \in Kind : NewBlock(b))
           \/ (\E h \in Hooks : ClearWebhook(h)) \/ ClearAccount
           \/ (\E v, from, to : from \in Nat /\ to \in Nat /\ Broken(v, from, to))
  <2>1. UNCHANGED <<scan, told, again>>
    BY <1>4 DEF database, history, NewBlock, ClearWebhook, ClearAccount, Broken
  <2> QED
    BY <1>3, <2>1
<1>5. ASSUME NEW h \in DOMAIN chain, Rollback(h) PROVE ToldInv' /\ PaymentsToldOnce'
  <2>1. h \in Nat
    BY <1>1 DEF Typed
  <2>2. /\ told' = {n \in told : n.height + n.conf - 1 < h} /\ again' = again
        /\ scan' = IF h <= scan THEN h - 1 ELSE scan
    BY <1>5 DEF Rollback
  <2> QED
    BY <1>1, <2>1, <2>2 DEF ToldInv, PaymentsToldOnce
<1>6. ASSUME NEW h \in 1..scan, Rescan(h) PROVE ToldInv' /\ PaymentsToldOnce'
  <2>1. /\ told' = {n \in told : n.height + n.conf - 1 < h} /\ again' = again
        /\ scan' = h /\ h \in Nat
    BY <1>6 DEF Rescan
  <2> QED
    BY <1>1, <2>1 DEF ToldInv, PaymentsToldOnce
<1>7. ASSUME NEW h \in Hooks, AddWebhook(h) PROVE ToldInv' /\ PaymentsToldOnce'
  BY <1>1, <1>7 DEF AddWebhook, ToldInv, PaymentsToldOnce
<1>8. ASSUME NEW from \in Nat, NEW to \in Nat, Moved(from, to)
      PROVE  ToldInv' /\ PaymentsToldOnce'
  <2> DEFINE ongoing == events \cup Matching(CheckHooks(Received(from, to)))
  <2>1. PICK notices :
          /\ told' = told \cup notices /\ again' = again \cup (told \cap notices)
          /\ \A n \in notices :
               \/ n.hook \in SpendHooks
               \/ \E e \in ongoing : \E c \in Confirmations(e, scan + 1, to + 1) :
                     n = [hook |-> e.hook, tx |-> e.tx, height |-> e.height, conf |-> c]
    BY <1>8 DEF Moved
  <2>2. scan' = to /\ scan < to
    BY <1>8 DEF Moved
  <2>3. \A e \in ongoing : e.hook \in ConfirmHooks /\ e.height \in Nat
                           /\ Requested[e.hook] \in Nat
    BY <1>1, NewEvents, ReceivedRows, WebhooksAssumption DEF Typed
  <2> HIDE DEF ongoing
  <2>4. ASSUME NEW n \in notices, n.hook \in ConfirmHooks
        PROVE  /\ n.height \in Nat /\ n.conf \in Nat
               /\ scan + 1 < n.height + n.conf /\ n.height + n.conf <= to + 1
    <3>1. n.hook \notin SpendHooks
      BY <2>4, WebhooksAssumption
    <3>2. PICK e \in ongoing : \E c \in Confirmations(e, scan + 1, to + 1) :
             n = [hook |-> e.hook, tx |-> e.tx, height |-> e.height, conf |-> c]
      BY <2>1, <3>1
    <3>3. PICK c \in Confirmations(e, scan + 1, to + 1) :
             n = [hook |-> e.hook, tx |-> e.tx, height |-> e.height, conf |-> c]
      BY <3>2
    <3>4. scan + 1 \in Nat /\ to + 1 \in Nat
      BY <1>1
    <3>5. /\ c \in Nat \ {0}
          /\ scan + 1 <= e.height + c - 1 /\ e.height + c - 1 < to + 1
      BY <2>3, <3>4, ConfirmationsRange
    <3>6. n.height = e.height /\ n.conf = c /\ e.height \in Nat
      BY <2>3, <3>3
    <3> QED
      BY <1>1, <3>5, <3>6
  <2>5. ToldInv'
    <3> SUFFICES ASSUME NEW n \in told', n.hook \in ConfirmHooks
                 PROVE  /\ n.height \in Nat /\ n.conf \in Nat
                        /\ n.height + n.conf <= scan' + 1
      BY DEF ToldInv
    <3>1. CASE n \in told
      BY <1>1, <2>2, <3>1 DEF ToldInv
    <3>2. CASE n \in notices
      BY <2>2, <2>4, <3>2
    <3> QED
      BY <2>1, <3>1, <3>2
  <2>6. ASSUME NEW n \in told, n \in notices PROVE n.hook \notin ConfirmHooks
    BY <1>1, <2>4, <2>6 DEF ToldInv
  <2>7. PaymentsToldOnce'
    BY <1>1, <2>1, <2>6 DEF PaymentsToldOnce
  <2> QED
    BY <2>5, <2>7
<1> QED
  BY <1>1, <1>4, <1>5, <1>6, <1>7, <1>8, StepKinds

(* No confirmation is reported twice for a block still on the chain,       *)
(* however many scanners check the same blocks in, and through any number  *)
(* of reorganisations and rescans.                                         *)
THEOREM PaymentsAreToldOnce == Spec => []PaymentsToldOnce
<1>1. Init => NoticeInv
  BY DEF Init, NoticeInv, Typed, ToldInv, PaymentsToldOnce
<1>2. NoticeInv => PaymentsToldOnce
  BY DEF NoticeInv
<1> QED
  BY <1>1, <1>2, NoticeStep, PTL DEF Spec

-----------------------------------------------------------------------------
(* Events *)

EventInv == Typed /\ EventsResolve /\ EventsAreOngoing

(* Every step leaves every event with its output and hook, and owed. *)
LEMMA EventStep == EventInv /\ [Next]_vars => EventInv'
<1> SUFFICES ASSUME EventInv, [Next]_vars PROVE EventInv'
  OBVIOUS
<1>1. Typed /\ EventsResolve /\ EventsAreOngoing /\ scan \in Nat /\ rescans \in Nat
  BY DEF EventInv, Typed
<1>2. SUFFICES ASSUME rescans' = 0
               PROVE  \A e \in events' :
                        /\ Resolvable(e, outputs)'
                        /\ e.height <= scan' /\ scan' - e.height + 1 < Requested[e.hook]
  BY <1>1, TypedStep DEF EventInv, EventsResolve, EventsAreOngoing
<1> DEFINE Good == \A e \in events' :
                     /\ Resolvable(e, outputs)'
                     /\ e.height <= scan' /\ scan' - e.height + 1 < Requested[e.hook]
<1>3. rescans = 0 =>
        \A e \in events :
          /\ Resolvable(e, outputs) /\ e.height \in Nat /\ Requested[e.hook] \in Nat
          /\ e.height <= scan /\ scan - e.height + 1 < Requested[e.hook]
  BY <1>1, WebhooksAssumption DEF Typed, EventsResolve, EventsAreOngoing
<1>4. ASSUME UNCHANGED <<scan, outputs, rescans>>, events' \subseteq events,
             \A e \in events' : e.hook \in hooks'
      PROVE  Good
  BY <1>2, <1>3, <1>4 DEF Resolvable
<1>5. ASSUME UNCHANGED <<database, history>> \/ (\E b \in Kind : NewBlock(b))
             \/ (\E h \in Hooks : AddWebhook(h) \/ ClearWebhook(h)) \/ ClearAccount
             \/ (\E v, from, to : from \in Nat /\ to \in Nat /\ Broken(v, from, to))
      PROVE  Good
  <2>1. UNCHANGED <<scan, outputs, rescans>> /\ events' \subseteq events
    BY <1>5 DEF database, history, NewBlock, AddWebhook, ClearWebhook, ClearAccount,
                Broken, EventsWithout
  <2>2. \A e \in events : e.hook \in hooks
    BY <1>2, <1>3, <2>1 DEF Resolvable
  <2>3. \A e \in events' : e.hook \in hooks'
    BY <1>5, <2>2 DEF database, history, NewBlock, AddWebhook, ClearWebhook,
                      ClearAccount, Broken, EventsWithout
  <2> QED
    BY <1>4, <2>1, <2>3
<1>6. ASSUME NEW h \in DOMAIN chain, Rollback(h) PROVE Good
  <2>1. h \in Nat
    BY <1>1 DEF Typed
  <2>2. /\ outputs' = {o \in outputs : o.height < h}
        /\ events' = {e \in events : e.height < h}
        /\ scan' = (IF h <= scan THEN h - 1 ELSE scan)
        /\ hooks' = hooks /\ rescans' = rescans
    BY <1>6 DEF Rollback, OutputsBelow, RolledBackEvents
  <2>3. ASSUME NEW e \in events' PROVE Resolvable(e, outputs)'
    BY <1>2, <1>3, <2>2 DEF Resolvable
  <2>4. ASSUME NEW e \in events'
        PROVE  e.height <= scan' /\ scan' - e.height + 1 < Requested[e.hook]
    <3>1. /\ e.height \in Nat /\ Requested[e.hook] \in Nat /\ e.height < h
          /\ e.height <= scan /\ scan - e.height + 1 < Requested[e.hook]
      BY <1>2, <1>3, <2>2
    <3> QED
      BY <1>1, <2>1, <2>2, <3>1
  <2> QED
    BY <2>3, <2>4
<1>7. ASSUME NEW h \in 1..scan, Rescan(h) PROVE Good
  <2>1. rescans' = rescans + 1
    BY <1>7 DEF Rescan
  <2> QED
    BY <1>1, <1>2, <2>1
<1>8. ASSUME NEW from \in Nat, NEW to \in Nat, Moved(from, to) PROVE Good
  <2>1. /\ scan < to /\ scan' = to /\ outputs' = outputs \cup Received(from, to)
        /\ hooks' = hooks /\ rescans' = rescans
    BY <1>8 DEF Moved
  <2> SUFFICES ASSUME NEW e \in events'
               PROVE  /\ Resolvable(e, outputs)'
                      /\ e.height <= to /\ to - e.height + 1 < Requested[e.hook]
    BY <2>1
  <2>2. /\ e \in events \/ e \in Matching(CheckHooks(Received(from, to)))
        /\ ~Finished(e, scan + 1, to + 1)
    BY <1>8 DEF Moved
  <2>3. ASSUME e \in Matching(CheckHooks(Received(from, to)))
        PROVE  /\ e.hook \in hooks /\ e.hook \in ConfirmHooks
               /\ e.height \in Nat /\ e.height <= to
               /\ [tx |-> e.tx, height |-> e.height] \in Received(from, to)
    <3>1. PICK o \in Received(from, to) : e.tx = o.tx /\ e.height = o.height
      BY <2>3, NewEvents
    <3>2. o.height \in Nat /\ o.height <= to /\ o = [tx |-> o.tx, height |-> o.height]
      BY ReceivedRows
    <3> QED
      BY <2>3, <3>1, <3>2, NewEvents
  <2>4. e.height \in Nat /\ Requested[e.hook] \in Nat /\ e.height <= to
    BY <1>1, <1>2, <1>3, <2>1, <2>2, <2>3, WebhooksAssumption
  <2>5. Resolvable(e, outputs)'
    BY <1>2, <1>3, <2>1, <2>2, <2>3 DEF Resolvable
  <2>6. scan + 1 \in Nat /\ to + 1 \in Nat /\ scan + 1 < to + 1 /\ e.height < to + 1
    BY <1>1, <2>1, <2>4
  <2>7. to + 1 - e.height < Requested[e.hook]
    BY <2>2, <2>4, <2>6, UnfinishedIsOwed
  <2> QED
    BY <2>4, <2>5, <2>7
<1> HIDE DEF Good
<1>9. Good
  BY <1>1, <1>5, <1>6, <1>7, <1>8, StepKinds, Zenon
<1> QED
  BY <1>9 DEF Good

(* So the events are right throughout. *)
LEMMA EventInvariant == Spec => []EventInv
<1>1. Init => EventInv
  BY DEF Init, EventInv, Typed, EventsResolve, EventsAreOngoing
<1> QED
  BY <1>1, EventStep, PTL DEF Spec

(* Every event refers to a registered hook and a stored output, until an   *)
(* administrator rescans the account.                                      *)
THEOREM EventsHaveRows == Spec => []EventsResolve
<1>1. EventInv => EventsResolve
  BY DEF EventInv
<1> QED
  BY <1>1, EventInvariant, PTL

(* Between check-ins an event is owed at least one more confirmation, for  *)
(* any number of confirmations asked for, until the account is rescanned.  *)
THEOREM EventsAreOwed == Spec => []EventsAreOngoing
<1>1. EventInv => EventsAreOngoing
  BY DEF EventInv
<1> QED
  BY <1>1, EventInvariant, PTL

-----------------------------------------------------------------------------
(* Check-ins that fail *)

(* The chain spends only what it paid before. *)
ChainOrdered ==
  \A j \in DOMAIN chain : chain[j] \in SpendTxs =>
     \E i \in DOMAIN chain : i < j /\ chain[i] = SpendOf[chain[j]]

(* Every payment of the scanned blocks is stored. *)
OutputsComplete ==
  rescans = 0 => \A i \in 1..scan : chain[i] \in Payments =>
                     [tx |-> chain[i], height |-> i] \in outputs

(* Only a rescan makes a check-in fail. *)
OnlyRescansFail == failed => rescans > 0

StoreInv == EventInv /\ ChainOrdered /\ OutputsComplete /\ OnlyRescansFail

(* A spend is mined after the output it spends. *)
LEMMA OrderedStep ==
  ASSUME Typed, ChainOrdered, [Next]_vars
  PROVE  ChainOrdered'
<1>1. CASE UNCHANGED chain
  BY <1>1 DEF ChainOrdered
<1>2. ASSUME NEW b \in Kind, NewBlock(b) PROVE ChainOrdered'
  <2>1. /\ chain' = Append(chain, b)
        /\ b \in SpendTxs => \E i \in DOMAIN chain : chain[i] = SpendOf[b]
    BY <1>2 DEF NewBlock
  <2>2. /\ DOMAIN chain' = DOMAIN chain \cup {Len(chain) + 1} /\ Len(chain) \in Nat
        /\ DOMAIN chain = 1..Len(chain)
        /\ chain'[Len(chain) + 1] = b /\ \A i \in DOMAIN chain : chain'[i] = chain[i]
    BY <2>1 DEF Typed
  <2> SUFFICES ASSUME NEW j \in DOMAIN chain', chain'[j] \in SpendTxs
               PROVE  \E i \in DOMAIN chain' : i < j /\ chain'[i] = SpendOf[chain'[j]]
    BY DEF ChainOrdered
  <2>3. CASE j \in DOMAIN chain
    BY <2>2, <2>3 DEF ChainOrdered
  <2>4. CASE j = Len(chain) + 1
    <3>1. PICK i \in DOMAIN chain : chain[i] = SpendOf[b]
      BY <2>1, <2>2, <2>4
    <3>2. i < j
      BY <2>2, <2>4
    <3> QED
      BY <2>2, <2>4, <3>1, <3>2
  <2> QED
    BY <2>2, <2>3, <2>4
<1>3. ASSUME NEW h \in DOMAIN chain, Rollback(h) PROVE ChainOrdered'
  <2>1. chain' = SubSeq(chain, 1, h - 1) /\ h \in 1..Len(chain) /\ Len(chain) \in Nat
    BY <1>3 DEF Rollback, Typed
  <2>2. /\ DOMAIN chain' = 1..(h - 1) /\ DOMAIN chain = 1..Len(chain)
        /\ \A i \in 1..(h - 1) : chain'[i] = chain[i]
    BY <2>1 DEF Typed
  <2> SUFFICES ASSUME NEW j \in DOMAIN chain', chain'[j] \in SpendTxs
               PROVE  \E i \in DOMAIN chain' : i < j /\ chain'[i] = SpendOf[chain'[j]]
    BY DEF ChainOrdered
  <2>3. j \in DOMAIN chain /\ chain'[j] = chain[j] /\ j < h /\ j \in Nat
    BY <2>1, <2>2
  <2>4. PICK i \in DOMAIN chain : i < j /\ chain[i] = SpendOf[chain[j]]
    BY <2>3 DEF ChainOrdered
  <2>5. i \in DOMAIN chain' /\ chain'[i] = chain[i]
    BY <2>1, <2>2, <2>3, <2>4
  <2> QED
    BY <2>3, <2>4, <2>5
<1>4. CASE UNCHANGED <<database, history>>
           \/ (\E h \in 1..scan : Rescan(h))
           \/ (\E h \in Hooks : AddWebhook(h) \/ ClearWebhook(h)) \/ ClearAccount
           \/ (\E from, to \in Nat : Moved(from, to))
           \/ (\E v, from, to : from \in Nat /\ to \in Nat /\ Broken(v, from, to))
  <2>1. UNCHANGED chain
    BY <1>4 DEF database, Rescan, AddWebhook, ClearWebhook, ClearAccount, Broken, Moved
  <2> QED
    BY <1>1, <2>1
<1> QED
  BY <1>2, <1>3, <1>4, StepKinds

(* Without a rescan, every output of a scanned block is stored. *)
LEMMA CompleteStep ==
  ASSUME Typed, OutputsComplete, [Next]_vars
  PROVE  OutputsComplete'
<1>1. scan \in Nat /\ rescans \in Nat /\ Len(chain) \in Nat /\ scan <= Len(chain)
      /\ DOMAIN chain = 1..Len(chain)
  BY DEF Typed
<1>2. CASE UNCHANGED <<chain, scan, outputs, rescans>>
  BY <1>2 DEF OutputsComplete
<1>3. ASSUME NEW b \in Kind, NewBlock(b) PROVE OutputsComplete'
  <2>1. chain' = Append(chain, b) /\ UNCHANGED <<scan, outputs, rescans>>
    BY <1>3 DEF NewBlock, history
  <2>2. \A i \in 1..scan : chain'[i] = chain[i]
    BY <1>1, <2>1 DEF Typed
  <2> QED
    BY <2>1, <2>2 DEF OutputsComplete
<1>4. ASSUME NEW h \in DOMAIN chain, Rollback(h) PROVE OutputsComplete'
  <2>1. /\ chain' = SubSeq(chain, 1, h - 1) /\ h \in 1..Len(chain)
        /\ scan' = (IF h <= scan THEN h - 1 ELSE scan)
        /\ outputs' = {o \in outputs : o.height < h} /\ rescans' = rescans
    BY <1>1, <1>4 DEF Rollback, OutputsBelow
  <2>2. \A i \in 1..(h - 1) : chain'[i] = chain[i]
    BY <2>1 DEF Typed
  <2>3. \A i \in 1..scan' : i \in 1..scan /\ i \in 1..(h - 1) /\ i < h
    BY <1>1, <2>1
  <2> QED
    BY <2>1, <2>2, <2>3 DEF OutputsComplete
<1>5. ASSUME NEW h \in 1..scan, Rescan(h) PROVE OutputsComplete'
  BY <1>1, <1>5 DEF Rescan, OutputsComplete
<1>6. ASSUME NEW from \in Nat, NEW to \in Nat, Moved(from, to) PROVE OutputsComplete'
  <2>1. /\ from <= scan /\ scan' = to /\ outputs' = outputs \cup Received(from, to)
        /\ UNCHANGED <<chain, rescans>>
    BY <1>6 DEF Moved
  <2>2. \A i \in 1..to : i \in 1..scan \/ (i \in Nat /\ from < i /\ i <= to)
    BY <1>1, <2>1
  <2> QED
    BY <2>1, <2>2, ReceivedRows DEF OutputsComplete
<1>7. CASE UNCHANGED <<database, history>>
           \/ (\E h \in Hooks : AddWebhook(h) \/ ClearWebhook(h)) \/ ClearAccount
           \/ (\E v, from, to : from \in Nat /\ to \in Nat /\ Broken(v, from, to))
  <2>1. UNCHANGED <<chain, scan, outputs, rescans>>
    BY <1>7 DEF database, history, AddWebhook, ClearWebhook, ClearAccount, Broken
  <2> QED
    BY <1>2, <2>1
<1> QED
  BY <1>3, <1>4, <1>5, <1>6, <1>7, StepKinds

(* Without a rescan every row that a check-in looks up is there. *)
LEMMA NothingMissing ==
  ASSUME StoreInv, rescans = 0, NEW v, NEW from \in Nat, NEW to \in Nat
  PROVE  ~Broken(v, from, to)
<1> SUFFICES ASSUME Broken(v, from, to) PROVE FALSE
  OBVIOUS
<1> DEFINE found == Received(from, to)
           outs == outputs \cup found
           spends == Spent(from, to, view[v].known \cup found)
<1>1. Typed /\ EventsResolve /\ ChainOrdered /\ OutputsComplete
  BY DEF StoreInv, EventInv
<1>2. /\ from <= scan /\ scan < to /\ to <= Len(chain)
      /\ \/ \E e \in events \cup Matching(CheckHooks(found)) : ~Resolvable(e, outs)
         \/ ~SpendsResolvable(spends, outs)
  BY DEF Broken
<1>3. scan \in Nat /\ Len(chain) \in Nat /\ DOMAIN chain = 1..Len(chain)
  BY <1>1 DEF Typed
<1>4. ASSUME NEW e \in events \cup Matching(CheckHooks(found)) PROVE Resolvable(e, outs)
  <2>1. CASE e \in events
    BY <1>1, <2>1 DEF EventsResolve, Resolvable
  <2>2. CASE e \in Matching(CheckHooks(found))
    <3>1. PICK o \in found : e.tx = o.tx /\ e.height = o.height
      BY <2>2, NewEvents
    <3>2. o = [tx |-> o.tx, height |-> o.height]
      BY ReceivedRows
    <3> QED
      BY <2>2, <3>1, <3>2, NewEvents DEF Resolvable
  <2> QED
    BY <2>1, <2>2
<1>5. ASSUME NEW s \in spends PROVE \E o \in outs : o.tx = SpendOf[s.tx] /\ o.height <= s.height
  <2>1. PICK j \in (from + 1)..to : chain[j] \in SpendTxs /\ s = [tx |-> chain[j], height |-> j]
    BY <1>5 DEF Spent
  <2>2. j \in Nat /\ j <= to /\ j \in DOMAIN chain
    BY <1>2, <1>3
  <2>3. PICK i \in DOMAIN chain : i < j /\ chain[i] = SpendOf[chain[j]]
    BY <1>1, <2>1, <2>2 DEF ChainOrdered
  <2>4. i \in Nat /\ i >= 1 /\ i <= to /\ chain[i] \in Payments
    BY <1>3, <2>1, <2>2, <2>3, WebhooksAssumption
  <2>5. [tx |-> chain[i], height |-> i] \in outs
    <3>1. CASE i <= scan
      <4>1. i \in 1..scan
        BY <1>3, <2>4, <3>1
      <4> QED
        BY <1>1, <2>4, <4>1 DEF OutputsComplete
    <3>2. CASE ~(i <= scan)
      <4>1. from < i
        BY <1>2, <1>3, <2>4, <3>2
      <4> QED
        BY <2>4, <4>1, ReceivedRows
    <3> QED
      BY <3>1, <3>2
  <2>6. s.tx = chain[j] /\ s.height = j
    BY <2>1
  <2> HIDE DEF outs
  <2> QED
    BY <2>2, <2>3, <2>4, <2>5, <2>6
<1>6. SpendsResolvable(spends, outs)
  BY <1>5 DEF SpendsResolvable
<1> QED
  BY <1>2, <1>4, <1>6

(* No check-in fails, and so none stops the server, unless the account was *)
(* rescanned: every row that an ongoing event or a spend notice looks up   *)
(* is there, whichever scanners check in and whatever was rolled back.     *)
THEOREM UpdatesSucceedUnlessRescanned == Spec => []OnlyRescansFail
<1>1. Init => StoreInv
  BY DEF Init, StoreInv, EventInv, Typed, EventsResolve, EventsAreOngoing, ChainOrdered,
         OutputsComplete, OnlyRescansFail
<1>2. StoreInv /\ [Next]_vars => StoreInv'
  <2> SUFFICES ASSUME StoreInv, [Next]_vars PROVE StoreInv'
    OBVIOUS
  <2>1. EventInv' /\ ChainOrdered' /\ OutputsComplete'
    BY EventStep, OrderedStep, CompleteStep DEF StoreInv, EventInv
  <2>2. OnlyRescansFail'
    <3>1. Typed /\ rescans \in Nat
      BY DEF StoreInv, EventInv, Typed
    <3>2. CASE failed' = failed
      <4>1. rescans' = rescans \/ rescans' = rescans + 1
        <5>1. ASSUME NEW h, Rescan(h) PROVE rescans' = rescans + 1
          BY <5>1 DEF Rescan
        <5>2. CASE UNCHANGED <<database, history>>
          BY <5>2 DEF history
        <5>3. ASSUME NEW v, NEW from, NEW to, Broken(v, from, to) PROVE rescans' = rescans
          BY <5>3 DEF Broken
        <5>4. ASSUME NEW from, NEW to, Moved(from, to) PROVE rescans' = rescans
          BY <5>4 DEF Moved
        <5>5. ASSUME NEW h, NewBlock(h) \/ Rollback(h) \/ AddWebhook(h) \/ ClearWebhook(h)
              PROVE  rescans' = rescans
          BY <5>5 DEF NewBlock, Rollback, AddWebhook, ClearWebhook, history
        <5>6. CASE ClearAccount
          BY <5>6 DEF ClearAccount, history
        <5> QED
          BY <3>1, <5>1, <5>2, <5>3, <5>4, <5>5, <5>6, StepKinds
      <4> QED
        BY <3>1, <3>2, <4>1 DEF StoreInv, OnlyRescansFail
    <3>3. CASE failed' # failed
      <4>1. PICK v, from, to : from \in Nat /\ to \in Nat /\ Broken(v, from, to)
        BY <3>1, <3>3, StepKinds DEF history, NewBlock, Rollback, Rescan,
             AddWebhook, ClearWebhook, ClearAccount, Moved
      <4>2. rescans' = rescans
        BY <4>1 DEF Broken
      <4>3. rescans # 0
        BY <4>1, NothingMissing
      <4> QED
        BY <3>1, <4>2, <4>3 DEF OnlyRescansFail
    <3> QED
      BY <3>2, <3>3
  <2> QED
    BY <2>1, <2>2 DEF StoreInv
<1>3. StoreInv => OnlyRescansFail
  BY DEF StoreInv
<1> QED
  BY <1>1, <1>2, <1>3, PTL DEF Spec
=============================================================================
