------------------------------ MODULE Webhooks ------------------------------
(***************************************************************************)
(* Webhooks and confirmation events of one account (db/storage.cpp).  A    *)
(* registered tx-confirmation hook is matched by payment id against every  *)
(* output of a check-in; a match becomes an event, and every later         *)
(* check-in reports one confirmation per new block until the requested     *)
(* number is reached and the event is deleted.  A tx-spend hook reports    *)
(* every spend of a check-in.  All of it happens inside the write          *)
(* transaction of storage::update; the notices it returns are handed to    *)
(* the HTTP client and the ZMQ publisher right after the commit.           *)
(*                                                                         *)
(* An account can be in the hands of two scanners for a while: the server  *)
(* hands out what the database says while the check-in of the previous     *)
(* holder is still on its way, so check-ins may overlap.                   *)
(***************************************************************************)
EXTENDS Naturals, Sequences, FiniteSets

CONSTANTS
  Payments,      \* transactions that pay the account
  SpendOf,       \* SpendOf[s]: the payment that transaction s spends
  Empty,         \* a block with neither
  PaymentId,     \* PaymentId[x]: payment id of a payment or of a hook
  ConfirmHooks,  \* tx-confirmation hooks (event ids) that may be registered
  SpendHooks,    \* tx-spend hooks that may be registered
  Requested,     \* Requested[h]: confirmations asked for by a hook
  Scanners,      \* scan threads, local or remote
  MaxHeight,     \* bound on the length of the chain
  MaxRollbacks,  \* bound on reorganisations
  MaxRescans     \* bound on rescans

SpendTxs == DOMAIN SpendOf
Hooks == ConfirmHooks \cup SpendHooks

ASSUME WebhooksAssumption ==
  /\ ConfirmHooks \cap SpendHooks = {}
  /\ Payments \cap SpendTxs = {} /\ Empty \notin Payments \cup SpendTxs
  /\ \A s \in SpendTxs : SpendOf[s] \in Payments
  /\ \A h \in ConfirmHooks : Requested[h] \in Nat
  /\ MaxHeight \in Nat /\ MaxRollbacks \in Nat /\ MaxRescans \in Nat

VARIABLES
  chain,    \* blocks table: chain[i] is what block i holds for the account
  scan,     \* account::scan_height
  outputs,  \* outputs table: [tx, height]
  hooks,    \* webhooks table
  events,   \* events table: [hook, tx, height]
  view,     \* view[v]: scan height and outputs of the copy scanner v works on
  failed,   \* an update failed for good: the server shuts down
  told,     \* history: notices given out about blocks still on the chain
  again,    \* history: notices given out a second time
  rollbacks, rescans

vars == <<chain, scan, outputs, hooks, events, view, failed, told, again, rollbacks,
          rescans>>
database == <<chain, scan, outputs, hooks, events>>
history == <<failed, told, again, rollbacks, rescans>>

Init ==
  /\ chain = <<>> /\ scan = 0
  /\ outputs = {} /\ hooks = {} /\ events = {}
  /\ view = <<>>
  /\ failed = FALSE /\ told = {} /\ again = {}
  /\ rollbacks = 0 /\ rescans = 0

-----------------------------------------------------------------------------
(* The daemon's next block reaches the blocks table. *)
NewBlock(b) ==
  /\ Len(chain) < MaxHeight
  /\ b # Empty => \A i \in DOMAIN chain : chain[i] # b
  /\ b \in SpendTxs => \E i \in DOMAIN chain : chain[i] = SpendOf[b]
  /\ chain' = Append(chain, b)
  /\ UNCHANGED <<scan, outputs, hooks, events, view, history>>

(* rollback_outputs and change_height keep the outputs below height h. *)
OutputsBelow(h) == {o \in outputs : o.height < h}

(* rollback_events deletes the events of the removed blocks. *)
RolledBackEvents(h) == {e \in events : e.height < h}

(* rollback_chain: blocks from height h on go, with what was found in      *)
(* them; the scanners keep their copies until a check-in is refused.       *)
Rollback(h) ==
  /\ rollbacks < MaxRollbacks
  /\ chain' = SubSeq(chain, 1, h - 1)
  /\ scan' = IF h <= scan THEN h - 1 ELSE scan
  /\ outputs' = OutputsBelow(h)
  /\ events' = RolledBackEvents(h)
  /\ told' = {n \in told : n.height + n.conf - 1 < h}
  /\ rollbacks' = rollbacks + 1
  /\ UNCHANGED <<hooks, view, failed, again, rescans>>

(* rescan, by change_height: outputs from height h on are deleted; events  *)
(* and the copies of the scanners stay.                                    *)
Rescan(h) ==
  /\ rescans < MaxRescans
  /\ scan' = h
  /\ outputs' = OutputsBelow(h)
  /\ told' = {n \in told : n.height + n.conf - 1 < h}
  /\ rescans' = rescans + 1
  /\ UNCHANGED <<chain, hooks, events, view, failed, again, rollbacks>>

-----------------------------------------------------------------------------
(* add_webhook: a fresh event id, so nothing was ever told for it. *)
AddWebhook(h) ==
  /\ h \notin hooks
  /\ hooks' = hooks \cup {h}
  /\ told' = {n \in told : n.hook # h}
  /\ UNCHANGED <<chain, scan, outputs, events, view, failed, again, rollbacks, rescans>>

(* Mutant: the events of a deleted hook stay. *)
EventsKept(ids) == events

(* clear_webhooks by event id deletes the events of the hook with it. *)
EventsWithout(ids) == {e \in events : e.hook \notin ids}

ClearWebhook(h) ==
  /\ h \in hooks
  /\ hooks' = hooks \ {h}
  /\ events' = EventsWithout({h})
  /\ UNCHANGED <<chain, scan, outputs, view, history>>

(* clear_webhooks by address: the tx-confirmation hooks and all events. *)
ClearAccount ==
  /\ hooks \cap ConfirmHooks # {}
  /\ hooks' = hooks \ ConfirmHooks
  /\ events' = {}
  /\ UNCHANGED <<chain, scan, outputs, view, history>>

-----------------------------------------------------------------------------
(* A scanner is given the account as the database has it. *)
Assign(v) ==
  /\ view' = [w \in DOMAIN view \cup {v} |->
                IF w = v THEN [from |-> scan, known |-> outputs] ELSE view[w]]
  /\ view' # view
  /\ UNCHANGED <<database, history>>

(* What the ownership test finds in blocks from+1 .. to. *)
Received(from, to) ==
  {[tx |-> chain[i], height |-> i] : i \in {j \in (from + 1)..to : chain[j] \in Payments}}

Spent(from, to, known) ==
  {[tx |-> chain[i], height |-> i] : i \in {j \in (from + 1)..to :
      chain[j] \in SpendTxs /\ \E o \in known : o.tx = SpendOf[chain[j]]}}

(* check_hooks: an event for every output of the check-in and every hook   *)
(* with the same payment id.                                               *)
CheckHooks(outs) ==
  {[hook |-> h, tx |-> o.tx, height |-> o.height] : h \in hooks \cap ConfirmHooks, o \in outs}

Matching(es) == {e \in es : PaymentId[e.hook] = PaymentId[e.tx]}

MinOf(a, b) == IF a < b THEN a ELSE b
MaxOf(a, b) == IF a < b THEN b ELSE a

(* add_ongoing_hooks: the confirmations event e reports for the blocks     *)
(* begin .. end-1.  The first is reported whatever was requested.          *)
Confirmations(e, begin, end) ==
  LET this_begin == MaxOf(begin, e.height)
      first == this_begin - e.height + 1
  IN IF this_begin < end
     THEN first..MaxOf(first, MinOf(Requested[e.hook], end - e.height))
     ELSE {}

(* Mutant: no event is ever finished. *)
FinishedNever(e, begin, end) == FALSE

(* The event is deleted with its last requested confirmation. *)
Finished(e, begin, end) ==
  \E c \in Confirmations(e, begin, end) : Requested[e.hook] <= c

(* Both rows an event refers to are read back with MDB_GET_BOTH; a missing *)
(* one is an error of the whole update.                                    *)
Resolvable(e, outs) ==
  e.hook \in hooks /\ [tx |-> e.tx, height |-> e.height] \in outs

(* Mutant: confirmations count from the start of the check-in. *)
FirstOfCheckIn(from) == from + 1

(* Blocks the database had already scanned are not reported again. *)
OngoingStart(from) == MaxOf(from + 1, scan + 1)

(* check_spends: one notice per spend of the check-in and tx-spend hook.   *)
SpendNotices(spends) ==
  {[hook |-> h, tx |-> s.tx, height |-> s.height, conf |-> 0] :
     h \in hooks \cap SpendHooks, s \in spends}

SpendsResolvable(spends, outs) ==
  hooks \cap SpendHooks # {} /\ outs # {} =>
    \A s \in spends : \E o \in outs : o.tx = SpendOf[s.tx] /\ o.height <= s.height

(* send_webhook_async: every event is posted to its URL, unless that is     *)
(* "zmq", and published; nothing remembers what was sent before.           *)
SendWebhookAsync(notices) ==
  /\ told' = told \cup notices
  /\ again' = again \cup (told \cap notices)

(* storage::update for a check-in of blocks from .. to that moves the      *)
(* account, and the notices that user_data::store sends after it.          *)
Store(v, from, to) ==
  LET found == Received(from, to)
      known == view[v].known \cup found
      spends == Spent(from, to, known)
      outs == outputs \cup found
      ongoing == events \cup Matching(CheckHooks(found))
      begin == OngoingStart(from)
      due == {e \in ongoing : Confirmations(e, begin, to + 1) # {}}
      notices == SpendNotices(spends) \cup
                 UNION {{[hook |-> e.hook, tx |-> e.tx, height |-> e.height, conf |-> c] :
                           c \in Confirmations(e, begin, to + 1)} : e \in due}
  IN IF (\A e \in due : Resolvable(e, outs)) /\ SpendsResolvable(spends, outs)
     THEN /\ scan' = to
          /\ outputs' = outs
          /\ events' = {e \in ongoing : ~Finished(e, begin, to + 1)}
          /\ SendWebhookAsync(notices)
          /\ view' = [view EXCEPT ![v] = [from |-> to, known |-> known]]
          /\ UNCHANGED <<chain, hooks, failed, rollbacks, rescans>>
     ELSE /\ failed' = TRUE
          /\ UNCHANGED <<database, view, told, again, rollbacks, rescans>>

(* A check-in that is behind the account in the database, or that brings   *)
(* nothing new, leaves it alone.                                           *)
CheckIn(v) ==
  /\ v \in DOMAIN view
  /\ LET from == view[v].from IN
     \E to \in (from + 1)..Len(chain) :
       CASE scan < from ->
              /\ view' = [w \in DOMAIN view \ {v} |-> view[w]]
              /\ UNCHANGED <<database, history>>
         [] scan >= from /\ to <= scan ->
              /\ view' = [view EXCEPT ![v] =
                   [from |-> to, known |-> view[v].known \cup Received(from, to)]]
              /\ UNCHANGED <<database, history>>
         [] OTHER -> Store(v, from, to)

Next ==
  /\ ~failed
  /\ \/ \E b \in Payments \cup SpendTxs \cup {Empty} : NewBlock(b)
     \/ \E h \in DOMAIN chain : Rollback(h)
     \/ \E h \in 1..scan : Rescan(h)
     \/ \E h \in Hooks : AddWebhook(h) \/ ClearWebhook(h)
     \/ ClearAccount
     \/ \E v \in Scanners : Assign(v) \/ CheckIn(v)

Spec == Init /\ [][Next]_vars
-----------------------------------------------------------------------------
(* Types, and what is stored was found on the stored chain, below the      *)
(* height the account is scanned to.                                       *)
TypeOK ==
  /\ scan \in 0..Len(chain)
  /\ \A o \in outputs : o.height \in 1..scan /\ chain[o.height] = o.tx
  /\ hooks \subseteq Hooks
  /\ events \subseteq [hook : ConfirmHooks, tx : Payments, height : 1..MaxHeight]
  /\ DOMAIN view \subseteq Scanners
  /\ failed \in BOOLEAN

(* Every event refers to a registered hook and to a stored output, through *)
(* any order of registrations, deletions, overlapping check-ins and        *)
(* reorganisations.  An event that does not makes a later check-in of the  *)
(* account fail.  A rescan is the exception: see UpdatesSucceed.           *)
EventsResolve == rescans = 0 => \A e \in events : Resolvable(e, outputs)

(* No check-in fails: an error of storage::update other than a             *)
(* reorganisation stops the server.                                        *)
UpdatesSucceed == ~failed

(* No confirmation is reported twice for a block that is still on the      *)
(* chain, however check-ins of two scanners overlap.                       *)
PaymentsToldOnce == \A n \in again : n.hook \notin ConfirmHooks

(* Between check-ins an event is owed at least one more confirmation, and  *)
(* the account has been scanned to its block: no event outlives its last   *)
(* notice or waits for a block that was already passed.                    *)
EventsAreOngoing ==
  rescans = 0 =>
    \A e \in events : e.height <= scan /\ scan - e.height + 1 < Requested[e.hook]

(* "A payment event occurs from 0-confirmations up to the user requested   *)
(* number of confirmations."                                               *)
UpToRequested ==
  \A n \in told : n.hook \in ConfirmHooks => n.conf <= Requested[n.hook]
=============================================================================
