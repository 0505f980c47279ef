---------------------------- MODULE OrderManager ----------------------------
(***************************************************************************)
(* execution/order_manager.py with the last journal row of every order and *)
(* a restart of the process: OrderManager's public calls, in any order a   *)
(* venue, a timer and the engine can make them.                            *)
(*                                                                         *)
(* executed is the venue's own count of the shares it traded for an order; *)
(* it survives a restart and never exceeds the quantity ordered.           *)
(***************************************************************************)
EXTENDS ManagedOrder, FiniteSetsExt

CONSTANTS Coid,         \* client order ids
          Ttl,          \* ttl_ms values entries are created with
          MaxGross,     \* max_gross_notional_usd
          MaxTime,      \* bound on the clock
          MaxRestarts   \* bound on restarts

ASSUME BoundsAssumption ==
  Ttl \subseteq Nat /\ MaxGross \in Nat /\ MaxTime \in Nat /\ MaxRestarts \in Nat

VARIABLES now,          \* clock.now()
          orders,       \* OrderManager.orders, Absent where it has no entry
          journal,      \* last row of each coid in orders.jsonl
          executed,     \* shares the venue has traded for each coid
          restarts      \* restarts so far

vars == <<now, orders, journal, executed, restarts>>

NoRow == [state |-> "ABSENT"]

TypeOK ==
  /\ now \in Nat
  /\ orders \in [Coid -> Order \cup {Absent}]
  /\ journal \in [Coid -> Row \cup {NoRow}]
  /\ executed \in [Coid -> Nat]
  /\ restarts \in Nat

Init ==
  /\ now = 0
  /\ orders = [c \in Coid |-> Absent]
  /\ journal = [c \in Coid |-> NoRow]
  /\ executed = [c \in Coid |-> 0]
  /\ restarts = 0

ReservedNotional == MapThenSumSet(LAMBDA c : orders[c].reserved, {c \in Coid : IsLive(orders[c])})

HasActiveEntry(s) ==
  \E c \in Coid : IsLive(orders[c]) /\ orders[c].req.intent = "entry" /\ orders[c].req.symbol = s

WriteSkippingPartials(after) ==
  /\ orders' = after
  /\ journal' = [c \in Coid |-> IF after[c].state \notin {orders[c].state, "PARTIAL"}
                                THEN RowOf(after[c]) ELSE journal[c]]

(* The book and the journal after calls that leave order c as after[c]:    *)
(* a row is written for every transition, and only for a transition.       *)
Write(after) ==
  /\ orders' = after
  /\ journal' = [c \in Coid |-> IF after[c].state # orders[c].state THEN RowOf(after[c])
                                ELSE journal[c]]

WriteOne(c, o) == Write([orders EXCEPT ![c] = o])

CreateBesideAnEntry(c, r, ttl) ==
  /\ orders[c] = Absent
  /\ journal[c] = NoRow
  /\ ReservedNotional + r.quantity * r.price <= MaxGross
  /\ ttl # NoTtl => now + ttl <= MaxTime
  /\ WriteOne(c, NewOrder(r, IF ttl = NoTtl THEN NoTtl ELSE now + ttl))
  /\ UNCHANGED <<now, executed, restarts>>

CreateUncapped(c, r, ttl) ==
  /\ orders[c] = Absent
  /\ journal[c] = NoRow
  /\ r.intent = "entry" => ~HasActiveEntry(r.symbol)
  /\ r.quantity * r.price <= MaxGross
  /\ ttl # NoTtl => now + ttl <= MaxTime
  /\ WriteOne(c, NewOrder(r, IF ttl = NoTtl THEN NoTtl ELSE now + ttl))
  /\ UNCHANGED <<now, executed, restarts>>

(***************************************************************************)
(* create.  Each refusal raises before anything changes.  The caller never *)
(* names a coid the journal has a row for (journal.next_client_order_id).  *)
(* MaxTime bounds the timers, too.                                         *)
(***************************************************************************)
Create(c, r, ttl) ==
  /\ orders[c] = Absent
  /\ journal[c] = NoRow
  /\ r.intent = "entry" => ~HasActiveEntry(r.symbol)
  /\ ReservedNotional + r.quantity * r.price <= MaxGross
  /\ ttl # NoTtl => now + ttl <= MaxTime
  /\ WriteOne(c, NewOrder(r, IF ttl = NoTtl THEN NoTtl ELSE now + ttl))
  /\ UNCHANGED <<now, executed, restarts>>

MarkSubmitting(c) ==
  /\ orders[c].state = "NEW"
  /\ WriteOne(c, Transition(orders[c], "SUBMITTING"))
  /\ UNCHANGED <<now, executed, restarts>>

OnAck(c) ==
  /\ orders[c].state = "SUBMITTING"
  /\ WriteOne(c, AfterAck(orders[c]))
  /\ UNCHANGED <<now, executed, restarts>>

(* A reject of a PARTIAL or CANCEL_PENDING order raises and changes nothing. *)
OnReject(c) ==
  /\ <<orders[c].state, "REJECTED">> \in Legal
  /\ WriteOne(c, AfterReject(orders[c]))
  /\ UNCHANGED <<now, executed, restarts>>

(* The venue trades qty more shares of an order it was sent, and the fill  *)
(* reaches the book, whatever has become of the order there.               *)
OnFill(c, qty) ==
  /\ orders[c].state \in OState \ {"NEW"}
  /\ executed[c] + qty <= orders[c].req.quantity
  /\ executed' = [executed EXCEPT ![c] = @ + qty]
  /\ WriteOne(c, AfterFill(orders[c], qty))
  /\ UNCHANGED <<now, restarts>>

RequestCancel(c) ==
  /\ orders[c].state \in {"ACKNOWLEDGED", "PARTIAL"}
  /\ WriteOne(c, AfterCancelRequest(orders[c]))
  /\ UNCHANGED <<now, executed, restarts>>

OnCancelAck(c) ==
  /\ orders[c].state = "CANCEL_PENDING"
  /\ WriteOne(c, AfterCancelAck(orders[c]))
  /\ UNCHANGED <<now, executed, restarts>>

(* poll: one sweep of the timers of every order. *)
Poll ==
  /\ \E c \in Coid : AfterPoll(orders[c], now) # orders[c]
  /\ Write([c \in Coid |-> AfterPoll(orders[c], now)])
  /\ UNCHANGED <<now, executed, restarts>>

Tick ==
  /\ now < MaxTime
  /\ now' = now + 1
  /\ UNCHANGED <<orders, journal, executed, restarts>>

(***************************************************************************)
(* The process dies and recover() restores, through rebuild_open_orders,   *)
(* the orders whose last journal row is not terminal.                      *)
(***************************************************************************)
Restart ==
  /\ restarts < MaxRestarts
  /\ restarts' = restarts + 1
  /\ orders' = [c \in Coid |-> Restored(journal[c])]
  /\ UNCHANGED <<now, journal, executed>>

FillQuantity == UNION {1..q : q \in Quantity}

Next ==
  \/ \E c \in Coid, r \in Request, ttl \in Ttl \cup {NoTtl} : Create(c, r, ttl)
  \/ \E c \in Coid : MarkSubmitting(c)
  \/ \E c \in Coid : OnAck(c)
  \/ \E c \in Coid : OnReject(c)
  \/ \E c \in Coid, qty \in FillQuantity : OnFill(c, qty)
  \/ \E c \in Coid : RequestCancel(c)
  \/ \E c \in Coid : OnCancelAck(c)
  \/ Poll
  \/ Tick
  \/ Restart

Spec == Init /\ [][Next]_vars

(***************************************************************************)
(* Time passes, the engine sweeps the timers, it marks what it created,    *)
(* and the venue answers a cancel.                                         *)
(***************************************************************************)
FairSpec ==
  /\ Spec
  /\ WF_vars(Tick)
  /\ WF_vars(Poll)
  /\ \A c \in Coid : WF_vars(MarkSubmitting(c)) /\ WF_vars(OnCancelAck(c))

-----------------------------------------------------------------------------

(* "Exactly ONE active entry intent per symbol", over restarts too: two    *)
(* live entries of one symbol are one entry.                               *)
OneActiveEntry ==
  \A c, d \in Coid :
    /\ IsLive(orders[c]) /\ orders[c].req.intent = "entry"
    /\ IsLive(orders[d]) /\ orders[d].req.intent = "entry"
    /\ orders[c].req.symbol = orders[d].req.symbol
    => c = d

(* No order holds more buying power than its untraded share of its notional, *)
(* however its fills, cancels and timers interleave, and none after its end. *)
ReservationBound ==
  \A c \in Coid : orders[c] # Absent =>
    LET o == orders[c]
    IN /\ o.reserved * o.req.quantity <= o.req.quantity * o.req.price * Remaining(o)
       /\ ~IsLive(o) => o.reserved = 0

(* What all live orders hold together never exceeds max_gross_notional_usd. *)
ReservationWithinCap == ReservedNotional <= MaxGross

(* The journal is as good as the book for recovery: an order is missing     *)
(* from the book only when it never was or its last row is terminal, its    *)
(* row has its state, and its row never has a fill the book does not have.  *)
JournalAgrees ==
  \A c \in Coid :
    /\ orders[c] = Absent => journal[c].state \notin OState \ TERMINAL
    /\ orders[c] # Absent => /\ journal[c] # NoRow
                             /\ journal[c].state = orders[c].state
                             /\ journal[c].req = orders[c].req
                             /\ journal[c].filled <= orders[c].filled

(* The book never believes in shares the venue did not trade, and until a   *)
(* restart it has booked each of them once, those that came after the end   *)
(* of the order included.                                                   *)
FilledMatchesVenue ==
  \A c \in Coid : orders[c] # Absent =>
    /\ orders[c].filled <= executed[c]
    /\ restarts = 0 => orders[c].filled = executed[c]

(* FILLED is only said of an order that traded all of its quantity.         *)
FilledIsComplete ==
  \A c \in Coid : orders[c].state = "FILLED" => executed[c] = orders[c].req.quantity

(* The symbol a recorded order is an entry of. *)
EntryOf(row) == IF row # NoRow /\ row.req.intent = "entry" THEN row.req.symbol ELSE "none"

Lifecycle ==
  INSTANCE OrderLifecycle
    WITH status <- [c \in Coid |-> journal[c].state],
         entryOf <- [c \in Coid |-> EntryOf(journal[c])]

(* The durable record of every order lives the life OrderLifecycle allows,  *)
(* over fills, cancels, timers and restarts.                                *)
LifecycleSpec == Lifecycle!Spec

Armed(c) == IsLive(orders[c]) /\ orders[c].expireAt # NoTtl

(* An order with a timer does not stay open: while the process lives, its   *)
(* timer, its cancel and the venue's answer end it, fills or no fills.      *)
TimersEndOrders == \A c \in Coid : Armed(c) ~> ~Armed(c)

=============================================================================
