---------------------------- MODULE ManagedOrder ----------------------------
(***************************************************************************)
(* One order of the OrderManager (execution/order_manager.py): the record  *)
(* it keeps and what each handler does to it, as operators from an order   *)
(* to the order after the call.  OrderManager makes its actions of them,   *)
(* PaperSession composes several of them into one market-data handler.     *)
(*                                                                         *)
(* Quantities are whole shares and money whole units.  reserved stands for *)
(* both reserved_notional_usd and reserved_risk_usd: the code sets them    *)
(* together, scales them by the same factor and clears them together.      *)
(***************************************************************************)
EXTENDS Integers

CONSTANTS Symbol,       \* traded symbols
          Quantity,     \* quantities an order may ask for
          Price         \* reference prices an order may be created at

ASSUME SymbolAssumption == "none" \notin Symbol
ASSUME QuantityAssumption == Quantity \subseteq Nat \ {0}
ASSUME PriceAssumption == Price \subseteq Nat

Intent == {"entry", "exit"}

OState == {"NEW", "SUBMITTING", "ACKNOWLEDGED", "PARTIAL", "FILLED",
           "CANCEL_PENDING", "CANCELLED", "REJECTED", "EXPIRED"}

TERMINAL == {"FILLED", "CANCELLED", "REJECTED", "EXPIRED"}

LegalWithoutCancelFills ==
  ({"NEW"} \X {"SUBMITTING", "REJECTED"})
  \cup ({"SUBMITTING"} \X {"ACKNOWLEDGED", "REJECTED", "PARTIAL", "FILLED", "EXPIRED"})
  \cup ({"ACKNOWLEDGED"} \X {"PARTIAL", "FILLED", "CANCEL_PENDING", "REJECTED", "EXPIRED"})
  \cup ({"PARTIAL"} \X {"PARTIAL", "FILLED", "CANCEL_PENDING", "EXPIRED"})
  \cup ({"CANCEL_PENDING"} \X {"CANCELLED", "PARTIAL"})

(* _LEGAL, as the set of legal (from, to) pairs. *)
Legal ==
  ({"NEW"} \X {"SUBMITTING", "REJECTED"})
  \cup ({"SUBMITTING"} \X {"ACKNOWLEDGED", "REJECTED", "PARTIAL", "FILLED", "EXPIRED"})
  \cup ({"ACKNOWLEDGED"} \X {"PARTIAL", "FILLED", "CANCEL_PENDING", "REJECTED", "EXPIRED"})
  \cup ({"PARTIAL"} \X {"PARTIAL", "FILLED", "CANCEL_PENDING", "EXPIRED"})
  \cup ({"CANCEL_PENDING"} \X {"CANCELLED", "PARTIAL", "FILLED"})

NoTtl == -1                     \* expire_at is None

Request == [symbol: Symbol, intent: Intent, quantity: Quantity, price: Price]

Order == [req: Request, state: OState, filled: Nat, reserved: Nat,
          expireAt: Nat \cup {NoTtl}, rev: Nat]

(* A coid the book does not hold.  It has a state so that every coid does. *)
Absent == [state |-> "ABSENT"]

IsLive(o) == o.state \in OState \ TERMINAL

RemainingWithinOne(o) ==
  IF o.req.quantity > o.filled + 1 THEN o.req.quantity - o.filled ELSE 0

Remaining(o) == IF o.req.quantity > o.filled THEN o.req.quantity - o.filled ELSE 0

(***************************************************************************)
(* create: the order is born NEW, holding its whole notional.              *)
(***************************************************************************)
NewOrder(r, expireAt) ==
  [req |-> r, state |-> "NEW", filled |-> 0, reserved |-> r.quantity * r.price,
   expireAt |-> expireAt, rev |-> 0]

(* _transition: an illegal one raises, and this statement changes nothing.  *)
Transition(o, to) ==
  IF <<o.state, to>> \in Legal
    THEN [o EXCEPT !.state = to, !.rev = @ + 1,
                   !.reserved = IF to \in TERMINAL THEN 0 ELSE @]
    ELSE o

AfterAck(o) ==
  IF o.state = "SUBMITTING" THEN Transition(o, "ACKNOWLEDGED") ELSE o

AfterReject(o) ==
  IF IsLive(o) THEN Transition(o, "REJECTED") ELSE o

AfterCancelRequest(o) ==
  IF o.state \in {"ACKNOWLEDGED", "PARTIAL"} THEN Transition(o, "CANCEL_PENDING") ELSE o

AfterCancelAck(o) ==
  IF o.state = "CANCEL_PENDING" THEN Transition(o, "CANCELLED") ELSE o

BookedUnreleased(o, qty) == [o EXCEPT !.filled = @ + qty]

BookedBySubtraction(o, qty) ==
  [o EXCEPT !.filled = @ + qty, !.reserved = @ - qty * o.req.price]

BookedWhileLive(o, qty) ==
  IF IsLive(o) THEN LET b == [o EXCEPT !.filled = @ + qty]
                    IN [b EXCEPT !.reserved = (@ * Remaining(b)) \div b.req.quantity]
               ELSE o

(***************************************************************************)
(* on_fill.  The quantity is booked and the reservation scaled by the      *)
(* remaining fraction before the transition is tried, so a completing fill *)
(* that arrives on a CANCELLED, EXPIRED or REJECTED order leaves the       *)
(* quantity booked when the transition to FILLED raises.                   *)
(***************************************************************************)
Booked(o, qty) ==
  LET b == [o EXCEPT !.filled = @ + qty]
  IN [b EXCEPT !.reserved = (@ * Remaining(b)) \div b.req.quantity]

AfterFill(o, qty) ==
  LET b == Booked(o, qty)
  IN IF Remaining(b) = 0 THEN Transition(b, "FILLED")
     ELSE IF b.state \in {"SUBMITTING", "ACKNOWLEDGED", "CANCEL_PENDING"}
       THEN Transition(b, "PARTIAL")
     ELSE IF b.state = "PARTIAL" THEN [b EXCEPT !.rev = @ + 1]
     ELSE b

(* on_fill leaves by the exception of its transition to FILLED. *)
FillRaises(o, qty) ==
  LET b == Booked(o, qty)
  IN /\ Remaining(b) = 0
     /\ o.state # "FILLED"
     /\ <<o.state, "FILLED">> \notin Legal

(***************************************************************************)
(* poll, for one order: the timer of a working order asks for its cancel,  *)
(* that of an order never acknowledged expires it locally.                 *)
(***************************************************************************)
IsDue(o, now) == IsLive(o) /\ o.expireAt # NoTtl /\ now >= o.expireAt

AfterPollKeepingUnacked(o, now) ==
  IF IsDue(o, now) /\ o.state \in {"ACKNOWLEDGED", "PARTIAL"}
    THEN Transition(o, "CANCEL_PENDING") ELSE o

AfterPollCancelling(o, now) ==
  IF IsDue(o, now) THEN [o EXCEPT !.state = "CANCELLED", !.rev = @ + 1, !.reserved = 0] ELSE o

AfterPoll(o, now) ==
  CASE IsDue(o, now) /\ o.state \in {"ACKNOWLEDGED", "PARTIAL"} -> Transition(o, "CANCEL_PENDING")
    [] IsDue(o, now) /\ o.state = "SUBMITTING"               -> Transition(o, "EXPIRED")
    [] OTHER                                                -> o

(* poll returns the coid, for its caller to send the cancel to the venue. *)
PollCancels(o, now) == IsDue(o, now) /\ o.state \in {"ACKNOWLEDGED", "PARTIAL"}

(***************************************************************************)
(* The journal row of an order (_log, OrderJournal.record), and the order  *)
(* rebuild_open_orders makes of the last row of a coid: its request, state *)
(* and filled quantity, with no reservation, no timer and revision 0.      *)
(***************************************************************************)
Row == [req: Request, state: OState, filled: Nat, rev: Nat]

RowOf(o) == [req |-> o.req, state |-> o.state, filled |-> o.filled, rev |-> o.rev]

Restored(row) ==
  IF row.state \in OState \ TERMINAL
    THEN [req |-> row.req, state |-> row.state, filled |-> row.filled,
          reserved |-> 0, expireAt |-> NoTtl, rev |-> 0]
    ELSE Absent
=============================================================================
