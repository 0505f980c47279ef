------------------------- MODULE PaperSessionProofs -------------------------
(***************************************************************************)
(* Proofs about PaperSession, for every set of ids, sizes and delays, and   *)
(* any number of quotes, prints, timers, exceptions and restarts.           *)
(***************************************************************************)
EXTENDS PaperSession, FiniteSetTheorems, WellFoundedInduction, SequenceTheorems, TLAPS

RequestSet == [symbol: Symbol, intent: Intent, quantity: Nat \ {0}, price: Nat]

OrderSet == [req: RequestSet, state: OState, filled: Nat, reserved: Int,
             expireAt: Int, rev: Nat]

RowSet == [req: RequestSet, state: OState, filled: Nat, rev: Nat]

WorkSet == [kind: Kind, tif: {"DAY", "IOC"}, quantity: Nat \ {0}, filled: Nat,
            awaiting: BOOLEAN, queue: Int, acked: BOOLEAN,
            ackAt: Int, activateAt: Int, cancelAt: Int]

SessionSet ==
  [orders: [Coid -> OrderSet \cup {Absent}], placed: Seq(Coid),
   journal: [Coid -> RowSet \cup {NoRow}], working: [Coid -> WorkSet \cup {Gone}],
   pendingSig: SUBSET Coid, position: Nat, logged: Nat,
   fsm: {"ARMED", "ENTRY", "MANAGE", "COOLDOWN"}, cooldownUntil: Int,
   held: Int, raised: BOOLEAN, dropped: BOOLEAN, feed: {"open", "ended", "over"}]

(* What an exit stays: it has no timer, so it does not expire.              *)
ExitOrder(o) == o.req.intent = "exit" /\ o.expireAt = NoTtl /\ o.state # "EXPIRED"

(* The venue would have more of the order to trade.                         *)
Unended(w) == w.filled < w.quantity

(* What holds of a session whatever the venue has just done to its orders.  *)
Desk(S) ==
  /\ S \in SessionSet
  /\ S.logged = S.position
  /\ S.fsm = "MANAGE" => S.position > 0
  /\ S.raised => \E c \in EntryCoid : S.orders[c].state = "EXPIRED" /\ Remaining(S.orders[c]) = 0
  /\ \A c \in Coid : S.orders[c] # Absent \/ S.working[c] # Gone => S.journal[c] # NoRow
  /\ \A c \in Coid : S.working[c] # Gone => Unended(S.working[c])
  /\ \A c \in ExitCoid : /\ S.orders[c] # Absent => ExitOrder(S.orders[c])
                         /\ S.journal[c] # NoRow => S.journal[c].req.intent = "exit"
  /\ \A c, d \in ExitCoid :
       ~S.raised /\ S.working[c] # Gone /\ S.working[d] # Gone => c = d

Covered(S) == ~S.dropped => S.position <= S.held

(* A working order and its entry in the book, which has not ended by the    *)
(* venue's hand.                                                            *)
Agree(o, w) ==
  /\ o # Absent
  /\ o.state \notin {"NEW", "FILLED", "CANCELLED", "REJECTED"}
  /\ o.filled = w.filled /\ o.req.quantity = w.quantity

(* What the book makes of an order that the venue has let go.               *)
Left(o) == IsLive(o) /\ o.expireAt # NoTtl => o.state = "SUBMITTING"

(* The engine has heard all about order c, and its exit can sell no more    *)
(* than the position.                                                       *)
Known(S, c) ==
  ~S.raised =>
    /\ S.working[c] # Gone => /\ Agree(S.orders[c], S.working[c])
                              /\ c \in ExitCoid => Unfilled(S.working[c]) <= S.position
    /\ S.working[c] = Gone => Left(S.orders[c])

Sound(S) == Desk(S) /\ Covered(S) /\ \A c \in Coid : Known(S, c)

-----------------------------------------------------------------------------
(* The calls on one order.                                                  *)

(* What a call may do to an order of the book.                              *)
Moved(o, p) ==
  /\ p \in OrderSet
  /\ p.req = o.req /\ p.expireAt = o.expireAt
  /\ p.state = "EXPIRED" => o.state = "EXPIRED" \/ o.expireAt # NoTtl

(* An order, a row and a working order are told from their absence.         *)
LEMMA Present ==
  /\ \A o \in OrderSet : o # Absent
  /\ \A r \in RowSet : r # NoRow
  /\ \A w \in WorkSet : w # Gone
  /\ Absent = NoRow
BY DEF OrderSet, RowSet, WorkSet, OState, Absent, NoRow, Gone

(* What is known of a request that is in an order.                          *)
LEMMA OrderFields ==
  ASSUME NEW o \in OrderSet
  PROVE  /\ o.req.quantity \in Nat \ {0} /\ o.req.price \in Nat /\ o.filled \in Nat
         /\ o.reserved \in Int /\ o.rev \in Nat /\ o.state \in OState /\ o.expireAt \in Int
         /\ o.req \in RequestSet
BY DEF OrderSet, RequestSet

(* A transition leaves an order where it was or takes it where it says, and *)
(* only along a legal one.                                                  *)
LEMMA TransitionMoves ==
  ASSUME NEW o \in OrderSet, NEW to \in OState
  PROVE  LET p == Transition(o, to)
         IN /\ p \in OrderSet
            /\ p.req = o.req /\ p.expireAt = o.expireAt /\ p.filled = o.filled
            /\ p.state = IF <<o.state, to>> \in Legal THEN to ELSE o.state
PROOF
<1> DEFINE p == Transition(o, to)
<1>1. CASE <<o.state, to>> \in Legal
  <2>1. p = [o EXCEPT !.state = to, !.rev = @ + 1,
                      !.reserved = IF to \in TERMINAL THEN 0 ELSE @]
    BY <1>1 DEF Transition
  <2> DEFINE res == IF to \in TERMINAL THEN 0 ELSE o.reserved
  <2>2. p = [req |-> o.req, state |-> to, filled |-> o.filled, reserved |-> res,
             expireAt |-> o.expireAt, rev |-> o.rev + 1]
    BY <2>1 DEF OrderSet
  <2>3. res \in Int /\ o.rev + 1 \in Nat
    BY OrderFields
  <2> HIDE DEF res, p
  <2>4. p \in OrderSet
    BY <2>2, <2>3, OrderFields DEF OrderSet
  <2> QED
    BY <1>1, <2>2, <2>4 DEF p
<1>2. CASE <<o.state, to>> \notin Legal
  BY <1>2 DEF Transition
<1> QED
  BY <1>1, <1>2

(* Acks, cancel requests, cancel acks and timers move an order; only the    *)
(* timer of an order that has one expires it.                               *)
LEMMA CallsMove ==
  ASSUME NEW o \in OrderSet, NEW t
  PROVE  /\ Moved(o, AfterAck(o)) /\ AfterAck(o).filled = o.filled
         /\ AfterAck(o).state \in {o.state, "ACKNOWLEDGED"}
         /\ Moved(o, AfterCancelRequest(o)) /\ AfterCancelRequest(o).filled = o.filled
         /\ Moved(o, AfterCancelAck(o)) /\ AfterCancelAck(o).filled = o.filled
         /\ Moved(o, AfterPoll(o, t)) /\ AfterPoll(o, t).filled = o.filled
         /\ AfterPoll(o, t).state \in {o.state, "CANCEL_PENDING", "EXPIRED"}
PROOF
<1>1. {"ACKNOWLEDGED", "CANCEL_PENDING", "CANCELLED", "EXPIRED"} \subseteq OState
  BY DEF OState
<1>2. Moved(o, o)
  BY OrderFields DEF Moved
<1>3. ASSUME NEW to \in {"ACKNOWLEDGED", "CANCEL_PENDING", "CANCELLED"}
      PROVE  /\ Moved(o, Transition(o, to)) /\ Transition(o, to).filled = o.filled
             /\ Transition(o, to).state \in {o.state, to}
  BY <1>1, TransitionMoves DEF Moved
<1>4. /\ o.expireAt # NoTtl => Moved(o, Transition(o, "EXPIRED"))
      /\ Transition(o, "EXPIRED").filled = o.filled
      /\ Transition(o, "EXPIRED").state \in {o.state, "EXPIRED"}
  BY <1>1, TransitionMoves DEF Moved
<1>5. Moved(o, AfterAck(o)) /\ AfterAck(o).filled = o.filled
      /\ AfterAck(o).state \in {o.state, "ACKNOWLEDGED"}
  BY <1>2, <1>3 DEF AfterAck
<1>6. Moved(o, AfterCancelRequest(o)) /\ AfterCancelRequest(o).filled = o.filled
  BY <1>2, <1>3 DEF AfterCancelRequest
<1>7. Moved(o, AfterCancelAck(o)) /\ AfterCancelAck(o).filled = o.filled
  BY <1>2, <1>3 DEF AfterCancelAck
<1>8. Moved(o, AfterPoll(o, t)) /\ AfterPoll(o, t).filled = o.filled
      /\ AfterPoll(o, t).state \in {o.state, "CANCEL_PENDING", "EXPIRED"}
  <2>1. CASE IsDue(o, t) /\ o.state \in {"ACKNOWLEDGED", "PARTIAL"}
    BY <1>3, <2>1 DEF AfterPoll
  <2>2. CASE IsDue(o, t) /\ o.state = "SUBMITTING"
    <3>1. AfterPoll(o, t) = Transition(o, "EXPIRED")
      BY <2>2 DEF AfterPoll
    <3> QED
      BY <1>4, <2>2, <3>1 DEF IsDue
  <2>3. CASE ~IsDue(o, t) \/ o.state \notin {"ACKNOWLEDGED", "PARTIAL", "SUBMITTING"}
    <3>1. AfterPoll(o, t) = o
      BY <2>3 DEF AfterPoll
    <3> QED
      BY <1>2, <3>1
  <2> QED
    BY <2>1, <2>2, <2>3
<1> QED
  BY <1>5, <1>6, <1>7, <1>8

(* A fill books its quantity, whatever the state; it ends the order or      *)
(* raises only if nothing remains.                                          *)
LEMMA FillMoves ==
  ASSUME NEW o \in OrderSet, NEW qty \in Nat
  PROVE  LET p == AfterFill(o, qty)
         IN /\ Moved(o, p) /\ p.filled = o.filled + qty
            /\ Remaining(p) > 0 => p.state \in {o.state, "PARTIAL"}
            /\ Remaining(p) = 0 /\ o.state # "NEW" => p.state \in TERMINAL
            /\ FillRaises(o, qty) /\ o.state \notin {"NEW", "FILLED", "CANCELLED", "REJECTED"}
                 => p.state = "EXPIRED" /\ Remaining(p) = 0 /\ o.state = "EXPIRED"
PROOF
<1> DEFINE a == [o EXCEPT !.filled = @ + qty]
<1> DEFINE res == (o.reserved * Remaining(a)) \div o.req.quantity
<1> DEFINE b == Booked(o, qty)
<1> DEFINE p == AfterFill(o, qty)
<1>1. /\ o.req \in RequestSet /\ o.req.quantity \in Nat \ {0} /\ o.filled \in Nat
      /\ o.reserved \in Int /\ o.rev \in Nat /\ o.state \in OState /\ o.expireAt \in Int
  BY OrderFields
<1>2. a = [req |-> o.req, state |-> o.state, filled |-> o.filled + qty,
           reserved |-> o.reserved, expireAt |-> o.expireAt, rev |-> o.rev]
  BY DEF OrderSet
<1>3. b = [a EXCEPT !.reserved = (a.reserved * Remaining(a)) \div a.req.quantity]
  BY DEF Booked
<1> HIDE DEF a, b, p
<1>4. Remaining(a) \in Int
  BY <1>1, <1>2 DEF Remaining
<1>5. res \in Int
  <2>1. \A x \in Int, y \in Nat \ {0} : x \div y \in Int
    OBVIOUS
  <2>2. o.reserved * Remaining(a) \in Int
    BY <1>1, <1>4
  <2> QED
    BY <1>1, <2>1, <2>2
<1>6. b = [req |-> o.req, state |-> o.state, filled |-> o.filled + qty,
           reserved |-> res, expireAt |-> o.expireAt, rev |-> o.rev]
  BY <1>2, <1>3
<1> HIDE DEF res
<1>7. /\ b \in OrderSet /\ b.req = o.req /\ b.expireAt = o.expireAt /\ b.state = o.state
      /\ b.filled = o.filled + qty
  BY <1>1, <1>5, <1>6 DEF OrderSet
<1> DEFINE f == Transition(b, "FILLED")
<1> DEFINE h == Transition(b, "PARTIAL")
<1> DEFINE v == [b EXCEPT !.rev = @ + 1]
<1> DEFINE Fine(u, to) == /\ u \in OrderSet /\ u.req = b.req /\ u.expireAt = b.expireAt
                          /\ u.filled = b.filled /\ u.state \in {b.state, to}
                          /\ u.state = IF <<b.state, to>> \in Legal THEN to ELSE b.state
<1>8. ASSUME NEW to \in {"FILLED", "PARTIAL"}
      PROVE  Fine(Transition(b, to), to)
  <2>1. to \in OState
    BY DEF OState
  <2> QED
    BY <1>7, <2>1, TransitionMoves
<1>9. /\ v \in OrderSet /\ v.req = b.req /\ v.expireAt = b.expireAt
      /\ v.state = b.state /\ v.filled = b.filled
  BY <1>7 DEF OrderSet
<1>10. Fine(f, "FILLED") /\ Fine(h, "PARTIAL")
  <2> HIDE DEF Fine
  <2> QED
    BY <1>8
<1>11. /\ Remaining(b) = 0 => p = f
       /\ Remaining(b) # 0 => p \in {h, v, b}
  BY DEF p, AfterFill, b
<1> HIDE DEF f, h, v
<1>12. /\ p \in OrderSet /\ p.req = o.req /\ p.expireAt = o.expireAt /\ p.filled = o.filled + qty
       /\ p.state \in {o.state, "FILLED", "PARTIAL"}
       /\ Remaining(b) # 0 => p.state \in {o.state, "PARTIAL"}
  <2>1. CASE Remaining(b) = 0
    BY <1>7, <1>10, <1>11, <2>1
  <2>2. CASE Remaining(b) # 0
    BY <1>7, <1>9, <1>10, <1>11, <2>2
  <2> QED
    BY <2>1, <2>2
<1>13. Remaining(p) = Remaining(b) /\ Remaining(b) \in Nat
  BY <1>1, <1>7, <1>12 DEF Remaining
<1>14. Moved(o, p)
  BY <1>12 DEF Moved
<1>15. Remaining(p) > 0 => p.state \in {o.state, "PARTIAL"}
  BY <1>12, <1>13
<1>16. ASSUME FillRaises(o, qty), o.state \notin {"NEW", "FILLED", "CANCELLED", "REJECTED"}
       PROVE  p.state = "EXPIRED" /\ Remaining(p) = 0 /\ o.state = "EXPIRED"
  <2>1. Remaining(b) = 0 /\ <<o.state, "FILLED">> \notin Legal
    BY <1>16 DEF FillRaises, b
  <2>2. o.state = "EXPIRED"
    BY <1>1, <1>16, <2>1 DEF Legal, OState
  <2>3. p.state = o.state
    BY <1>7, <1>10, <1>11, <2>1
  <2> QED
    BY <1>13, <2>1, <2>2, <2>3
<1>17. ASSUME Remaining(p) = 0, o.state # "NEW" PROVE p.state \in TERMINAL
  <2>1. p.state = IF <<o.state, "FILLED">> \in Legal THEN "FILLED" ELSE o.state
    BY <1>7, <1>10, <1>11, <1>13, <1>17
  <2> QED
    BY <1>1, <1>17, <2>1 DEF Legal, OState, TERMINAL
<1> QED
  BY <1>12, <1>14, <1>15, <1>16, <1>17 DEF p

LEMMA NoneLeft == Left(Absent)
BY DEF Left, IsLive, Absent, OState

(* The timer of an order the venue has let go, and its cancel-ack, which    *)
(* ends an order that was acknowledged and no other.                        *)
LEMMA LeavesBook ==
  ASSUME NEW o \in OrderSet
  PROVE  /\ \A t : Left(o) => Left(AfterPoll(o, t))
         /\ o.state # "NEW" => Left(AfterCancelAck(AfterCancelRequest(o)))
PROOF
<1> DEFINE r == AfterCancelRequest(o)
<1>1. {"CANCEL_PENDING", "CANCELLED", "EXPIRED"} \subseteq OState /\ o.state \in OState
  BY OrderFields DEF OState
<1>2. ASSUME NEW t, Left(o) PROVE Left(AfterPoll(o, t))
  <2>1. CASE IsDue(o, t) /\ o.state = "SUBMITTING"
    <3>1. AfterPoll(o, t) = Transition(o, "EXPIRED") /\ <<o.state, "EXPIRED">> \in Legal
      BY <2>1 DEF AfterPoll, Legal
    <3>2. AfterPoll(o, t).state = "EXPIRED"
      BY <1>1, <3>1, TransitionMoves
    <3> QED
      BY <3>2 DEF Left, IsLive, TERMINAL
  <2>2. CASE ~IsDue(o, t) \/ o.state # "SUBMITTING"
    <3>1. AfterPoll(o, t) = o
      BY <1>2, <2>2 DEF AfterPoll, IsDue, Left
    <3> QED
      BY <1>2, <3>1
  <2> QED
    BY <2>1, <2>2
<1>3. ASSUME o.state # "NEW" PROVE Left(AfterCancelAck(r))
  <2>1. CASE o.state \in {"ACKNOWLEDGED", "PARTIAL", "CANCEL_PENDING"}
    <3>1. r \in OrderSet /\ r.state = "CANCEL_PENDING"
      <4>1. <<"ACKNOWLEDGED", "CANCEL_PENDING">> \in Legal /\ <<"PARTIAL", "CANCEL_PENDING">> \in Legal
        BY DEF Legal
      <4> QED
        BY <1>1, <2>1, <4>1, TransitionMoves DEF AfterCancelRequest
    <3>2. AfterCancelAck(r) = Transition(r, "CANCELLED") /\ <<r.state, "CANCELLED">> \in Legal
      BY <3>1 DEF AfterCancelAck, Legal
    <3> HIDE DEF r
    <3>3. AfterCancelAck(r).state = "CANCELLED"
      BY <1>1, <3>1, <3>2, TransitionMoves
    <3> QED
      BY <3>3 DEF Left, IsLive, TERMINAL
  <2>2. CASE o.state \notin {"ACKNOWLEDGED", "PARTIAL", "CANCEL_PENDING"}
    <3>1. AfterCancelAck(r) = o
      BY <2>2 DEF AfterCancelRequest, AfterCancelAck
    <3> QED
      BY <1>1, <1>3, <2>2, <3>1 DEF Left, IsLive, TERMINAL, OState
  <2> QED
    BY <2>1, <2>2
<1> QED
  BY <1>2, <1>3

-----------------------------------------------------------------------------
(* The calls on a session.                                                  *)

(* Two sessions that differ in no order, and neither in what was traded.    *)
SameBooks(S, T) ==
  /\ T.orders = S.orders /\ T.journal = S.journal /\ T.working = S.working
  /\ T.placed = S.placed /\ T.feed = S.feed

SameShares(S, T) ==
  /\ T.position = S.position /\ T.logged = S.logged /\ T.held = S.held
  /\ T.raised = S.raised /\ T.dropped = S.dropped

(* The signal machine may only fall into its cooldown.                      *)
MayCool(S, T) == T.fsm = S.fsm \/ T.fsm = "COOLDOWN"

LEMMA EntryFailed ==
  ASSUME NEW S \in SessionSet, now \in Nat
  PROVE  LET T == OnEntryFailed(S)
         IN T \in SessionSet /\ SameBooks(S, T) /\ SameShares(S, T) /\ MayCool(S, T)
PROOF
<1>1. now + Cooldown \div 2 \in Int
  BY PaperAssumption
<1> QED
  BY <1>1 DEF OnEntryFailed, SessionSet, SameBooks, SameShares, MayCool

LEMMA OrderEnds ==
  ASSUME NEW S \in SessionSet, now \in Nat, NEW c
  PROVE  LET T == OnOrderTerminal(S, c)
         IN T \in SessionSet /\ SameBooks(S, T) /\ SameShares(S, T) /\ MayCool(S, T)
PROOF
<1>1. PICK R : /\ OnOrderTerminal(S, c) = [R EXCEPT !.pendingSig = @ \ {c}]
               /\ R \in {S, OnEntryFailed(S)}
  BY DEF OnOrderTerminal
<1>2. R \in SessionSet /\ SameBooks(S, R) /\ SameShares(S, R) /\ MayCool(S, R)
  BY <1>1, EntryFailed DEF SameBooks, SameShares, MayCool
<1> QED
  BY <1>1, <1>2 DEF SessionSet, SameBooks, SameShares, MayCool

(* The book takes the order, the journal its row if it moved.               *)
LEMMA Settles ==
  ASSUME NEW S \in SessionSet, now \in Nat, NEW c \in Coid, NEW p \in OrderSet
  PROVE  LET T == Settle(S, c, p)
         IN /\ T \in SessionSet
            /\ T.orders = [S.orders EXCEPT ![c] = p]
            /\ T.journal = [S.journal EXCEPT ![c] =
                              IF p.state # S.orders[c].state THEN RowOf(p) ELSE @]
            /\ T.working = S.working /\ T.placed = S.placed /\ T.feed = S.feed
            /\ SameShares(S, T) /\ MayCool(S, T)
PROOF
<1> DEFINE moved == p.state # S.orders[c].state
<1> DEFINE row == IF moved THEN RowOf(p) ELSE S.journal[c]
<1> DEFINE R == [S EXCEPT !.orders[c] = p, !.journal[c] = row]
<1>1. row \in RowSet \cup {NoRow}
  <2>1. RowOf(p) \in RowSet
    BY DEF RowOf, RowSet, OrderSet
  <2> QED
    BY <2>1 DEF SessionSet
<1> HIDE DEF row
<1>2. R \in SessionSet
  BY <1>1 DEF SessionSet
<1>3. /\ R.orders = [S.orders EXCEPT ![c] = p]
      /\ R.journal = [S.journal EXCEPT ![c] = row]
      /\ R.working = S.working /\ R.placed = S.placed /\ R.feed = S.feed
      /\ SameShares(S, R) /\ R.fsm = S.fsm
  BY DEF SessionSet, SameShares
<1>4. Settle(S, c, p) \in {R, OnOrderTerminal(R, c)}
  BY DEF Settle, row
<1> HIDE DEF R
<1>5. LET T == Settle(S, c, p)
      IN T \in SessionSet /\ SameBooks(R, T) /\ SameShares(R, T) /\ MayCool(R, T)
  BY <1>2, <1>4, OrderEnds DEF SameBooks, SameShares, MayCool
<1> QED
  BY <1>3, <1>5 DEF SameBooks, SameShares, MayCool, row

LEMMA SettleKeeps ==
  ASSUME NEW S, Desk(S), ~S.raised, now \in Nat, NEW c \in Coid,
         S.orders[c] \in OrderSet, NEW p, Moved(S.orders[c], p)
  PROVE  Desk(Settle(S, c, p))
PROOF
<1> DEFINE T == Settle(S, c, p)
<1>1. S \in SessionSet /\ p \in OrderSet
  BY DEF Desk, Moved
<1>2. /\ T \in SessionSet
      /\ T.orders = [S.orders EXCEPT ![c] = p]
      /\ T.journal = [S.journal EXCEPT ![c] =
                        IF p.state # S.orders[c].state THEN RowOf(p) ELSE @]
      /\ T.working = S.working
      /\ SameShares(S, T) /\ MayCool(S, T)
  BY <1>1, Settles
<1> HIDE DEF T
<1>3. /\ S.orders \in [Coid -> OrderSet \cup {Absent}]
      /\ S.journal \in [Coid -> RowSet \cup {NoRow}]
  BY <1>1 DEF SessionSet
<1>4. /\ T.orders[c] = p /\ \A d \in Coid \ {c} : T.orders[d] = S.orders[d]
      /\ T.journal[c] \in {RowOf(p), S.journal[c]}
      /\ \A d \in Coid \ {c} : T.journal[d] = S.journal[d]
  BY <1>2, <1>3
<1>5. /\ S.orders[c] # Absent /\ S.journal[c] # NoRow
      /\ RowOf(p) # NoRow /\ RowOf(p).req = S.orders[c].req
  <2>1. RowOf(p) \in RowSet /\ RowOf(p).req = p.req
    BY <1>1 DEF RowOf, RowSet, OrderSet
  <2> QED
    BY <2>1, Present DEF Desk, Moved
<1>6. \A d \in Coid : T.orders[d] # Absent \/ T.working[d] # Gone => T.journal[d] # NoRow
  BY <1>2, <1>4, <1>5 DEF Desk
<1>7. ASSUME NEW d \in ExitCoid
      PROVE  /\ T.orders[d] # Absent => ExitOrder(T.orders[d])
             /\ T.journal[d] # NoRow => T.journal[d].req.intent = "exit"
  <2>1. d \in Coid
    BY DEF Coid
  <2>2. CASE d # c
    BY <1>4, <2>1, <2>2 DEF Desk
  <2>3. CASE d = c
    <3>1. ExitOrder(S.orders[c]) /\ S.journal[c].req.intent = "exit"
      BY <1>5, <2>3 DEF Desk
    <3>2. ExitOrder(p)
      BY <3>1 DEF ExitOrder, Moved
    <3> QED
      BY <1>4, <1>5, <2>3, <3>1, <3>2 DEF ExitOrder
  <2> QED
    BY <2>2, <2>3
<1>8. /\ T.logged = T.position /\ ~T.raised
      /\ T.fsm = "MANAGE" => T.position > 0
  BY <1>2 DEF Desk, SameShares, MayCool
<1> QED
  BY <1>2, <1>6, <1>7, <1>8 DEF Desk, T

(* What an event of order c leaves alone.                                   *)
Elsewhere(S, T, c) ==
  /\ T.working = S.working /\ T.placed = S.placed /\ T.feed = S.feed
  /\ \A d \in Coid \ {c} : T.orders[d] = S.orders[d]

(* An ack or a cancel-ack moves no shares.                                  *)
Quiet(S, T, c) ==
  /\ Desk(T) /\ Elsewhere(S, T, c) /\ SameShares(S, T)
  /\ T.orders[c] \in OrderSet
  /\ T.orders[c].req = S.orders[c].req /\ T.orders[c].filled = S.orders[c].filled

LEMMA SettleQuiet ==
  ASSUME NEW S, Desk(S), ~S.raised, now \in Nat, NEW c \in Coid,
         S.orders[c] \in OrderSet, NEW p, Moved(S.orders[c], p), p.filled = S.orders[c].filled
  PROVE  Quiet(S, Settle(S, c, p), c) /\ Settle(S, c, p).orders[c] = p
PROOF
<1> DEFINE T == Settle(S, c, p)
<1>1. S \in SessionSet /\ p \in OrderSet
  BY DEF Desk, Moved
<1>2. /\ T.orders = [S.orders EXCEPT ![c] = p]
      /\ T.working = S.working /\ T.placed = S.placed /\ T.feed = S.feed
      /\ SameShares(S, T)
  BY <1>1, Settles
<1>3. Desk(T)
  BY SettleKeeps
<1> HIDE DEF T
<1>4. T.orders[c] = p /\ \A d \in Coid \ {c} : T.orders[d] = S.orders[d]
  BY <1>1, <1>2 DEF SessionSet
<1>5. Quiet(S, T, c)
  BY <1>1, <1>2, <1>3, <1>4 DEF Quiet, Elsewhere, Moved
<1> QED
  BY <1>4, <1>5 DEF T

LEMMA AckHeard ==
  ASSUME NEW S, Desk(S), ~S.raised, now \in Nat, NEW c \in Coid, S.orders[c] \in OrderSet
  PROVE  LET T == Hear(S, Ack(c))
         IN Quiet(S, T, c) /\ T.orders[c].state \in {S.orders[c].state, "ACKNOWLEDGED"}
PROOF
<1> DEFINE p == AfterAck(S.orders[c])
<1>1. Hear(S, Ack(c)) = Settle(S, c, p)
  BY DEF Hear, Traded, Apply, Ack
<1>2. /\ Moved(S.orders[c], p) /\ p.filled = S.orders[c].filled
      /\ p.state \in {S.orders[c].state, "ACKNOWLEDGED"}
  BY CallsMove
<1> QED
  BY <1>1, <1>2, SettleQuiet

LEMMA CancelHeard ==
  ASSUME NEW S, Desk(S), ~S.raised, now \in Nat, NEW c \in Coid, S.orders[c] \in OrderSet
  PROVE  LET T == Hear(S, CancelAck(c))
         IN Quiet(S, T, c) /\ (S.orders[c].state # "NEW" => Left(T.orders[c]))
PROOF
<1> DEFINE o == S.orders[c]
<1> DEFINE R == Settle(S, c, AfterCancelRequest(o))
<1> DEFINE T == Settle(R, c, AfterCancelAck(R.orders[c]))
<1>1. Hear(S, CancelAck(c)) = T
  BY DEF Hear, Traded, Apply, CancelAck
<1>2. Moved(o, AfterCancelRequest(o)) /\ AfterCancelRequest(o).filled = o.filled
  BY CallsMove
<1>3. Quiet(S, R, c) /\ R.orders[c] = AfterCancelRequest(o)
  BY <1>2, SettleQuiet
<1> HIDE DEF R
<1>4. Desk(R) /\ ~R.raised /\ R.orders[c] \in OrderSet
  BY <1>3 DEF Quiet, SameShares
<1> DEFINE q == AfterCancelAck(R.orders[c])
<1>5. Moved(R.orders[c], q) /\ q.filled = R.orders[c].filled
  BY <1>4, CallsMove
<1>8. o.state # "NEW" => Left(q)
  BY <1>3, LeavesBook
<1> HIDE DEF q
<1>6. Quiet(R, Settle(R, c, q), c) /\ Settle(R, c, q).orders[c] = q
  BY <1>4, <1>5, SettleQuiet
<1>7. Quiet(S, Settle(R, c, q), c)
  BY <1>3, <1>6 DEF Quiet, Elsewhere, SameShares
<1> QED
  BY <1>1, <1>6, <1>7, <1>8 DEF q

(* What the engine no longer hears changes neither its books nor its        *)
(* position.                                                                *)
LEMMA NotHeard ==
  ASSUME NEW S, Desk(S), Covered(S), S.raised, NEW ev,
         ev.kind = "fill" => ev.qty \in Nat
  PROVE  LET T == Hear(S, ev)
         IN Desk(T) /\ Covered(T) /\ SameBooks(S, T) /\ T.raised
PROOF
<1> DEFINE h == IF ev.coid \in EntryCoid THEN S.held + ev.qty ELSE S.held - ev.qty
<1> DEFINE T == Hear(S, ev)
<1>1. S \in SessionSet
  BY DEF Desk
<1>2. CASE ev.kind # "fill"
  BY <1>2 DEF Hear, Traded, SameBooks
<1>3. CASE ev.kind = "fill"
  <2>1. T = [S EXCEPT !.held = h, !.dropped = TRUE]
    BY <1>1, <1>3 DEF Hear, Traded, SessionSet
  <2>2. h \in Int
    BY <1>1, <1>3 DEF SessionSet
  <2> HIDE DEF h, T
  <2>3. T \in SessionSet
    BY <1>1, <2>1, <2>2 DEF SessionSet
  <2>4. /\ SameBooks(S, T) /\ T.position = S.position /\ T.logged = S.logged /\ T.fsm = S.fsm
        /\ T.raised = S.raised /\ T.dropped
    BY <1>1, <2>1 DEF SessionSet, SameBooks
  <2>5. Desk(T)
    BY <2>3, <2>4 DEF Desk, SameBooks
  <2> QED
    BY <2>4, <2>5 DEF Covered, T
<1> QED
  BY <1>2, <1>3

(* Only the position and the signal machine hear of a fill beside the book.  *)
LEMMA SharesMove ==
  ASSUME NEW R, Desk(R), ~R.raised, NEW T \in SessionSet, SameBooks(R, T), ~T.raised,
         T.logged = T.position, T.fsm = "MANAGE" => T.position > 0
  PROVE  Desk(T)
BY DEF Desk, SameBooks

LEMMA ExitFills ==
  ASSUME NEW R, Desk(R), ~R.raised, now \in Nat, NEW q \in Nat \ {0}, q <= R.position
  PROVE  LET T == ExitFill(R, q)
         IN /\ Desk(T) /\ SameBooks(R, T) /\ ~T.raised
            /\ T.position = R.position - q /\ T.held = R.held /\ T.dropped = R.dropped
PROOF
<1> DEFINE left == IF R.position > q THEN R.position - q ELSE 0
<1> DEFINE L == [R EXCEPT !.logged = Netted(@, "exit", q)]
<1> DEFINE U == [L EXCEPT !.position = left]
<1> DEFINE V == FsmOnPositionClosed(U)
<1> DEFINE T == ExitFill(R, q)
<1>1. R \in SessionSet /\ R.position \in Nat /\ R.logged = R.position
  BY DEF Desk, SessionSet
<1>2. left = R.position - q /\ left \in Nat
  BY <1>1
<1>3. U = [R EXCEPT !.logged = left, !.position = left]
  BY <1>1 DEF SessionSet, Netted
<1>4. T = IF R.position > 0 /\ left = 0 THEN V ELSE U
  BY <1>1 DEF ExitFill, SessionSet
<1> HIDE DEF U, left
<1>5. /\ U \in SessionSet /\ U.logged = left /\ U.position = left /\ U.fsm = R.fsm
      /\ SameBooks(R, U) /\ U.raised = R.raised /\ U.held = R.held /\ U.dropped = R.dropped
  BY <1>1, <1>2, <1>3 DEF SessionSet, SameBooks
<1>6. now + Cooldown \in Int
  BY PaperAssumption
<1>7. /\ V \in SessionSet /\ V.logged = left /\ V.position = left /\ V.fsm = "COOLDOWN"
      /\ SameBooks(R, V) /\ V.raised = R.raised /\ V.held = R.held /\ V.dropped = R.dropped
  BY <1>5, <1>6 DEF FsmOnPositionClosed, SessionSet, SameBooks
<1> HIDE DEF V, T
<1>8. /\ T \in SessionSet /\ T.logged = left /\ T.position = left
      /\ SameBooks(R, T) /\ T.raised = R.raised /\ T.held = R.held /\ T.dropped = R.dropped
      /\ T.fsm = "MANAGE" => left > 0
  BY <1>1, <1>2, <1>4, <1>5, <1>7 DEF Desk
<1>9. Desk(T)
  BY <1>8, SharesMove
<1> QED
  BY <1>2, <1>8, <1>9 DEF T

LEMMA EntryFills ==
  ASSUME NEW R, Desk(R), ~R.raised, NEW q \in Nat \ {0}
  PROVE  LET T == EntryFill(R, q)
         IN /\ Desk(T) /\ SameBooks(R, T) /\ ~T.raised
            /\ T.position = R.position + q /\ T.held = R.held /\ T.dropped = R.dropped
PROOF
<1> DEFINE n == R.position + q
<1> DEFINE P == [R EXCEPT !.position = @ + q]
<1> DEFINE U == [P EXCEPT !.logged = Netted(@, "entry", q)]
<1> DEFINE T == EntryFill(R, q)
<1>1. R \in SessionSet /\ R.position \in Nat /\ R.logged = R.position
  BY DEF Desk, SessionSet
<1>2. n \in Nat /\ n > 0
  BY <1>1
<1>3. U = [R EXCEPT !.position = n, !.logged = n]
  BY <1>1 DEF SessionSet, Netted
<1>4. T = FsmOnEntryFill(U)
  BY DEF EntryFill
<1> HIDE DEF U, n, T
<1>5. /\ U \in SessionSet /\ U.logged = n /\ U.position = n
      /\ SameBooks(R, U) /\ U.raised = R.raised /\ U.held = R.held /\ U.dropped = R.dropped
  BY <1>1, <1>2, <1>3 DEF SessionSet, SameBooks
<1>6. /\ T \in SessionSet /\ T.logged = n /\ T.position = n
      /\ SameBooks(R, T) /\ T.raised = R.raised /\ T.held = R.held /\ T.dropped = R.dropped
  BY <1>4, <1>5 DEF FsmOnEntryFill, SessionSet, SameBooks
<1>7. Desk(T)
  BY <1>2, <1>6, SharesMove
<1> QED
  BY <1>6, <1>7 DEF T, n

LEMMA FillHeard ==
  ASSUME NEW S, Desk(S), Covered(S), ~S.raised, now \in Nat, NEW c \in Coid,
         S.orders[c] \in OrderSet,
         S.orders[c].state \notin {"NEW", "FILLED", "CANCELLED", "REJECTED"},
         NEW q \in Nat \ {0}, c \in ExitCoid => q <= S.position
  PROVE  LET T == Hear(S, Fill(c, q))
         IN /\ Desk(T) /\ Covered(T) /\ Elsewhere(S, T, c)
            /\ T.orders[c] = AfterFill(S.orders[c], q)
            /\ IF c \in ExitCoid THEN T.position = S.position - q ELSE T.position >= S.position
PROOF
<1> DEFINE o == S.orders[c]
<1> DEFINE p == AfterFill(o, q)
<1> DEFINE h == IF c \in EntryCoid THEN S.held + q ELSE S.held - q
<1> DEFINE S1 == Traded(S, Fill(c, q))
<1> DEFINE R == Settle(S1, c, p)
<1> DEFINE T == Hear(S, Fill(c, q))
<1>1. S \in SessionSet /\ S.held \in Int /\ S.position \in Nat /\ S.dropped \in BOOLEAN
  BY DEF Desk, SessionSet
<1>2. S1 = [S EXCEPT !.held = h]
  BY <1>1 DEF Traded, Fill, SessionSet
<1>3. h \in Int
  BY <1>1
<1> HIDE DEF S1
<1>4. /\ S1 \in SessionSet /\ SameBooks(S, S1) /\ S1.held = h /\ S1.raised = S.raised
      /\ S1.position = S.position /\ S1.logged = S.logged /\ S1.fsm = S.fsm
      /\ S1.dropped = S.dropped
  <2> HIDE DEF h
  <2> QED
    BY <1>1, <1>2, <1>3 DEF SessionSet, SameBooks
<1>5. Desk(S1)
  BY <1>4, SharesMove DEF Desk
<1>6. /\ Moved(o, p) /\ p \in OrderSet /\ S1.orders = S.orders /\ ~S1.raised
      /\ FillRaises(o, q) => p.state = "EXPIRED" /\ Remaining(p) = 0 /\ o.state = "EXPIRED"
  BY <1>4, FillMoves DEF Moved, SameBooks
<1> HIDE DEF p
<1>7. Desk(R)
  BY <1>5, <1>6, SettleKeeps
<1>8. /\ R.orders = [S.orders EXCEPT ![c] = p]
      /\ R.working = S.working /\ R.placed = S.placed /\ R.feed = S.feed
      /\ R.position = S.position /\ R.held = h /\ ~R.raised /\ R.dropped = S.dropped
  <2>1. /\ R.orders = [S1.orders EXCEPT ![c] = p]
        /\ R.working = S1.working /\ R.placed = S1.placed /\ R.feed = S1.feed
        /\ SameShares(S1, R)
    BY <1>4, <1>6, Settles
  <2> HIDE DEF R, h
  <2> QED
    BY <1>4, <1>6, <2>1 DEF SameBooks, SameShares
<1>9. T = IF FillRaises(o, q) THEN [R EXCEPT !.raised = TRUE]
          ELSE IF c \in ExitCoid THEN ExitFill(R, q)
          ELSE IF c \in R.pendingSig THEN EntryFill(R, q)
          ELSE R
  BY <1>6 DEF Hear, Apply, OnFill, Fill, S1, p
<1> HIDE DEF R, T
<1>10. R.orders[c] = p /\ \A d \in Coid \ {c} : R.orders[d] = S.orders[d]
  BY <1>1, <1>8 DEF SessionSet
<1>11. c \in ExitCoid \/ c \in EntryCoid
  BY DEF Coid
<1>12. c \in ExitCoid => h = S.held - q
  BY PaperAssumption
<1>13. c \notin ExitCoid => h = S.held + q
  BY <1>11
<1> HIDE DEF h
<1>14. CASE FillRaises(o, q)
  <2>1. c \notin ExitCoid
    BY <1>6, <1>14, Present DEF Desk, ExitOrder
  <2>2. T = [R EXCEPT !.raised = TRUE] /\ R \in SessionSet
    BY <1>7, <1>9, <1>14 DEF Desk
  <2>3. /\ T \in SessionSet /\ SameBooks(R, T) /\ T.raised
        /\ T.position = R.position /\ T.logged = R.logged /\ T.fsm = R.fsm
        /\ T.held = R.held /\ T.dropped = R.dropped
    BY <2>2 DEF SessionSet, SameBooks
  <2>4. T.orders[c].state = "EXPIRED" /\ Remaining(T.orders[c]) = 0
    BY <1>6, <1>10, <1>14, <2>3 DEF SameBooks
  <2>5. \E d \in EntryCoid : T.orders[d].state = "EXPIRED" /\ Remaining(T.orders[d]) = 0
    BY <1>11, <2>1, <2>4
  <2>6. Desk(T)
    BY <1>7, <2>3, <2>5 DEF Desk, SameBooks
  <2>7. Covered(T)
    BY <1>1, <1>8, <1>13, <2>1, <2>3 DEF Covered
  <2>8. Elsewhere(S, T, c) /\ T.orders[c] = p
    BY <1>8, <1>10, <2>3 DEF Elsewhere, SameBooks
  <2> QED
    BY <1>1, <1>8, <2>1, <2>3, <2>6, <2>7, <2>8 DEF T, p
<1>15. CASE ~FillRaises(o, q) /\ c \in ExitCoid
  <2>1. q <= R.position /\ T = ExitFill(R, q)
    BY <1>8, <1>9, <1>15
  <2>2. /\ Desk(T) /\ SameBooks(R, T)
        /\ T.position = R.position - q /\ T.held = R.held /\ T.dropped = R.dropped
    BY <1>7, <1>8, <2>1, ExitFills
  <2>3. Covered(T)
    BY <1>1, <1>8, <1>12, <1>15, <2>2 DEF Covered
  <2>4. Elsewhere(S, T, c) /\ T.orders[c] = p
    BY <1>8, <1>10, <2>2 DEF Elsewhere, SameBooks
  <2> QED
    BY <1>8, <1>15, <2>2, <2>3, <2>4 DEF T, p
<1>16. CASE ~FillRaises(o, q) /\ c \notin ExitCoid /\ c \in R.pendingSig
  <2>1. T = EntryFill(R, q)
    BY <1>9, <1>16
  <2>2. /\ Desk(T) /\ SameBooks(R, T)
        /\ T.position = R.position + q /\ T.held = R.held /\ T.dropped = R.dropped
    BY <1>7, <1>8, <2>1, EntryFills
  <2>3. Covered(T) /\ T.position >= S.position
    BY <1>1, <1>8, <1>13, <1>16, <2>2 DEF Covered
  <2>4. Elsewhere(S, T, c) /\ T.orders[c] = p
    BY <1>8, <1>10, <2>2 DEF Elsewhere, SameBooks
  <2> QED
    BY <1>16, <2>2, <2>3, <2>4 DEF T, p
<1>17. CASE ~FillRaises(o, q) /\ c \notin ExitCoid /\ c \notin R.pendingSig
  <2>1. T = R
    BY <1>9, <1>17
  <2>2. Covered(T) /\ T.position >= S.position
    BY <1>1, <1>8, <1>13, <1>17, <2>1 DEF Covered
  <2>3. Elsewhere(S, T, c) /\ T.orders[c] = p
    BY <1>8, <1>10, <2>1 DEF Elsewhere
  <2> QED
    BY <1>7, <1>17, <2>1, <2>2, <2>3 DEF T, p
<1> QED
  BY <1>14, <1>15, <1>16, <1>17

-----------------------------------------------------------------------------
(* What the venue answers.                                                  *)

(* A quote, a print or a poll.                                              *)
Stimulus ==
  [kind: {"quote"}, take: Take, ts: Int]
    \cup [kind: {"trade"}, print: {"through", "at", "away"}, size: Size]
    \cup [kind: {"poll"}]

(* The venue's order, n shares on.                                          *)
Ahead(w, x, n) ==
  x \in WorkSet /\ x.filled = w.filled + n /\ x.quantity = w.quantity /\ Unended(x)

(* All that the venue may make of its order w: silence, an ack, a cancel,   *)
(* a fill of all that is unfilled, or of part of it, that may come with the *)
(* cancel of the rest.                                                      *)
Answer(c, w, x, events) ==
  \/ events \in {<<>>, <<Ack(c)>>} /\ Ahead(w, x, 0)
  \/ events \in {<<CancelAck(c)>>, <<Ack(c), CancelAck(c)>>} /\ x = Gone
  \/ \E q \in 1..Unfilled(w) :
       \/ events = <<Fill(c, q)>> /\ ((x = Gone /\ q = Unfilled(w)) \/ Ahead(w, x, q))
       \/ events = <<Fill(c, q), CancelAck(c)>> /\ x = Gone

Answered(c, w, after) == \E x, events : after = <<x, events>> /\ Answer(c, w, x, events)

(* Events of one order come one after the other.                            *)
LEMMA Events ==
  ASSUME NEW a, NEW b
  PROVE  /\ Append(<<>>, b) = <<b>> /\ Append(<<a>>, b) = <<a, b>>
         /\ <<>> \o <<>> = <<>> /\ <<a>> \o <<>> = <<a>> /\ <<>> \o <<b>> = <<b>>
         /\ <<a>> \o <<b>> = <<a, b>>
<1> DEFINE both == <<a, b>>
<1>0. <<a>> \in Seq({a, b}) /\ <<b>> \in Seq({a, b}) /\ both \in Seq({a, b})
  OBVIOUS
<1>1. Append(<<>>, b) = <<b>>
  OBVIOUS
<1>2. Append(<<a>>, b) = both
  <2>1. Append(<<a>>, b) \in Seq({a, b}) /\ Len(Append(<<a>>, b)) = 2 /\ Len(both) = 2
    BY <1>0
  <2>2. \A i \in 1..2 : Append(<<a>>, b)[i] = both[i]
    BY <1>0
  <2> HIDE DEF both
  <2> QED
    BY <1>0, <2>1, <2>2, SeqEqual
<1>3. <<>> \o <<>> = <<>>
  OBVIOUS
<1>4. <<a>> \o <<>> = <<a>>
  OBVIOUS
<1>5. <<>> \o <<b>> = <<b>>
  OBVIOUS
<1>6. <<a>> \o <<b>> = both
  <2>1. <<a>> \o <<b>> \in Seq({a, b}) /\ Len(<<a>> \o <<b>>) = 2 /\ Len(both) = 2
    BY <1>0
  <2>2. \A i \in 1..2 : (<<a>> \o <<b>>)[i] = both[i]
    BY <1>0
  <2> HIDE DEF both
  <2> QED
    BY <1>0, <2>1, <2>2, SeqEqual
<1> QED
  BY <1>1, <1>2, <1>3, <1>4, <1>5, <1>6

LEMMA Aggressed ==
  ASSUME NEW c, NEW w \in WorkSet, Unended(w), NEW take \in Nat
  PROVE  Answered(c, w, Aggress(c, w, take))
PROOF
<1> DEFINE left == Unfilled(w)
<1> DEFINE qty == IF take < left THEN take ELSE left
<1> DEFINE traded == IF qty >= MinFill THEN [w EXCEPT !.filled = @ + qty] ELSE w
<1> DEFINE fills == IF qty >= MinFill THEN <<Fill(c, qty)>> ELSE <<>>
<1>1. /\ w.filled \in Nat /\ w.quantity \in Nat /\ w.tif \in {"DAY", "IOC"}
      /\ MinFill \in Nat \ {0}
  BY VenueAssumption DEF WorkSet
<1>2. left \in Nat /\ left > 0 /\ left = w.quantity - w.filled
  BY <1>1 DEF Unfilled, Unended
<1>3. Aggress(c, w, take)
        = IF w.tif = "IOC"
            THEN <<Gone, IF Unfilled(traded) > 0 THEN Append(fills, CancelAck(c)) ELSE fills>>
          ELSE IF Unfilled(traded) = 0 THEN <<Gone, fills>>
          ELSE <<traded, fills>>
  BY <1>1 DEF Aggress
<1>4. CASE qty >= MinFill
  <2>1. qty \in 1..left
    BY <1>1, <1>2, <1>4
  <2>2. fills = <<Fill(c, qty)>> /\ traded = [w EXCEPT !.filled = @ + qty]
    BY <1>4
  <2> HIDE DEF qty, fills, traded, left
  <2>3. Append(fills, CancelAck(c)) = <<Fill(c, qty), CancelAck(c)>>
    BY <2>2, Events
  <2>4. /\ traded \in WorkSet /\ traded.filled = w.filled + qty /\ traded.quantity = w.quantity
    BY <1>1, <1>2, <2>1, <2>2 DEF WorkSet
  <2>5. /\ Unfilled(traded) # 0 => Ahead(w, traded, qty)
        /\ ~(Unfilled(traded) > 0) => qty = Unfilled(w)
    <3>1. Unfilled(traded) = w.quantity - (w.filled + qty)
      BY <1>1, <1>2, <2>1, <2>4 DEF Unfilled
    <3> QED
      BY <1>1, <1>2, <2>1, <2>4, <3>1 DEF Ahead, Unended, left
  <2>6. CASE w.tif = "IOC" /\ Unfilled(traded) > 0
    BY <1>3, <2>1, <2>3, <2>6 DEF Answered, Answer, left
  <2>7. CASE w.tif = "IOC" /\ ~(Unfilled(traded) > 0)
    BY <1>3, <2>1, <2>2, <2>5, <2>7 DEF Answered, Answer, left
  <2>8. CASE w.tif # "IOC" /\ Unfilled(traded) = 0
    BY <1>3, <2>1, <2>2, <2>5, <2>8 DEF Answered, Answer, left
  <2>9. CASE w.tif # "IOC" /\ Unfilled(traded) # 0
    BY <1>3, <2>1, <2>2, <2>5, <2>9 DEF Answered, Answer, left
  <2> QED
    BY <2>6, <2>7, <2>8, <2>9
<1>5. CASE ~(qty >= MinFill)
  <2>1. fills = <<>> /\ traded = w
    BY <1>5
  <2> HIDE DEF qty, fills, traded
  <2>2. Append(fills, CancelAck(c)) = <<CancelAck(c)>>
    BY <2>1, Events
  <2>3. Unfilled(traded) > 0 /\ Unfilled(traded) # 0 /\ Ahead(w, w, 0)
    BY <1>1, <1>2, <2>1 DEF Ahead
  <2> HIDE DEF left
  <2>4. Aggress(c, w, take) \in {<<Gone, <<CancelAck(c)>> >>, <<w, <<>> >>}
    BY <1>3, <2>1, <2>2, <2>3
  <2> QED
    BY <2>3, <2>4 DEF Answered, Answer
<1> QED
  BY <1>4, <1>5

LEMMA Reacts ==
  ASSUME NEW c, NEW w \in WorkSet, Unended(w), NEW m \in Stimulus
  PROVE  Answered(c, w, Reaction(c, w, m))
PROOF
<1>1. /\ w.filled \in Nat /\ w.quantity \in Nat /\ w.queue \in Int /\ w # Gone
      /\ MinFill \in Nat \ {0}
  BY VenueAssumption, Present DEF WorkSet
<1>2. Unfilled(w) \in Nat /\ Unfilled(w) > 0 /\ Unfilled(w) = w.quantity - w.filled
  BY <1>1 DEF Unfilled, Unended
<1>3. Ahead(w, w, 0)
  BY <1>1 DEF Ahead
<1>4. Answered(c, w, <<w, <<>> >>)
  BY <1>3 DEF Answered, Answer
<1>5. CASE m.kind = "quote"
  <2>1. m.take \in Nat
    BY <1>5, PaperAssumption DEF Stimulus
  <2>2. Reaction(c, w, m) = AfterQuote(c, w, m.take, m.ts, now)
    BY <1>5 DEF Reaction
  <2> QED
    BY <1>4, <2>1, <2>2, Aggressed DEF AfterQuote
<1>6. CASE m.kind = "trade"
  <2> DEFINE left == Unfilled(w)
  <2> DEFINE qty == IF m.size < left THEN m.size ELSE left
  <2> DEFINE traded == [w EXCEPT !.filled = @ + qty]
  <2> DEFINE worked == [w EXCEPT !.queue = IF @ > m.size THEN @ - m.size ELSE 0]
  <2> DEFINE rest == IF Unfilled(traded) = 0 THEN Gone ELSE traded
  <2>1. m.size \in Nat
    BY <1>6, PaperAssumption DEF Stimulus
  <2>2. Reaction(c, w, m) = AfterTrade(c, w, m.print, m.size, TRUE, now)
    BY <1>6 DEF Reaction
  <2>3. \/ AfterTrade(c, w, m.print, m.size, TRUE, now)
             \in {<<w, <<>> >>, <<Gone, <<Fill(c, left)>> >>, <<worked, <<>> >>}
        \/ /\ AfterTrade(c, w, m.print, m.size, TRUE, now) = <<rest, <<Fill(c, qty)>> >>
           /\ qty >= MinFill
    BY DEF AfterTrade
  <2>4. Ahead(w, worked, 0)
    <3> DEFINE queue == IF w.queue > m.size THEN w.queue - m.size ELSE 0
    <3>1. queue \in Int /\ worked = [w EXCEPT !.queue = queue]
      BY <1>1, <2>1
    <3> HIDE DEF queue
    <3>2. worked \in WorkSet /\ worked.filled = w.filled /\ worked.quantity = w.quantity
      BY <3>1 DEF WorkSet
    <3> QED
      BY <1>1, <3>2 DEF Ahead, Unended
  <2>5. qty >= MinFill => qty \in 1..left
    BY <1>1, <1>2, <2>1
  <2> HIDE DEF qty, worked
  <2>6. qty >= MinFill => (rest = Gone /\ qty = Unfilled(w)) \/ Ahead(w, rest, qty)
    <3>1. qty >= MinFill => /\ traded \in WorkSet /\ traded.filled = w.filled + qty
                            /\ traded.quantity = w.quantity
      BY <1>1, <1>2, <2>5 DEF WorkSet
    <3>2. qty >= MinFill => Unfilled(traded) = w.quantity - (w.filled + qty)
      BY <1>1, <1>2, <2>5, <3>1 DEF Unfilled
    <3>3. qty >= MinFill /\ Unfilled(traded) # 0 => Ahead(w, traded, qty)
      BY <1>1, <1>2, <2>5, <3>1, <3>2 DEF Ahead, Unended
    <3>4. qty >= MinFill /\ Unfilled(traded) = 0 => qty = Unfilled(w)
      BY <1>1, <1>2, <2>5, <3>2
    <3> QED
      BY <3>3, <3>4
  <2>7. left \in 1..left
    BY <1>2
  <2> HIDE DEF rest, left
  <2>8. Answered(c, w, <<Gone, <<Fill(c, left)>> >>)
    BY <2>7 DEF Answered, Answer, left
  <2>9. Answered(c, w, <<worked, <<>> >>)
    BY <2>4 DEF Answered, Answer
  <2>10. qty >= MinFill => Answered(c, w, <<rest, <<Fill(c, qty)>> >>)
    BY <2>5, <2>6 DEF Answered, Answer, left
  <2> QED
    BY <1>4, <2>2, <2>3, <2>8, <2>9, <2>10
<1>7. CASE m.kind = "poll"
  <2> DEFINE acks == ~w.acked /\ now >= w.ackAt
  <2> DEFINE ends == w.cancelAt # None /\ now >= w.cancelAt
  <2> DEFINE acked == [w EXCEPT !.acked = TRUE]
  <2>1. Reaction(c, w, m) = AfterVenuePoll(c, w, now)
    BY <1>7 DEF Reaction
  <2>2. AfterVenuePoll(c, w, now)
          = <<IF ends THEN Gone ELSE IF acks THEN acked ELSE w,
              (IF acks THEN <<Ack(c)>> ELSE <<>>) \o (IF ends THEN <<CancelAck(c)>> ELSE <<>>)>>
    BY <1>1 DEF AfterVenuePoll
  <2>3. Ahead(w, acked, 0)
    <3>1. acked \in WorkSet /\ acked.filled = w.filled /\ acked.quantity = w.quantity
      BY DEF WorkSet
    <3> QED
      BY <1>1, <3>1 DEF Ahead, Unended
  <2> HIDE DEF acks, ends, acked
  <2>4. AfterVenuePoll(c, w, now) \in {<<w, <<>> >>, <<acked, <<Ack(c)>> >>,
                                       <<Gone, <<CancelAck(c)>> >>,
                                       <<Gone, <<Ack(c), CancelAck(c)>> >>}
    BY <2>2, Events
  <2>5. Answered(c, w, <<acked, <<Ack(c)>> >>)
    BY <2>3 DEF Answered, Answer
  <2>6. Answered(c, w, <<Gone, <<CancelAck(c)>> >>)
    BY DEF Answered, Answer
  <2>7. Answered(c, w, <<Gone, <<Ack(c), CancelAck(c)>> >>)
    BY DEF Answered, Answer
  <2> QED
    BY <1>4, <2>1, <2>4, <2>5, <2>6, <2>7
<1> QED
  BY <1>5, <1>6, <1>7 DEF Stimulus

LEMMA Heard ==
  ASSUME NEW S, NEW a
  PROVE  HearAll(S, <<>>) = S /\ HearAll(S, <<a>>) = Hear(S, a)
PROOF
<1>1. Len(<<>>) = 0 /\ Len(<<a>>) = 1 /\ <<a>>[1] = a
  OBVIOUS
<1> QED
  BY <1>1 DEF HearAll

LEMMA HeardTwo ==
  ASSUME NEW S, NEW a, NEW b
  PROVE  HearAll(S, <<a, b>>) = Hear(Hear(S, a), b)
PROOF
<1> DEFINE both == <<a, b>>
<1>1. Len(both) = 2 /\ both[1] = a /\ both[2] = b
  OBVIOUS
<1> HIDE DEF both
<1>2. HearAll(S, both) = Hear(Hear(S, a), b)
  BY <1>1 DEF HearAll
<1> QED
  BY <1>2 DEF both

(* What the other orders know of an order that is at the venue.             *)
LEMMA Others ==
  ASSUME NEW S, Sound(S), ~S.raised, NEW c \in Coid, S.working[c] # Gone,
         NEW T, \A d \in Coid \ {c} : T.working[d] = S.working[d] /\ T.orders[d] = S.orders[d],
         T.position \in Nat, c \notin ExitCoid => T.position >= S.position
  PROVE  \A d \in Coid \ {c} : Known(T, d)
PROOF
<1>0. \A d \in Coid \ {c} : T.working[d] = Gone => Left(T.orders[d])
  BY DEF Sound, Known
<1> SUFFICES ASSUME NEW d \in Coid \ {c}, ~T.raised, T.working[d] # Gone
             PROVE  Agree(T.orders[d], T.working[d])
                    /\ (d \in ExitCoid => Unfilled(T.working[d]) <= T.position)
  BY <1>0 DEF Known
<1>1. /\ Agree(S.orders[d], S.working[d])
      /\ d \in ExitCoid => Unfilled(S.working[d]) <= S.position
      /\ S.working[d] \in WorkSet /\ S.position \in Nat
  BY DEF Sound, Known, Desk, SessionSet
<1>2. d \in ExitCoid => c \notin ExitCoid
  BY DEF Sound, Desk
<1>3. Unfilled(S.working[d]) \in Nat
  BY <1>1 DEF WorkSet, Unfilled
<1> QED
  BY <1>1, <1>2, <1>3

(* The venue's side of a session, after its answer.                         *)
LEMMA Rewritten ==
  ASSUME NEW S, Desk(S), Covered(S), NEW c \in Coid, S.working[c] # Gone,
         NEW x, x = Gone \/ (x \in WorkSet /\ Unended(x))
  PROVE  LET T == [S EXCEPT !.working[c] = x]
         IN /\ Desk(T) /\ Covered(T) /\ SameShares(S, T)
            /\ T.orders = S.orders /\ T.feed = S.feed /\ T.working[c] = x
            /\ \A d \in Coid \ {c} : T.working[d] = S.working[d]
PROOF
<1> DEFINE T == [S EXCEPT !.working[c] = x]
<1>1. S \in SessionSet
  BY DEF Desk
<1>2. /\ T \in SessionSet /\ T.working = [S.working EXCEPT ![c] = x]
      /\ T.orders = S.orders /\ T.journal = S.journal
      /\ T.feed = S.feed /\ T.fsm = S.fsm /\ SameShares(S, T)
  BY <1>1 DEF SessionSet, SameShares
<1> HIDE DEF T
<1>3. /\ T.working[c] = x /\ \A d \in Coid \ {c} : T.working[d] = S.working[d]
      /\ \A d \in Coid : T.working[d] # Gone => S.working[d] # Gone
  BY <1>1, <1>2, Present DEF SessionSet
<1>4. \A d \in Coid : T.working[d] # Gone => Unended(T.working[d])
  BY <1>3 DEF Desk
<1>5. \A d \in Coid : T.orders[d] # Absent \/ T.working[d] # Gone => T.journal[d] # NoRow
  BY <1>2, <1>3 DEF Desk
<1>6. \A d, e \in ExitCoid :
        ~T.raised /\ T.working[d] # Gone /\ T.working[e] # Gone => d = e
  BY <1>2, <1>3 DEF Desk, Coid, SameShares
<1>7. Desk(T)
  BY <1>2, <1>4, <1>5, <1>6 DEF Desk, SameShares
<1>8. Covered(T)
  BY <1>2 DEF Covered, SameShares
<1> QED
  BY <1>2, <1>3, <1>7, <1>8 DEF T

(* An answer of the venue, heard to its end.                                *)
LEMMA AnswerHeard ==
  ASSUME NEW S, Sound(S), ~S.raised, now \in Nat, NEW c \in Coid, S.working[c] # Gone,
         NEW x, NEW events, Answer(c, S.working[c], x, events)
  PROVE  LET T == HearAll([S EXCEPT !.working[c] = x], events)
         IN Sound(T) /\ T.feed = S.feed
PROOF
<1> DEFINE w == S.working[c]
<1> DEFINE S0 == [S EXCEPT !.working[c] = x]
<1> DEFINE T == HearAll(S0, events)
<1> SUFFICES Sound(T) /\ T.feed = S.feed
  OBVIOUS
<1>1. /\ S \in SessionSet /\ Desk(S) /\ Covered(S) /\ w \in WorkSet /\ Unended(w)
      /\ S.position \in Nat
      /\ w.filled \in Nat /\ w.quantity \in Nat
  BY DEF Sound, Desk, SessionSet, WorkSet
<1>2. /\ S.orders[c] \in OrderSet /\ Agree(S.orders[c], w)
      /\ c \in ExitCoid => Unfilled(w) <= S.position
  BY <1>1 DEF Sound, Known, Agree, SessionSet
<1>3. Unfilled(w) \in Nat /\ Unfilled(w) = w.quantity - w.filled
  BY <1>1 DEF Unfilled, Unended
<1>4. x = Gone \/ (x \in WorkSet /\ Unended(x))
  <2>1. \A n : Ahead(w, x, n) => x \in WorkSet /\ Unended(x)
    BY DEF Ahead
  <2>2. x = Gone \/ Ahead(w, x, 0) \/ \E q \in 1..Unfilled(w) : Ahead(w, x, q)
    <3> HIDE DEF w
    <3> QED
      BY DEF Answer, w
  <2> QED
    BY <2>1, <2>2
<1> HIDE DEF S0, w, T
<1>5. /\ Desk(S0) /\ Covered(S0) /\ SameShares(S, S0)
      /\ S0.orders = S.orders /\ S0.feed = S.feed /\ S0.working[c] = x
      /\ \A d \in Coid \ {c} : S0.working[d] = S.working[d]
  BY <1>1, <1>4, Rewritten DEF S0
<1>6. S0.working[c] = x /\ \A d \in Coid \ {c} : S0.working[d] = S.working[d]
  BY <1>5
<1>7. Desk(S0) /\ ~S0.raised
  BY <1>5 DEF SameShares
<1>8. Covered(S0)
  BY <1>5
<1> DEFINE Settled(U) == /\ Desk(U) /\ Covered(U) /\ Elsewhere(S0, U, c)
                         /\ c \notin ExitCoid => U.position >= S.position
                         /\ Known(U, c)
<1>9. ASSUME NEW U, Settled(U) PROVE Sound(U) /\ U.feed = S.feed
  <2>1. U.position \in Nat
    BY <1>9 DEF Desk, SessionSet
  <2>2. \A d \in Coid \ {c} : U.working[d] = S.working[d] /\ U.orders[d] = S.orders[d]
    BY <1>5, <1>6, <1>9 DEF Elsewhere
  <2>3. \A d \in Coid \ {c} : Known(U, d)
    BY <1>9, <2>1, <2>2, Others
  <2> QED
    BY <1>5, <1>9, <2>3 DEF Sound, Elsewhere
<1>10. ASSUME NEW U, Quiet(S0, U, c), x # Gone =>
                 Ahead(w, x, 0) /\ U.orders[c].state \in {S.orders[c].state, "ACKNOWLEDGED"},
              x = Gone => Left(U.orders[c])
       PROVE  Settled(U)
  <2>1. Known(U, c)
    <3>1. U.orders[c] \in OrderSet /\ U.working[c] = x /\ U.position = S.position
          /\ U.orders[c].filled = S.orders[c].filled /\ U.orders[c].req = S.orders[c].req
      BY <1>5, <1>6, <1>10 DEF Quiet, Elsewhere, SameShares
    <3>2. x # Gone => x.filled = w.filled /\ x.quantity = w.quantity /\ Unfilled(x) = Unfilled(w)
      BY <1>1, <1>10 DEF Ahead, Unfilled
    <3>3. x # Gone => Agree(U.orders[c], x)
      BY <1>2, <1>10, <3>1, <3>2, Present DEF Agree
    <3> QED
      BY <1>2, <1>10, <3>1, <3>2, <3>3 DEF Known
  <2>2. Covered(U) /\ U.position >= S.position
    BY <1>1, <1>5, <1>8, <1>10 DEF Quiet, SameShares, Covered
  <2> QED
    BY <1>10, <2>1, <2>2 DEF Quiet
<1>11. CASE events = <<>> /\ Ahead(w, x, 0)
  <2>1. T = S0
    BY <1>11, Heard DEF T
  <2>2. Quiet(S0, S0, c)
    BY <1>2, <1>5, <1>7 DEF Quiet, Elsewhere, SameShares
  <2>3. S0.orders[c].state \in {S.orders[c].state, "ACKNOWLEDGED"} /\ x # Gone
    BY <1>5, <1>11, Present DEF Ahead
  <2> HIDE DEF Settled
  <2> QED
    BY <1>9, <1>10, <1>11, <2>1, <2>2, <2>3
<1>12. CASE events = <<Ack(c)>> /\ Ahead(w, x, 0)
  <2>1. T = Hear(S0, Ack(c))
    BY <1>12, Heard DEF T
  <2>2. Quiet(S0, T, c) /\ T.orders[c].state \in {S0.orders[c].state, "ACKNOWLEDGED"}
    BY <1>2, <1>5, <1>7, <2>1, AckHeard
  <2>3. x # Gone
    BY <1>12, Present DEF Ahead
  <2> HIDE DEF Settled
  <2> QED
    BY <1>5, <1>9, <1>10, <1>12, <2>2, <2>3
<1>13. CASE events = <<CancelAck(c)>> /\ x = Gone
  <2>1. T = Hear(S0, CancelAck(c))
    BY <1>13, Heard DEF T
  <2>2. Quiet(S0, T, c) /\ Left(T.orders[c])
    BY <1>2, <1>5, <1>7, <2>1, CancelHeard DEF Agree
  <2> HIDE DEF Settled
  <2> QED
    BY <1>9, <1>10, <1>13, <2>2
<1>14. CASE events = <<Ack(c), CancelAck(c)>> /\ x = Gone
  <2> DEFINE R == Hear(S0, Ack(c))
  <2>1. T = Hear(R, CancelAck(c))
    <3>1. HearAll(S0, <<Ack(c), CancelAck(c)>>) = Hear(R, CancelAck(c))
      BY HeardTwo
    <3> QED
      BY <1>14, <3>1 DEF T
  <2>2. Quiet(S0, R, c) /\ R.orders[c].state \in {S0.orders[c].state, "ACKNOWLEDGED"}
    BY <1>2, <1>5, <1>7, AckHeard
  <2> HIDE DEF R
  <2>3. Quiet(R, T, c) /\ Left(T.orders[c])
    <3>1. Desk(R) /\ ~R.raised /\ R.orders[c] \in OrderSet /\ R.orders[c].state # "NEW"
      BY <1>2, <1>5, <1>7, <2>2 DEF Quiet, SameShares, Agree
    <3> QED
      BY <2>1, <3>1, CancelHeard
  <2>4. Quiet(S0, T, c)
    BY <2>2, <2>3 DEF Quiet, Elsewhere, SameShares
  <2> HIDE DEF Settled
  <2> QED
    BY <1>9, <1>10, <1>14, <2>3, <2>4
<1>15. ASSUME NEW q \in 1..Unfilled(w),
              \/ events = <<Fill(c, q)>> /\ ((x = Gone /\ q = Unfilled(w)) \/ Ahead(w, x, q))
              \/ events = <<Fill(c, q), CancelAck(c)>> /\ x = Gone
       PROVE  Sound(T) /\ T.feed = S.feed
  <2> DEFINE o == S.orders[c]
  <2> DEFINE p == AfterFill(o, q)
  <2> DEFINE R == Hear(S0, Fill(c, q))
  <2>1. q \in Nat \ {0} /\ (c \in ExitCoid => q <= S0.position)
    BY <1>1, <1>2, <1>3, <1>5 DEF SameShares
  <2>2. /\ S0.orders[c] = o /\ o \in OrderSet
        /\ o.state \notin {"NEW", "FILLED", "CANCELLED", "REJECTED"}
    BY <1>2, <1>5 DEF Agree
  <2>3. /\ Desk(R) /\ Covered(R) /\ Elsewhere(S0, R, c) /\ R.orders[c] = p
        /\ IF c \in ExitCoid THEN R.position = S0.position - q ELSE R.position >= S0.position
    BY <1>7, <1>8, <2>1, <2>2, FillHeard
  <2>4. /\ p \in OrderSet /\ p.req = o.req /\ p.filled = o.filled + q
        /\ Remaining(p) > 0 => p.state \in {o.state, "PARTIAL"}
        /\ Remaining(p) = 0 => p.state \in TERMINAL
    BY <2>1, <2>2, FillMoves DEF Moved
  <2> HIDE DEF R, p, o
  <2>5. S0.position = S.position
    BY <1>5 DEF SameShares
  <2>6. CASE events = <<Fill(c, q)>>
    <3>1. T = R
      BY <2>6, Heard DEF R, T
    <3>2. ASSUME x # Gone PROVE Agree(p, x) /\ (c \in ExitCoid => Unfilled(x) <= R.position)
      <4>1. Ahead(w, x, q)
        BY <1>15, <2>6, <3>2, Events
      <4>2. /\ x.filled = w.filled + q /\ x.quantity = w.quantity /\ x.filled < x.quantity
        BY <4>1 DEF Ahead, Unended
      <4>3. o.filled = w.filled /\ o.req.quantity = w.quantity
        BY <1>2 DEF Agree, o
      <4>4. Remaining(p) > 0
        BY <1>1, <2>1, <2>4, <4>2, <4>3 DEF Remaining
      <4>5. Unfilled(x) = Unfilled(w) - q
        BY <1>1, <1>3, <2>1, <4>2 DEF Unfilled
      <4>6. Agree(p, x)
        BY <2>2, <2>4, <4>2, <4>3, <4>4, Present DEF Agree
      <4> QED
        BY <1>1, <1>2, <1>3, <2>1, <2>3, <2>5, <4>5, <4>6
    <3>5. ASSUME x = Gone PROVE Left(p)
      <4>1. x \notin WorkSet
        BY <3>5, Present
      <4>2. q = Unfilled(w)
        BY <1>15, <2>6, <4>1, Events DEF Ahead
      <4>3. Remaining(p) = 0
        BY <1>1, <1>2, <1>3, <2>4, <4>2 DEF Remaining, Agree, o
      <4> QED
        BY <2>4, <4>3 DEF Left, IsLive
    <3>3. Known(R, c)
      BY <1>6, <2>3, <3>2, <3>5 DEF Known, Elsewhere
    <3>4. Settled(R)
      BY <2>3, <2>5, <3>3
    <3> HIDE DEF Settled
    <3> QED
      BY <1>9, <3>1, <3>4
  <2>7. CASE events = <<Fill(c, q), CancelAck(c)>> /\ x = Gone
    <3>1. T = Hear(R, CancelAck(c))
      <4>1. HearAll(S0, <<Fill(c, q), CancelAck(c)>>) = Hear(Hear(S0, Fill(c, q)), CancelAck(c))
        BY HeardTwo
      <4> QED
        BY <2>7, <4>1 DEF R, T
    <3>2. R.working[c] = Gone /\ R.orders[c] \in OrderSet
      BY <1>6, <2>3, <2>4, <2>7 DEF Elsewhere
    <3>3. CASE R.raised
      <4>1. CancelAck(c).kind # "fill"
        BY DEF CancelAck
      <4>2. Desk(T) /\ Covered(T) /\ SameBooks(R, T) /\ T.raised
        BY <2>3, <3>1, <3>3, <4>1, NotHeard
      <4> QED
        BY <1>5, <2>3, <4>2 DEF Sound, Known, SameBooks, Elsewhere
    <3>4. CASE ~R.raised
      <4>0. R.orders[c].state # "NEW"
        <5>1. Remaining(p) = 0 \/ Remaining(p) > 0
          BY <2>4, OrderFields DEF Remaining
        <5> QED
          BY <2>2, <2>3, <2>4, <5>1 DEF TERMINAL
      <4>1. Quiet(R, T, c) /\ Left(T.orders[c])
        BY <2>3, <3>1, <3>2, <3>4, <4>0, CancelHeard
      <4>2. /\ Desk(T) /\ Covered(T) /\ Elsewhere(S0, T, c) /\ T.position = R.position
            /\ T.working[c] = Gone
        BY <2>3, <3>2, <4>1 DEF Quiet, Elsewhere, SameShares, Covered
      <4>3. Settled(T)
        BY <2>3, <2>5, <4>1, <4>2 DEF Known
      <4> HIDE DEF Settled
      <4> QED
        BY <1>9, <4>3
    <3> QED
      BY <3>3, <3>4
  <2> QED
    BY <1>15, <2>6, <2>7
<1>16. \/ events \in {<<>>, <<Ack(c)>>} /\ Ahead(w, x, 0)
       \/ events \in {<<CancelAck(c)>>, <<Ack(c), CancelAck(c)>>} /\ x = Gone
       \/ \E q \in 1..Unfilled(w) :
            \/ events = <<Fill(c, q)>> /\ ((x = Gone /\ q = Unfilled(w)) \/ Ahead(w, x, q))
            \/ events = <<Fill(c, q), CancelAck(c)>> /\ x = Gone
  BY DEF Answer, w
<1> QED
  BY <1>11, <1>12, <1>13, <1>14, <1>15, <1>16

(* An order the venue has left, or a session that no longer listens.         *)
LEMMA ReactKeeps ==
  ASSUME NEW S, Sound(S), now \in Nat, NEW c \in Coid, NEW m \in Stimulus
  PROVE  Sound(React(S, c, m)) /\ React(S, c, m).feed = S.feed
PROOF
<1> DEFINE w == S.working[c]
<1> DEFINE S0(x) == [S EXCEPT !.working[c] = x]
<1>1. S \in SessionSet /\ Desk(S) /\ Covered(S) /\ w \in WorkSet \cup {Gone}
  BY DEF Sound, Desk, SessionSet
<1>2. CASE w = Gone
  <2>1. Reaction(c, w, m) = <<w, <<>> >>
    <3>1. (<<>>) \o (<<>>) = <<>>
      BY Events
    <3> QED
      BY <1>2, <3>1 DEF Reaction, AfterQuote, AfterTrade, AfterVenuePoll, Stimulus
  <2> DEFINE after == Reaction(c, w, m)
  <2>2. after[1] = w /\ after[2] = <<>>
    BY <2>1
  <2>3. React(S, c, m) = HearAll(S0(after[1]), after[2])
    BY DEF React
  <2> HIDE DEF after
  <2>4. React(S, c, m) = S0(w)
    BY <2>2, <2>3, Heard
  <2>5. S0(w) = S
    BY <1>1 DEF SessionSet
  <2> QED
    BY <2>4, <2>5
<1>3. ASSUME w # Gone
      PROVE  \E x, events : React(S, c, m) = HearAll(S0(x), events) /\ Answer(c, w, x, events)
  <2>1. w \in WorkSet /\ Unended(w)
    BY <1>1, <1>3 DEF Desk
  <2> DEFINE after == Reaction(c, w, m)
  <2>2. Answered(c, w, after)
    BY <2>1, Reacts
  <2>3. React(S, c, m) = HearAll(S0(after[1]), after[2])
    BY DEF React
  <2> HIDE DEF after, S0, w
  <2>4. PICK x, events : after = <<x, events>> /\ Answer(c, w, x, events)
    BY <2>2 DEF Answered
  <2> QED
    BY <2>3, <2>4
<1>4. CASE w # Gone /\ ~S.raised
  <2>1. PICK x, events : React(S, c, m) = HearAll(S0(x), events) /\ Answer(c, w, x, events)
    BY <1>3, <1>4
  <2> QED
    BY <1>4, <2>1, AnswerHeard
<1>5. CASE w # Gone /\ S.raised
  <2>1. PICK x, events : React(S, c, m) = HearAll(S0(x), events) /\ Answer(c, w, x, events)
    BY <1>3, <1>5
  <2>2. x = Gone \/ (x \in WorkSet /\ Unended(x))
    <3>1. \A n : Ahead(w, x, n) => x \in WorkSet /\ Unended(x)
      BY DEF Ahead
    <3>2. x = Gone \/ Ahead(w, x, 0) \/ \E q \in 1..Unfilled(w) : Ahead(w, x, q)
      <4> HIDE DEF w
      <4> QED
        BY <2>1 DEF Answer
    <3> QED
      BY <3>1, <3>2
  <2> DEFINE R == S0(x)
  <2>3. Desk(R) /\ Covered(R) /\ R.raised /\ R.feed = S.feed
    BY <1>1, <1>5, <2>2, Rewritten DEF SameShares
  <2> DEFINE Dead(U) == Desk(U) /\ Covered(U) /\ U.raised /\ U.feed = S.feed
  <2> HIDE DEF R
  <2>4. ASSUME NEW U, Dead(U), NEW ev, ev.kind = "fill" => ev.qty \in Nat
        PROVE  Dead(Hear(U, ev))
    BY <2>4, NotHeard DEF SameBooks
  <2>5. Ack(c).kind # "fill" /\ CancelAck(c).kind # "fill" /\ \A q : Fill(c, q).qty = q
    BY DEF Ack, CancelAck, Fill
  <2>6. Dead(R)
    BY <2>3
  <2> HIDE DEF Dead, w
  <2>7. Dead(HearAll(R, events))
    <3>1. CASE events = <<>>
      BY <2>6, <3>1, Heard
    <3>2. CASE events = <<Ack(c)>>
      BY <2>4, <2>5, <2>6, <3>2, Heard
    <3>3. CASE events = <<CancelAck(c)>>
      BY <2>4, <2>5, <2>6, <3>3, Heard
    <3>4. CASE events = <<Ack(c), CancelAck(c)>>
      <4>1. Dead(Hear(R, Ack(c)))
        BY <2>4, <2>5, <2>6
      <4>2. Dead(Hear(Hear(R, Ack(c)), CancelAck(c)))
        BY <2>4, <2>5, <4>1
      <4> QED
        BY <3>4, <4>2, HeardTwo
    <3>5. ASSUME NEW q \in 1..Unfilled(w),
                 events = <<Fill(c, q)>> \/ events = <<Fill(c, q), CancelAck(c)>>
          PROVE  Dead(HearAll(R, events))
      <4>1. q \in Nat
        OBVIOUS
      <4>2. Dead(Hear(R, Fill(c, q)))
        BY <2>4, <2>5, <2>6, <4>1
      <4>3. Dead(Hear(Hear(R, Fill(c, q)), CancelAck(c)))
        BY <2>4, <2>5, <4>2
      <4> QED
        BY <3>5, <4>2, <4>3, Heard, HeardTwo
    <3> QED
      BY <2>1, <3>1, <3>2, <3>3, <3>4, <3>5 DEF Answer
  <2>8. Sound(HearAll(R, events)) /\ HearAll(R, events).feed = S.feed
    BY <2>7 DEF Dead, Sound, Known
  <2> QED
    BY <2>1, <2>8 DEF R
<1> QED
  BY <1>2, <1>4, <1>5

(* The timer of one order.                                                  *)
LEMMA SweepKeeps ==
  ASSUME NEW S, Sound(S), ~S.raised, now \in Nat, NEW c \in Coid
  PROVE  Sound(Sweep(S, c)) /\ Sweep(S, c).feed = S.feed /\ ~Sweep(S, c).raised
PROOF
<1> DEFINE o == S.orders[c]
<1> DEFINE p == AfterPoll(o, now)
<1> DEFINE T == Sweep(S, c)
<1>1. S \in SessionSet /\ Desk(S) /\ Covered(S) /\ o \in OrderSet \cup {Absent}
  BY DEF Sound, Desk, SessionSet
<1>2. T = Settle(S, c, p)
  BY DEF Sweep
<1>3. CASE o = Absent
  <2>1. p = o
    BY <1>3 DEF AfterPoll, IsDue, IsLive, Absent, OState
  <2> HIDE DEF p
  <2>2. T = [S EXCEPT !.orders[c] = o, !.journal[c] = S.journal[c]]
    BY <1>2, <2>1 DEF Settle
  <2>3. [S.orders EXCEPT ![c] = o] = S.orders /\ [S.journal EXCEPT ![c] = S.journal[c]] = S.journal
    BY <1>1 DEF SessionSet
  <2>4. T = [S EXCEPT !.orders = S.orders, !.journal = S.journal]
    BY <2>2, <2>3
  <2>5. T = S
    BY <1>1, <2>4 DEF SessionSet
  <2> QED
    BY <2>5
<1>4. CASE o \in OrderSet
  <2>1. /\ Moved(o, p) /\ p.filled = o.filled
        /\ p.state \in {o.state, "CANCEL_PENDING", "EXPIRED"}
    BY <1>4, CallsMove
  <2>0. Left(o) => Left(p)
    BY <1>4, LeavesBook
  <2> HIDE DEF p, T
  <2>2. Quiet(S, T, c) /\ T.orders[c] = p
    BY <1>1, <1>2, <1>4, <2>1, SettleQuiet
  <2>3. /\ T.working = S.working /\ T.feed = S.feed /\ T.position = S.position
        /\ ~T.raised /\ Covered(T)
        /\ \A d \in Coid \ {c} : T.orders[d] = S.orders[d]
    BY <1>1, <2>2 DEF Quiet, Elsewhere, SameShares, Covered
  <2>4. Known(T, c)
    <3>1. Agree(o, S.working[c]) => Agree(p, S.working[c])
      BY <2>1, Present DEF Agree, Moved
    <3> QED
      BY <2>0, <2>2, <2>3, <3>1 DEF Sound, Known
  <2>5. \A d \in Coid : Known(T, d)
    BY <2>3, <2>4 DEF Sound, Known
  <2> QED
    BY <2>2, <2>3, <2>5 DEF Sound, Quiet, T
<1> QED
  BY <1>1, <1>3, <1>4

-----------------------------------------------------------------------------
(* Walks over the orders, in the order of their submission.                 *)

(* A nonempty set of naturals has a least member.                           *)
LEMMA Least ==
  ASSUME NEW T \in SUBSET Nat, T # {}
  PROVE  \E n \in T : \A m \in T : n <= m
PROOF
<1>1. PICK n \in T : \A m \in T : <<m, n>> \notin OpToRel(<, Nat)
  BY NatLessThanWellFounded, WFMin
<1>2. ASSUME NEW m \in T PROVE n <= m
  <2>1. <<m, n>> \in Nat \X Nat
    OBVIOUS
  <2>2. <<m, n>> \notin {ss \in Nat \X Nat : ss[1] < ss[2]}
    BY <1>1 DEF OpToRel
  <2>3. ~(m < n)
    BY <2>1, <2>2
  <2> QED
    BY <2>3
<1> QED
  BY <1>2

(* The place in the walk that a set of places comes to last.                *)
LEMMA MaxIn ==
  ASSUME NEW n \in Nat, NEW I \in SUBSET (1..n), I # {}
  PROVE  Max(I) \in I
PROOF
<1> DEFINE D == {n - i : i \in I}
<1>1. D \in SUBSET Nat /\ D # {}
  <2>1. \A i \in I : i \in Nat /\ n - i \in Nat
    OBVIOUS
  <2>2. PICK i \in I : TRUE
    OBVIOUS
  <2> QED
    BY <2>1, <2>2
<1>2. PICK d \in D : \A e \in D : d <= e
  BY <1>1, Least
<1>3. PICK i \in I : d = n - i
  OBVIOUS
<1>4. ASSUME NEW j \in I PROVE i >= j
  <2>1. n - j \in D
    OBVIOUS
  <2>2. d <= n - j
    BY <1>2, <2>1
  <2> QED
    BY <1>3, <2>2
<1>5. \E k \in I : \A j \in I : k >= j
  BY <1>4
<1> QED
  BY <1>5 DEF Max

(* One step of a walk: the timers', or a venue call's.                      *)
Step(T, c, m) == IF m.kind = "timer" THEN Sweep(T, c) ELSE React(T, c, m)

(* Where the walk is after the places I, if g tells it for fewer.           *)
Walked(g, S, seq, m, I) ==
  IF I = {} THEN S ELSE Step(g[I \ {Max(I)}], seq[Max(I)], m)

Walks(g, S, seq, m) ==
  g = [I \in SUBSET DOMAIN seq |-> Walked(g, S, seq, m, I)]

(* One place at a time.                                                     *)
LEMMA OneLess ==
  ASSUME NEW n \in Nat, NEW I \in SUBSET (1..n)
  PROVE  /\ Cardinality(I) \in Nat
         /\ I # {} => /\ Max(I) \in 1..n /\ I \ {Max(I)} \in SUBSET (1..n)
                      /\ Cardinality(I \ {Max(I)}) = Cardinality(I) - 1
         /\ Cardinality(I) <= 0 => I = {}
PROOF
<1>1. IsFiniteSet(1..n)
  BY FS_Interval
<1>2. IsFiniteSet(I) /\ Cardinality(I) \in Nat
  BY <1>1, FS_Subset, FS_CardinalityType
<1>3. Cardinality(I) <= 0 => I = {}
  BY <1>2, FS_EmptySet
<1>4. I # {} => Max(I) \in I
  BY MaxIn
<1> HIDE DEF Max
<1>5. I # {} => Cardinality(I \ {Max(I)}) = Cardinality(I) - 1
  BY <1>2, <1>4, FS_RemoveElement
<1> QED
  BY <1>2, <1>3, <1>4, <1>5

(* A walk can be walked: the recursion it is written with has a solution.   *)
LEMMA WalkExists ==
  ASSUME NEW S, NEW n \in Nat, NEW seq, DOMAIN seq = 1..n, NEW m
  PROVE  \E g : Walks(g, S, seq, m)
PROOF
<1> DEFINE Upto(g, k) == /\ DOMAIN g = SUBSET (1..n)
                         /\ g = [I \in SUBSET (1..n) |-> g[I]]
                         /\ \A I \in SUBSET (1..n) :
                              Cardinality(I) <= k => g[I] = Walked(g, S, seq, m, I)
<1>1. \E g : Upto(g, 0)
  <2> DEFINE g == [I \in SUBSET (1..n) |-> S]
  <2>1. Upto(g, 0)
    BY OneLess DEF Walked
  <2> QED
    BY <2>1
<1>2. ASSUME NEW k \in Nat, \E g : Upto(g, k)
      PROVE  \E g : Upto(g, k + 1)
  <2>1. PICK g : Upto(g, k)
    BY <1>2
  <2> DEFINE h == [I \in SUBSET (1..n) |->
                     IF Cardinality(I) <= k THEN g[I] ELSE Walked(g, S, seq, m, I)]
  <2>2. ASSUME NEW I \in SUBSET (1..n), Cardinality(I) <= k + 1
        PROVE  h[I] = Walked(h, S, seq, m, I)
    <3>1. Walked(h, S, seq, m, I) = Walked(g, S, seq, m, I)
      <4>1. CASE I = {}
        BY <4>1 DEF Walked
      <4>2. CASE I # {}
        <5>1. I \ {Max(I)} \in SUBSET (1..n) /\ Cardinality(I \ {Max(I)}) <= k
          BY <2>2, <4>2, OneLess
        <5>2. h[I \ {Max(I)}] = g[I \ {Max(I)}]
          BY <5>1
        <5> QED
          BY <5>2 DEF Walked
      <4> QED
        BY <4>1, <4>2
    <3>2. h[I] = Walked(g, S, seq, m, I)
      BY <2>1
    <3> QED
      BY <3>1, <3>2
  <2>3. Upto(h, k + 1)
    BY <2>2
  <2> QED
    BY <2>3
<1> DEFINE Far(k) == \E g : Upto(g, k)
<1>3. \A k \in Nat : Far(k)
  <2>1. Far(0) /\ \A k \in Nat : Far(k) => Far(k + 1)
    BY <1>1, <1>2
  <2> HIDE DEF Far
  <2>2. SUFFICES ASSUME \E k \in Nat : ~Far(k) PROVE FALSE
    OBVIOUS
  <2>3. PICK k \in {j \in Nat : ~Far(j)} : \A j \in {i \in Nat : ~Far(i)} : k <= j
    BY <2>2, Least
  <2>4. k - 1 \in Nat /\ (k - 1) + 1 = k /\ ~(k <= k - 1)
    BY <2>1, <2>3
  <2> QED
    BY <2>1, <2>3, <2>4
<1>4. PICK g : Upto(g, n)
  BY <1>3
<1>5. ASSUME NEW I \in SUBSET (1..n) PROVE Cardinality(I) <= n
  <2>1. 1 > n => n = 0
    OBVIOUS
  <2>2. IsFiniteSet(1..n) /\ Cardinality(1..n) = n
    BY <2>1, FS_Interval
  <2>3. Cardinality(I) <= Cardinality(1..n)
    BY <2>2, FS_Subset
  <2> QED
    BY <2>2, <2>3
<1>6. \A I \in SUBSET (1..n) : Cardinality(I) <= n
  BY <1>5
<1>7. \A I \in SUBSET (1..n) : g[I] = Walked(g, S, seq, m, I)
  BY <1>4, <1>6
<1> QED
  BY <1>4, <1>7 DEF Walks

(* A walk goes from sound sessions to sound sessions.                       *)
LEMMA WalkKeeps ==
  ASSUME NEW S, Sound(S), now \in Nat, NEW seq \in Seq(Coid),
         NEW m, m \in Stimulus \/ (m.kind = "timer" /\ ~S.raised),
         NEW g, Walks(g, S, seq, m)
  PROVE  LET T == g[DOMAIN seq]
         IN Sound(T) /\ T.feed = S.feed /\ (m.kind = "timer" => ~T.raised)
PROOF
<1> DEFINE n == Len(seq)
<1> DEFINE Good(T) == Sound(T) /\ T.feed = S.feed /\ (m.kind = "timer" => ~T.raised)
<1>1. n \in Nat /\ DOMAIN seq = 1..n /\ \A i \in 1..n : seq[i] \in Coid
  OBVIOUS
<1> HIDE DEF n
<1>2. \A I \in SUBSET (1..n) : g[I] = Walked(g, S, seq, m, I)
  BY <1>1 DEF Walks
<1>3. m \in Stimulus => m.kind # "timer"
  BY DEF Stimulus
<1>4. Good(S)
  BY <1>3
<1>5. ASSUME NEW T, Good(T), NEW c \in Coid PROVE Good(Step(T, c, m))
  <2>1. CASE m.kind = "timer"
    BY <1>5, <2>1, SweepKeeps DEF Step
  <2>2. CASE m.kind # "timer"
    BY <1>5, <2>2, ReactKeeps DEF Step
  <2> QED
    BY <2>1, <2>2
<1> HIDE DEF Good
<1> DEFINE Upto(k) == \A I \in SUBSET (1..n) : Cardinality(I) <= k => Good(g[I])
<1>6. Upto(0)
  <2>1. ASSUME NEW I \in SUBSET (1..n), Cardinality(I) <= 0 PROVE Good(g[I])
    <3>1. I = {}
      BY <1>1, <2>1, OneLess
    <3>2. Walked(g, S, seq, m, I) = S
      BY <3>1 DEF Walked
    <3> QED
      BY <1>2, <1>4, <3>2
  <2> QED
    BY <2>1
<1>7. ASSUME NEW k \in Nat, Upto(k) PROVE Upto(k + 1)
  <2>1. ASSUME NEW I \in SUBSET (1..n), Cardinality(I) <= k + 1 PROVE Good(g[I])
    <3>1. CASE I = {}
      <4>1. Walked(g, S, seq, m, I) = S
        BY <3>1 DEF Walked
      <4> QED
        BY <1>2, <1>4, <4>1
    <3>2. CASE I # {}
      <4> DEFINE j == Max(I)
      <4>1. j \in 1..n /\ I \ {j} \in SUBSET (1..n) /\ Cardinality(I \ {j}) <= k
        <5>1. /\ Cardinality(I) \in Nat /\ j \in 1..n /\ I \ {j} \in SUBSET (1..n)
              /\ Cardinality(I \ {j}) = Cardinality(I) - 1
          BY <1>1, <3>2, OneLess
        <5> HIDE DEF j
        <5> QED
          BY <2>1, <5>1
      <4>2. g[I] = Step(g[I \ {j}], seq[j], m)
        BY <1>2, <3>2 DEF Walked
      <4> HIDE DEF j
      <4>3. Good(g[I \ {j}]) /\ seq[j] \in Coid
        BY <1>1, <1>7, <4>1
      <4> QED
        BY <1>5, <4>2, <4>3
    <3> QED
      BY <3>1, <3>2
  <2> QED
    BY <2>1
<1>8. \A k \in Nat : Upto(k)
  <2> HIDE DEF Upto
  <2>1. SUFFICES ASSUME \E k \in Nat : ~Upto(k) PROVE FALSE
    OBVIOUS
  <2>2. PICK k \in {j \in Nat : ~Upto(j)} : \A j \in {i \in Nat : ~Upto(i)} : k <= j
    BY <2>1, Least
  <2>3. k - 1 \in Nat /\ (k - 1) + 1 = k /\ ~(k <= k - 1)
    BY <1>6, <2>2
  <2> QED
    BY <1>7, <2>2, <2>3
<1> DEFINE all == 1..n
<1>9. all \in SUBSET (1..n)
  OBVIOUS
<1> HIDE DEF all
<1>10. Good(g[all])
  <2>1. Cardinality(all) \in Nat
    BY <1>1, <1>9, OneLess
  <2>2. Upto(Cardinality(all)) /\ Cardinality(all) <= Cardinality(all)
    BY <1>8, <2>1
  <2> QED
    BY <1>9, <2>2
<1> QED
  BY <1>1, <1>10 DEF Good, all

LEMMA CallKeeps ==
  ASSUME NEW S, Sound(S), now \in Nat, NEW m \in Stimulus
  PROVE  Sound(CallVenue(S, m)) /\ CallVenue(S, m).feed = S.feed
PROOF
<1> DEFINE seq == S.placed
<1> DEFINE Is(g) == g = [I \in SUBSET DOMAIN seq |->
                           IF I = {} THEN S ELSE React(g[I \ {Max(I)}], seq[Max(I)], m)]
<1> DEFINE g == CHOOSE f : Is(f)
<1>1. seq \in Seq(Coid)
  BY DEF Sound, Desk, SessionSet
<1>2. CallVenue(S, m) = g[DOMAIN seq]
  BY DEF CallVenue, FoldLeft, MapThenFoldSet
<1>3. m.kind # "timer"
  BY DEF Stimulus
<1>4. \A f : Walks(f, S, seq, m) <=> Is(f)
  BY <1>3 DEF Walks, Walked, Step
<1>5. \E f : Walks(f, S, seq, m)
  <2>1. Len(seq) \in Nat /\ DOMAIN seq = 1..Len(seq)
    BY <1>1
  <2> QED
    BY <2>1, WalkExists
<1> HIDE DEF Is
<1>6. Walks(g, S, seq, m)
  BY <1>4, <1>5
<1> HIDE DEF g, seq
<1> QED
  BY <1>1, <1>2, <1>6, WalkKeeps

LEMMA SweepsKeep ==
  ASSUME NEW S, Sound(S), ~S.raised, now \in Nat
  PROVE  LET T == FoldLeft(Sweep, S, S.placed)
         IN Sound(T) /\ T.feed = S.feed /\ ~T.raised
PROOF
<1> DEFINE m == [kind |-> "timer"]
<1> DEFINE seq == S.placed
<1> DEFINE Is(g) == g = [I \in SUBSET DOMAIN seq |->
                           IF I = {} THEN S ELSE Sweep(g[I \ {Max(I)}], seq[Max(I)])]
<1> DEFINE g == CHOOSE f : Is(f)
<1>1. seq \in Seq(Coid)
  BY DEF Sound, Desk, SessionSet
<1>2. FoldLeft(Sweep, S, S.placed) = g[DOMAIN seq]
  BY DEF FoldLeft, MapThenFoldSet
<1>3. m.kind = "timer"
  OBVIOUS
<1> HIDE DEF m
<1>4. \A f : Walks(f, S, seq, m) <=> Is(f)
  BY <1>3 DEF Walks, Walked, Step
<1>5. \E f : Walks(f, S, seq, m)
  <2>1. Len(seq) \in Nat /\ DOMAIN seq = 1..Len(seq)
    BY <1>1
  <2> QED
    BY <2>1, WalkExists
<1> HIDE DEF Is
<1>6. Walks(g, S, seq, m)
  BY <1>4, <1>5
<1> HIDE DEF g, seq
<1> QED
  BY <1>1, <1>2, <1>3, <1>6, WalkKeeps

-----------------------------------------------------------------------------
(* The handlers.                                                            *)

LEMMA TickKeeps ==
  ASSUME NEW S, Sound(S), now \in Nat
  PROVE  Sound(OnTick(S)) /\ OnTick(S).feed = S.feed
PROOF
<1> DEFINE due == {c \in Coid : PollCancels(S.orders[c], now)}
<1> DEFINE R == FoldLeft(Sweep, S, S.placed)
<1> DEFINE work == [c \in Coid |-> IF c \in due THEN AfterCancel(R.working[c], now) ELSE R.working[c]]
<1> DEFINE T == [R EXCEPT !.working = work]
<1> DEFINE poll == [kind |-> "poll"]
<1>1. CASE S.raised
  BY <1>1 DEF OnTick
<1>2. CASE ~S.raised
  <2>1. OnTick(S) = CallVenue(T, poll)
    BY <1>2 DEF OnTick
  <2>2. Sound(R) /\ R.feed = S.feed /\ ~R.raised
    BY <1>2, SweepsKeep
  <2> HIDE DEF R, due
  <2>3. R \in SessionSet /\ R.working \in [Coid -> WorkSet \cup {Gone}]
    BY <2>2 DEF Sound, Desk, SessionSet
  <2>4. ASSUME NEW c \in Coid
        PROVE  LET w == R.working[c]
                   x == AfterCancel(w, now)
               IN /\ x \in WorkSet \cup {Gone} /\ (x = Gone <=> w = Gone)
                  /\ w # Gone => x.filled = w.filled /\ x.quantity = w.quantity
    <3> DEFINE w == R.working[c]
    <3> DEFINE at == now + CancelLatency
    <3> DEFINE x == [w EXCEPT !.cancelAt = at]
    <3>1. w \in WorkSet \cup {Gone}
      BY <2>3
    <3>2. AfterCancel(w, now) = IF w = Gone \/ w.cancelAt # None THEN w ELSE x
      BY DEF AfterCancel
    <3>3. at \in Int
      BY VenueAssumption
    <3> HIDE DEF w, at
    <3>4. w \in WorkSet => x \in WorkSet /\ x.filled = w.filled /\ x.quantity = w.quantity
      BY <3>3 DEF WorkSet
    <3> HIDE DEF x
    <3> QED
      BY <3>1, <3>2, <3>4, Present DEF w
  <2>5. ASSUME NEW c \in Coid
        PROVE  /\ work[c] \in WorkSet \cup {Gone} /\ (work[c] = Gone <=> R.working[c] = Gone)
               /\ R.working[c] # Gone => /\ work[c].filled = R.working[c].filled
                                         /\ work[c].quantity = R.working[c].quantity
    BY <2>3, <2>4
  <2>6. work \in [Coid -> WorkSet \cup {Gone}]
    BY <2>5
  <2> HIDE DEF work
  <2>7. /\ T \in SessionSet /\ T.working = work /\ T.orders = R.orders /\ T.journal = R.journal
        /\ T.feed = R.feed /\ T.fsm = R.fsm /\ SameShares(R, T)
    BY <2>3, <2>6 DEF SessionSet, SameShares
  <2> HIDE DEF T
  <2>8. Desk(T)
    <3>1. \A c \in Coid : T.orders[c] # Absent \/ T.working[c] # Gone => T.journal[c] # NoRow
      BY <2>2, <2>5, <2>7 DEF Sound, Desk
    <3>2. \A c \in Coid : T.working[c] # Gone => Unended(T.working[c])
      BY <2>2, <2>5, <2>7 DEF Sound, Desk, Unended
    <3>3. \A c, d \in ExitCoid :
            ~T.raised /\ T.working[c] # Gone /\ T.working[d] # Gone => c = d
      BY <2>2, <2>5, <2>7 DEF Sound, Desk, Coid
    <3> QED
      BY <2>2, <2>7, <3>1, <3>2, <3>3 DEF Sound, Desk, SameShares
  <2>9. ASSUME NEW c \in Coid PROVE Known(T, c)
    <3>1. T.working[c] # Gone => /\ R.working[c] # Gone /\ Known(R, c)
                                 /\ Unfilled(T.working[c]) = Unfilled(R.working[c])
                                 /\ T.working[c].filled = R.working[c].filled
                                 /\ T.working[c].quantity = R.working[c].quantity
      BY <2>2, <2>5, <2>7 DEF Sound, Unfilled
    <3>2. T.working[c] = Gone => R.working[c] = Gone
      BY <2>5, <2>7
    <3> QED
      BY <2>2, <2>7, <3>1, <3>2 DEF Sound, Known, Agree, SameShares
  <2>10. Covered(T)
    BY <2>2, <2>7 DEF Sound, Covered, SameShares
  <2>11. Sound(T) /\ T.feed = S.feed
    BY <2>2, <2>7, <2>8, <2>9, <2>10 DEF Sound
  <2>12. poll \in Stimulus
    BY DEF Stimulus
  <2> HIDE DEF poll
  <2> QED
    BY <2>1, <2>11, <2>12, CallKeeps
<1> QED
  BY <1>1, <1>2

(* Its first call, and its last.                                            *)
LEMMA CallAndTick ==
  ASSUME NEW S, Sound(S), now \in Nat, NEW m \in Stimulus
  PROVE  LET T == OnTick(CallVenue(S, m)) IN Sound(T) /\ T.feed = S.feed
PROOF
<1> DEFINE R == CallVenue(S, m)
<1>1. Sound(R) /\ R.feed = S.feed
  BY CallKeeps
<1> HIDE DEF R
<1>2. Sound(OnTick(R)) /\ OnTick(R).feed = R.feed
  BY <1>1, TickKeeps
<1> QED
  BY <1>1, <1>2 DEF R

(* No other exit is at the venue while the book has none that is live.      *)
LEMMA OneExit ==
  ASSUME NEW S, Sound(S), ~S.raised, LiveOf(S, "exit") = {}
  PROVE  \A d \in ExitCoid : S.working[d] = Gone
PROOF
<1> SUFFICES ASSUME NEW d \in ExitCoid, S.working[d] # Gone PROVE FALSE
  OBVIOUS
<1> DEFINE o == S.orders[d]
<1>1. d \in Coid /\ o \in OrderSet \cup {Absent}
  BY DEF Coid, Sound, Desk, SessionSet
<1>2. Agree(o, S.working[d])
  BY <1>1 DEF Sound, Known
<1>3. o \in OrderSet /\ ExitOrder(o)
  BY <1>1, <1>2 DEF Agree, Sound, Desk
<1>4. o.state \in OState /\ o.state \notin TERMINAL
  BY <1>2, <1>3, OrderFields DEF Agree, ExitOrder, TERMINAL
<1>5. d \in LiveOf(S, "exit")
  BY <1>1, <1>3, <1>4 DEF LiveOf, IsLive, ExitOrder
<1> QED
  BY <1>5

(* A new order is placed under an id that was not used.                     *)
LEMMA PlaceKeeps ==
  ASSUME NEW S, Sound(S), ~S.raised, now \in Nat, NEW c \in Coid, S.journal[c] = NoRow,
         NEW r \in RequestSet, NEW at \in Int,
         NEW w \in WorkSet, w.filled = 0, w.quantity = r.quantity,
         c \in ExitCoid => /\ r.intent = "exit" /\ at = NoTtl /\ r.quantity <= S.position
                           /\ LiveOf(S, "exit") = {}
  PROVE  Sound(Place(S, c, r, at, w)) /\ Place(S, c, r, at, w).feed = S.feed
PROOF
<1> DEFINE o == NewOrder(r, at)
<1> DEFINE p == Transition(o, "SUBMITTING")
<1> DEFINE born == [S EXCEPT !.orders[c] = o, !.placed = Append(@, c)]
<1> DEFINE R == Settle(born, c, Transition(born.orders[c], "SUBMITTING"))
<1> DEFINE T == [R EXCEPT !.working[c] = w]
<1>1. /\ Desk(S) /\ S \in SessionSet /\ Covered(S) /\ S.orders[c] = Absent /\ S.working[c] = Gone
      /\ w # Gone
  BY Present DEF Sound, Desk
<1>2. Place(S, c, r, at, w) = T
  BY DEF Place
<1>3. r.quantity \in Nat \ {0} /\ r.price \in Nat
  BY DEF RequestSet
<1>4. /\ o \in OrderSet /\ o.req = r /\ o.expireAt = at /\ o.filled = 0 /\ o.state = "NEW"
  <2>1. r.quantity * r.price \in Int
    BY <1>3
  <2> QED
    BY <2>1 DEF NewOrder, OrderSet, OState
<1> HIDE DEF o
<1>5. /\ p \in OrderSet /\ p.req = r /\ p.expireAt = at /\ p.filled = 0
      /\ p.state = "SUBMITTING"
  <2>1. "SUBMITTING" \in OState /\ <<"NEW", "SUBMITTING">> \in Legal
    BY DEF OState, Legal
  <2> QED
    BY <1>4, <2>1, TransitionMoves
<1>6. /\ born \in SessionSet /\ born.orders = [S.orders EXCEPT ![c] = o]
      /\ born.journal = S.journal /\ born.working = S.working /\ born.feed = S.feed
      /\ born.fsm = S.fsm /\ SameShares(S, born)
  <2>1. Append(S.placed, c) \in Seq(Coid)
    BY <1>1 DEF SessionSet
  <2> QED
    BY <1>1, <1>4, <2>1 DEF SessionSet, SameShares
<1>7. born.orders[c] = o
  BY <1>1, <1>6 DEF SessionSet
<1> HIDE DEF p, born, R
<1>8. R = Settle(born, c, p)
  BY <1>7 DEF R, p
<1>9. /\ R \in SessionSet
      /\ R.orders = [born.orders EXCEPT ![c] = p]
      /\ R.journal = [born.journal EXCEPT ![c] =
                        IF p.state # born.orders[c].state THEN RowOf(p) ELSE @]
      /\ R.working = born.working /\ R.feed = born.feed
      /\ SameShares(born, R) /\ MayCool(born, R)
  <2> DEFINE U == Settle(born, c, p)
  <2>1. /\ U \in SessionSet
        /\ U.orders = [born.orders EXCEPT ![c] = p]
        /\ U.journal = [born.journal EXCEPT ![c] =
                          IF p.state # born.orders[c].state THEN RowOf(p) ELSE @]
        /\ U.working = born.working /\ U.placed = born.placed /\ U.feed = born.feed
        /\ SameShares(born, U) /\ MayCool(born, U)
    BY <1>5, <1>6, Settles
  <2> HIDE DEF U
  <2>2. R = U
    BY <1>8 DEF U
  <2> QED
    BY <2>1, <2>2
<1>10. /\ R.working = S.working /\ R.feed = S.feed /\ SameShares(S, R) /\ MayCool(S, R)
       /\ R.orders[c] = p /\ R.journal[c] = RowOf(p)
       /\ \A d \in Coid \ {c} : R.orders[d] = S.orders[d] /\ R.journal[d] = S.journal[d]
  <2>1. p.state # born.orders[c].state
    BY <1>4, <1>5, <1>7
  <2>2. R.orders[c] = p /\ R.journal[c] = RowOf(p)
    BY <1>6, <1>9, <2>1 DEF SessionSet
  <2>3. \A d \in Coid \ {c} : R.orders[d] = S.orders[d] /\ R.journal[d] = S.journal[d]
    BY <1>1, <1>6, <1>9 DEF SessionSet
  <2> QED
    BY <1>6, <1>9, <2>2, <2>3 DEF SameShares, MayCool
<1>11. /\ T \in SessionSet /\ T.working = [S.working EXCEPT ![c] = w]
       /\ T.orders = R.orders /\ T.journal = R.journal /\ T.feed = S.feed
       /\ SameShares(S, T) /\ MayCool(S, T)
  BY <1>9, <1>10 DEF SessionSet, SameShares, MayCool
<1> HIDE DEF T
<1>12. T.working[c] = w /\ \A d \in Coid \ {c} : T.working[d] = S.working[d]
  BY <1>1, <1>11 DEF SessionSet
<1>13. RowOf(p) # NoRow /\ RowOf(p).req = r
  <2>1. RowOf(p) \in RowSet
    BY <1>5 DEF RowOf, RowSet, OrderSet
  <2> QED
    BY <1>5, <2>1, Present DEF RowOf
<1>14. Desk(T)
  <2>1. \A d \in Coid : T.orders[d] # Absent \/ T.working[d] # Gone => T.journal[d] # NoRow
    BY <1>1, <1>10, <1>11, <1>12, <1>13 DEF Desk
  <2>2. \A d \in Coid : T.working[d] # Gone => Unended(T.working[d])
    BY <1>1, <1>3, <1>12 DEF Desk, Unended
  <2>3. ASSUME NEW d \in ExitCoid
        PROVE  /\ T.orders[d] # Absent => ExitOrder(T.orders[d])
               /\ T.journal[d] # NoRow => T.journal[d].req.intent = "exit"
    <3>1. d \in Coid
      BY DEF Coid
    <3>2. CASE d = c
      BY <1>5, <1>10, <1>11, <1>13, <3>2 DEF ExitOrder
    <3>3. CASE d # c
      BY <1>1, <1>10, <1>11, <3>1, <3>3 DEF Desk
    <3> QED
      BY <3>2, <3>3
  <2>4. ASSUME NEW d \in ExitCoid, NEW e \in ExitCoid, T.working[d] # Gone, T.working[e] # Gone
        PROVE  d = e
    <3>1. d \in Coid /\ e \in Coid
      BY DEF Coid
    <3>2. CASE c \in ExitCoid
      <4>1. \A f \in ExitCoid : S.working[f] = Gone
        BY <3>2, OneExit
      <4> QED
        BY <1>12, <2>4, <3>1, <4>1
    <3>3. CASE c \notin ExitCoid
      BY <1>1, <1>12, <2>4, <3>1, <3>3 DEF Desk
    <3> QED
      BY <3>2, <3>3
  <2>5. /\ T.logged = T.position /\ ~T.raised
        /\ T.fsm = "MANAGE" => T.position > 0
    BY <1>1, <1>11 DEF Desk, SameShares, MayCool
  <2> QED
    BY <1>11, <2>1, <2>2, <2>3, <2>4, <2>5 DEF Desk
<1>15. Covered(T)
  BY <1>1, <1>11 DEF Covered, SameShares
<1>16. Known(T, c)
  <2>1. Agree(p, w)
    BY <1>5, Present DEF Agree
  <2>2. c \in ExitCoid => Unfilled(w) <= T.position
    BY <1>3, <1>11 DEF Unfilled, SameShares
  <2> QED
    BY <1>1, <1>10, <1>11, <1>12, <2>1, <2>2 DEF Known
<1>17. \A d \in Coid \ {c} : Known(T, d)
  BY <1>10, <1>11, <1>12 DEF Sound, Known, SameShares
<1> QED
  BY <1>2, <1>11, <1>14, <1>15, <1>16, <1>17 DEF Sound

(* What the venue makes of a submission.                                    *)
LEMMA NewWork ==
  ASSUME NEW kind \in Kind, NEW tif \in {"DAY", "IOC"}, NEW q \in Nat \ {0},
         NEW marketable \in BOOLEAN, NEW displayed \in Nat, now \in Nat
  PROVE  LET w == Working(kind, tif, q, marketable, displayed, now)
         IN w \in WorkSet /\ w.filled = 0 /\ w.quantity = q
PROOF
<1>1. now + AckLatency \in Int /\ now + Latency \in Int /\ None \in Int
  BY VenueAssumption DEF None
<1> QED
  BY <1>1 DEF Working, WorkSet

LEMMA ExitKeeps ==
  ASSUME NEW S, Sound(S), ~S.raised, S.position > 0, now \in Nat,
         Unused(S, ExitCoid) # {}, NEW sym \in Symbol, NEW price \in Price
  PROVE  LET T == SubmitExit(S, NextCoid(S, ExitCoid),
                    [symbol |-> sym, intent |-> "exit", quantity |-> S.position, price |-> price])
         IN Sound(T) /\ T.feed = S.feed
PROOF
<1> DEFINE c == NextCoid(S, ExitCoid)
<1> DEFINE r == [symbol |-> sym, intent |-> "exit", quantity |-> S.position, price |-> price]
<1> DEFINE w == Working("MARKET", "DAY", r.quantity, TRUE, 0, now)
<1>1. c \in ExitCoid /\ S.journal[c] = NoRow
  BY DEF NextCoid, Unused
<1>2. S.position \in Nat \ {0}
  BY DEF Sound, Desk, SessionSet
<1>3. r \in RequestSet /\ r.intent = "exit" /\ r.quantity = S.position
  BY <1>2, PriceAssumption DEF RequestSet, Intent
<1> HIDE DEF c, r
<1>4. w \in WorkSet /\ w.filled = 0 /\ w.quantity = r.quantity
  <2>1. now + AckLatency \in Int /\ now + Latency \in Int /\ None \in Int
    BY VenueAssumption DEF None
  <2>2. r.quantity \in Nat \ {0} /\ "MARKET" \in Kind
    BY <1>2, <1>3 DEF Kind
  <2> QED
    BY <2>1, <2>2 DEF Working, WorkSet
<1>5. c \in Coid /\ NoTtl \in Int /\ r.quantity <= S.position
  BY <1>1, <1>2, <1>3 DEF Coid, NoTtl
<1>6. SubmitExit(S, c, r)
        = IF LiveOf(S, "exit") # {} \/ Reserved(S) + r.quantity * r.price > MaxGross
            THEN S ELSE Place(S, c, r, NoTtl, w)
  BY DEF SubmitExit
<1> HIDE DEF w
<1>7. LiveOf(S, "exit") = {} => /\ Sound(Place(S, c, r, NoTtl, w))
                                /\ Place(S, c, r, NoTtl, w).feed = S.feed
  BY <1>1, <1>3, <1>4, <1>5, PlaceKeeps
<1>8. Sound(SubmitExit(S, c, r)) /\ SubmitExit(S, c, r).feed = S.feed
  BY <1>6, <1>7
<1> QED
  BY <1>8 DEF c, r

(* What only the signal machine and the maps of the engine remember.         *)
LEMMA Aside ==
  ASSUME NEW S, Sound(S), NEW T \in SessionSet, SameBooks(S, T), SameShares(S, T),
         T.fsm = "MANAGE" => S.fsm = "MANAGE"
  PROVE  Sound(T)
PROOF
<1>1. Desk(T)
  BY DEF Sound, Desk, SameBooks, SameShares
<1>2. Covered(T)
  BY DEF Sound, Covered, SameShares
<1>3. \A c \in Coid : Known(T, c)
  BY DEF Sound, Known, SameBooks, SameShares
<1> QED
  BY <1>1, <1>2, <1>3 DEF Sound

LEMMA EntryKeeps ==
  ASSUME NEW S, Sound(S), ~S.raised, now \in Nat,
         Unused(S, EntryCoid) # {}, NEW sym \in Symbol, NEW q \in EntryQuantity,
         NEW price \in Price, NEW approved \in BOOLEAN, NEW plan \in Plan, NEW d \in Size
  PROVE  LET T == SubmitEntry([S EXCEPT !.fsm = "ENTRY"], NextCoid(S, EntryCoid), approved,
                    [symbol |-> sym, intent |-> "entry", quantity |-> q, price |-> price],
                    plan, d)
         IN Sound(T) /\ T.feed = S.feed
PROOF
<1> DEFINE c == NextCoid(S, EntryCoid)
<1> DEFINE r == [symbol |-> sym, intent |-> "entry", quantity |-> q, price |-> price]
<1> DEFINE R == [S EXCEPT !.fsm = "ENTRY"]
<1> DEFINE U == [R EXCEPT !.pendingSig = @ \cup {c}]
<1> DEFINE w == Working("LIMIT", plan.tif, r.quantity, plan.marketable, d, now)
<1> DEFINE at == now + TtlOf[plan.tif]
<1> DEFINE T == SubmitEntry(R, c, approved, r, plan, d)
<1>1. S \in SessionSet
  BY DEF Sound, Desk
<1>2. c \in EntryCoid /\ S.journal[c] = NoRow
  BY DEF NextCoid, Unused
<1>3. c \in Coid /\ c \notin ExitCoid
  BY <1>2, PaperAssumption DEF Coid
<1>4. q \in Nat \ {0} /\ r \in RequestSet /\ r.quantity = q
  BY PaperAssumption, PriceAssumption DEF RequestSet, Intent
<1>5. plan.tif \in {"DAY", "IOC"} /\ plan.marketable \in BOOLEAN
  BY DEF Plan
<1> HIDE DEF c, r
<1>6. T = IF \/ ~approved \/ R.position > 0 \/ LiveOf(R, "entry") # {}
             \/ Reserved(R) + r.quantity * r.price > MaxGross
            THEN OnEntryFailed(R) ELSE Place(U, c, r, at, w)
  BY DEF SubmitEntry
<1>7. w \in WorkSet /\ w.filled = 0 /\ w.quantity = r.quantity
  <2>1. "LIMIT" \in Kind /\ d \in Nat
    BY PaperAssumption DEF Kind
  <2> QED
    BY <1>4, <1>5, <2>1, NewWork
<1>8. at \in Int
  BY <1>5, PaperAssumption
<1> HIDE DEF w, at, T
<1>9. R \in SessionSet /\ SameBooks(S, R) /\ SameShares(S, R) /\ R.fsm = "ENTRY"
  BY <1>1 DEF SessionSet, SameBooks, SameShares
<1>10. U \in SessionSet /\ SameBooks(S, U) /\ SameShares(S, U) /\ U.fsm = "ENTRY"
  <2> HIDE DEF R
  <2> QED
    BY <1>3, <1>9 DEF SessionSet, SameBooks, SameShares
<1> HIDE DEF R, U
<1>11. Sound(R) /\ Sound(U) /\ ~U.raised /\ U.journal[c] = NoRow /\ U.feed = S.feed
  BY <1>2, <1>9, <1>10, Aside DEF SameBooks, SameShares
<1>12. Sound(OnEntryFailed(R)) /\ OnEntryFailed(R).feed = S.feed
  <2> DEFINE V == OnEntryFailed(R)
  <2>1. V \in SessionSet /\ SameBooks(R, V) /\ SameShares(R, V) /\ MayCool(R, V)
    BY <1>9, EntryFailed
  <2> HIDE DEF V
  <2>2. Sound(V) /\ V.feed = S.feed
    BY <1>9, <1>11, <2>1, Aside DEF MayCool, SameBooks
  <2> QED
    BY <2>2 DEF V
<1>13. Sound(Place(U, c, r, at, w)) /\ Place(U, c, r, at, w).feed = S.feed
  BY <1>3, <1>4, <1>7, <1>8, <1>11, PlaceKeeps
<1>14. Sound(T) /\ T.feed = S.feed
  BY <1>6, <1>12, <1>13
<1> QED
  BY <1>14 DEF T, R, c, r

LEMMA RestartKeeps ==
  ASSUME Sound(s), Restart
  PROVE  Sound(s') /\ s'.feed = s.feed
PROOF
<1> DEFINE orders == [c \in Coid |-> Restored(s.journal[c])]
<1> DEFINE work == [c \in Coid |-> Gone]
<1>1. s \in SessionSet /\ s.journal \in [Coid -> RowSet \cup {NoRow}] /\ s.logged = s.position
  BY DEF Sound, Desk, SessionSet
<1>2. PICK T : T = s'
  OBVIOUS
<1>3. T = [s EXCEPT !.orders = orders, !.working = work,
                    !.pendingSig = {}, !.position = s.logged,
                    !.fsm = "ARMED", !.cooldownUntil = 0, !.raised = FALSE]
  BY <1>2 DEF Restart
<1>4. ASSUME NEW c \in Coid
      PROVE  \/ orders[c] = Absent
             \/ /\ orders[c] \in OrderSet /\ s.journal[c] # NoRow
                /\ orders[c].req = s.journal[c].req /\ orders[c].expireAt = NoTtl
                /\ orders[c].state # "EXPIRED"
  <2> DEFINE row == s.journal[c]
  <2> DEFINE o == Restored(row)
  <2>1. orders[c] = o /\ row \in RowSet \cup {NoRow}
    BY <1>1
  <2>2. CASE row.state \in OState \ TERMINAL
    <3>1. row # NoRow
      BY <2>2 DEF NoRow, OState
    <3>2. /\ row \in RowSet /\ row.req \in RequestSet /\ row.filled \in Nat /\ row.state \in OState
          /\ row.state # "EXPIRED"
      BY <2>1, <2>2, <3>1 DEF RowSet, TERMINAL
    <3> HIDE DEF row
    <3>3. o = [req |-> row.req, state |-> row.state, filled |-> row.filled,
               reserved |-> 0, expireAt |-> NoTtl, rev |-> 0]
      BY <2>2 DEF Restored
    <3>4. o \in OrderSet /\ o.req = row.req /\ o.expireAt = NoTtl /\ o.state = row.state
      BY <3>2, <3>3 DEF OrderSet, NoTtl
    <3> HIDE DEF o
    <3> QED
      BY <2>1, <3>1, <3>2, <3>4 DEF row
  <2>3. CASE row.state \notin OState \ TERMINAL
    <3>1. o = Absent
      BY <2>3 DEF Restored
    <3> HIDE DEF o
    <3> QED
      BY <2>1, <3>1
  <2> QED
    BY <2>2, <2>3
<1>5. orders \in [Coid -> OrderSet \cup {Absent}]
  <2>1. ASSUME NEW c \in Coid PROVE orders[c] \in OrderSet \cup {Absent}
    BY <1>4
  <2> HIDE DEF Absent
  <2> QED
    BY <2>1
<1>6. work \in [Coid -> WorkSet \cup {Gone}] /\ \A c \in Coid : work[c] = Gone
  OBVIOUS
<1> HIDE DEF orders, work
<1>7. /\ T \in SessionSet /\ T.orders = orders /\ T.working = work /\ T.journal = s.journal
      /\ T.position = s.position /\ T.logged = s.logged /\ T.fsm = "ARMED" /\ ~T.raised
      /\ T.held = s.held /\ T.dropped = s.dropped /\ T.feed = s.feed
  <2>1. T = [orders |-> orders, placed |-> s.placed, journal |-> s.journal, working |-> work,
             pendingSig |-> {}, position |-> s.logged, logged |-> s.logged, fsm |-> "ARMED",
             cooldownUntil |-> 0, held |-> s.held, raised |-> FALSE, dropped |-> s.dropped,
             feed |-> s.feed]
    BY <1>1, <1>3 DEF SessionSet
  <2>2. /\ s.placed \in Seq(Coid) /\ s.logged \in Nat /\ s.held \in Int
        /\ s.dropped \in BOOLEAN /\ s.feed \in {"open", "ended", "over"}
    BY <1>1 DEF SessionSet
  <2>3. T \in SessionSet
    BY <1>1, <1>5, <1>6, <2>1, <2>2 DEF SessionSet
  <2> QED
    BY <1>1, <2>1, <2>3
<1>8. Desk(T)
  <2>1. \A c \in Coid : T.orders[c] # Absent \/ T.working[c] # Gone => T.journal[c] # NoRow
    BY <1>4, <1>6, <1>7
  <2>2. ASSUME NEW c \in ExitCoid
        PROVE  /\ T.orders[c] # Absent => ExitOrder(T.orders[c])
               /\ T.journal[c] # NoRow => T.journal[c].req.intent = "exit"
    <3>1. c \in Coid
      BY DEF Coid
    <3>2. T.journal[c] # NoRow => T.journal[c].req.intent = "exit"
      BY <1>7 DEF Sound, Desk
    <3> QED
      BY <1>4, <1>7, <3>1, <3>2 DEF ExitOrder
  <2>3. \A c \in Coid : T.working[c] = Gone
    BY <1>6, <1>7
  <2>4. \A c \in ExitCoid : c \in Coid
    BY DEF Coid
  <2> QED
    BY <1>1, <1>7, <2>1, <2>2, <2>3, <2>4 DEF Desk
<1>9. Covered(T)
  BY <1>7 DEF Sound, Covered
<1>10. ASSUME NEW c \in Coid PROVE Known(T, c)
  <2>1. Left(orders[c])
    BY <1>4, NoneLeft DEF Left
  <2> QED
    BY <1>6, <1>7, <2>1 DEF Known
<1>11. Sound(T)
  BY <1>8, <1>9, <1>10 DEF Sound
<1> QED
  BY <1>2, <1>7, <1>11

-----------------------------------------------------------------------------
(* The inductive invariant: the session is sound, and a replay that is      *)
(* about to flatten has something to sell.                                  *)
IInv ==
  /\ Sound(s) /\ now \in Nat
  /\ s.feed = "ended" => s.position > 0 /\ ~s.raised

LEMMA InitOK == Init => IInv
PROOF
<1> SUFFICES ASSUME Init PROVE IInv
  OBVIOUS
<1>1. /\ s.orders = [c \in Coid |-> Absent] /\ s.working = [c \in Coid |-> Gone]
      /\ s.journal = [c \in Coid |-> NoRow]
      /\ s.position = 0 /\ s.logged = 0 /\ s.held = 0 /\ s.fsm = "ARMED" /\ ~s.raised
      /\ ~s.dropped /\ s.feed = "open" /\ now = 0
  BY DEF Init
<1>2. s \in SessionSet
  <2> HIDE DEF Absent, NoRow, Gone
  <2>1. <<>> \in Seq(Coid)
    OBVIOUS
  <2> QED
    BY <2>1 DEF Init, SessionSet
<1> HIDE DEF Absent, NoRow, Gone
<1>3. \A c \in Coid : s.orders[c] = Absent /\ s.working[c] = Gone /\ s.journal[c] = NoRow
  BY <1>1
<1>4. \A c \in ExitCoid : c \in Coid
  BY DEF Coid
<1>5. Desk(s)
  BY <1>1, <1>2, <1>3, <1>4 DEF Desk
<1>6. Covered(s) /\ \A c \in Coid : Known(s, c)
  BY <1>1, <1>3, NoneLeft DEF Covered, Known
<1> QED
  BY <1>1, <1>5, <1>6 DEF IInv, Sound

(* The first half of every quote and every print.                           *)
LEMMA QuoteKeeps ==
  ASSUME IInv, NEW take \in Take, NEW ts \in {now, now - 1}
  PROVE  Sound(QuoteAndTick(take, ts)) /\ QuoteAndTick(take, ts).feed = s.feed
PROOF
<1> DEFINE m == [kind |-> "quote", take |-> take, ts |-> ts]
<1>1. m \in Stimulus
  BY DEF Stimulus, IInv
<1> HIDE DEF m
<1>2. Sound(OnTick(CallVenue(s, m))) /\ OnTick(CallVenue(s, m)).feed = s.feed
  BY <1>1, CallAndTick DEF IInv
<1> QED
  BY <1>2 DEF QuoteAndTick, m

LEMMA TradeKeeps ==
  ASSUME IInv, NEW print \in {"through", "at", "away"}, NEW size \in Size
  PROVE  Sound(TradeAndTick(print, size)) /\ TradeAndTick(print, size).feed = s.feed
PROOF
<1> DEFINE m == [kind |-> "trade", print |-> print, size |-> size]
<1>1. m \in Stimulus
  BY DEF Stimulus
<1> HIDE DEF m
<1>2. Sound(OnTick(CallVenue(s, m))) /\ OnTick(CallVenue(s, m)).feed = s.feed
  BY <1>1, CallAndTick DEF IInv
<1> QED
  BY <1>2 DEF TradeAndTick, m

LEMMA FlattenKeeps ==
  ASSUME IInv, NEW take \in Take, Flatten(take)
  PROVE  Sound(s') /\ s'.feed = "over"
PROOF
<1> DEFINE m == [kind |-> "quote", take |-> take, ts |-> now]
<1>1. PICK sym \in Symbol, p \in Price :
        s' = [OnTick(CallVenue(SubmitExit(s, NextCoid(s, ExitCoid),
                [symbol |-> sym, intent |-> "exit", quantity |-> s.position, price |-> p]), m))
              EXCEPT !.feed = "over"]
  BY DEF Flatten
<1> DEFINE R == SubmitExit(s, NextCoid(s, ExitCoid),
                  [symbol |-> sym, intent |-> "exit", quantity |-> s.position, price |-> p])
<1>2. Sound(R)
  BY ExitKeeps DEF IInv, Flatten
<1>3. m \in Stimulus /\ now \in Nat
  BY DEF Stimulus, IInv
<1> HIDE DEF m, R
<1> DEFINE U == OnTick(CallVenue(R, m))
<1>4. Sound(U)
  BY <1>2, <1>3, CallAndTick
<1>5. s' = [U EXCEPT !.feed = "over"]
  BY <1>1 DEF R
<1> HIDE DEF U
<1>6. PICK T : T = s'
  OBVIOUS
<1>7. /\ T \in SessionSet /\ T.orders = U.orders /\ T.working = U.working
      /\ T.journal = U.journal /\ SameShares(U, T) /\ T.fsm = U.fsm /\ T.feed = "over"
  BY <1>4, <1>5, <1>6 DEF Sound, Desk, SessionSet, SameShares
<1>8. Desk(T)
  BY <1>4, <1>7 DEF Sound, Desk, SameShares
<1>9. Covered(T) /\ \A c \in Coid : Known(T, c)
  BY <1>4, <1>7 DEF Sound, Covered, Known, SameShares
<1> QED
  BY <1>6, <1>7, <1>8, <1>9 DEF Sound

LEMMA NextOK == IInv /\ [Next]_vars => IInv'
PROOF
<1> SUFFICES ASSUME IInv, [Next]_vars PROVE IInv'
  OBVIOUS
<1> DEFINE Goes(U) == Sound(U) /\ U.feed = s.feed
<1>0. Sound(s) /\ now \in Nat
  BY DEF IInv
<1>1. ASSUME Goes(s'), now' = now, s.feed = "open" PROVE IInv'
  BY <1>0, <1>1 DEF IInv
<1>2. ASSUME NEW take \in Take, NEW ts \in {now, now - 1}, OnQuote(take, ts) PROVE IInv'
  <2>1. Goes(s')
    BY <1>2, QuoteKeeps DEF OnQuote
  <2> HIDE DEF Goes
  <2> QED
    BY <1>1, <1>2, <2>1 DEF OnQuote, Running
<1>3. ASSUME NEW take \in Take, NEW ts \in {now, now - 1}, OnQuoteExit(take, ts) PROVE IInv'
  <2> DEFINE S == QuoteAndTick(take, ts)
  <2>1. Goes(S)
    BY QuoteKeeps
  <2>2. /\ Running /\ ~S.raised /\ S.position > 0 /\ Unused(S, ExitCoid) # {} /\ now' = now
    BY <1>3 DEF OnQuoteExit
  <2>3. PICK sym \in Symbol, p \in Price :
          s' = SubmitExit(S, NextCoid(S, ExitCoid), [symbol |-> sym, intent |-> "exit",
                                 quantity |-> S.position, price |-> p])
    BY <1>3 DEF OnQuoteExit
  <2> HIDE DEF S
  <2>4. Goes(s')
    BY <1>0, <2>1, <2>2, <2>3, ExitKeeps
  <2> HIDE DEF Goes
  <2> QED
    BY <1>1, <2>2, <2>4 DEF Running
<1>4. ASSUME NEW take \in Take, NEW ts \in {now, now - 1}, OnQuoteCooled(take, ts) PROVE IInv'
  <2> DEFINE S == QuoteAndTick(take, ts)
  <2>1. Goes(S)
    BY QuoteKeeps
  <2>2. Running /\ now' = now /\ s' = [S EXCEPT !.fsm = "ARMED"]
    BY <1>4 DEF OnQuoteCooled
  <2> HIDE DEF S
  <2>3. PICK T : T = s'
    OBVIOUS
  <2>4. /\ T \in SessionSet /\ SameBooks(S, T) /\ SameShares(S, T) /\ T.fsm = "ARMED"
    BY <2>1, <2>2, <2>3 DEF Sound, Desk, SessionSet, SameBooks, SameShares
  <2>5. Goes(T)
    BY <2>1, <2>4, Aside DEF SameBooks
  <2> HIDE DEF Goes
  <2> QED
    BY <1>1, <2>2, <2>3, <2>5 DEF Running
<1>5. ASSUME NEW take \in Take, NEW ts \in {now, now - 1}, OnQuoteSignal(take, ts) PROVE IInv'
  <2> DEFINE S == QuoteAndTick(take, ts)
  <2>1. Goes(S)
    BY QuoteKeeps
  <2>2. /\ Running /\ ~S.raised /\ Unused(S, EntryCoid) # {} /\ now' = now
    BY <1>5 DEF OnQuoteSignal
  <2>3. PICK sym \in Symbol, q \in EntryQuantity, p \in Price,
             approved \in BOOLEAN, plan \in Plan, d \in Size :
          s' = SubmitEntry([S EXCEPT !.fsm = "ENTRY"], NextCoid(S, EntryCoid), approved,
                           [symbol |-> sym, intent |-> "entry", quantity |-> q, price |-> p],
                           plan, d)
    BY <1>5 DEF OnQuoteSignal
  <2> HIDE DEF S
  <2>4. Goes(s')
    BY <1>0, <2>1, <2>2, <2>3, EntryKeeps
  <2> HIDE DEF Goes
  <2> QED
    BY <1>1, <2>2, <2>4 DEF Running
<1>6. ASSUME NEW print \in {"through", "at", "away"}, NEW size \in Size, OnTrade(print, size)
      PROVE  IInv'
  <2>1. Goes(s')
    BY <1>6, TradeKeeps DEF OnTrade
  <2> HIDE DEF Goes
  <2> QED
    BY <1>1, <1>6, <2>1 DEF OnTrade, Running
<1>7. CASE Tick
  BY <1>0, <1>7 DEF Tick, IInv
<1>8. CASE EndOfReplay
  <2>1. PICK T : T = s'
    OBVIOUS
  <2>2. T = [s EXCEPT !.feed = "ended"] /\ s.position > 0 /\ ~s.raised /\ now' = now + Latency + 1
    BY <1>8, <2>1 DEF EndOfReplay, Running
  <2>3. /\ T \in SessionSet /\ T.orders = s.orders /\ T.working = s.working
        /\ T.journal = s.journal /\ SameShares(s, T) /\ T.fsm = s.fsm
    BY <1>0, <2>2 DEF Sound, Desk, SessionSet, SameShares
  <2>4. Desk(T)
    BY <1>0, <2>3 DEF Sound, Desk, SameShares
  <2>5. Covered(T) /\ \A c \in Coid : Known(T, c)
    BY <1>0, <2>3 DEF Sound, Covered, Known, SameShares
  <2>6. now' \in Nat
    BY <1>0, <2>2, VenueAssumption
  <2>7. T.position > 0 /\ ~T.raised
    BY <2>2, <2>3 DEF SameShares
  <2> QED
    BY <2>1, <2>4, <2>5, <2>6, <2>7 DEF IInv, Sound
<1>9. ASSUME NEW take \in Take, Flatten(take) PROVE IInv'
  BY <1>0, <1>9, FlattenKeeps DEF IInv, Flatten
<1>10. CASE Restart
  <2>1. Goes(s')
    BY <1>0, <1>10, RestartKeeps
  <2> HIDE DEF Goes
  <2> QED
    BY <1>1, <1>10, <2>1 DEF Restart
<1>11. CASE UNCHANGED vars
  BY <1>11 DEF vars, IInv
<1> QED
  BY <1>2, <1>3, <1>4, <1>5, <1>6, <1>7, <1>8, <1>9, <1>10, <1>11 DEF Next

THEOREM SessionSound == Spec => []IInv
PROOF
<1> QED
  BY InitOK, NextOK, PTL DEF Spec

-----------------------------------------------------------------------------

(* The bot never sells what it does not have: whatever the order of fills,  *)
(* cancels, timers, exits and restarts, its position is covered by what the *)
(* venue traded for it, unless an exception has cost it a fill.             *)
THEOREM Oversells == Spec => []NeverOversells
PROOF
<1>1. IInv => NeverOversells
  BY DEF IInv, Sound, Covered, NeverOversells
<1> QED
  BY <1>1, SessionSound, PTL

(* The signal machine manages a position only while there is one.           *)
THEOREM Managed == Spec => []ManageMeansPosition
PROOF
<1>1. IInv => ManageMeansPosition
  BY DEF IInv, Sound, Desk, ManageMeansPosition
<1> QED
  BY <1>1, SessionSound, PTL

(* Between two handlers the book and the venue agree on every order that is *)
(* at the venue, and on those it has let go, but for orders whose ack was   *)
(* never heard.                                                             *)
THEOREM Agreement == Spec => []BookAndVenueAgree
PROOF
<1>1. IInv => BookAndVenueAgree
  <2> SUFFICES ASSUME IInv, NEW c \in Coid, ~s.raised
               PROVE  /\ s.working[c] # Gone => Agree(s.orders[c], s.working[c])
                      /\ s.working[c] = Gone => Left(s.orders[c])
    BY DEF BookAndVenueAgree, Agree, Left
  <2> QED
    BY DEF IInv, Sound, Known
<1> QED
  BY <1>1, SessionSound, PTL

(* A handler raises only for a late fill that completes an entry that its   *)
(* timer had expired: no other order of events is illegal.                  *)
THEOREM LateFills == Spec => []OnlyLateFillsRaise
PROOF
<1>1. IInv => OnlyLateFillsRaise
  BY DEF IInv, Sound, Desk, OnlyLateFillsRaise
<1> QED
  BY <1>1, SessionSound, PTL
=============================================================================
