------------------------- MODULE PositionDeskProofs -------------------------
(***************************************************************************)
(* Proofs about PositionDesk, for every set of prices, every liquidity,     *)
(* size, delay and minimum fill, and any number of trades and restarts.    *)
(***************************************************************************)
EXTENDS PositionDesk, TLAPS

(* A record with the fields of a position. *)
Shaped(p) ==
  p = [side |-> p.side, quantity |-> p.quantity, cost |-> p.cost, stop |-> p.stop,
       target |-> p.target, age |-> p.age, realized |-> p.realized]

(* A position holds shares, or it is no position at all. *)
Held(p) == Shaped(p) /\ p.quantity \in Nat /\ (p.quantity = 0 => p = Flat)

(* Exits at the venue: market orders for the day. *)
ExitSet == [kind: Kind, tif: {"DAY"}, quantity: Nat, filled: Nat, awaiting: BOOLEAN,
            queue: Nat, acked: BOOLEAN, ackAt: Int, activateAt: Int, cancelAt: Int]

(* What the venue still works of an exit is never more than a position of q. *)
Within(w, q) == w # Gone => w \in ExitSet /\ Unfilled(w) <= q

IInv ==
  /\ Held(pos)
  /\ LogRebuildsPosition
  /\ Within(exit.w, pos.quantity)
  /\ exit = [live |-> exit.live, w |-> exit.w, since |-> exit.since]

-----------------------------------------------------------------------------
(* A quote fills of an exit no more than is unfilled, and leaves the rest.  *)
LEMMA QuoteFills ==
  ASSUME NEW w, NEW q \in Nat, Within(w, q), NEW ts, NEW t,
         NEW r, r = AfterQuote("exit", w, Take, ts, t),
         NEW qty, qty = IF r[2] = <<>> THEN 0 ELSE r[2][1].qty
  PROVE  /\ qty \in 0..q
         /\ Within(r[1], q - qty)
PROOF
<1> USE DeskAssumption, VenueAssumption
<1>1. CASE r = <<w, <<>> >>
  BY <1>1
<1>2. CASE w # Gone /\ r = Aggress("exit", w, Take)
  <2> DEFINE n == IF Take < Unfilled(w) THEN Take ELSE Unfilled(w)
             traded == IF n >= MinFill THEN [w EXCEPT !.filled = @ + n] ELSE w
             fills == IF n >= MinFill THEN <<Fill("exit", n)>> ELSE <<>>
  <2>1. w \in ExitSet /\ Unfilled(w) <= q
    BY <1>2 DEF Within
  <2>2. Unfilled(w) \in Nat /\ n \in 0..Unfilled(w)
    BY <2>1 DEF ExitSet, Unfilled
  <2>3. r = IF Unfilled(traded) = 0 THEN <<Gone, fills>> ELSE <<traded, fills>>
    BY <1>2, <2>1 DEF Aggress, ExitSet
  <2>4. r[2] = fills /\ r[1] \in {Gone, traded}
    BY <2>3
  <2>5. CASE n >= MinFill
    <3>1. qty = n
      <4>1. fills = <<Fill("exit", n)>> /\ Fill("exit", n).qty = n
        BY <2>5 DEF Fill
      <4> HIDE DEF n, fills
      <4>2. fills # <<>> /\ fills[1] = Fill("exit", n)
        BY <4>1
      <4>3. qty = r[2][1].qty
        BY <2>4, <4>2
      <4> QED
        BY <2>4, <4>1, <4>2, <4>3
    <3>2. traded \in ExitSet /\ Unfilled(traded) = Unfilled(w) - n
      <4>1. traded = [w EXCEPT !.filled = @ + n] /\ n \in Nat
        BY <2>2, <2>5
      <4> HIDE DEF n, traded
      <4>2. \A f \in Nat : LET e == [w EXCEPT !.filled = f]
                           IN e \in ExitSet /\ e.quantity = w.quantity /\ e.filled = f
        BY <2>1 DEF ExitSet
      <4>3. w.filled + n \in Nat
        BY <2>1, <4>1 DEF ExitSet
      <4>4. traded \in ExitSet /\ traded.quantity = w.quantity /\ traded.filled = w.filled + n
        BY <4>1, <4>2, <4>3
      <4>5. w.quantity \in Nat /\ w.filled \in Nat
        BY <2>1 DEF ExitSet
      <4>6. Unfilled(traded) = Unfilled(w) - n
        BY <2>2, <4>1, <4>4, <4>5 DEF Unfilled
      <4> QED
        BY <4>4, <4>6
    <3> HIDE DEF n, traded, fills
    <3> QED
      BY <2>1, <2>2, <2>4, <3>1, <3>2 DEF Within
  <2>6. CASE ~(n >= MinFill)
    <3>1. qty = 0 /\ traded = w
      BY <2>4, <2>6
    <3> HIDE DEF n, traded, fills
    <3> QED
      BY <2>1, <2>2, <2>4, <3>1 DEF Within
  <2> QED
    BY <2>5, <2>6
<1> QED
  BY <1>1, <1>2 DEF AfterQuote

(* The file, field by field. *)
LEMMA FileFields ==
  ASSUME IInv
  PROVE  /\ file = [side |-> pos.side, quantity |-> pos.quantity, cost |-> pos.cost, stop |-> pos.stop,
                    target |-> pos.target, age |-> pos.age, realized |-> 0]
         /\ file.side = pos.side /\ file.quantity = pos.quantity /\ file.cost = pos.cost
         /\ file.stop = pos.stop /\ file.target = pos.target /\ file.age = pos.age
         /\ file.realized = 0
         /\ Held(file) /\ Shaped(file)
PROOF
<1>1. file = [side |-> pos.side, quantity |-> pos.quantity, cost |-> pos.cost, stop |-> pos.stop,
              target |-> pos.target, age |-> pos.age, realized |-> 0]
  BY DEF IInv, Held, Shaped, LogRebuildsPosition
<1>2. file.quantity = 0 => file = Flat
  BY <1>1 DEF IInv, Held, Flat
<1> QED
  BY <1>1, <1>2 DEF IInv, Held, Shaped

(* The log and the position take a fill of the entry alike.                 *)
LEMMA EntryOK ==
  ASSUME IInv, NEW qty \in 1..entry.rest, NEW px \in Mid, EntryFills(qty, px)
  PROVE  IInv'
PROOF
<1> USE DeskAssumption, VenueAssumption
<1>1. qty \in Nat \ {0}
  BY DEF EntryFills
<1>2. pos' = EntryFill(pos, qty, px, entry) /\ file' = EntryFill(file, qty, px, entry)
  BY DEF EntryFills, Logged
<1>3. CASE pos.quantity > 0
  <2>1. pos' = [side |-> pos.side, quantity |-> pos.quantity + qty, cost |-> pos.cost + qty * px,
                stop |-> pos.stop, target |-> pos.target, age |-> pos.age, realized |-> pos.realized]
    BY <1>2, <1>3 DEF IInv, Held, Shaped, EntryFill
  <2>2. file' = [side |-> pos.side, quantity |-> pos.quantity + qty, cost |-> pos.cost + qty * px,
                 stop |-> pos.stop, target |-> pos.target, age |-> pos.age, realized |-> 0]
    BY <1>2, <1>3, FileFields DEF Shaped, EntryFill
  <2>3. Held(pos)' /\ LogRebuildsPosition'
    BY <1>1, <2>1, <2>2 DEF IInv, Held, Shaped, LogRebuildsPosition
  <2>4. Within(exit.w, pos.quantity)'
    BY <1>1, <2>1 DEF IInv, Held, Within, EntryFills, ExitSet, Unfilled
  <2> QED
    BY <2>3, <2>4 DEF IInv, EntryFills
<1>4. CASE pos.quantity = 0
  <2>1. pos = Flat /\ file = Flat
    BY <1>4 DEF IInv, Held, LogRebuildsPosition, Flat
  <2>2. /\ pos' = [side |-> entry.side, quantity |-> qty, cost |-> qty * px, stop |-> entry.stop,
                   target |-> entry.target, age |-> 0, realized |-> 0]
        /\ file' = pos'
    <3>1. pos' = EntryFill(Flat, qty, px, entry) /\ file' = EntryFill(Flat, qty, px, entry)
      BY <1>2, <2>1, Zenon
    <3> QED
      BY <3>1 DEF EntryFill, Flat
  <2>3. Held(pos)' /\ LogRebuildsPosition'
    BY <1>1, <2>2 DEF Held, Shaped, LogRebuildsPosition
  <2>4. Within(exit.w, pos.quantity)'
    BY <1>1, <1>4, <2>2 DEF IInv, Held, Within, EntryFills, ExitSet, Unfilled
  <2> QED
    BY <2>3, <2>4 DEF IInv, EntryFills
<1> QED
  BY <1>3, <1>4 DEF IInv, Held

(* The log and the position take a fill of the exit alike; a new exit is    *)
(* for what is left of the position.                                       *)
LEMMA QuoteOK ==
  ASSUME IInv, NEW lag \in {0, 1}, NEW v, NEW evaluated \in BOOLEAN, NEW room \in BOOLEAN,
         Quote(lag, v, evaluated, room)
  PROVE  IInv'
PROOF
<1> USE DeskAssumption, VenueAssumption
<1> DEFINE after == AfterQuote("exit", exit.w, Take, exit.since - lag, exit.since)
           qty == IF after[2] = <<>> THEN 0 ELSE after[2][1].qty
           filled == IF qty = 0 THEN pos ELSE ExitFill(pos, qty, v.mid)
           p == IF filled.quantity = 0 THEN Flat ELSE filled
           x == IF qty > 0 /\ after[1] = Gone THEN NoExit ELSE [exit EXCEPT !.w = after[1]]
<1>1. qty \in 0..pos.quantity /\ Within(after[1], pos.quantity - qty)
  BY QuoteFills DEF IInv, Held
<1>2. /\ pos' = p
      /\ file' = IF qty = 0 THEN file ELSE Logged(file, [kind |-> "exit", qty |-> qty, price |-> v.mid])
      /\ exit' = IF evaluated /\ CheckExits(p, v) THEN SubmitExit(x, p, room) ELSE x
  BY DEF Quote
<1>3. x = [live |-> x.live, w |-> x.w, since |-> x.since] /\ x.w \in {Gone, after[1]}
  BY DEF IInv, NoExit
<1> HIDE DEF after, x
<1>4. Held(p) /\ file' = [p EXCEPT !.realized = 0] /\ p.quantity = pos.quantity - qty
  <2>1. CASE qty = 0
    BY <2>1, <1>1, <1>2 DEF IInv, Held, Flat, LogRebuildsPosition
  <2>2. CASE qty # 0
    <3> DEFINE avg == pos.cost \div pos.quantity
    <3>1. file.quantity = pos.quantity /\ file.cost = pos.cost
      BY FileFields
    <3>2. filled = [side |-> pos.side, quantity |-> pos.quantity - qty, cost |-> pos.cost - qty * avg,
                    stop |-> pos.stop, target |-> pos.target, age |-> pos.age,
                    realized |-> pos.realized + pos.side * (v.mid - avg) * qty]
      BY <2>2 DEF IInv, Held, Shaped, ExitFill
    <3>3. CASE qty = pos.quantity
      <4>1. p = Flat
        BY <3>2, <3>3, <1>1 DEF IInv, Held
      <4>2. file' = Flat
        BY <2>2, <3>1, <3>3, <1>1, <1>2 DEF Logged
      <4> QED
        BY <4>1, <4>2, <3>3, <1>1 DEF Held, Shaped, Flat
    <3>4. CASE qty < pos.quantity
      <4>1. p = filled
        BY <3>2, <3>4, <1>1 DEF IInv, Held
      <4>2. file' = [side |-> pos.side, quantity |-> pos.quantity - qty, cost |-> pos.cost - qty * avg,
                     stop |-> pos.stop, target |-> pos.target, age |-> pos.age, realized |-> 0]
        <5>1. ~(qty >= file.quantity)
          BY <3>1, <3>4, <1>1 DEF IInv, Held
        <5>2. file' = [file EXCEPT !.quantity = @ - qty, !.cost = @ - qty * avg]
          BY <2>2, <3>1, <5>1, <1>2 DEF Logged
        <5> HIDE DEF avg, qty
        <5> QED
          BY <5>2, FileFields DEF Shaped
      <4>3. filled.quantity \in Nat \ {0}
        BY <3>2, <3>4, <1>1 DEF IInv, Held
      <4> HIDE DEF avg, filled
      <4> QED
        BY <4>1, <4>2, <4>3, <3>2 DEF Held, Shaped
    <3> QED
      BY <3>3, <3>4, <1>1 DEF IInv, Held
  <2> QED
    BY <2>1, <2>2
<1> HIDE DEF qty, filled, p
<1>5. Held(pos)' /\ LogRebuildsPosition'
  BY <1>2, <1>4 DEF Held, Shaped, LogRebuildsPosition
<1>6. CASE exit' = x
  <2>1. Within(exit.w, pos.quantity)'
    BY <1>1, <1>2, <1>3, <1>4, <1>6 DEF Within
  <2> QED
    BY <1>3, <1>5, <1>6, <2>1 DEF IInv
<1>7. CASE exit' = [live |-> TRUE, since |-> 0, w |-> Working("MARKET", "DAY", p.quantity, TRUE, 0, 0)]
  <2>1. Working("MARKET", "DAY", p.quantity, TRUE, 0, 0) \in ExitSet
    BY <1>4 DEF Held, Working, ExitSet, Kind, None
  <2>2. Unfilled(Working("MARKET", "DAY", p.quantity, TRUE, 0, 0)) <= p.quantity
    BY <1>4 DEF Held, Working, Unfilled
  <2>3. Within(exit.w, pos.quantity)'
    <3>1. exit'.w = Working("MARKET", "DAY", p.quantity, TRUE, 0, 0)
      BY <1>7, Zenon
    <3>2. pos' = p
      BY <1>2
    <3> QED
      BY <2>1, <2>2, <3>1, <3>2 DEF Within
  <2> QED
    BY <1>5, <1>7, <2>3 DEF IInv
<1> QED
  BY <1>2, <1>6, <1>7 DEF SubmitExit

(* Time passes for the position in memory and in the log alike.             *)
LEMMA TickOK ==
  ASSUME IInv, Tick
  PROVE  IInv'
PROOF
<1> DEFINE grown(p) == [p EXCEPT !.age = Older(@, MaxHold + 1)]
<1>1. /\ pos' = (IF pos = Flat THEN Flat ELSE grown(pos))
      /\ file' = (IF file = Flat THEN Flat ELSE grown(file))
      /\ exit' = IF exit.w = Gone THEN exit ELSE [exit EXCEPT !.since = Older(@, Latency + 1)]
  BY DEF Tick
<1>2. Within(exit.w, pos.quantity)' /\ exit' = [live |-> exit'.live, w |-> exit'.w, since |-> exit'.since]
  <2>1. exit'.w = exit.w /\ pos'.quantity = pos.quantity
    BY <1>1 DEF IInv, Held, Shaped
  <2> QED
    BY <1>1, <2>1 DEF IInv, Within
<1>3. CASE pos = Flat
  <2>1. file = Flat
    BY <1>3 DEF IInv, LogRebuildsPosition, Flat
  <2> QED
    BY <1>1, <1>2, <1>3, <2>1 DEF IInv, Held, Shaped, LogRebuildsPosition, Flat
<1>4. CASE pos # Flat
  <2>1. file # Flat
    BY <1>4 DEF IInv, Held, Shaped, LogRebuildsPosition, Flat
  <2> DEFINE age == Older(pos.age, MaxHold + 1)
  <2>2. /\ pos' = [side |-> pos.side, quantity |-> pos.quantity, cost |-> pos.cost, stop |-> pos.stop,
                   target |-> pos.target, age |-> age, realized |-> pos.realized]
        /\ file' = [side |-> pos.side, quantity |-> pos.quantity, cost |-> pos.cost, stop |-> pos.stop,
                    target |-> pos.target, age |-> age, realized |-> 0]
    BY <1>1, <1>4, <2>1 DEF IInv, Held, Shaped, LogRebuildsPosition
  <2> HIDE DEF age
  <2>3. pos.quantity \in Nat \ {0}
    BY <1>4 DEF IInv, Held
  <2> QED
    BY <1>2, <2>2, <2>3 DEF IInv, Held, Shaped, LogRebuildsPosition
<1> QED
  BY <1>3, <1>4

(* A new process has the position the log has, and its exit is at no venue. *)
LEMMA RestartOK ==
  ASSUME IInv, Restart
  PROVE  IInv'
PROOF
<1>1. pos' = file /\ file' = file /\ exit' = [NoExit EXCEPT !.live = exit.live]
  BY DEF Restart
<1>2. Held(file) /\ file = [file EXCEPT !.realized = 0]
  BY FileFields DEF Held, Shaped
<1>3. exit' = [live |-> exit.live, w |-> Gone, since |-> 0]
  BY <1>1 DEF NoExit
<1>4. Within(exit.w, pos.quantity)'
  BY <1>3 DEF Within
<1> QED
  BY <1>1, <1>2, <1>3, <1>4 DEF IInv, Held, Shaped, LogRebuildsPosition

(* The invariant in every reachable state.                                  *)
THEOREM InvariantHolds == Spec => []IInv
PROOF
<1>1. Init => IInv
  BY DEF Init, IInv, Held, Shaped, LogRebuildsPosition, Within, Flat, NoExit
<1>2. IInv /\ [Next]_vars => IInv'
  <2> SUFFICES ASSUME IInv, [Next]_vars PROVE IInv'
    OBVIOUS
  <2>1. ASSUME NEW side \in {1, -1}, NEW stop \in Mid, NEW target \in Mid, NewEntry(side, stop, target)
        PROVE  IInv'
    BY <2>1 DEF NewEntry, IInv, LogRebuildsPosition
  <2>2. CASE EntryEnds
    BY <2>2 DEF EntryEnds, IInv, LogRebuildsPosition
  <2>3. CASE UNCHANGED vars
    BY <2>3 DEF vars, IInv, LogRebuildsPosition
  <2> QED
    BY <2>1, <2>2, <2>3, EntryOK, QuoteOK, TickOK, RestartOK DEF Next
<1> QED
  BY <1>1, <1>2, PTL DEF Spec

(* Between any two handlers the log rebuilds the position in memory,        *)
(* but for the profit its partial exits have realized.                      *)
THEOREM LogSuffices == Spec => []LogRebuildsPosition
PROOF
<1>1. IInv => LogRebuildsPosition
  BY DEF IInv
<1> QED
  BY <1>1, InvariantHolds, PTL

-----------------------------------------------------------------------------
(* An exit is live from the quote that was evaluated beyond the stop, until  *)
(* a later quote is evaluated, unless the gross cap refused it: the stop is *)
(* a rule of every evaluation.                                             *)
THEOREM StopsEnd == Spec => []StopEndsInExit
PROOF
<1>1. Init => StopEndsInExit
  BY DEF Init, StopEndsInExit
<1>2. IInv /\ StopEndsInExit /\ [Next]_vars => StopEndsInExit'
  <2> SUFFICES ASSUME IInv, StopEndsInExit, [Next]_vars PROVE StopEndsInExit'
    OBVIOUS
  <2>1. ASSUME NEW lag, NEW v, NEW evaluated \in BOOLEAN, NEW room \in BOOLEAN,
               Quote(lag, v, evaluated, room)
        PROVE  StopEndsInExit'
    <3>1. PICK p, x :
            /\ exit' = IF evaluated /\ CheckExits(p, v) THEN SubmitExit(x, p, room) ELSE x
            /\ refused' = IF evaluated THEN CheckExits(p, v) /\ ~x.live /\ ~room ELSE refused
            /\ beyond' = (evaluated /\ p # Flat /\ BeyondStop(p, v.mid))
      BY <2>1, Zenon DEF Quote
    <3>2. beyond' => evaluated /\ CheckExits(p, v)
      BY <3>1 DEF CheckExits, Urgent, Priced
    <3>3. SubmitExit(x, p, room).live \/ (~x.live /\ ~room)
      BY DEF SubmitExit
    <3>4. beyond' => exit'.live \/ refused'
      BY <3>1, <3>2, <3>3
    <3> QED
      BY <3>4 DEF StopEndsInExit
  <2>2. CASE beyond' = beyond /\ exit' = exit /\ refused' = refused
    BY <2>2 DEF StopEndsInExit
  <2>3. CASE Tick
    <3>1. exit'.live = exit.live /\ beyond' = beyond /\ refused' = refused
      BY <2>3 DEF Tick, IInv
    <3> QED
      BY <3>1 DEF StopEndsInExit
  <2>4. CASE Restart
    BY <2>4 DEF Restart, StopEndsInExit
  <2>5. ASSUME NEW side, NEW stop, NEW target, NewEntry(side, stop, target)
        PROVE  StopEndsInExit'
    BY <2>2, <2>5 DEF NewEntry
  <2>6. ASSUME NEW qty, NEW px, EntryFills(qty, px) PROVE StopEndsInExit'
    BY <2>2, <2>6 DEF EntryFills
  <2>7. CASE EntryEnds
    BY <2>2, <2>7 DEF EntryEnds
  <2>8. CASE UNCHANGED vars
    BY <2>2, <2>8 DEF vars
  <2> QED
    BY <2>1, <2>3, <2>4, <2>5, <2>6, <2>7, <2>8 DEF Next
<1> QED
  BY <1>1, <1>2, InvariantHolds, PTL DEF Spec

-----------------------------------------------------------------------------
Sign == {-1, 0, 1}

(* The money of a position that is held, in numbers: what it realized is     *)
(* what its fills paid, with its shares at their cost; the entry that still  *)
(* fills has its side.                                                      *)
Money ==
  /\ pos.side \in Sign /\ pos.cost \in Int /\ pos.realized \in Int
  /\ cash \in Int /\ profit \in Int
  /\ entry \in [side: Sign, rest: Int, stop: Int, target: Int]
  /\ entry = NoEntry \/ pos = Flat \/ pos.side = entry.side
  /\ pos # Flat => profit = 0 /\ pos.realized = cash + pos.side * pos.cost

(* The average price of what is held is a whole number, as the prices of    *)
(* the model are.                                                           *)
WholeAverage == pos.quantity > 0 => pos.cost = pos.quantity * (pos.cost \div pos.quantity)

(* At flat the trade has made what its fills paid.                          *)
Settled == pos = Flat => profit = cash

(* The money of a sale: what q shares pay, what they gain over their         *)
(* average price, and what shares are worth at their cost.                  *)
Paid(side, q, px) == side * q * px
Gain(side, px, avg, q) == side * (px - avg) * q
Worth(side, cost) == side * cost

(* A sale gains what it pays above its average price.                       *)
LEMMA SaleGains ==
  ASSUME NEW side \in Sign, NEW px \in Int, NEW avg \in Int, NEW q \in Int
  PROVE  /\ Paid(side, q, px) \in Int /\ Paid(side, q, avg) \in Int
         /\ Gain(side, px, avg, q) \in Int
         /\ Gain(side, px, avg, q) = Paid(side, q, px) - Paid(side, q, avg)
PROOF
<1>1. (px - avg) * q = q * px - q * avg /\ q * px \in Int /\ q * avg \in Int
  OBVIOUS
<1>2. CASE side = 0
  BY <1>1, <1>2 DEF Paid, Gain
<1>3. CASE side = 1
  BY <1>1, <1>3 DEF Paid, Gain
<1>4. CASE side = -1
  BY <1>1, <1>4 DEF Paid, Gain
<1> QED
  BY <1>2, <1>3, <1>4 DEF Sign

(* What is left after a sale is worth that much less.                       *)
LEMMA SaleLeaves ==
  ASSUME NEW side \in Sign, NEW avg \in Int, NEW q \in Int, NEW cost \in Int,
         NEW left, left = cost - q * avg
  PROVE  /\ Worth(side, cost) \in Int /\ left \in Int
         /\ Worth(side, left) = Worth(side, cost) - Paid(side, q, avg)
PROOF
<1>1. q * avg \in Int
  OBVIOUS
<1>2. CASE side = 0
  BY <1>1, <1>2 DEF Paid, Worth
<1>3. CASE side = 1
  BY <1>1, <1>3 DEF Paid, Worth
<1>4. CASE side = -1
  BY <1>1, <1>4 DEF Paid, Worth
<1> QED
  BY <1>1, <1>2, <1>3, <1>4 DEF Sign

(* A quote, whatever it fills of the exit, accrues profit as the shares are  *)
(* paid; at flat it does if their average was whole.                        *)
LEMMA QuoteMoney ==
  ASSUME IInv, Money, NEW lag \in {0, 1}, NEW v, v.mid \in Mid, NEW evaluated \in BOOLEAN,
         NEW room \in BOOLEAN, Quote(lag, v, evaluated, room)
  PROVE  Money' /\ (Settled /\ WholeAverage => Settled')
PROOF
<1> USE DeskAssumption
<1> DEFINE after == AfterQuote("exit", exit.w, Take, exit.since - lag, exit.since)
           qty == IF after[2] = <<>> THEN 0 ELSE after[2][1].qty
           filled == IF qty = 0 THEN pos ELSE ExitFill(pos, qty, v.mid)
           p == IF filled.quantity = 0 THEN Flat ELSE filled
           avg == pos.cost \div pos.quantity
<1>1. qty \in 0..pos.quantity
  BY QuoteFills DEF IInv, Held
<1>2. /\ pos' = p /\ entry' = entry
      /\ cash' = cash + pos.side * qty * v.mid
      /\ profit' = IF pos # Flat /\ p = Flat THEN filled.realized ELSE profit
  BY DEF Quote
<1>3. pos.quantity \in Nat /\ (pos.quantity = 0 => pos = Flat) /\ v.mid \in Int
  BY DEF IInv, Held
<1> HIDE DEF after, qty
<1>4. Flat.side = 0 /\ Flat.cost = 0 /\ Flat.realized = 0 /\ Flat.quantity = 0
  BY DEF Flat
<1>5. CASE qty = 0
  <2>1. pos' = pos
    BY <1>2, <1>3, <1>5
  <2>2. pos.side * 0 * v.mid = 0 /\ cash \in Int
    BY <1>3 DEF Money, Sign
  <2>3. cash' = cash
    BY <1>2, <1>5, <2>2
  <2>4. profit' = profit
    BY <1>2, <2>1
  <2> QED
    BY <1>2, <2>1, <2>3, <2>4 DEF Money, Settled
<1>6. CASE qty # 0
  <2>1. pos # Flat /\ pos.quantity \in Nat \ {0} /\ qty \in Int
    BY <1>1, <1>3, <1>4, <1>6
  <2>2. avg \in Int /\ pos.side \in Sign /\ pos.cost \in Int /\ pos.realized \in Int /\ cash \in Int
    BY <2>1 DEF Money
  <2>3. filled = [side |-> pos.side, quantity |-> pos.quantity - qty, cost |-> pos.cost - qty * avg,
                  stop |-> pos.stop, target |-> pos.target, age |-> pos.age,
                  realized |-> pos.realized + pos.side * (v.mid - avg) * qty]
    BY <1>6 DEF IInv, Held, Shaped, ExitFill
  <2>4. /\ filled.side = pos.side /\ filled.quantity = pos.quantity - qty
        /\ filled.cost = pos.cost - qty * avg
        /\ filled.realized = pos.realized + pos.side * (v.mid - avg) * qty
    BY <2>3
  <2> HIDE DEF avg, filled
  <2> DEFINE gain == Gain(pos.side, v.mid, avg, qty)
             paid == Paid(pos.side, qty, v.mid)
             gone == Paid(pos.side, qty, avg)
             held == Worth(pos.side, pos.cost)
  <2>5. /\ gain \in Int /\ paid \in Int /\ held \in Int /\ gone \in Int
        /\ Worth(filled.side, filled.cost) = held - gone /\ gain = paid - gone
    <3>1. v.mid \in Int /\ qty \in Int /\ avg \in Int /\ pos.cost \in Int /\ pos.side \in Sign
      BY <1>3, <2>1, <2>2
    <3>2. /\ gain \in Int /\ paid \in Int /\ gone \in Int /\ gain = paid - gone
      BY <3>1, SaleGains
    <3>3. held \in Int /\ Worth(pos.side, filled.cost) = held - gone
      BY <2>4, <3>1, SaleLeaves
    <3> QED
      BY <2>4, <3>2, <3>3
  <2>6. pos.realized = cash + held /\ profit = 0
    BY <2>1, Zenon DEF Money, Worth
  <2>7. filled.realized = pos.realized + gain /\ cash' = cash + paid
    BY <1>2, <2>4, Zenon DEF Gain, Paid
  <2>8. filled.cost \in Int
    BY <2>1, <2>2, <2>4
  <2>9. pos.quantity * avg = pos.cost /\ qty = pos.quantity => held = gone
    <3>1. Worth(pos.side, filled.cost) = held - gone
      BY <2>4, <2>5
    <3>2. pos.quantity * avg = pos.cost /\ qty = pos.quantity => filled.cost = 0
      BY <2>1, <2>2, <2>4
    <3>3. Worth(pos.side, 0) = 0
      BY <2>2 DEF Sign, Worth
    <3> QED
      BY <2>5, <3>1, <3>2, <3>3
  <2> HIDE DEF gain, paid, gone, held
  <2>10. CASE qty = pos.quantity
    <3>1. pos' = Flat /\ profit' = filled.realized
      BY <1>2, <2>1, <2>4, <2>10
    <3>2. Money'
      <4>1. profit' \in Int /\ cash' \in Int
        BY <2>2, <2>5, <2>7, <3>1
      <4>2. entry' \in [side: Sign, rest: Int, stop: Int, target: Int]
        BY <1>2 DEF Money
      <4> HIDE DEF p
      <4> QED
        BY <1>4, <3>1, <4>1, <4>2 DEF Money, Sign
    <3>3. WholeAverage => profit' = cash'
      <4>1. WholeAverage => held = gone
        BY <2>1, <2>9, <2>10 DEF WholeAverage, avg
      <4> QED
        BY <2>2, <2>5, <2>6, <2>7, <3>1, <4>1
    <3> QED
      BY <3>2, <3>3 DEF Settled
  <2>11. CASE qty # pos.quantity
    <3>1. filled.quantity # 0
      BY <1>1, <1>3, <2>1, <2>4, <2>11
    <3>2. pos' = filled /\ pos' # Flat
      BY <1>2, <1>4, <3>1
    <3>3. profit' = profit
      BY <1>2, <3>2
    <3>4. filled.realized = cash' + filled.side * filled.cost
      <4>1. filled.realized = cash' + Worth(filled.side, filled.cost)
        BY <2>2, <2>5, <2>6, <2>7
      <4> QED
        BY <4>1, Zenon DEF Worth
    <3>5. Money'
      BY <1>2, <2>1, <2>2, <2>4, <2>5, <2>6, <2>7, <2>8, <3>2, <3>3, <3>4 DEF Money
    <3> QED
      BY <3>2, <3>5 DEF Settled
  <2> QED
    BY <2>10, <2>11
<1> QED
  BY <1>5, <1>6

(* A fill of the entry pays for the shares it adds.                         *)
LEMMA EntryMoney ==
  ASSUME IInv, Money, NEW qty \in 1..entry.rest, NEW px \in Mid, EntryFills(qty, px)
  PROVE  Money' /\ Settled'
PROOF
<1> USE DeskAssumption, VenueAssumption
<1>1. /\ pos' = EntryFill(pos, qty, px, entry)
      /\ entry' = [entry EXCEPT !.rest = @ - qty]
      /\ cash' = (IF pos = Flat THEN 0 ELSE cash) - entry.side * qty * px
      /\ profit' = 0 /\ qty < entry.rest
  BY DEF EntryFills
<1>2. qty \in Nat \ {0} /\ px \in Int /\ qty * px \in Int /\ qty * px > 0
  <2>1. qty \in Nat \ {0} /\ px \in Nat \ {0}
    BY <1>1 DEF Money
  <2> QED
    BY <2>1
<1>3. /\ entry' \in [side: Sign, rest: Int, stop: Int, target: Int]
      /\ entry'.side = entry.side /\ entry # NoEntry /\ entry.side \in Sign
  BY <1>1, <1>2 DEF Money, NoEntry
<1>4. Held(pos) /\ pos.quantity \in Nat
  BY DEF IInv, Held
<1> DEFINE worth == entry.side * qty * px
<1>5. worth \in Int
  BY <1>2, <1>3 DEF Sign
<1>6. CASE pos.quantity > 0
  <2>1. pos # Flat
    BY <1>6 DEF Flat
  <2>2. pos' = [side |-> pos.side, quantity |-> pos.quantity + qty, cost |-> pos.cost + qty * px,
                stop |-> pos.stop, target |-> pos.target, age |-> pos.age, realized |-> pos.realized]
    BY <1>1, <1>4, <1>6 DEF Held, Shaped, EntryFill
  <2>3. /\ pos'.side = pos.side /\ pos'.cost = pos.cost + qty * px /\ pos'.realized = pos.realized
        /\ pos'.quantity = pos.quantity + qty
    BY <2>2
  <2>4. pos.side = entry.side
    BY <1>3, <2>1 DEF Money
  <2>5. pos.side * (pos.cost + qty * px) = pos.side * pos.cost + worth /\ pos.side * pos.cost \in Int
    BY <1>2, <1>3, <2>4 DEF Money, Sign
  <2> HIDE DEF worth
  <2>6. cash' = cash - worth
    BY <1>1, <2>1 DEF worth
  <2>7. pos' # Flat
    BY <1>2, <1>4, <2>3 DEF Flat
  <2>8. pos'.realized = cash' + pos'.side * pos'.cost
    BY <1>5, <2>1, <2>3, <2>5, <2>6 DEF Money
  <2>9. pos'.cost \in Int /\ cash' \in Int
    BY <1>2, <1>5, <2>3, <2>6 DEF Money
  <2> QED
    BY <1>1, <1>3, <2>3, <2>4, <2>7, <2>8, <2>9 DEF Money, Settled
<1>7. CASE pos.quantity = 0
  <2>1. pos = Flat
    BY <1>4, <1>7 DEF Held
  <2>2. pos' = [side |-> entry.side, quantity |-> qty, cost |-> qty * px, stop |-> entry.stop,
                target |-> entry.target, age |-> 0, realized |-> 0]
    BY <1>1, <1>7 DEF EntryFill
  <2>3. pos'.side = entry.side /\ pos'.cost = qty * px /\ pos'.realized = 0 /\ pos'.quantity = qty
    BY <2>2
  <2>4. cash' = 0 - worth
    BY <1>1, <2>1
  <2>5. entry.side * (qty * px) = worth
    BY <1>2, <1>3 DEF Sign
  <2> HIDE DEF worth
  <2>6. pos' # Flat
    BY <1>2, <2>3 DEF Flat
  <2>7. pos'.realized = cash' + pos'.side * pos'.cost
    BY <1>5, <2>3, <2>4, <2>5
  <2> QED
    BY <1>1, <1>2, <1>3, <1>5, <2>3, <2>4, <2>6, <2>7 DEF Money, Settled
<1> QED
  BY <1>4, <1>6, <1>7

(* A recovered position starts again at its average price.                  *)
LEMMA RestartMoney ==
  ASSUME IInv, Money, Restart
  PROVE  Money' /\ Settled'
PROOF
<1>1. /\ pos' = file /\ entry' = NoEntry /\ profit' = 0
      /\ cash' = -file.side * file.cost
  BY DEF Restart
<1>2. file.side = pos.side /\ file.cost = pos.cost /\ file.realized = 0
  BY FileFields
<1>3. cash' \in Int /\ 0 = cash' + file.side * file.cost
  <2>1. file.side \in Sign /\ file.cost \in Int
    BY <1>2 DEF Money
  <2>2. CASE file.side = 0
    BY <1>1, <2>1, <2>2
  <2>3. CASE file.side = 1
    BY <1>1, <2>1, <2>3
  <2>4. CASE file.side = -1
    BY <1>1, <2>1, <2>4
  <2>5. file.side = 0 \/ file.side = 1 \/ file.side = -1
    BY <2>1 DEF Sign
  <2> QED
    BY <2>2, <2>3, <2>4, <2>5
<1>4. file = Flat => cash' = 0
  <2>1. Flat.side = 0 /\ Flat.cost = 0
    BY DEF Flat
  <2>2. file = Flat => file.side * file.cost = 0
    BY <2>1
  <2> QED
    BY <1>3, <2>2
<1>5. NoEntry \in [side: Sign, rest: Int, stop: Int, target: Int]
  BY DEF NoEntry, Sign
<1> QED
  BY <1>1, <1>2, <1>3, <1>4, <1>5 DEF Money, Settled

(* Time moves no money.                                                     *)
LEMMA TickMoney ==
  ASSUME IInv, Money, Tick
  PROVE  Money' /\ (Settled => Settled')
PROOF
<1>1. /\ pos' = IF pos = Flat THEN Flat ELSE [pos EXCEPT !.age = Older(@, MaxHold + 1)]
      /\ cash' = cash /\ profit' = profit /\ entry' = entry
  BY DEF Tick
<1>2. /\ pos'.side = pos.side /\ pos'.cost = pos.cost /\ pos'.realized = pos.realized
      /\ pos'.quantity = pos.quantity
  BY <1>1 DEF IInv, Held, Shaped
<1>3. pos' = Flat <=> pos = Flat
  BY <1>1, <1>2 DEF IInv, Held, Flat
<1> QED
  BY <1>1, <1>2, <1>3 DEF Money, Settled

(* Every step keeps the money of the position.                              *)
LEMMA MoneyOK ==
  ASSUME IInv, Money, [Next]_vars
  PROVE  Money' /\ (Settled /\ WholeAverage => Settled')
PROOF
<1> USE DeskAssumption
<1>1. ASSUME NEW side \in {1, -1}, NEW stop \in Mid, NEW target \in Mid, NewEntry(side, stop, target)
      PROVE  Money' /\ (Settled => Settled')
  <2>1. /\ pos = Flat /\ pos' = pos /\ cash' = cash /\ profit' = profit
        /\ entry' = [side |-> side, rest |-> EntryQuantity, stop |-> stop, target |-> target]
    BY <1>1 DEF NewEntry
  <2>2. entry' \in [side: Sign, rest: Int, stop: Int, target: Int]
    BY <2>1 DEF Sign
  <2> QED
    BY <2>1, <2>2 DEF Money, Settled
<1>2. ASSUME NEW lag \in {0, 1}, NEW v \in View, NEW room \in BOOLEAN, Quote(lag, v, TRUE, room)
      PROVE  Money' /\ (Settled /\ WholeAverage => Settled')
  <2>1. v.mid \in Mid
    BY DEF View
  <2> QED
    BY <1>2, <2>1, QuoteMoney
<1>3. ASSUME NEW lag \in {0, 1}, NEW px \in Mid, Quote(lag, [mid |-> px, signs |-> {}], FALSE, FALSE)
      PROVE  Money' /\ (Settled /\ WholeAverage => Settled')
  BY <1>3, QuoteMoney
<1>4. CASE EntryEnds
  <2>1. NoEntry \in [side: Sign, rest: Int, stop: Int, target: Int]
    BY DEF NoEntry, Sign
  <2> QED
    BY <1>4, <2>1 DEF EntryEnds, Money, Settled
<1>5. CASE UNCHANGED vars
  BY <1>5 DEF vars, Money, Settled
<1> QED
  BY <1>1, <1>2, <1>3, <1>4, <1>5, EntryMoney, RestartMoney, TickMoney DEF Next

LEMMA MoneyInit == Init => Money /\ Settled
BY DEF Init, Money, Settled, Flat, NoEntry, Sign

LEMMA MoneyHolds == Spec => []Money
<1>1. IInv /\ Money /\ [Next]_vars => Money'
  BY MoneyOK
<1> QED
  BY <1>1, MoneyInit, InvariantHolds, PTL DEF Spec

(* What a position that is held has realized, over all its partial exits, is *)
(* what its fills paid, for any prices, whole averages or not.              *)
AccruesWhileHeld == pos # Flat => RealizedIsCash

THEOREM Accrues == Spec => []AccruesWhileHeld
<1>1. Money => AccruesWhileHeld
  BY DEF Money, AccruesWhileHeld, RealizedIsCash, Sign
<1> QED
  BY <1>1, MoneyHolds, PTL

(* The ClosedTrade reflects the full round trip: its pnl is what the fills   *)
(* paid, in every run whose average prices are whole.  The code divides     *)
(* without rounding; the model's division would lose the remainder.         *)
THEOREM RoundTrips == Spec /\ []WholeAverage => []RealizedIsCash
PROOF
<1>1. IInv /\ Money /\ Settled /\ WholeAverage /\ [Next]_vars => Settled'
  BY MoneyOK
<1>2. Money /\ Settled => RealizedIsCash
  <2>1. CASE pos = Flat
    BY <2>1 DEF Money, Settled, RealizedIsCash, Flat
  <2>2. CASE pos # Flat
    BY <2>2 DEF Money, RealizedIsCash, Sign
  <2> QED
    BY <2>1, <2>2
<1> QED
  BY <1>1, <1>2, MoneyInit, MoneyHolds, InvariantHolds, PTL DEF Spec
=============================================================================
