---------------------------- MODULE PositionDesk ----------------------------
(***************************************************************************)
(* One symbol's position from its first fill to flat: PositionManager       *)
(* (execution/positions.py) with its exit rules, the exits _submit_exit     *)
(* sends to the simulated venue, the position event log and what            *)
(* rebuild_positions makes of it (ledger.py), under any price path, with    *)
(* restarts.                                                               *)
(*                                                                         *)
(* Prices are whole and chosen so that average prices are.  Times are kept  *)
(* as the time since, capped where more makes no difference.  Entries are   *)
(* fills that arrive; PaperSession has their orders.                        *)
(***************************************************************************)
EXTENDS VenueOrder, FiniteSetsExt

CONSTANTS Mid,                  \* prices
          Take,                 \* shares a quote lets an order take
          EntryQuantity,        \* shares an entry is sized at
          MaxHold,              \* max_holding_seconds
          Persist,              \* adverse_micro_persist
          MaxTrades, MaxRestarts        \* bounds

ASSUME DeskAssumption ==
  /\ Mid \subseteq Nat \ {0} /\ Take \in Nat /\ EntryQuantity \in Nat
  /\ MaxHold \in Nat /\ Persist \in Nat \ {0}

VARIABLES pos,          \* the position in memory
          file,         \* what rebuild_positions makes of the log so far
          entry,        \* unfilled shares of the live entry, with its signal
          exit,         \* the live exit order, in the book and at the venue
          refused,      \* the last evaluation asked for an exit the gross cap refused
          adverse,      \* _micro_adverse_count
          beyond,       \* the last quote was evaluated, beyond the stop of the position
          cash,         \* what the fills paid since the position was opened or recovered
          profit,       \* the pnl of the last ClosedTrade
          trades, restarts

vars == <<pos, file, entry, exit, refused, adverse, beyond, cash, profit, trades, restarts>>

(* entry_price is kept as cost, the value of the quantity at that price.    *)
Flat == [side |-> 0, quantity |-> 0, cost |-> 0, stop |-> 0, target |-> 0, age |-> 0, realized |-> 0]

NoEntry == [side |-> 0, rest |-> 0, stop |-> 0, target |-> 0]

(* live: not terminal in the OrderManager.  since: time from submission.    *)
NoExit == [live |-> FALSE, w |-> Gone, since |-> 0]

Older(n, cap) == Min({n + 1, cap})

Init ==
  /\ pos = Flat /\ file = Flat
  /\ entry = NoEntry /\ exit = NoExit /\ refused = FALSE
  /\ adverse = 0 /\ beyond = FALSE /\ cash = 0 /\ profit = 0 /\ trades = 0 /\ restarts = 0

-----------------------------------------------------------------------------
(* Fills, in the position and in the log.                                   *)

(* on_entry_fill: the average price of what is held; stop and target stay   *)
(* those of the fill that opened the position.                              *)
EntryFill(p, qty, px, sig) ==
  IF p.quantity > 0
    THEN [p EXCEPT !.quantity = @ + qty, !.cost = @ + qty * px]
    ELSE [side |-> sig.side, quantity |-> qty, cost |-> qty * px,
          stop |-> sig.stop, target |-> sig.target, age |-> 0, realized |-> 0]

ExitFillLastChunk(p, qty, px) ==
  LET avg == p.cost \div p.quantity
  IN [p EXCEPT !.quantity = @ - qty, !.cost = @ - qty * avg, !.realized = p.side * (px - avg) * qty]

(* on_exit_fill: realized profit accrues over partial exits. *)
ExitFill(p, qty, px) ==
  LET avg == p.cost \div p.quantity
  IN [p EXCEPT !.quantity = @ - qty, !.cost = @ - qty * avg, !.realized = @ + p.side * (px - avg) * qty]

LoggedAtCost(f, row) ==
  IF row.kind = "entry" THEN EntryFill(f, row.qty, row.price, row.sig)
  ELSE IF row.qty >= f.quantity THEN Flat
  ELSE [f EXCEPT !.quantity = @ - row.qty, !.cost = @ - row.qty * row.price]

(* One more row of the log, as rebuild_positions nets it: exits leave at    *)
(* the average price.                                                      *)
Logged(f, row) ==
  IF row.kind = "entry" THEN EntryFill(f, row.qty, row.price, row.sig)
  ELSE IF row.qty >= f.quantity THEN Flat
  ELSE [f EXCEPT !.quantity = @ - row.qty, !.cost = @ - row.qty * (@ \div f.quantity)]

(* A signal was approved and submitted.                                     *)
NewEntry(side, stop, target) ==
  /\ pos = Flat /\ entry = NoEntry
  /\ trades < MaxTrades /\ trades' = trades + 1
  /\ side * (target - stop) > 0
  /\ entry' = [side |-> side, rest |-> EntryQuantity, stop |-> stop, target |-> target]
  /\ UNCHANGED <<pos, file, exit, refused, adverse, beyond, cash, profit, restarts>>

(* A partial fill of it.  The fill that completes it does not get here.     *)
EntryFills(qty, px) ==
  /\ qty >= MinFill /\ qty < entry.rest
  /\ entry' = [entry EXCEPT !.rest = @ - qty]
  /\ pos' = EntryFill(pos, qty, px, entry)
  /\ file' = Logged(file, [kind |-> "entry", qty |-> qty, price |-> px, sig |-> entry])
  /\ cash' = (IF pos = Flat THEN 0 ELSE cash) - entry.side * qty * px
  /\ profit' = 0
  /\ UNCHANGED <<exit, refused, adverse, beyond, trades, restarts>>

EntryEnds ==
  /\ entry # NoEntry
  /\ entry' = NoEntry
  /\ UNCHANGED <<pos, file, exit, refused, adverse, beyond, cash, profit, trades, restarts>>

-----------------------------------------------------------------------------
(* The exit rules.  A view is what one evaluation sees: the price and what  *)
(* else speaks for an exit: a spread beyond the limit, or else a microprice *)
(* against the position, a burst that resumed or that peers confirmed.      *)
View == [mid: Mid, signs: SUBSET {"against", "resumed"} \cup {{"wide"}}]

BeyondStop(p, price) == p.side * (price - p.stop) <= 0

PricedLongStopsOnly(p, v) == p.side * (v.mid - p.target) >= 0 \/ (p.side = 1 /\ BeyondStop(p, v.mid))

Priced(p, v) ==
  \/ BeyondStop(p, v.mid)
  \/ p.side * (v.mid - p.target) >= 0

OverdueNever(p) == FALSE

(* check_exits up to the spread: stop, target, time stop, spread.           *)
Overdue(p) == p.age > MaxHold

Urgent(p, v) == Priced(p, v) \/ Overdue(p) \/ "wide" \in v.signs

(* The count of evaluations in a row with the microprice against the        *)
(* position; one that ended at an earlier rule leaves it as it was.         *)
AdverseAfter(p, v) ==
  IF p = Flat THEN 0
  ELSE IF Urgent(p, v) THEN adverse
  ELSE IF "against" \in v.signs THEN Older(adverse, Persist) ELSE 0

CheckExits(p, v) ==
  p # Flat /\ (Urgent(p, v) \/ ("against" \in v.signs /\ AdverseAfter(p, v) = Persist) \/ "resumed" \in v.signs)

(* _submit_exit: a market order for the whole position, one at a time.      *)
(* create refuses it like any order when what is reserved, by the orders of *)
(* every symbol, leaves no room for it under max_gross_notional; the exit   *)
(* is then not sent, until an evaluation asks again.  What other orders     *)
(* reserve is left to chance.                                              *)
SubmitExit(x, p, room) ==
  IF x.live \/ ~room THEN x
  ELSE [live |-> TRUE, since |-> 0, w |-> Working("MARKET", "DAY", p.quantity, TRUE, 0, 0)]

(* on_quote: the venue fills the exit first, at the quote; then, if the     *)
(* quote is evaluated, the rules see what is left of the position.          *)
Quote(lag, v, evaluated, room) ==
  LET after == AfterQuote("exit", exit.w, Take, exit.since - lag, exit.since)
      qty == IF after[2] = <<>> THEN 0 ELSE after[2][1].qty
      filled == IF qty = 0 THEN pos ELSE ExitFill(pos, qty, v.mid)
      p == IF filled.quantity = 0 THEN Flat ELSE filled
      x == IF qty > 0 /\ after[1] = Gone THEN NoExit ELSE [exit EXCEPT !.w = after[1]]
  IN /\ pos' = p
     /\ file' = IF qty = 0 THEN file ELSE Logged(file, [kind |-> "exit", qty |-> qty, price |-> v.mid])
     /\ cash' = cash + pos.side * qty * v.mid
     /\ profit' = IF pos # Flat /\ p = Flat THEN filled.realized ELSE profit
     /\ exit' = IF evaluated /\ CheckExits(p, v) THEN SubmitExit(x, p, room) ELSE x
     /\ refused' = IF evaluated THEN CheckExits(p, v) /\ ~x.live /\ ~room ELSE refused
     /\ adverse' = IF evaluated THEN AdverseAfter(p, v) ELSE IF p = Flat THEN 0 ELSE adverse
     /\ beyond' = (evaluated /\ p # Flat /\ BeyondStop(p, v.mid))
     /\ UNCHANGED <<entry, trades, restarts>>

(* Time passes for the position, in memory and in the file, and the exit.   *)
Tick ==
  /\ pos' = IF pos = Flat THEN Flat ELSE [pos EXCEPT !.age = Older(@, MaxHold + 1)]
  /\ file' = IF file = Flat THEN Flat ELSE [file EXCEPT !.age = Older(@, MaxHold + 1)]
  /\ exit' = IF exit.w = Gone THEN exit ELSE [exit EXCEPT !.since = Older(@, Latency + 1)]
  /\ UNCHANGED <<entry, refused, adverse, beyond, cash, profit, trades, restarts>>

(* A new process: the position from its log, without the profit partial     *)
(* exits realized; an exit from the journal, which no venue knows.          *)
Restart ==
  /\ restarts < MaxRestarts /\ restarts' = restarts + 1
  /\ pos' = file
  /\ exit' = [NoExit EXCEPT !.live = exit.live]
  /\ entry' = NoEntry /\ refused' = FALSE /\ adverse' = 0 /\ beyond' = FALSE
  /\ cash' = -file.side * file.cost /\ profit' = 0
  /\ UNCHANGED <<file, trades>>

(* A quote with enough on offer, made now and evaluated.                    *)
LiquidQuote == \E v \in View, room \in BOOLEAN : Quote(0, v, TRUE, room)

Next ==
  \/ \E side \in {1, -1}, stop, target \in Mid : NewEntry(side, stop, target)
  \/ \E qty \in 1..entry.rest, px \in Mid : EntryFills(qty, px)
  \/ EntryEnds
  \/ \E lag \in {0, 1}, v \in View, room \in BOOLEAN : Quote(lag, v, TRUE, room)
  \/ \E lag \in {0, 1}, px \in Mid :
       Quote(lag, [mid |-> px, signs |-> {}], FALSE, FALSE)
  \/ Tick
  \/ Restart

Spec == Init /\ [][Next]_vars

FairSpec == Spec /\ WF_vars(Tick) /\ WF_vars(LiquidQuote)

-----------------------------------------------------------------------------
(* The log rebuilds the position that is in memory, whatever entry and exit *)
(* fills came in between: side, quantity, average price, stop, target and   *)
(* age; only the profit realized so far is not in it.                       *)
LogRebuildsPosition == file = [pos EXCEPT !.realized = 0]

(* "The ClosedTrade emitted at flat reflects the FULL round trip": what a   *)
(* position has realized, over all its partial exits, is what its fills     *)
(* paid, the shares still held counted at their average price, and so is    *)
(* the pnl of the trade it ends as.  A recovered position starts again at   *)
(* its average price.                                                      *)
RealizedIsCash == pos.realized + profit = cash + pos.side * pos.cost

(* After a quote beyond the stop was evaluated the position is gone or an   *)
(* exit is live, whichever rule fired first and whatever still filled,      *)
(* unless the gross cap refused the exit just then.                        *)
StopEndsInExit == beyond => exit.live \/ refused

(* A position ends, by its time stop at the latest, as long as quotes keep   *)
(* coming and the gross cap does not refuse its exits for ever, unless its  *)
(* exit is one a restart restored, or what is left of its exit is less than *)
(* the venue's smallest fill.                                              *)
Stuck == exit.live /\ (exit.w = Gone \/ Unfilled(exit.w) < MinFill)

EveryPositionEnds == <>[]~refused => ((pos # Flat) ~> (pos = Flat \/ Stuck))

(* "Exits (checked in priority order on every quote / feature update):      *)
(* 1. hard stop": after a quote beyond the stop was evaluated an exit that  *)
(* the gross cap did not refuse works at the venue.                        *)
StopIsWorked == beyond /\ ~refused => exit.w # Gone
=============================================================================
