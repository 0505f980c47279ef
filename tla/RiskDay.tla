------------------------------- MODULE RiskDay -------------------------------
(***************************************************************************)
(* One trading day of the risk layer: RiskManager (execution/risk.py),      *)
(* PortfolioRisk (risk2.py) and the RiskLedger they are restored from, with *)
(* the orders and positions of several symbols and restarts.               *)
(*                                                                         *)
(* Money is a whole number of units, an order its notional.  Cooldowns are  *)
(* kept as the time left.  The gates on spread, age, retries, net exposure   *)
(* and sector are left to chance.                                           *)
(***************************************************************************)
EXTENDS Integers, FiniteSets, FiniteSetsExt

CONSTANTS Symbol, Cluster,      \* symbols and their peer clusters
          Size,                 \* notional RiskManager.size may come to
          Scale, MaxScale,      \* size_multiplier before drawdown, vol_size_cap, in quarters
          Pnl,                  \* profits the fills of an exit may make
          MaxPositions, MaxPerCluster, MaxGross, MaxDailyLoss, MaxLosses,
          DdSoft, DdHard, DdHalt,
          SymbolCooldown, StrategyCooldown,
          MaxTrades, MaxRestarts        \* bounds

ASSUME RiskAssumption ==
  /\ Size \subseteq Nat \ {0} /\ Scale \subseteq Nat /\ MaxScale \in Nat /\ Pnl \subseteq Int
  /\ MaxGross \in Nat /\ SymbolCooldown \in Nat /\ StrategyCooldown \in Nat

VARIABLES order,        \* the live entry of each symbol
          exit,         \* the live exit of each symbol
          position,     \* notional of each open position, 0 for none
          accrued,      \* profit its partial exits realized, in memory
          earned,       \* profit its partial exits really made
          forgot,       \* what restarts forgot of that
          risk,         \* RiskManager
          folio,        \* PortfolioRisk
          ledger,       \* what load_day makes of today's rows
          day,          \* the trades closed today; lost: profit no book was told of
          live,         \* the process trades live, or on paper
          restarts

(* The profits of the open positions.                                       *)
profits == <<accrued, earned, forgot>>

vars == <<order, exit, position, profits, risk, folio, ledger, day, live, restarts>>

(* managed: by this process; an order restored after a restart keeps its     *)
(* symbol but has no timer and no venue.                                    *)
NoOrder == [size |-> 0, rest |-> 0, reserved |-> 0, managed |-> FALSE]

NewOrder(n) == [size |-> n, rest |-> n, reserved |-> n, managed |-> TRUE]

(* on_fill of part of an order: the reservation is scaled by the remaining  *)
(* fraction, rounded down.                                                  *)
AfterPart(o, qty) ==
  [o EXCEPT !.rest = @ - qty, !.reserved = (@ * (o.rest - qty)) \div o.size]

NewRisk == [pnl |-> 0, losses |-> 0, kill |-> FALSE,
            symbolCool |-> [s \in Symbol |-> 0], strategyCool |-> 0]

Init ==
  /\ order = [s \in Symbol |-> NoOrder]
  /\ exit = [s \in Symbol |-> NoOrder]
  /\ position = [s \in Symbol |-> 0]
  /\ accrued = [s \in Symbol |-> 0] /\ earned = [s \in Symbol |-> 0] /\ forgot = [s \in Symbol |-> 0]
  /\ risk = NewRisk
  /\ folio = [realized |-> 0, peak |-> 0, halted |-> FALSE]
  /\ ledger = [pnl |-> 0, losses |-> 0, halted |-> FALSE]
  /\ day = [pnl |-> 0, lost |-> 0, trades |-> 0, stopped |-> FALSE]
  /\ live \in BOOLEAN /\ restarts = 0

Total(f) == MapThenSumSet(LAMBDA s : f[s], Symbol)

Open == {s \in Symbol : position[s] > 0}

ReservedNotional == MapThenSumSet(LAMBDA s : order[s].reserved + exit[s].reserved, Symbol)

-----------------------------------------------------------------------------
(* The gates of a new entry of n units.                                     *)

RiskApproves(s, n) ==
  /\ ~risk.kill
  /\ risk.pnl > -MaxDailyLoss
  /\ risk.strategyCool = 0 /\ risk.symbolCool[s] = 0
  /\ s \notin Open
  /\ Cardinality(Open) < MaxPositions
  /\ Total(position) + n <= MaxGross

FolioApproves(s) ==
  /\ ~folio.halted
  /\ Total(position) + ReservedNotional < MaxGross
  /\ \A peers \in Cluster : s \in peers => Cardinality(Open \cap peers) < MaxPerCluster

(* A size times size_multiplier: cut by the drawdown, then capped.          *)
Scaled(n, q) ==
  LET dd == folio.peak - folio.realized
      cut == IF dd >= DdHard THEN 1 ELSE IF dd >= DdSoft THEN 2 ELSE 4
  IN (n * Min({q * cut, 4 * MaxScale})) \div 16

(* _submit_entry: the gates see the size before it is multiplied, the order  *)
(* manager reserves what it is multiplied to.                               *)
SubmitEntry(s, n, q) ==
  LET size == Scaled(n, q)
  IN /\ RiskApproves(s, n) /\ FolioApproves(s)
     /\ order[s] = NoOrder
     /\ size > 0
     /\ ReservedNotional + size <= MaxGross
     /\ order' = [order EXCEPT ![s] = NewOrder(size)]
     /\ UNCHANGED <<exit, position, profits, risk, folio, ledger, day, live, restarts>>

(* A partial fill of the entry, on paper: nothing tells a live process.     *)
EntryFills(s, qty) ==
  /\ order[s].managed /\ ~live
  /\ position' = [position EXCEPT ![s] = @ + qty]
  /\ order' = [order EXCEPT ![s] = AfterPart(@, qty)]
  /\ UNCHANGED <<exit, profits, risk, folio, ledger, day, live, restarts>>

(* The entry is cancelled, expires, is rejected or traded completely; the   *)
(* fill that completes it does not reach the position.                      *)
EntryEnds(s) ==
  /\ order[s].managed
  /\ order' = [order EXCEPT ![s] = NoOrder]
  /\ UNCHANGED <<exit, position, profits, risk, folio, ledger, day, live, restarts>>

(* _submit_exit: an exit reserves its notional like any order, and is       *)
(* refused where that exceeds the cap.                                      *)
SubmitExit(s) ==
  /\ s \in Open /\ exit[s] = NoOrder
  /\ ReservedNotional + position[s] <= MaxGross
  /\ exit' = [exit EXCEPT ![s] = NewOrder(position[s])]
  /\ UNCHANGED <<order, position, profits, risk, folio, ledger, day, live, restarts>>

(* A fill of the exit after which something is left of the position, the    *)
(* entry's later fills included: its profit is kept with the position, in   *)
(* memory only.                                                            *)
ExitFills(s, qty, pnl) ==
  /\ exit[s].managed /\ ~live
  /\ qty < position[s]
  /\ position' = [position EXCEPT ![s] = @ - qty]
  /\ exit' = [exit EXCEPT ![s] = IF qty = @.rest THEN NoOrder ELSE AfterPart(@, qty)]
  /\ accrued' = [accrued EXCEPT ![s] = @ + pnl]
  /\ earned' = [earned EXCEPT ![s] = @ + pnl]
  /\ UNCHANGED <<order, forgot, risk, folio, ledger, day, live, restarts>>

-----------------------------------------------------------------------------
(* The end of a round trip, in the three books that keep it.                *)

Larger(a, b) == IF a > b THEN a ELSE b

RiskAfterStreakless(s, pnl) ==
  [risk EXCEPT !.pnl = @ + pnl, !.losses = IF pnl < 0 THEN @ + 1 ELSE @]

(* RiskManager.on_trade_closed: a streak at its maximum pauses the strategy *)
(* and starts over.                                                         *)
RiskAfter(s, pnl) ==
  LET losses == IF pnl < 0 THEN risk.losses + 1 ELSE 0
      pause == losses >= MaxLosses
  IN [risk EXCEPT !.pnl = @ + pnl,
                  !.losses = IF pause THEN 0 ELSE losses,
                  !.symbolCool[s] = IF pnl < 0 THEN SymbolCooldown ELSE @,
                  !.strategyCool = IF pause THEN StrategyCooldown ELSE @]

(* PortfolioRisk.on_trade_closed. *)
FolioAfter(pnl) ==
  LET realized == folio.realized + pnl
      peak == Larger(folio.peak, realized)
  IN [realized |-> realized, peak |-> peak,
      halted |-> folio.halted \/ peak - realized >= DdHalt]

(* The rows of the ledger, as load_day adds them up: a halt if this trade   *)
(* brings it, and the trade.                                                *)
LedgerAfter(pnl) ==
  [pnl |-> ledger.pnl + pnl, losses |-> IF pnl > 0 THEN 0 ELSE ledger.losses + 1,
   halted |-> ledger.halted \/ FolioAfter(pnl).halted]

(* The position of s ends: nothing of its profit is kept.                   *)
ProfitEnds(f, s) == [f EXCEPT ![s] = 0]

(* The pnl of the ClosedTrade when its last fill makes that profit: what    *)
(* the position has realized, with it.                                      *)
TradePnlLastFill(s, pnl) == pnl

TradePnl(s, pnl) == accrued[s] + pnl

(* _on_fill of the exit that leaves the position flat. *)
TradeCloses(s, pnl) ==
  LET total == TradePnl(s, pnl)
  IN /\ exit[s].managed /\ ~live
     /\ exit[s].rest = position[s]
     /\ day.trades < MaxTrades
     /\ position' = [position EXCEPT ![s] = 0]
     /\ exit' = [exit EXCEPT ![s] = NoOrder]
     /\ risk' = RiskAfter(s, total)
     /\ folio' = FolioAfter(total)
     /\ ledger' = LedgerAfter(total)
     /\ accrued' = ProfitEnds(accrued, s)
     /\ earned' = ProfitEnds(earned, s)
     /\ forgot' = ProfitEnds(forgot, s)
     /\ day' = [pnl |-> day.pnl + earned[s] + pnl, lost |-> day.lost + forgot[s],
                trades |-> day.trades + 1, stopped |-> day.stopped \/ FolioAfter(total).halted]
     /\ UNCHANGED <<order, live, restarts>>

(* on_tick of a live process finds the broker's positions different: it     *)
(* fails closed.                                                            *)
ReconcileFails ==
  /\ live
  /\ risk' = [risk EXCEPT !.kill = TRUE]
  /\ ledger' = [ledger EXCEPT !.halted = TRUE]
  /\ day' = [day EXCEPT !.stopped = TRUE]
  /\ UNCHANGED <<order, exit, position, profits, folio, live, restarts>>

Tick ==
  /\ risk' = [risk EXCEPT !.symbolCool = [s \in Symbol |-> IF @[s] > 0 THEN @[s] - 1 ELSE 0],
                          !.strategyCool = IF @ > 0 THEN @ - 1 ELSE 0]
  /\ UNCHANGED <<order, exit, position, profits, folio, ledger, day, live, restarts>>

Recovered(o) == [size |-> o.size, rest |-> o.rest, reserved |-> 0, managed |-> FALSE]

(* restore of the PortfolioRisk: the peak of the day is not in the ledger.  *)
Restored(l) == [realized |-> l.pnl, peak |-> Larger(0, l.pnl), halted |-> l.halted]

NewProcessForgetful(exits, l) ==
  /\ restarts < MaxRestarts
  /\ restarts' = restarts + 1
  /\ live' \in BOOLEAN
  /\ order' = [s \in Symbol |-> Recovered(order[s])]
  /\ exit' = [s \in Symbol |-> Recovered(exits[s])]
  /\ risk' = NewRisk
  /\ folio' = Restored(l)
  /\ accrued' = [s \in Symbol |-> 0]

(* recover(), on the same day: open positions without what their partial    *)
(* exits realized, live orders without their reservations, and the day from *)
(* the ledger l.                                                           *)
NewProcess(exits, l) ==
  /\ restarts < MaxRestarts
  /\ restarts' = restarts + 1
  /\ live' \in BOOLEAN
  /\ order' = [s \in Symbol |-> Recovered(order[s])]
  /\ exit' = [s \in Symbol |-> Recovered(exits[s])]
  /\ risk' = [NewRisk EXCEPT !.pnl = l.pnl, !.losses = l.losses]
  /\ folio' = Restored(l)
  /\ accrued' = [s \in Symbol |-> 0]

Restart ==
  /\ NewProcess(exit, ledger)
  /\ forgot' = [s \in Symbol |-> forgot[s] + accrued[s]]
  /\ UNCHANGED <<position, earned, ledger, day>>

(* A crash inside _on_fill of that exit.  The order is FILLED in the        *)
(* journal; at is the last row written after that: none, the fill of the    *)
(* position log, or the halt the trade brings.  Its profit is in no file.   *)
CrashClosing(s, pnl, at) ==
  LET halts == at = "halt" /\ FolioAfter(TradePnl(s, pnl)).halted
  IN /\ exit[s].managed /\ ~live
     /\ exit[s].rest = position[s]
     /\ day.trades < MaxTrades
     /\ position' = IF at = "none" THEN position ELSE [position EXCEPT ![s] = 0]
     /\ ledger' = [ledger EXCEPT !.halted = @ \/ halts]
     /\ earned' = ProfitEnds(earned, s)
     /\ forgot' = ProfitEnds([t \in Symbol |-> forgot[t] + accrued[t]], s)
     /\ day' = [pnl |-> day.pnl + earned[s] + pnl, lost |-> day.lost + forgot[s] + accrued[s] + pnl,
                trades |-> day.trades + 1, stopped |-> day.stopped \/ halts]
     /\ NewProcess([exit EXCEPT ![s] = NoOrder], ledger')

Next ==
  \/ \E s \in Symbol, n \in Size, q \in Scale : SubmitEntry(s, n, q)
  \/ \E s \in Symbol : \E qty \in 1..(order[s].rest - 1) : EntryFills(s, qty)
  \/ \E s \in Symbol : EntryEnds(s) \/ SubmitExit(s)
  \/ \E s \in Symbol : \E qty \in 1..exit[s].rest, pnl \in Pnl : ExitFills(s, qty, pnl)
  \/ \E s \in Symbol, pnl \in Pnl : TradeCloses(s, pnl)
  \/ ReconcileFails
  \/ Tick
  \/ Restart
  \/ \E s \in Symbol, pnl \in Pnl, at \in {"none", "fill", "halt"} : CrashClosing(s, pnl, at)

Spec == Init /\ [][Next]_vars

-----------------------------------------------------------------------------

(* Every book of the day's profit has what the fills of the closed trades    *)
(* made, partial exits included, but for what no file has: what partial     *)
(* exits had realized when the process restarted, and the trades during     *)
(* whose closing fill it crashed.  An open position has realized in memory  *)
(* what its exits made since the last restart.                              *)
BooksAgree ==
  /\ \A pnl \in {risk.pnl, folio.realized, ledger.pnl} : pnl = day.pnl - day.lost
  /\ \A s \in Symbol : accrued[s] = earned[s] - forgot[s]

(* A restart never forgets a losing streak: the ledger's count is at least  *)
(* the one the RiskManager has.                                             *)
StreakSurvives == ledger.losses >= risk.losses

(* Past the daily loss limit, or after a stop, no entry is submitted, by    *)
(* this process or by one started later that day.  The limit is on the      *)
(* profits the books were told of: neither a trade lost to a crash nor what *)
(* a restart forgot of partial exits counts towards it.                     *)
NoEntryPastLimits ==
  [][ (\E s \in Symbol : order[s] = NoOrder /\ order'[s] # NoOrder)
        => day.pnl - day.lost > -MaxDailyLoss /\ ~day.stopped ]_vars

=============================================================================
