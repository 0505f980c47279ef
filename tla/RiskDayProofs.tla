---------------------------- MODULE RiskDayProofs ----------------------------
(***************************************************************************)
(* Proofs about RiskDay, for every set of symbols and clusters, every size, *)
(* profit, limit and cooldown, and any number of trades and restarts.       *)
(***************************************************************************)
EXTENDS RiskDay, TLAPS

(* The records of a RiskManager. *)
RiskSet == [pnl: Int, losses: Nat, kill: BOOLEAN, symbolCool: [Symbol -> Int], strategyCool: Int]

(* The fields that the books of the day are made of.                        *)
Typed ==
  /\ order = [s \in Symbol |-> order[s]]
  /\ accrued \in [Symbol -> Int] /\ earned \in [Symbol -> Int] /\ forgot \in [Symbol -> Int]
  /\ risk \in RiskSet
  /\ folio \in [realized: Int, peak: Int, halted: BOOLEAN]
  /\ ledger \in [pnl: Int, losses: Nat, halted: BOOLEAN]
  /\ day \in [pnl: Int, lost: Int, trades: Nat, stopped: BOOLEAN]

(* A stop is known to this process and to the ledger of the next one.       *)
StopKnown == day.stopped => ledger.halted /\ (risk.kill \/ folio.halted)

IInv == Typed /\ BooksAgree /\ StreakSurvives /\ StopKnown

(* Every initial state has the invariant.                                   *)
LEMMA InitOK == Init => IInv
BY DEF Init, NewRisk, IInv, Typed, RiskSet, BooksAgree, StreakSurvives, StopKnown

-----------------------------------------------------------------------------
(* Orders move on without the books.                                        *)
LEMMA OrdersOK ==
  ASSUME IInv, UNCHANGED <<profits, risk, folio, ledger, day>>,
         order' = order \/ \E s \in Symbol : \E o : order' = [order EXCEPT ![s] = o]
  PROVE  IInv'
PROOF
<1>1. order' = [s \in Symbol |-> order'[s]]
  BY DEF IInv, Typed
<1> QED
  BY <1>1 DEF IInv, Typed, BooksAgree, StreakSurvives, StopKnown, profits

(* A partial exit makes profit that only the position knows of.             *)
LEMMA ExitOK ==
  ASSUME IInv, NEW s \in Symbol, NEW qty, NEW pnl \in Pnl, ExitFills(s, qty, pnl)
  PROVE  IInv'
PROOF
<1>1. /\ accrued' = [accrued EXCEPT ![s] = @ + pnl] /\ earned' = [earned EXCEPT ![s] = @ + pnl]
      /\ UNCHANGED <<order, forgot, risk, folio, ledger, day>>
  BY DEF ExitFills
<1>2. /\ pnl \in Int /\ accrued \in [Symbol -> Int] /\ earned \in [Symbol -> Int]
      /\ forgot \in [Symbol -> Int]
  BY RiskAssumption DEF IInv, Typed
<1>3. accrued' \in [Symbol -> Int] /\ earned' \in [Symbol -> Int]
  BY <1>1, <1>2
<1>4. \A t \in Symbol : accrued'[t] = earned'[t] - forgot'[t]
  BY <1>1, <1>2 DEF IInv, BooksAgree
<1> QED
  BY <1>1, <1>3, <1>4 DEF IInv, Typed, BooksAgree, StreakSurvives, StopKnown

(* A position that ends leaves no profit in memory, and a restart leaves    *)
(* none of any position: what is forgotten makes up for it.                 *)
LEMMA ProfitsEnd ==
  ASSUME NEW f \in [Symbol -> Int], NEW s \in Symbol
  PROVE  /\ ProfitEnds(f, s) \in [Symbol -> Int]
         /\ \A t \in Symbol : ProfitEnds(f, s)[t] = IF t = s THEN 0 ELSE f[t]
BY DEF ProfitEnds

(* The three books after a round trip, and what really happened.            *)
LEMMA TradeOK ==
  ASSUME IInv, NEW s \in Symbol, NEW last \in Pnl, TradeCloses(s, last)
  PROVE  IInv'
PROOF
<1> USE RiskAssumption
<1> DEFINE pnl == TradePnl(s, last)
<1>1. /\ last \in Int /\ accrued[s] \in Int /\ earned[s] \in Int /\ forgot[s] \in Int
      /\ pnl \in Int /\ pnl = accrued[s] + last
  BY DEF IInv, Typed, TradePnl
<1> HIDE DEF pnl
<1>2. risk' = RiskAfter(s, pnl) /\ folio' = FolioAfter(pnl) /\ ledger' = LedgerAfter(pnl)
  BY DEF TradeCloses, pnl
<1>3. /\ day' = [pnl |-> day.pnl + earned[s] + last, lost |-> day.lost + forgot[s],
                 trades |-> day.trades + 1, stopped |-> day.stopped \/ FolioAfter(pnl).halted]
      /\ order' = order
      /\ accrued' = ProfitEnds(accrued, s) /\ earned' = ProfitEnds(earned, s)
      /\ forgot' = ProfitEnds(forgot, s)
  BY DEF TradeCloses, pnl
<1>4. /\ risk' \in RiskSet
      /\ risk'.pnl = risk.pnl + pnl /\ risk'.kill = risk.kill
      /\ risk'.losses \in {0, IF pnl < 0 THEN risk.losses + 1 ELSE 0}
  <2> DEFINE losses == IF pnl < 0 THEN risk.losses + 1 ELSE 0
             kept == IF losses >= MaxLosses THEN 0 ELSE losses
             cool == [risk.symbolCool EXCEPT ![s] = IF pnl < 0 THEN SymbolCooldown ELSE @]
             strategy == IF losses >= MaxLosses THEN StrategyCooldown ELSE risk.strategyCool
             risk1 == [risk EXCEPT !.pnl = @ + pnl]
             risk2 == [risk1 EXCEPT !.losses = kept]
             risk3 == [risk2 EXCEPT !.symbolCool = cool]
  <2>1. risk' = [risk3 EXCEPT !.strategyCool = strategy]
    BY <1>2 DEF IInv, Typed, RiskSet, RiskAfter
  <2>2. cool \in [Symbol -> Int]
    BY DEF IInv, Typed, RiskSet
  <2>3. strategy \in Int /\ kept \in Nat /\ kept \in {0, IF pnl < 0 THEN risk.losses + 1 ELSE 0}
    BY <1>1 DEF IInv, Typed, RiskSet
  <2> HIDE DEF losses, kept, cool, strategy
  <2>4. risk1 \in RiskSet /\ risk1.pnl = risk.pnl + pnl /\ risk1.kill = risk.kill
    BY <1>1 DEF IInv, Typed, RiskSet
  <2> HIDE DEF risk1
  <2>5. /\ risk2 \in RiskSet /\ risk2.pnl = risk.pnl + pnl /\ risk2.kill = risk.kill
        /\ risk2.losses = kept
    BY <2>3, <2>4 DEF RiskSet
  <2> HIDE DEF risk2
  <2>6. /\ risk3 \in RiskSet /\ risk3.pnl = risk.pnl + pnl /\ risk3.kill = risk.kill
        /\ risk3.losses = kept
    BY <2>2, <2>5 DEF RiskSet
  <2> HIDE DEF risk3
  <2> QED
    BY <2>1, <2>3, <2>6 DEF RiskSet
<1>5. /\ folio'.realized = folio.realized + pnl /\ folio'.realized \in Int
      /\ folio'.peak \in Int
      /\ folio'.halted = FolioAfter(pnl).halted
  BY <1>1, <1>2 DEF IInv, Typed, FolioAfter, Larger
<1>6. FolioAfter(pnl).halted \in BOOLEAN
  BY DEF FolioAfter
<1>7. folio' \in [realized: Int, peak: Int, halted: BOOLEAN]
  BY <1>1, <1>2 DEF IInv, Typed, FolioAfter, Larger
<1>8. /\ ledger'.pnl = ledger.pnl + pnl
      /\ ledger'.losses = IF pnl > 0 THEN 0 ELSE ledger.losses + 1
      /\ ledger'.halted = (ledger.halted \/ FolioAfter(pnl).halted)
      /\ ledger' \in [pnl: Int, losses: Nat, halted: BOOLEAN]
  BY <1>1, <1>2, <1>6 DEF IInv, Typed, LedgerAfter
<1>9. Typed'
  <2>1. accrued' \in [Symbol -> Int] /\ earned' \in [Symbol -> Int] /\ forgot' \in [Symbol -> Int]
    BY <1>3, ProfitsEnd DEF IInv, Typed
  <2> QED
    BY <1>1, <1>3, <1>4, <1>6, <1>7, <1>8, <2>1 DEF IInv, Typed
<1>10. BooksAgree'
  <2>1. \A t \in Symbol : accrued'[t] = earned'[t] - forgot'[t]
    <3> SUFFICES ASSUME NEW t \in Symbol PROVE accrued'[t] = earned'[t] - forgot'[t]
      OBVIOUS
    <3>1. accrued'[t] = IF t = s THEN 0 ELSE accrued[t]
      BY <1>3, ProfitsEnd DEF IInv, Typed
    <3>2. earned'[t] = IF t = s THEN 0 ELSE earned[t]
      BY <1>3, ProfitsEnd DEF IInv, Typed
    <3>3. forgot'[t] = IF t = s THEN 0 ELSE forgot[t]
      BY <1>3, ProfitsEnd DEF IInv, Typed
    <3>4. accrued[t] = earned[t] - forgot[t]
      BY DEF IInv, BooksAgree
    <3> QED
      BY <3>1, <3>2, <3>3, <3>4
  <2>2. day'.pnl - day'.lost = (day.pnl - day.lost) + pnl
    BY <1>1, <1>3 DEF IInv, Typed, BooksAgree
  <2> QED
    BY <1>1, <1>4, <1>5, <1>8, <2>1, <2>2 DEF IInv, Typed, BooksAgree
<1>11. StreakSurvives'
  BY <1>1, <1>4, <1>8 DEF IInv, Typed, RiskSet, StreakSurvives
<1>12. StopKnown'
  <2>1. folio.halted => FolioAfter(pnl).halted
    BY DEF FolioAfter
  <2>2. day'.stopped = (day.stopped \/ FolioAfter(pnl).halted)
    BY <1>3
  <2> QED
    BY <1>4, <1>5, <1>8, <2>1, <2>2, Zenon DEF IInv, StopKnown
<1> QED
  BY <1>9, <1>10, <1>11, <1>12 DEF IInv

(* Time, and what a failed reconcile stops.                                 *)
LEMMA StopOK ==
  ASSUME IInv, Tick \/ ReconcileFails
  PROVE  IInv'
PROOF
<1>1. CASE Tick
  <2>1. risk' \in RiskSet
    <3> DEFINE cool == [s \in Symbol |-> IF risk.symbolCool[s] > 0 THEN risk.symbolCool[s] - 1 ELSE 0]
               strategy == IF risk.strategyCool > 0 THEN risk.strategyCool - 1 ELSE 0
    <3>1. cool \in [Symbol -> Int] /\ strategy \in Int
      BY DEF IInv, Typed, RiskSet
    <3>2. risk' = [[risk EXCEPT !.symbolCool = cool] EXCEPT !.strategyCool = strategy]
      BY <1>1 DEF IInv, Typed, Tick
    <3> HIDE DEF cool, strategy
    <3> QED
      BY <3>1, <3>2 DEF IInv, Typed, RiskSet
  <2>2. risk'.pnl = risk.pnl /\ risk'.losses = risk.losses /\ risk'.kill = risk.kill
    BY <1>1 DEF IInv, Typed, Tick
  <2> QED
    BY <1>1, <2>1, <2>2 DEF IInv, Typed, BooksAgree, StreakSurvives, StopKnown, Tick, profits
<1>2. CASE ReconcileFails
  BY <1>2 DEF IInv, Typed, RiskSet, BooksAgree, StreakSurvives, StopKnown, ReconcileFails, profits
<1> QED
  BY <1>1, <1>2

(* A new process has the day from its ledger.                               *)
LEMMA NewProcessOK ==
  ASSUME NEW exits, NEW l \in [pnl: Int, losses: Nat, halted: BOOLEAN], NewProcess(exits, l)
  PROVE  /\ order' = [s \in Symbol |-> order'[s]]
         /\ risk' \in RiskSet /\ risk'.pnl = l.pnl /\ risk'.losses = l.losses
         /\ folio' \in [realized: Int, peak: Int, halted: BOOLEAN]
         /\ folio'.realized = l.pnl /\ folio'.halted = l.halted
         /\ accrued' = [s \in Symbol |-> 0]
PROOF
<1>1. order' = [s \in Symbol |-> order'[s]]
  BY DEF NewProcess
<1>2. risk' \in RiskSet /\ risk'.pnl = l.pnl /\ risk'.losses = l.losses
  <2> DEFINE cool == [s \in Symbol |-> 0]
  <2>1. risk' = [pnl |-> l.pnl, losses |-> l.losses, kill |-> FALSE,
                 symbolCool |-> cool, strategyCool |-> 0]
    BY DEF NewProcess, NewRisk
  <2>2. cool \in [Symbol -> Int]
    OBVIOUS
  <2>3. l.pnl \in Int /\ l.losses \in Nat
    OBVIOUS
  <2> HIDE DEF cool
  <2>4. \A c \in [Symbol -> Int], p \in Int, n \in Nat :
          [pnl |-> p, losses |-> n, kill |-> FALSE, symbolCool |-> c, strategyCool |-> 0]
            \in RiskSet
    BY DEF RiskSet
  <2>5. [pnl |-> l.pnl, losses |-> l.losses, kill |-> FALSE,
         symbolCool |-> cool, strategyCool |-> 0] \in RiskSet
    BY <2>2, <2>3, <2>4
  <2>6. risk'.pnl = l.pnl /\ risk'.losses = l.losses
    BY <2>1
  <2> QED
    BY <2>1, <2>5, <2>6
<1>3. /\ folio' \in [realized: Int, peak: Int, halted: BOOLEAN]
      /\ folio'.realized = l.pnl /\ folio'.halted = l.halted
  BY DEF NewProcess, Restored, Larger
<1>4. accrued' = [s \in Symbol |-> 0]
  BY DEF NewProcess
<1> QED
  BY <1>1, <1>2, <1>3, <1>4

(* A restart, after any handler or inside the one that closes a trade.      *)
LEMMA RestartOK ==
  ASSUME IInv,
         \/ Restart
         \/ \E s \in Symbol, pnl \in Pnl, at \in {"none", "fill", "halt"} : CrashClosing(s, pnl, at)
  PROVE  IInv'
PROOF
<1>1. CASE Restart
  <2>1. ledger \in [pnl: Int, losses: Nat, halted: BOOLEAN]
    BY DEF IInv, Typed
  <2>2. /\ NewProcess(exit, ledger) /\ UNCHANGED <<earned, ledger, day>>
        /\ forgot' = [s \in Symbol |-> forgot[s] + accrued[s]]
    BY <1>1 DEF Restart
  <2>3. accrued' = [s \in Symbol |-> 0]
    BY <2>1, <2>2, NewProcessOK
  <2>4. forgot' \in [Symbol -> Int] /\ accrued' \in [Symbol -> Int]
    BY <2>2, <2>3 DEF IInv, Typed
  <2>5. \A s \in Symbol : accrued'[s] = earned'[s] - forgot'[s]
    BY <2>2, <2>3 DEF IInv, Typed, BooksAgree
  <2> QED
    BY <2>1, <2>2, <2>4, <2>5, NewProcessOK DEF IInv, Typed, BooksAgree, StreakSurvives, StopKnown
<1>2. ASSUME NEW s \in Symbol, NEW pnl \in Pnl, NEW at \in {"none", "fill", "halt"},
             CrashClosing(s, pnl, at)
      PROVE  IInv'
  <2> DEFINE halts == at = "halt" /\ FolioAfter(TradePnl(s, pnl)).halted
             forgotten == [t \in Symbol |-> forgot[t] + accrued[t]]
  <2>1. /\ pnl \in Int /\ accrued[s] \in Int /\ earned[s] \in Int /\ forgot[s] \in Int
        /\ accrued[s] = earned[s] - forgot[s]
        /\ forgotten \in [Symbol -> Int] /\ earned \in [Symbol -> Int]
    BY RiskAssumption DEF IInv, Typed, BooksAgree
  <2>2. halts \in BOOLEAN
    BY DEF FolioAfter
  <2>3. /\ ledger' = [ledger EXCEPT !.halted = @ \/ halts]
        /\ earned' = ProfitEnds(earned, s) /\ forgot' = ProfitEnds(forgotten, s)
        /\ day' = [pnl |-> day.pnl + earned[s] + pnl, lost |-> day.lost + forgot[s] + accrued[s] + pnl,
                   trades |-> day.trades + 1, stopped |-> day.stopped \/ halts]
        /\ NewProcess([exit EXCEPT ![s] = NoOrder], ledger')
    BY <1>2 DEF CrashClosing
  <2> HIDE DEF halts
  <2>4. /\ ledger' \in [pnl: Int, losses: Nat, halted: BOOLEAN]
        /\ ledger'.pnl = ledger.pnl /\ ledger'.losses = ledger.losses
        /\ ledger'.halted = (ledger.halted \/ halts)
    BY <2>2, <2>3 DEF IInv, Typed
  <2>5. /\ day' \in [pnl: Int, lost: Int, trades: Nat, stopped: BOOLEAN]
        /\ day'.pnl - day'.lost = day.pnl - day.lost
        /\ day'.stopped = (day.stopped \/ halts)
    BY <2>1, <2>2, <2>3 DEF IInv, Typed
  <2>6. /\ order' = [t \in Symbol |-> order'[t]]
        /\ risk' \in RiskSet /\ risk'.pnl = ledger'.pnl /\ risk'.losses = ledger'.losses
        /\ folio' \in [realized: Int, peak: Int, halted: BOOLEAN]
        /\ folio'.realized = ledger'.pnl /\ folio'.halted = ledger'.halted
        /\ accrued' = [t \in Symbol |-> 0]
    BY <2>3, <2>4, NewProcessOK
  <2>7. Typed'
    <3>1. earned' \in [Symbol -> Int] /\ forgot' \in [Symbol -> Int]
      <4> HIDE DEF forgotten
      <4> QED
        BY <2>1, <2>3, ProfitsEnd
    <3>2. accrued' \in [Symbol -> Int]
      BY <2>6
    <3> QED
      BY <2>4, <2>5, <2>6, <3>1, <3>2 DEF Typed
  <2>8. BooksAgree'
    <3>1. \A t \in Symbol : accrued'[t] = earned'[t] - forgot'[t]
      <4> SUFFICES ASSUME NEW t \in Symbol PROVE accrued'[t] = earned'[t] - forgot'[t]
        OBVIOUS
      <4>1. /\ earned'[t] = IF t = s THEN 0 ELSE earned[t]
            /\ forgot'[t] = IF t = s THEN 0 ELSE forgotten[t]
        BY <2>1, <2>3, ProfitsEnd
      <4>2. forgotten[t] = forgot[t] + accrued[t] /\ accrued[t] = earned[t] - forgot[t]
        BY DEF IInv, BooksAgree
      <4>3. accrued[t] \in Int /\ earned[t] \in Int /\ forgot[t] \in Int
        BY DEF IInv, Typed
      <4> HIDE DEF forgotten
      <4> QED
        BY <2>6, <4>1, <4>2, <4>3
    <3> QED
      BY <2>4, <2>5, <2>6, <3>1 DEF IInv, BooksAgree
  <2>9. StreakSurvives'
    BY <2>4, <2>6 DEF IInv, Typed, StreakSurvives
  <2>10. StopKnown'
    BY <2>4, <2>5, <2>6, Zenon DEF IInv, StopKnown
  <2> QED
    BY <2>7, <2>8, <2>9, <2>10 DEF IInv
<1> QED
  BY <1>1, <1>2

(* The invariant in every reachable state.                                  *)
THEOREM InvariantHolds == Spec => []IInv
PROOF
<1>1. IInv /\ [Next]_vars => IInv'
  <2> SUFFICES ASSUME IInv, [Next]_vars PROVE IInv'
    OBVIOUS
  <2>1. ASSUME NEW s \in Symbol, NEW n \in Size, NEW q \in Scale, SubmitEntry(s, n, q) PROVE IInv'
    BY <2>1, OrdersOK DEF SubmitEntry
  <2>2. ASSUME NEW s \in Symbol, NEW qty \in 1..(order[s].rest - 1), EntryFills(s, qty) PROVE IInv'
    BY <2>2, OrdersOK DEF EntryFills
  <2>3. ASSUME NEW s \in Symbol, EntryEnds(s) \/ SubmitExit(s) PROVE IInv'
    BY <2>3, OrdersOK DEF EntryEnds, SubmitExit
  <2>4. ASSUME NEW s \in Symbol, NEW qty \in 1..exit[s].rest, NEW pnl \in Pnl, ExitFills(s, qty, pnl)
        PROVE  IInv'
    BY <2>4, ExitOK
  <2>5. CASE UNCHANGED vars
    BY <2>5, OrdersOK DEF vars
  <2> QED
    BY <2>1, <2>2, <2>3, <2>4, <2>5, TradeOK, StopOK, RestartOK DEF Next
<1> QED
  BY <1>1, InitOK, PTL DEF Spec

(* The RiskManager, PortfolioRisk and the ledger have the profit that the   *)
(* fills of the closed trades made, but for what restarts forgot of partial *)
(* exits and for the trades a crash cut off; and a position has what its    *)
(* exits made since the last restart.                                       *)
THEOREM ProfitsAgree == Spec => []BooksAgree
PROOF
<1>1. IInv => BooksAgree
  BY DEF IInv
<1> QED
  BY <1>1, InvariantHolds, PTL

(* A restart never forgets a losing streak.                                 *)
THEOREM StreaksSurvive == Spec => []StreakSurvives
PROOF
<1>1. IInv => StreakSurvives
  BY DEF IInv
<1> QED
  BY <1>1, InvariantHolds, PTL

(* No entry is submitted past the daily loss limit, counted in the profits  *)
(* the books were told of, or after a halt or a failed reconcile of that    *)
(* day, by any process of the day.                                          *)
THEOREM LimitsHold == Spec => NoEntryPastLimits
PROOF
<1>1. IInv /\ [Next]_vars =>
        [ (\E s \in Symbol : order[s] = NoOrder /\ order'[s] # NoOrder)
            => day.pnl - day.lost > -MaxDailyLoss /\ ~day.stopped ]_vars
  <2> SUFFICES ASSUME IInv, Next,
                      NEW t \in Symbol, order[t] = NoOrder, order'[t] # NoOrder
               PROVE  day.pnl - day.lost > -MaxDailyLoss /\ ~day.stopped
    OBVIOUS
  <2>1. ~ \E s \in Symbol : \E qty \in 1..(order[s].rest - 1) : EntryFills(s, qty)
    <3> SUFFICES ASSUME NEW s \in Symbol, NEW qty \in 1..(order[s].rest - 1), EntryFills(s, qty)
                 PROVE  FALSE
      OBVIOUS
    <3>1. s # t
      BY DEF EntryFills, NoOrder
    <3> QED
      BY <3>1 DEF EntryFills, IInv, Typed
  <2>2. ~ \E s \in Symbol : EntryEnds(s)
    <3> SUFFICES ASSUME NEW s \in Symbol, EntryEnds(s) PROVE FALSE
      OBVIOUS
    <3> QED
      BY DEF EntryEnds, IInv, Typed
  <2>3. \A exits, l : ~ NewProcess(exits, l)
    <3>1. Recovered(NoOrder) = NoOrder
      BY DEF Recovered, NoOrder
    <3>2. \A exits, l : NewProcess(exits, l) => order'[t] = Recovered(order[t])
      BY DEF NewProcess
    <3> QED
      BY <3>1, <3>2
  <2>4. PICK s \in Symbol, n \in Size, q \in Scale : SubmitEntry(s, n, q)
    BY <2>1, <2>2, <2>3 DEF Next, SubmitExit, ExitFills, TradeCloses, ReconcileFails, Tick, Restart, CrashClosing
  <2>5. risk.pnl > -MaxDailyLoss /\ ~risk.kill /\ ~folio.halted
    BY <2>4 DEF SubmitEntry, RiskApproves, FolioApproves
  <2> QED
    BY <2>5 DEF IInv, BooksAgree, StopKnown
<1> QED
  BY <1>1, InvariantHolds, PTL DEF Spec, NoEntryPastLimits
=============================================================================
