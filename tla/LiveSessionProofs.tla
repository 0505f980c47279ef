-------------------------- MODULE LiveSessionProofs --------------------------
(***************************************************************************)
(* Proofs about LiveSession, for every set of symbols, every holding,       *)
(* quantity, time to live and reconcile interval, any number of restarts.   *)
(***************************************************************************)
EXTENDS LiveSession, TLAPS

Typed ==
  /\ held \in [Symbol -> Int] /\ account \in [Symbol -> Int]
  /\ buying \in [Symbol -> Nat] /\ selling \in [Symbol -> Nat]
  /\ exit \subseteq Symbol
  /\ entries \in Nat
  /\ recon \in 0..ReconEvery /\ drift \in 0..ReconEvery

(* What the broker works to sell of a symbol is covered by the position and *)
(* by the account; it works nothing where the book has no exit, and then    *)
(* the account has the position.                                           *)
Covered(s) ==
  /\ selling[s] <= held[s] /\ selling[s] <= account[s]
  /\ s \notin exit => selling[s] = 0 /\ held[s] <= account[s]

(* A difference is no older than the last reconcile that went well.         *)
Timely ==
  /\ account = held => drift = 0
  /\ up /\ ~kill => drift <= recon

IInv == Typed /\ (\A s \in Symbol : Covered(s)) /\ Timely

-----------------------------------------------------------------------------
(* Ages stay in their range and do not go back.                             *)
LEMMA OlderType ==
  ASSUME NEW n \in 0..ReconEvery
  PROVE  Older(n) \in 0..ReconEvery /\ Older(n) >= n
BY LiveAssumption DEF Older

(* Ages that grow together keep their order.                                *)
LEMMA OlderMonotonic ==
  ASSUME NEW m \in 0..ReconEvery, NEW n \in 0..ReconEvery, m <= n
  PROVE  Older(m) <= Older(n)
BY LiveAssumption DEF Older

(* A reconcile that matches has found the account equal to the positions.   *)
LEMMA MatchMeansEqual ==
  ASSUME Typed, Matches(held, account)
  PROVE  account = held
BY DEF Typed, Matches

(* After the reconcile of on_tick a process that may trade has a difference *)
(* no older than that reconcile.                                           *)
LEMMA ReconciledTimely ==
  ASSUME IInv, up, NEW read \in BOOLEAN, Reconciled(read)
  PROVE  /\ recon' \in 0..ReconEvery
         /\ ~kill' => drift <= recon' /\ drift < ReconEvery
PROOF
<1>1. CASE Due
  <2>1. recon' = 0
    BY <1>1 DEF Reconciled
  <2>2. ASSUME ~kill' PROVE drift = 0
    <3>1. Matches(held, account)
      BY <1>1, <2>2 DEF Reconciled, Fails, ReadPositions
    <3> QED
      BY <3>1, MatchMeansEqual DEF IInv, Timely
  <2> QED
    BY <2>1, <2>2, LiveAssumption
<1>2. CASE ~Due
  <2>1. recon' = recon /\ (~kill' => ~kill)
    BY <1>2, Zenon DEF Reconciled
  <2>2. recon \in 0..ReconEvery /\ drift \in 0..ReconEvery /\ recon < ReconEvery
    BY <1>2, LiveAssumption DEF Due, IInv, Typed
  <2>3. ~kill => drift <= recon
    BY DEF IInv, Timely
  <2> QED
    BY <2>1, <2>2, <2>3, LiveAssumption
<1> QED
  BY <1>1, <1>2

(* Every initial state has the invariant.                                   *)
LEMMA InitOK == Init => IInv
PROOF
<1> SUFFICES ASSUME Init PROVE IInv
  OBVIOUS
<1>1. Typed
  <2>1. held \in [Symbol -> Int] /\ account \in [Symbol -> Int]
    <3>1. held \in [Symbol -> Holding] /\ account = held
      BY DEF Init
    <3>2. \A s \in Symbol : held[s] \in Nat
      BY <3>1, LiveAssumption
    <3>3. held = [s \in Symbol |-> held[s]]
      BY <3>1
    <3>4. held \in [Symbol -> Int]
      BY <3>2, <3>3
    <3> QED
      BY <3>1, <3>4
  <2>2. buying \in [Symbol -> Nat] /\ selling \in [Symbol -> Nat] /\ exit \subseteq Symbol
    BY DEF Init
  <2> QED
    BY <2>1, <2>2, LiveAssumption DEF Init, Typed
<1>2. \A s \in Symbol : Covered(s)
  <2>1. SUFFICES ASSUME NEW s \in Symbol PROVE Covered(s)
    OBVIOUS
  <2>2. held[s] \in Nat /\ account[s] = held[s]
    <3>1. held \in [Symbol -> Holding] /\ account = held
      BY DEF Init
    <3> QED
      BY <3>1, LiveAssumption
  <2>3. selling[s] = 0
    BY DEF Init
  <2> QED
    BY <2>2, <2>3 DEF Covered
<1>3. Timely
  BY LiveAssumption DEF Init, Timely
<1> QED
  BY <1>1, <1>2, <1>3 DEF IInv

(* The broker trades no more than it works.                                 *)
LEMMA BrokerOK ==
  ASSUME IInv,
         \/ \E s \in Symbol : \E n \in 1..buying[s] : BrokerBuys(s, n)
         \/ \E s \in Symbol : \E n \in 1..selling[s] : BrokerSells(s, n)
         \/ \E s \in Symbol : BrokerEnds(s)
  PROVE  IInv'
PROOF
<1> USE LiveAssumption DEF local, DriftAfter
<1>1. ASSUME NEW s \in Symbol, NEW n \in 1..buying[s], BrokerBuys(s, n) PROVE IInv'
  <2>1. Typed'
    BY <1>1 DEF IInv, Typed, BrokerBuys
  <2>2. \A t \in Symbol : Covered(t)'
    BY <1>1 DEF IInv, Typed, Covered, BrokerBuys
  <2>3. Timely'
    BY <1>1 DEF IInv, Typed, Timely, BrokerBuys
  <2> QED
    BY <2>1, <2>2, <2>3 DEF IInv
<1>2. ASSUME NEW s \in Symbol, NEW n \in 1..selling[s], BrokerSells(s, n) PROVE IInv'
  <2>1. Typed'
    BY <1>2 DEF IInv, Typed, BrokerSells
  <2>2. s \in exit
    BY <1>2 DEF IInv, Typed, Covered
  <2>3. \A t \in Symbol : Covered(t)'
    BY <1>2, <2>2 DEF IInv, Typed, Covered, BrokerSells
  <2>4. Timely'
    BY <1>2 DEF IInv, Typed, Timely, BrokerSells
  <2> QED
    BY <2>1, <2>3, <2>4 DEF IInv
<1>3. ASSUME NEW s \in Symbol, BrokerEnds(s) PROVE IInv'
  <2>1. Typed'
    BY <1>3 DEF IInv, Typed, BrokerEnds
  <2>2. \A t \in Symbol : Covered(t)'
    BY <1>3 DEF IInv, Typed, Covered, BrokerEnds
  <2>3. Timely'
    BY <1>3 DEF IInv, Timely, BrokerEnds
  <2> QED
    BY <2>1, <2>2, <2>3 DEF IInv
<1> QED
  BY <1>1, <1>2, <1>3

(* What the session does on market data and with time.                      *)
LEMMA SessionOK ==
  ASSUME IInv,
         \/ \E read \in BOOLEAN : OnEvent(read)
         \/ \E s \in Symbol, read, reaches \in BOOLEAN :
              OnEntrySignal(s, read, reaches) \/ OnExitSignal(s, read, reaches)
         \/ Tick
  PROVE  IInv'
PROOF
<1> USE LiveAssumption
<1>1. ASSUME NEW read \in BOOLEAN, OnEvent(read) PROVE IInv'
  <2>1. recon' \in 0..ReconEvery /\ (~kill' => drift <= recon')
    BY <1>1, ReconciledTimely DEF OnEvent
  <2> QED
    BY <1>1, <2>1 DEF IInv, Typed, Covered, Timely, OnEvent
<1>2. ASSUME NEW s \in Symbol, NEW read \in BOOLEAN, NEW reaches \in BOOLEAN,
             OnEntrySignal(s, read, reaches)
      PROVE  IInv'
  <2>1. recon' \in 0..ReconEvery /\ (~kill' => drift <= recon')
    BY <1>2, ReconciledTimely DEF OnEntrySignal
  <2>2. Typed'
    BY <1>2, <2>1 DEF IInv, Typed, OnEntrySignal, PlaceOrder
  <2>3. \A t \in Symbol : Covered(t)'
    BY <1>2 DEF IInv, Covered, OnEntrySignal
  <2>4. Timely'
    BY <1>2, <2>1 DEF IInv, Timely, OnEntrySignal
  <2> QED
    BY <2>2, <2>3, <2>4 DEF IInv
<1>3. ASSUME NEW s \in Symbol, NEW read \in BOOLEAN, NEW reaches \in BOOLEAN,
             OnExitSignal(s, read, reaches)
      PROVE  IInv'
  <2>1. recon' \in 0..ReconEvery /\ (~kill' => drift <= recon')
    BY <1>3, ReconciledTimely DEF OnExitSignal
  <2>2. Typed'
    BY <1>3, <2>1 DEF IInv, Typed, OnExitSignal, PlaceOrder
  <2>3. selling[s] = 0 /\ held[s] <= account[s]
    BY <1>3 DEF IInv, Covered, OnExitSignal
  <2>4. \A t \in Symbol : Covered(t)'
    BY <1>3, <2>3 DEF IInv, Typed, Covered, OnExitSignal, PlaceOrder
  <2>5. Timely'
    BY <1>3, <2>1 DEF IInv, Timely, OnExitSignal
  <2> QED
    BY <2>2, <2>4, <2>5 DEF IInv
<1>4. CASE Tick
  <2>1. Typed'
    BY <1>4, OlderType DEF IInv, Typed, Tick
  <2>2. \A t \in Symbol : Covered(t)'
    BY <1>4 DEF IInv, Covered, Tick
  <2>3. Timely'
    BY <1>4, OlderType, OlderMonotonic DEF IInv, Typed, Timely, Tick
  <2> QED
    BY <2>1, <2>2, <2>3 DEF IInv
<1> QED
  BY <1>1, <1>2, <1>3, <1>4

(* Crashes, starts, and the hand that puts the records right.               *)
LEMMA RestartOK ==
  ASSUME IInv, Crash \/ (\E read \in BOOLEAN : Start(read)) \/ HumanAligns
  PROVE  IInv'
PROOF
<1> USE LiveAssumption
<1>1. CASE Crash
  BY <1>1 DEF IInv, Typed, Covered, Timely, Crash, local
<1>2. ASSUME NEW read \in BOOLEAN, Start(read) PROVE IInv'
  <2>1. Typed' /\ \A t \in Symbol : Covered(t)'
    BY <1>2 DEF IInv, Typed, Covered, Start
  <2>2. up' => account = held
    BY <1>2, MatchMeansEqual DEF IInv, ReadPositions, Start
  <2>3. Timely'
    BY <1>2, <2>2 DEF IInv, Typed, Timely, Start
  <2> QED
    BY <2>1, <2>3 DEF IInv
<1>3. CASE HumanAligns
  <2>1. Typed'
    BY <1>3 DEF IInv, Typed, HumanAligns
  <2>2. \A t \in Symbol : Covered(t)'
    BY <1>3 DEF IInv, Typed, Covered, HumanAligns
  <2>3. Timely'
    BY <1>3 DEF Timely, HumanAligns
  <2> QED
    BY <2>1, <2>2, <2>3 DEF IInv
<1> QED
  BY <1>1, <1>2, <1>3

(* The invariant in every reachable state.                                  *)
THEOREM InvariantHolds == Spec => []IInv
PROOF
<1>1. Init => IInv
  BY InitOK
<1>2. IInv /\ [Next]_vars => IInv'
  <2> SUFFICES ASSUME IInv, [Next]_vars PROVE IInv'
    OBVIOUS
  <2>1. CASE Next
    BY <2>1, BrokerOK, SessionOK, RestartOK DEF Next
  <2>2. CASE UNCHANGED vars
    BY <2>2 DEF vars, local, IInv, Typed, Covered, Timely
  <2> QED
    BY <2>1, <2>2
<1> QED
  BY <1>1, <1>2, PTL DEF Spec

(* Whatever answers are lost and processes restarted, the exits the engine  *)
(* sends never sell more than the account has.                              *)
THEOREM NeverShort == Spec => []NeverShortAtBroker
PROOF
<1>1. IInv => NeverShortAtBroker
  BY DEF IInv, Typed, Covered, NeverShortAtBroker
<1> QED
  BY <1>1, InvariantHolds, PTL

(* The engine places no entry on a difference older than the reconcile      *)
(* interval.                                                               *)
THEOREM DriftStopsEntries == Spec => NoEntryOnDrift
PROOF
<1>1. IInv /\ [Next]_vars => [entries' > entries => drift < ReconEvery]_vars
  <2> SUFFICES ASSUME IInv, Next, entries' > entries PROVE drift < ReconEvery
    OBVIOUS
  <2>1. entries \in Nat
    BY DEF IInv, Typed
  <2>2. entries' # entries
    BY <2>1
  <2>3. \A s, n : ~BrokerBuys(s, n) /\ ~BrokerSells(s, n) /\ ~BrokerEnds(s)
    BY <2>2 DEF BrokerBuys, BrokerSells, BrokerEnds, local
  <2>4. \A read : ~OnEvent(read) /\ ~Start(read)
    BY <2>2 DEF OnEvent, Start
  <2>5. \A s, read, reaches : ~OnExitSignal(s, read, reaches)
    BY <2>2 DEF OnExitSignal
  <2>6. ~Tick /\ ~Crash /\ ~HumanAligns
    BY <2>2 DEF Tick, Crash, HumanAligns, local
  <2>7. PICK s \in Symbol, read \in BOOLEAN, reaches \in BOOLEAN : OnEntrySignal(s, read, reaches)
    BY <2>3, <2>4, <2>5, <2>6 DEF Next
  <2> QED
    BY <2>7, ReconciledTimely DEF OnEntrySignal
<1> QED
  BY <1>1, InvariantHolds, PTL DEF Spec, NoEntryOnDrift
=============================================================================
