---------------------------- MODULE LiveSession ----------------------------
(***************************************************************************)
(* The SessionEngine with a live adapter (runtime.py): orders go to a       *)
(* broker account that nothing reports back from, so a position stays what  *)
(* the event log says and the periodic reconcile (execution/reconciler.py)   *)
(* is what notices that the account went its own way.                      *)
(*                                                                         *)
(* Positions are long; shorts are their mirror image.  Every gate but the   *)
(* kill switch, the halt and the active entry is left to chance.  Times are *)
(* capped where more makes no difference.                                  *)
(***************************************************************************)
EXTENDS Integers, FiniteSets

CONSTANTS Symbol, Holding,      \* symbols, shares a position may start with
          Quantity,             \* shares of an entry
          Ttl,                  \* time to live of an entry
          ReconEvery,           \* reconcile_interval_s
          MaxEntries, MaxStarts \* bounds

ASSUME LiveAssumption ==
  /\ Holding \subseteq Nat /\ Quantity \in Nat \ {0}
  /\ Ttl \in Nat /\ ReconEvery \in Nat \ {0}

VARIABLES held,         \* positions by the event log, and in memory
          entry,        \* time each symbol's live entry has left, in the book
          exit,         \* symbols with a live exit in the book
          account,      \* shares the broker has
          buying, selling,      \* shares of the entries and exits the broker works
          recon,        \* time since the last reconcile, ReconEvery if it is due
          drift,        \* time since account and positions last agreed
          kill, halted, \* the kill switch, and the halt in the ledger
          up,           \* a process trades
          entries, starts

local == <<held, entry, exit, recon, kill, halted, entries>>
vars == <<local, account, buying, selling, drift, up, starts>>

None == -1              \* no live entry
Forever == -2           \* a restored entry has no timer

Older(n) == IF n < ReconEvery THEN n + 1 ELSE n

Init ==
  /\ held \in [Symbol -> Holding] /\ account = held
  /\ entry = [s \in Symbol |-> None] /\ exit = {}
  /\ buying = [s \in Symbol |-> 0] /\ selling = [s \in Symbol |-> 0]
  /\ recon = ReconEvery /\ drift = 0
  /\ kill = FALSE /\ halted = FALSE /\ up = TRUE
  /\ entries = 0 /\ starts = 0

-----------------------------------------------------------------------------
(* The account.                                                             *)

DriftAfter(broker, books) == drift' = IF broker = books THEN 0 ELSE drift

BrokerBuys(s, n) ==
  /\ n <= buying[s]
  /\ buying' = [buying EXCEPT ![s] = @ - n]
  /\ account' = [account EXCEPT ![s] = @ + n]
  /\ DriftAfter(account', held)
  /\ UNCHANGED <<local, selling, up, starts>>

BrokerSells(s, n) ==
  /\ n <= selling[s]
  /\ selling' = [selling EXCEPT ![s] = @ - n]
  /\ account' = [account EXCEPT ![s] = @ - n]
  /\ DriftAfter(account', held)
  /\ UNCHANGED <<local, buying, up, starts>>

(* The broker ends what it works for a symbol, with the day or on its own.  *)
BrokerEnds(s) ==
  /\ buying[s] + selling[s] > 0
  /\ buying' = [buying EXCEPT ![s] = 0]
  /\ selling' = [selling EXCEPT ![s] = 0]
  /\ UNCHANGED <<local, account, drift, up, starts>>

-----------------------------------------------------------------------------
MatchesHeldOnly(books, broker) == \A s \in Symbol : books[s] > 0 => books[s] = broker[s]

(* reconcile compares every symbol that either side knows.                  *)
Matches(books, broker) == \A s \in Symbol : books[s] = broker[s]

Due == recon = ReconEvery

(* read_account_ok and read_positions: the positions, unless a read fails.  *)
ReadPositions(read) == IF read THEN {account} ELSE {}

(* place_order: whether it raises or not, the order may have reached the    *)
(* broker.                                                                 *)
PlaceOrder(works, s, n, reaches) == [works EXCEPT ![s] = IF reaches THEN @ + n ELSE @]

(* on_tick: timers expire the entries that nothing ever acknowledges; a     *)
(* reconcile that is due and fails, on a difference or a failed read, sets  *)
(* the kill switch and halts the day in the ledger.                        *)
Polled == [s \in Symbol |-> IF entry[s] = 0 THEN None ELSE entry[s]]

FailsToRead(read) == Due /\ ~read

Fails(read) == Due /\ ~ \E broker \in ReadPositions(read) : Matches(held, broker)

Reconciled(read) ==
  /\ recon' = IF Due THEN 0 ELSE recon
  /\ kill' = (kill \/ Fails(read)) /\ halted' = (halted \/ Fails(read))

(* A quote or a trade after which nothing is submitted. *)
OnEvent(read) ==
  /\ up
  /\ entry' = Polled /\ Reconciled(read)
  /\ UNCHANGED <<held, exit, entries, account, buying, selling, drift, up, starts>>

(* _submit_entry after on_tick; the book keeps the order whatever place_order *)
(* does.                                                                   *)
OnEntrySignal(s, read, reaches) ==
  /\ up
  /\ Reconciled(read) /\ ~kill' /\ ~halted'
  /\ held[s] = 0 /\ Polled[s] = None
  /\ entries < MaxEntries /\ entries' = entries + 1
  /\ entry' = [Polled EXCEPT ![s] = Ttl]
  /\ buying' = PlaceOrder(buying, s, Quantity, reaches)
  /\ UNCHANGED <<held, exit, account, selling, drift, up, starts>>

OnExitSignalBesideAnother(s, read, reaches) ==
  /\ up
  /\ entry' = Polled /\ Reconciled(read)
  /\ held[s] > 0
  /\ exit' = exit \cup {s}
  /\ selling' = PlaceOrder(selling, s, held[s], reaches)
  /\ UNCHANGED <<held, entries, account, buying, drift, up, starts>>

(* _submit_exit after on_tick, whatever the kill switch says: one at a time, *)
(* for the position of the book.                                           *)
OnExitSignal(s, read, reaches) ==
  /\ up
  /\ entry' = Polled /\ Reconciled(read)
  /\ held[s] > 0 /\ s \notin exit
  /\ exit' = exit \cup {s}
  /\ selling' = PlaceOrder(selling, s, held[s], reaches)
  /\ UNCHANGED <<held, entries, account, buying, drift, up, starts>>

Tick ==
  /\ recon' = Older(recon)
  /\ drift' = IF account = held THEN 0 ELSE Older(drift)
  /\ entry' = [s \in Symbol |-> IF entry[s] > 0 THEN entry[s] - 1 ELSE entry[s]]
  /\ UNCHANGED <<held, exit, kill, halted, entries, account, buying, selling, up, starts>>

-----------------------------------------------------------------------------
Crash ==
  /\ up /\ up' = FALSE
  /\ UNCHANGED <<local, account, buying, selling, drift, starts>>

(* run_session and recover, on the same day: live orders come back without  *)
(* timers, the halt from the ledger, and a process that cannot reconcile    *)
(* refuses to trade.                                                       *)
Start(read) ==
  /\ ~up /\ starts < MaxStarts /\ starts' = starts + 1
  /\ up' = \E broker \in ReadPositions(read) : Matches(held, broker)
  /\ kill' = FALSE /\ recon' = ReconEvery
  /\ entry' = [s \in Symbol |-> IF entry[s] = None THEN None ELSE Forever]
  /\ UNCHANGED <<held, exit, halted, entries, account, buying, selling, drift>>

(* Somebody makes the account and the records agree, one way or the other.  *)
HumanAligns ==
  /\ ~up /\ account # held
  /\ \/ account' = held /\ held' = held
     \/ held' = account /\ account' = account
  /\ drift' = 0
  /\ UNCHANGED <<entry, exit, recon, kill, halted, entries, buying, selling, up, starts>>

Next ==
  \/ \E s \in Symbol : \E n \in 1..buying[s] : BrokerBuys(s, n)
  \/ \E s \in Symbol : \E n \in 1..selling[s] : BrokerSells(s, n)
  \/ \E s \in Symbol : BrokerEnds(s)
  \/ \E read \in BOOLEAN : OnEvent(read)
  \/ \E s \in Symbol, read, reaches \in BOOLEAN :
       OnEntrySignal(s, read, reaches) \/ OnExitSignal(s, read, reaches)
  \/ Tick
  \/ Crash
  \/ \E read \in BOOLEAN : Start(read)
  \/ HumanAligns

Spec == Init /\ [][Next]_vars

(* Time passes, and market data keeps coming.                               *)
FairSpec == Spec /\ WF_vars(Tick) /\ WF_vars(\E read \in BOOLEAN : OnEvent(read))

-----------------------------------------------------------------------------
(* The bot never sells what the account does not have: whatever answers are *)
(* lost, processes restarted and accounts put right, no exit is sent twice   *)
(* and none exceeds the position.                                          *)
NeverShortAtBroker == \A s \in Symbol : account[s] >= 0

(* No entry is placed once the account has differed from the positions for  *)
(* a reconcile interval, in any symbol, those the bot knows no position of  *)
(* included.                                                               *)
NoEntryOnDrift == [][entries' > entries => drift < ReconEvery]_vars

(* "Any disagreement puts the system into a NO_TRADE state": a difference   *)
(* that lasts is noticed while a process trades, and stops it.             *)
DriftStops == (up /\ drift > 0) ~> (kill \/ drift = 0 \/ ~up)
=============================================================================
