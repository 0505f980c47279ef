---------------------------- MODULE PaperSession ----------------------------
(***************************************************************************)
(* runtime.SessionEngine in paper mode, for one traded symbol: what one    *)
(* market-data event does to the OrderManager, the PaperVenue, the         *)
(* PositionManager with its event log, the signal state machine and the    *)
(* engine's own maps, from the venue's reaction to the last call of        *)
(* _evaluate, as one step.                                                 *)
(*                                                                         *)
(* The engine is single-threaded, so a handler is atomic, except that an   *)
(* exception leaves it half done; nothing catches it, so it also ends the  *)
(* process.  A session is a record; every method is an operator from       *)
(* sessions to sessions, so that a handler reads as the sequence of calls  *)
(* it makes.                                                               *)
(***************************************************************************)
EXTENDS ManagedOrder, VenueOrder, SequencesExt

CONSTANTS EntryCoid, ExitCoid,  \* client order ids
          EntryQuantity,        \* shares an entry may be sized at
          Take, Size,           \* shares on offer at a quote, sizes of prints
          TtlOf,                \* ttl of an entry by its time in force
          Cooldown,             \* cooldown_s of the signal state machine
          MaxGross,             \* max_gross_notional_usd
          MaxTime, MaxRestarts  \* bounds

ASSUME PaperAssumption ==
  /\ EntryCoid \cap ExitCoid = {}
  /\ EntryQuantity \subseteq Nat \ {0} /\ Take \subseteq Nat /\ Size \subseteq Nat
  /\ TtlOf \in [{"DAY", "IOC"} -> Nat] /\ Cooldown \in Nat

Coid == EntryCoid \cup ExitCoid

VARIABLES now,
          s,            \* the session: memory, files and venue
          restarts

vars == <<now, s, restarts>>

NoRow == [state |-> "ABSENT"]

(***************************************************************************)
(* The fields of a session: the orders of the OrderManager, and the coids  *)
(* in the order of their keys (placed); the last row of each coid in        *)
(* orders.jsonl; the venue's working orders; the keys of _pending_sig; the  *)
(* position, 0 for none, and what rebuild_positions makes of its log        *)
(* (logged); the signal machine, where ARMED stands for the states from     *)
(* IDLE to FAILED_RETEST; entry less exit shares the venue traded (held);   *)
(* whether a handler ended by an exception (raised), and whether one ever   *)
(* took a fill with it that the engine had not come to (dropped); and       *)
(* whether market data is still coming, or a replay is at its end (feed).   *)
(***************************************************************************)
Init ==
  /\ now = 0
  /\ restarts = 0
  /\ s = [orders |-> [c \in Coid |-> Absent], placed |-> <<>>,
          journal |-> [c \in Coid |-> NoRow], working |-> [c \in Coid |-> Gone],
          pendingSig |-> {}, position |-> 0, logged |-> 0,
          fsm |-> "ARMED", cooldownUntil |-> 0, held |-> 0, raised |-> FALSE,
          dropped |-> FALSE, feed |-> "open"]

Running == ~s.raised /\ s.feed = "open"

LiveOf(S, intent) == {c \in Coid : IsLive(S.orders[c]) /\ S.orders[c].req.intent = intent}

Reserved(S) == MapThenSumSet(LAMBDA c : S.orders[c].reserved, {c \in Coid : IsLive(S.orders[c])})

-----------------------------------------------------------------------------
(* Hooks of the signal state machine.                                       *)

OnEntryFailed(S) ==
  IF S.fsm = "ENTRY" THEN [S EXCEPT !.fsm = "COOLDOWN", !.cooldownUntil = now + Cooldown \div 2] ELSE S

FsmOnEntryFill(S) == IF S.fsm = "ENTRY" THEN [S EXCEPT !.fsm = "MANAGE"] ELSE S

FsmOnPositionClosed(S) == [S EXCEPT !.fsm = "COOLDOWN", !.cooldownUntil = now + Cooldown]

(* _on_order_terminal *)
OnOrderTerminal(S, c) ==
  LET o == S.orders[c]
      unfilled == o.req.intent = "entry" /\ o.filled = 0 /\ o.state # "FILLED"
  IN [IF unfilled THEN OnEntryFailed(S) ELSE S EXCEPT !.pendingSig = @ \ {c}]

(* The OrderManager makes o of order c: a transition is journaled, and one  *)
(* into a terminal state calls back.                                        *)
Settle(S, c, o) ==
  LET moved == o.state # S.orders[c].state
      S1 == [S EXCEPT !.orders[c] = o, !.journal[c] = IF moved THEN RowOf(o) ELSE @]
  IN IF moved /\ ~IsLive(o) THEN OnOrderTerminal(S1, c) ELSE S1

-----------------------------------------------------------------------------
(* Fills.                                                                   *)

(* What rebuild_positions makes of one more row, after the rows that net to *)
(* l: exits of a position the log does not have open are passed over, and   *)
(* one that takes it to zero or below removes it.                           *)
Netted(l, kind, qty) ==
  CASE kind = "entry" -> l + qty
    [] kind = "exit" -> IF l > qty THEN l - qty ELSE 0

(* PositionManager.on_entry_fill, then the row of the fill.                 *)
EntryFill(S, qty) ==
  LET S1 == [S EXCEPT !.position = @ + qty]
  IN FsmOnEntryFill([S1 EXCEPT !.logged = Netted(@, "entry", qty)])

ExitFillWhenComplete(S, qty) ==
  LET S1 == [S EXCEPT !.logged = Netted(@, "exit", qty)]
      S2 == [S1 EXCEPT !.position = 0]
  IN CASE S.position = 0 -> S1
       [] S.position \in 1..qty -> FsmOnPositionClosed(S2)
       [] S.position > qty -> S1

ExitFillUnsignalled(S, qty) ==
  LET S1 == [S EXCEPT !.logged = Netted(@, "exit", qty)]
  IN [S1 EXCEPT !.position = IF @ > qty THEN @ - qty ELSE 0]

(* The row of the fill, then PositionManager.on_exit_fill, and what         *)
(* _on_fill does once the position is flat.                                 *)
ExitFill(S, qty) ==
  LET S1 == [S EXCEPT !.logged = Netted(@, "exit", qty)]
      left == IF S1.position > qty THEN S1.position - qty ELSE 0
      S2 == [S1 EXCEPT !.position = left]
  IN IF S.position > 0 /\ left = 0 THEN FsmOnPositionClosed(S2) ELSE S2

(***************************************************************************)
(* _on_fill.  The order is settled first; a completing fill so removes the *)
(* pending signal before it is looked up, and the position never hears of  *)
(* it.  A fill that raises in the OrderManager goes no further.            *)
(***************************************************************************)
OnFill(S, c, qty) ==
  LET o == S.orders[c]
      S1 == Settle(S, c, AfterFill(o, qty))
  IN IF FillRaises(o, qty) THEN [S1 EXCEPT !.raised = TRUE]
     ELSE IF c \in ExitCoid THEN ExitFill(S1, qty)
     ELSE IF c \in S1.pendingSig THEN EntryFill(S1, qty)
     ELSE S1

(* _apply_venue_events, for one event.                                      *)
Apply(S, ev) ==
  LET o == S.orders[ev.coid]
  IN CASE ev.kind = "ack" -> Settle(S, ev.coid, AfterAck(o))
       [] ev.kind = "fill" -> OnFill(S, ev.coid, ev.qty)
       [] ev.kind = "cancel_ack" ->
            LET S1 == Settle(S, ev.coid, AfterCancelRequest(o))
            IN Settle(S1, ev.coid, AfterCancelAck(S1.orders[ev.coid]))

(* What is traded is traded, also when the engine does not get to it.       *)
Traded(S, ev) ==
  IF ev.kind # "fill" THEN S
  ELSE [S EXCEPT !.held = IF ev.coid \in EntryCoid THEN @ + ev.qty ELSE @ - ev.qty,
                 !.dropped = @ \/ S.raised]

Hear(S, ev) == LET S1 == Traded(S, ev) IN IF S.raised THEN S1 ELSE Apply(S1, ev)

HearAll(S, events) ==
  CASE Len(events) = 0 -> S
    [] Len(events) = 1 -> Hear(S, events[1])
    [] Len(events) = 2 -> Hear(Hear(S, events[1]), events[2])

(* What the venue does to its order w of c on a quote, a print or a poll.    *)
Reaction(c, w, m) ==
  CASE m.kind = "quote" -> AfterQuote(c, w, m.take, m.ts, now)
    [] m.kind = "trade" -> AfterTrade(c, w, m.print, m.size, TRUE, now)
    [] m.kind = "poll" -> AfterVenuePoll(c, w, now)

React(S, c, m) ==
  LET after == Reaction(c, S.working[c], m)
  IN HearAll([S EXCEPT !.working[c] = after[1]], after[2])

(* A venue call walks the working orders in the order of submission, and    *)
(* the engine applies the events it returned, in the same order.  Neither   *)
(* walk reads what the other writes: they are taken here as one.            *)
CallVenue(S, m) == FoldLeft(LAMBDA T, c : React(T, c, m), S, S.placed)

-----------------------------------------------------------------------------
(* The timer of one order.                                                  *)
Sweep(S, c) == Settle(S, c, AfterPoll(S.orders[c], now))

(* on_tick: the timers, the cancels they ask for, and the venue's poll.     *)
OnTick(S) ==
  LET due == {c \in Coid : PollCancels(S.orders[c], now)}
      swept == FoldLeft(Sweep, S, S.placed)
      asked == [swept EXCEPT !.working =
                  [c \in Coid |-> IF c \in due THEN AfterCancel(@[c], now) ELSE @[c]]]
  IN IF S.raised THEN S ELSE CallVenue(asked, [kind |-> "poll"])

(* create, mark_submitting and the venue's submit.                          *)
Place(S, c, r, expireAt, w) ==
  LET born == [S EXCEPT !.orders[c] = NewOrder(r, expireAt), !.placed = Append(@, c)]
  IN [Settle(born, c, Transition(born.orders[c], "SUBMITTING")) EXCEPT !.working[c] = w]

(* plan_entry: an immediate order that crosses the spread, or a day order at  *)
(* the touch or a tick inside it, which crosses too when the market is      *)
(* locked.                                                                 *)
Plan == [tif: {"IOC"}, marketable: {TRUE}] \cup [tif: {"DAY"}, marketable: BOOLEAN]

(* _submit_entry of a signal the machine just emitted.  approved stands for *)
(* the gates other than an open position and an active entry.               *)
SubmitEntry(S, c, approved, r, plan, displayed) ==
  IF \/ ~approved \/ S.position > 0 \/ LiveOf(S, "entry") # {}
     \/ Reserved(S) + r.quantity * r.price > MaxGross
    THEN OnEntryFailed(S)
    ELSE Place([S EXCEPT !.pendingSig = @ \cup {c}], c, r, now + TtlOf[plan.tif],
               Working("LIMIT", plan.tif, r.quantity, plan.marketable, displayed, now))

(* _submit_exit: a market order for the whole position, one at a time.      *)
SubmitExit(S, c, r) ==
  IF LiveOf(S, "exit") # {} \/ Reserved(S) + r.quantity * r.price > MaxGross
    THEN S
    ELSE Place(S, c, r, NoTtl, Working("MARKET", "DAY", r.quantity, TRUE, 0, now))

(* journal.next_client_order_id: ids of one intent are used in one order.   *)
Unused(S, C) == {c \in C : S.journal[c] = NoRow}

NextCoid(S, C) == CHOOSE c \in Unused(S, C) : TRUE

-----------------------------------------------------------------------------
(* The venue's reaction to a quote or print and the tick that follows it.   *)

QuoteAndTick(take, ts) ==
  OnTick(CallVenue(s, [kind |-> "quote", take |-> take, ts |-> ts]))

TradeAndTick(print, size) ==
  OnTick(CallVenue(s, [kind |-> "trade", print |-> print, size |-> size]))

(* on_quote whose evaluation decides nothing: too soon after the last one,  *)
(* no features, an anomaly, low confidence, or the handler raised.          *)
OnQuote(take, ts) ==
  /\ Running
  /\ s' = QuoteAndTick(take, ts)
  /\ UNCHANGED <<now, restarts>>

(* on_quote on which an exit condition of the open position fires.          *)
OnQuoteExit(take, ts) ==
  LET S == QuoteAndTick(take, ts)
  IN /\ Running /\ ~S.raised /\ S.position > 0
     /\ Unused(S, ExitCoid) # {}
     /\ \E sym \in Symbol, p \in Price :
          s' = SubmitExit(S, NextCoid(S, ExitCoid), [symbol |-> sym, intent |-> "exit",
                                 quantity |-> S.position, price |-> p])
     /\ UNCHANGED <<now, restarts>>

(* on_quote on which the machine leaves its cooldown.                       *)
OnQuoteCooled(take, ts) ==
  LET S == QuoteAndTick(take, ts)
  IN /\ Running /\ ~S.raised /\ S.fsm = "COOLDOWN" /\ now >= S.cooldownUntil
     /\ s' = [S EXCEPT !.fsm = "ARMED"]
     /\ UNCHANGED <<now, restarts>>

(* on_quote on which the machine emits an entry signal.                     *)
OnQuoteSignal(take, ts) ==
  LET S == QuoteAndTick(take, ts)
  IN /\ Running /\ ~S.raised /\ S.fsm = "ARMED"
     /\ Unused(S, EntryCoid) # {}
     /\ \E sym \in Symbol, q \in EntryQuantity, p \in Price,
           approved \in BOOLEAN, plan \in Plan, d \in Size :
          s' = SubmitEntry([S EXCEPT !.fsm = "ENTRY"], NextCoid(S, EntryCoid), approved,
                           [symbol |-> sym, intent |-> "entry", quantity |-> q, price |-> p],
                           plan, d)
     /\ UNCHANGED <<now, restarts>>

OnTrade(print, size) ==
  /\ Running
  /\ s' = TradeAndTick(print, size)
  /\ UNCHANGED <<now, restarts>>

Tick == s.feed = "open" /\ now < MaxTime /\ now' = now + 1 /\ UNCHANGED <<s, restarts>>

(* run_replay after its last event: the clock moves past the latency.       *)
EndOfReplay ==
  /\ Running /\ s.position > 0
  /\ s' = [s EXCEPT !.feed = "ended"]
  /\ now' = now + Latency + 1
  /\ UNCHANGED restarts

(* It then submits an exit of what is left, gives the venue one more quote  *)
(* of this very moment, and ticks once.                                     *)
Flatten(take) ==
  /\ s.feed = "ended" /\ Unused(s, ExitCoid) # {}
  /\ \E sym \in Symbol, p \in Price :
       LET S == SubmitExit(s, NextCoid(s, ExitCoid), [symbol |-> sym, intent |-> "exit",
                                 quantity |-> s.position, price |-> p])
           quoted == CallVenue(S, [kind |-> "quote", take |-> take, ts |-> now])
       IN s' = [OnTick(quoted) EXCEPT !.feed = "over"]
  /\ UNCHANGED <<now, restarts>>

(* A new process after a crash: recover() rebuilds the position from its    *)
(* log and the orders from the journal; the simulated venue and everything  *)
(* else start empty.                                                        *)
Restart ==
  /\ s.feed = "open" /\ restarts < MaxRestarts
  /\ restarts' = restarts + 1
  /\ s' = [s EXCEPT !.orders = [c \in Coid |-> Restored(s.journal[c])],
                    !.working = [c \in Coid |-> Gone],
                    !.pendingSig = {}, !.position = s.logged,
                    !.fsm = "ARMED", !.cooldownUntil = 0, !.raised = FALSE]
  /\ UNCHANGED now

Next ==
  \/ \E take \in Take, ts \in {now, now - 1} :
       \/ OnQuote(take, ts)
       \/ OnQuoteExit(take, ts)
       \/ OnQuoteCooled(take, ts)
       \/ OnQuoteSignal(take, ts)
  \/ \E print \in {"through", "at", "away"}, size \in Size : OnTrade(print, size)
  \/ Tick
  \/ EndOfReplay
  \/ \E take \in Take : Flatten(take)
  \/ Restart

Spec == Init /\ [][Next]_vars

-----------------------------------------------------------------------------

(* The bot never sells what it does not have: the position it believes in   *)
(* is never larger than what the venue traded for it, unless an exception   *)
(* has cost it a fill.                                                      *)
NeverOversells == ~s.dropped => s.position <= s.held

(* The signal machine manages a position only while there is one.           *)
ManageMeansPosition == s.fsm = "MANAGE" => s.position > 0

(* An order the book calls filled or cancelled has left the venue, and the  *)
(* venue and the book agree on how much of a working order traded, late     *)
(* partial fills included.  An order of this process with a timer that the  *)
(* venue has let go is over in the book as well, or the book has never      *)
(* heard its ack: its cancel-ack is then dropped, and its timer is due to   *)
(* expire it.                                                               *)
BookAndVenueAgree ==
  \A c \in Coid : LET o == s.orders[c]
                    w == s.working[c]
    IN ~s.raised =>
         /\ w # Gone => /\ o # Absent
                        /\ o.state \notin {"FILLED", "CANCELLED", "REJECTED"}
                        /\ o.filled = w.filled
         /\ w = Gone /\ IsLive(o) /\ o.expireAt # NoTtl => o.state = "SUBMITTING"

(* "entry/exit fill events sufficient to rebuild open positions after a     *)
(* crash": the log rebuilds to what the venue traded for the position.      *)
LogHasEveryFill == s.logged = s.held

(* Fills, cancels, acks and timers in any order: a handler raises only when *)
(* a late fill completes an entry that its timer had expired in the book.   *)
OnlyLateFillsRaise ==
  s.raised => \E c \in EntryCoid : s.orders[c].state = "EXPIRED" /\ Remaining(s.orders[c]) = 0
=============================================================================
