# A verification of liquidity-bot in TLA+

This directory models the trading core of liquidity-bot (`src/src/wliq`) and the
research tools that share it: the order manager, the simulated venue, the paper
session that joins them, the position book with its exit rules, the event logs a
restart recovers from, the live session against a broker account, the signal
state machine behind the health monitor and the governor, the risk layer over a
trading day, the order journal under torn writes, and the path of recorded data
through replay, mining and validation.
TLC checks the models on small instances; TLAPS proves every safety property
that holds, and the two refinements, for every value of the constants. Only
liveness is left to model checking alone.

Paths below are relative to `src/src/wliq` unless they start with `src/`.

## The system

One process trades a few equities intraday. Market data (a live stream or a
replay) drives everything: each quote or print runs one handler to its end on
one thread. Nothing else runs, no timer thread either: timers are looked at when
an event arrives (`on_tick`).

| Component | State | Operations | Correct when |
|---|---|---|---|
| `execution/order_manager.py` OrderManager | `orders`: request, state, filled quantity, reservation, expiry, revision | create, mark_submitting, on_ack, on_reject, on_fill, request_cancel, on_cancel_ack, poll, restore | one live entry per symbol; reservations bounded per order and in total; the book never invents a fill; FILLED means filled; timers end orders; the journal rebuilds the book |
| `execution/venue_paper.py` PaperVenue | `working` orders with ack, activation and cancel times, queue position | submit, cancel, on_quote, on_trade, poll | no overfill, one ack, nothing after a cancel-ack, time-in-force promises, no order lost |
| `runtime.py` SessionEngine | the components, `_pending_sig`, `_pending_exit`, `_last_eval` | recover, on_quote, on_trade, on_tick, `_submit_entry`, `_submit_exit`, shutdown | never sells what it does not hold; one exit at a time; book, venue, position and log agree |
| `execution/positions.py` PositionManager | open positions, count of adverse microprices | on_entry_fill, check_exits, on_exit_fill | profit is the cash that moved; a passed stop ends in an exit; every position ends |
| `execution/ledger.py` PositionEventLog, RiskLedger, rebuild_open_orders | append-only files | append, rebuild, load_day | a restart recovers what the process knew |
| `core/journal.py` OrderJournal | `orders.jsonl`, sequence counters | record, next_client_order_id | an id is never used twice, a torn tail costs one row |
| `strategy/fsm.py` SignalStateMachine | state, dwell, burst extremes per symbol | step, on_entry_fill, on_entry_failed, on_position_closed | owns the symbol exactly while an order or position does not |
| `execution/risk.py`, `risk2.py` | daily PnL, loss streak, cooldowns, halt, drawdown peak | approve, size, on_trade_closed, restore | a halt lasts; a restart is no way round a limit |
| `runtime.py` SessionEngine, live | the same with a broker adapter, `_last_recon`, kill switch | `_submit_entry`, `_submit_exit`, reconcile in `on_tick`, recover | never short at the broker; a lasting difference stops trading |
| `execution/reconciler.py` | none | reconcile | any mismatch stops trading |
| `strategy/governor.py`, `broker/health.py` | stream health, context | decide, on_event, is_healthy | unhealthy data means no trade |
| `features/engine.py` FeatureEngine | windows of quotes and trades per symbol | on_quote, on_trade | the windows hold exactly what happened in them |
| `research/replay.py`, `miner.py`, `walkforward.py` | event heap, mids, mined events | load_events, mine_events, `_attach_forward`, purged_walk_forward | events in time order; labels look forward only; no test day trains |
| the filters of features, ml, analytics, exhaustion, dashboard, cli | numbers, model files, output | | |

Interactions: the engine calls the venue, which returns *events* (ack, fill,
cancel-ack); the engine applies them to the order manager one by one; the order
manager calls back `on_terminal`, which touches the signal machine and the
pending maps *inside* `on_fill`; fills then reach the position manager, its log,
the risk counters and the ledger, in that order, each with its own file write.
A restart rebuilds memory from those files.

What is hard here: fills racing cancels and timers; the callback in the middle
of a fill; an exception half way through a handler; an exit sized while its
entry still fills; an order expired locally that still works at the venue; and a
crash, after which only the files count. Live, nothing reports fills back at
all, and an answer may be lost on its way. `PROJECT.json` lists every such hazard
at its line.

## Modules

| Module | Models |
|---|---|
| `ManagedOrder` | one order of the order manager and what each handler does to it, as operators; its journal row and what recovery makes of it |
| `OrderManager` | the order manager's public calls in any order, the last journal row of every order, the venue's own count of traded shares, restarts |
| `OrderLifecycle` | the abstract life of an order's durable record, which `OrderManager` is shown to implement |
| `OrderManagerProofs` | the inductive invariant of `OrderManager`, the theorems and their proofs |
| `VenueOrder` | one working order of the simulated venue; every operator returns the order and the events it causes |
| `PaperVenue` | the venue with several orders, the clock and a summary of what it has told |
| `PaperVenueProofs` | that the venue tells the truth, loses no order and implements `Exchange` |
| `Exchange` | what the order manager relies on of any venue; `PaperVenue` is shown to implement it |
| `PaperSession`, `MCPaperSession` | whole handlers of the engine over `ManagedOrder` and `VenueOrder`, with the position, its log, the machine's lifecycle states, and restarts |
| `PaperSessionProofs` | the inductive invariant of the session, carried through every venue call and every event, and its four theorems |
| `PositionDesk` | one symbol's position from its first fill to flat: fills at prices, the exit rules, exits at the venue (`VenueOrder`), the event log, restarts |
| `PositionDeskProofs` | that the log rebuilds the position, a passed stop ends in an exit, and profit is the cash that moved |
| `LiveSession` | several symbols of a live engine, the broker account, lost answers, the periodic reconcile, crashes and manual repair |
| `LiveSessionProofs` | that exits never sell short and entries stop on a lasting difference |
| `StreamHealth` | the data-health monitor of one symbol, as operators |
| `SignalDesk` | one symbol from a message to an entry: monitors, governor, every state of the signal machine, and the order and position that own its later states |
| `SignalDeskProofs` | the five safety properties of the signal machine |
| `RiskDay`, `MCRiskDay` | `RiskManager`, `PortfolioRisk` and `RiskLedger` over a day: the gates of an entry, reservations and positions of several symbols, round trips, a failed reconcile, restarts |
| `RiskDayProofs` | that the books of the day agree and limits outlive a restart |
| `OrderJournal` | client order ids, sequence counters and the file they come back from, with crashes between and inside writes |
| `Research` | recorded days through `load_events`, the windows of the feature engine, `mine_events`, its labels, and the folds of `purged_walk_forward` |
| `RecordProofs` | what is made of files: that no id of the journal is used twice, whatever crashes tear, and that windows, sides, labels and folds of recorded days are what they should be |

Operators whose names describe a fault (`BookedUnreleased`, `CreateUncapped`,
`AggressSilently`, ...) are not used by the models. Each stands before the
definition it is a faulty version of; replacing that definition by it makes one
property fail, which shows that the property depends on the code being as it is.
`PROJECT.json` pairs them.

### How state and actions correspond to the code

* An order is the record of `ManagedOrder`; `Absent` is a client order id the
  book does not hold. `reserved` stands for `reserved_notional_usd` and
  `reserved_risk_usd`, which are set, scaled and cleared together. `expireAt` is
  `expire_at`, `NoTtl` its `None`. Scaling rounds down where the code has
  floats; the bound that is checked is one rounding cannot break.
* `_transition` raises on an illegal step. `Transition` leaves the order as the
  code leaves it then, with whatever was booked before, and `FillRaises` says
  when that happens.
* The journal keeps every row; recovery looks at the last row of each id, and
  only that row is kept. `Restored` has no timer, no reservation and revision 0,
  as `rebuild_open_orders` builds it.
* `OrderManager` lets the venue trade at any time after submission, after the
  local end of the order too; `executed` is the venue's count and no code of the
  bot reads it.
* In `VenueOrder` a quote is reduced to the shares it lets the venue take at an
  acceptable price (`take`), a print to its place relative to the limit. `ts`
  of a quote may lag the clock. The fill-probability draw is a Boolean in
  `PaperVenue`; the session uses the configured probability of 1.
* In `PaperSession` a session is a record and each method an operator on it, so
  a handler is the composition of the calls the code makes, in their order.
  `OnQuote`, `OnQuoteExit`, `OnQuoteCooled` and `OnQuoteSignal` are the four
  things the evaluation at the end of `on_quote` can come to; what decides
  between them (features, governor, exit rules) is a nondeterministic choice.
  `ARMED` stands for the machine's states from IDLE to FAILED_RETEST. `approved`
  is the outcome of the risk gates that look at other things than the symbol's
  own position and orders. `Plan` is what `plan_entry` can return; which of it,
  spread and urgency decide. The engine applies the events of a venue call after
  the call; `CallVenue` takes the call and the events order by order (`React`,
  folded over `placed`), which is the same, since the venue reads nothing the
  engine writes and the engine reads nothing of the venue. `held` is what the
  venue bought less what it sold, of fills the engine never gets to as well;
  `dropped` says that an exception has kept such a fill from the engine. `logged`
  is what `rebuild_positions` nets the rows to (`Netted`); the row is written
  after the position of an entry has changed and before that of an exit has.
* `PositionDesk` keeps `entry_price` as `cost`, the value of the shares held at
  that price, with prices chosen so that averages are whole. The age of a
  position and of its exit are capped where more makes no difference. A `View`
  is what one evaluation sees: the mid and which of the other signs hold; a wide
  spread hides the signs behind it, since its rule comes first. `room` is what
  the reservations of other symbols leave under the gross cap; it is either way
  at any time, and without it `create` refuses the exit (`refused`). `file` is what
  `rebuild_positions` makes of the rows so far. An exit with `w = Gone` that is
  still `live` is one a restart restored: the book has it, no venue does.
* `LiveSession`: `read` says whether the reads of one reconcile succeed,
  `reaches` whether an order sent gets to the broker, whatever `place_order`
  then returns or raises. `held` changes by hand only (`HumanAligns`, while no
  process is up), since no code feeds live fills back. `drift` is the time
  account and positions have differed, which no code keeps. The governor, which
  the wiring of `run_session` keeps from letting any entry pass (see below), is
  taken to let them pass, so that the rest of live mode is checked at all.
* `Research`: a quote is its mid, returns are differences of prices. What the
  checks of the miner find in a quote is any subset of `Check`. The day is
  recorded in any order; each event can pop where `__lt__` has none before it.
* `SignalDesk` keeps times as ages, capped where more of them makes no
  difference, and reduces a feature vector to what the machine asks of it: the
  price, whether the burst is `exhausted`, whether book and microprice are
  `against` it, whether peers confirm it. Distances are absolute prices, not
  basis points. A faded impulse (`fsm.py:147`) has no action of its own: the
  governor refuses the same `residual_z` first. `gate` is the monitor the
  governor asks, `feed` the one the stream feeds; `SharedMonitor` says that they
  are one, as in a replay, where nobody replaces the engine's. `burst` is a
  record of what really happened, which no code keeps: `calm` goes on over a
  restart, `forgot` says that a restart cut a cooldown short, `silent` that the
  fill which completed an entry was not told to the machine.
* `RiskDay` measures orders in whole units of notional at a fixed price.
  `SubmitEntry` has the gates in the order of `_submit_entry`, with the size the
  code multiplies only after them. `ledger` is what `load_day` makes of the rows
  written so far. The final fill of an entry is `EntryEnds`, since it never
  reaches the position. Paper fills and a failed reconcile belong to different
  modes; `live` is chosen at each start, both modes share the files. `day` is
  what really happened. A partial exit adds its profit to the position only
  (`accrued`, in memory), the last one reports the sum (`TradePnl`); `earned` is
  what the fills made and `forgot` what restarts lost of it. `CrashClosing` stops the process between the statements
  of the fill that closes a trade: after the journal has it, after the position
  log has it, or after the halt it brings is in the ledger.
* In `OrderJournal` rows that parse on the next start are in `rows`; `tail` is a
  whole row whose newline is missing, and `torn` says the file ends in a line
  that is not ended or cannot be read. Either way the next row joins that line
  and is lost with it. An order is made in three steps, as between
  `next_client_order_id` and the venue.
* `feed` of a session is open while events come. `EndOfReplay` and `Flatten` are
  what `run_replay` does after the last one: it moves the clock past the latency,
  submits an exit, gives the venue one quote and ticks once.
* An exception in a handler leaves the session as it is at that point
  (`raised`). Nothing in the repository catches it, so the process is over and
  only `Restart` goes on.

## Runs

| Run | Shows |
|---|---|
| `order_manager` | two orders of three shares, all interleavings of calls, fills of 1 to 3 shares, one tick of time and one restart: all invariants, the refinement of `OrderLifecycle`, and that an armed timer ends its order |
| `paper_venue` | two orders of three shares, all kinds and times in force, takes of 0 to 4 shares (below the minimum, partial, exact or more), prints of 1 and 2, quotes current or one tick old: the contract of `Exchange` and the time-in-force promises |
| `paper_session` | two entries of five shares, two exits, quotes that take nothing or three shares (so an entry fills in two parts), resting entries with queue and prints, eight ticks, one restart, the end of a replay: book and venue agree on the orders at the venue and on those it has let go, MANAGE has a position, no more is sold than is held unless an exception lost a fill, and that nothing but a late completing fill raises |
| `signal_desk` | three prices, bursts in both directions, messages that are late or follow a gap, fills, failures, refused signals and restarts at any time: five safety properties (a restart that cuts a cooldown short excepted from one), and that an armed machine does not stay armed |
| `risk_day` | two symbols of one cluster, sizes scaled down and up, four outcomes of each fill of an exit, three round trips, one restart after any handler or in the middle of the fill that closes a trade, paper and live: profits survive but for the trade of that fill and what partial exits made before a restart, streaks but for the trade of that fill; no entry passes a limit |
| `order_journal` | two keys, three ids each, three crashes at any statement or within a write: ids are never used twice |
| `position_desk` | one position of five shares, long or short, three prices, exits filled in parts of two, one restart: the log rebuilds the position, profit is cash, a passed stop ends in an exit unless the gross cap refuses it, every position ends if the cap stops refusing |
| `live_session` | two symbols, a position or none at the start, two entries, two starts, lost answers, failed reads: never short at the broker, no entry on a lasting difference, which also stops the process |
| `research` | two symbols, a first day of four events at four times and two prices, up to six days: windows, sides, labels and folds are what they should be |
| `position_desk_restart` | fails: an exit restored after a crash blocks the stop |
| `signal_desk_monitor` | fails: with the wiring of `run_session` the governor never sees a healthy stream |
| `paper_session_fills` | fails: the completing fill of an entry is not logged |

### Bounds, and why they are enough

Two orders are what the rules about pairs need (one live entry, one exit, the sum
of reservations). Three shares give a partial fill, a second partial (which is
not journaled) and a completion; five shares with a take of three give a
completing fill that differs from the first. Delays of one (ack, cancel) and two
(activation) keep the order the configuration has: ack before activation,
both before the time to live. Eight ticks let an entry expire, cool down, and a
second entry and two exits follow. `MaxGross` is below two full reservations, so
the cap refuses the second order until the first has released enough.
In `SignalDesk` three prices are an extreme, one beyond it and one on the way
back; the timeouts differ by one tick and `MaxAge` is above them all; one lost
message and one tick of lag already cross `GapTolerance` and `Stale`. In
`RiskDay` the two symbols are alike (same cluster, sizes and outcomes), which
makes them a symmetry set; `MaxGross` holds one order and a half, one loss reaches the daily
limit, two the drawdown halt and the streak; three round
trips come before, between and after the restart. Three crashes in
`OrderJournal` tear a line, the line after it and leave one more for the order
made then.
In `PositionDesk` three prices are a stop, a target and one between, and every
average of them is whole; five shares in takes of two leave a remainder below
`MinFill`, two evaluations reach `Persist`; one trade has every rule, since the
desk is the same for each. In `LiveSession` `ReconEvery = 2` leaves a tick
between two reconciles in which an entry may go out on a fresh difference,
`Ttl = 1` lets the entry expire and be sent again. In `Research` the window is
shorter than the day, two horizons end inside and after it, and six days are
enough for folds that divide evenly, unevenly, and too few for the folds asked.
`MaxTime` also bounds the timers and cancels an action may start, so that fair
behaviours see them run out.

### Fairness

`OrderManager!FairSpec`: time passes, the sweep runs (the engine calls it on
every market event), `mark_submitting` follows `create` (the next statement of
its caller), and a cancel is answered (the venue polls on every event and always
ends a cancelled order: `CancelsEnd` of `paper_venue`). Fills, acks and rejects
are not fair: nothing obliges them. `PaperVenue!FairSpec`: time passes and the
venue is polled and quoted. `SignalDesk!FairSpec`: time passes, and the symbol is
quoted and evaluated; without quotes the machine is asked nothing and stays as
it is. What a quote brings is not fair. `PositionDesk!FairSpec`: time passes, and
quotes come that are current and have shares on offer (`LiquidQuote`); their
price and signs are not fair. Without quotes no rule is evaluated and no exit
fills. Nothing is assumed of the room under the gross cap, since nothing in the
code gives exits any: `EveryPositionEnds` speaks of the behaviours in which the
cap refuses exits no more from some time on. `LiveSession!FairSpec`: time passes and market events come, since
`on_tick` runs on each of them; whether a read succeeds is not fair, and a
failed one stops the process as well.

## What fails

Three statements of the repository that a run refutes:

1. `execution/ledger.py:5` says the position log is enough to rebuild open
   positions. `OrderManager.on_fill` reports FILLED to `on_terminal` before it
   returns; `_on_order_terminal` (`runtime.py:185`) drops the pending signal, and
   `_on_fill` (`runtime.py:154`) then skips the position. The last fill of each
   entry is lost to the position, its log and the machine. An entry that fills
   at once leaves the machine in ENTRY with no position to manage.
   (`paper_session_fills`)
2. `broker/health.py:3` says the governor consults the monitor. `run_session`
   replaces the engine's monitor (`runtime.py:395`) after the governor was given
   the old one, which never connects: a session on the live stream decides
   NO_TRADE for ever. A replay, which replaces nothing, trades.
   (`signal_desk_monitor`)
3. `execution/positions.py:3` says exits are checked on every quote, the hard stop
   first. After a restart an exit restored from the journal (`ledger.py:148`) is
   live in the book only: no venue has it, it has no timer, and `_submit_exit`
   sends one exit at a time, so the stop is seen and nothing works it.
   (`position_desk_restart`)

And ten that the models show without a run of their own:

* `execution/order_manager.py:182` says a late fill is accepted. One that
  completes an EXPIRED order raises after booking it (`:196`). The simulated
  venue gets there without any fault: no event between the ack's due time and
  the time to live expires the order locally while it works on.
  `OnlyLateFillsRaise` shows that nothing else raises.
* `runtime.py:133` applies the events of one venue call in a loop. When the late
  fill above raises in it, the events behind it are lost, and the fill of an exit
  may be one of them: memory and log, which a restart reads, still have shares
  the venue has sold. `NeverOversells` makes an exception of it (`dropped`); without the
  exception TLC finds the way there with entries of two and of five shares.
* `execution/order_manager.py:16` says an order expires even on a dead tape. A
  restored order has no `expire_at`, stays live for ever and keeps its symbol
  from trading; hence the exceptions of `TimersEndOrders` and
  `EveryPositionEnds`.
* `execution/risk2.py:4` says the gross limit includes pending exposure. Of the
  three gates one adds the new order to positions, one positions to
  reservations, one the new order to reservations; none adds all three, and the
  size is multiplied by up to one and a half after the first two. `RiskDay`
  reaches states above the limit.
* `execution/positions.py:3` says exits are checked on every quote, the hard stop
  first. `create` counts an exit against the gross cap like an entry
  (`order_manager.py:136`), with the reservations of all symbols; when it is
  refused, `_submit_exit` returns (`runtime.py:362`) and a passed stop has no
  exit until a later evaluation finds room. `StopEndsInExit` and
  `EveryPositionEnds` make an exception of it.
* `execution/ledger.py:4` names cooldowns among what is in the risk ledger. No code
  writes one: the cooldown of the signal machine (`strategy/fsm.py:86`, `:99`)
  and those of `RiskManager`, the pause after a losing streak included, are gone
  after a restart. A machine restarted within its cooldown arms at once;
  `CalmAfterTrade` makes an exception of it (`forgot`).
* `execution/ledger.py:11` says a restart reloads the realized PnL of the day. What
  partial exits realized is in the position in memory only
  (`positions.py:113-115`) until the last exit reports it; a restart in between
  loses it from every book of the day. `BooksAgree` says exactly how much is
  missing.
* `execution/risk2.py:13` says the ledger restores all of the risk state. The
  peak of the day is not restored (`:55`): a fall from it that came before the
  restart no longer counts towards the halt.
* `research/replay.py:150` means to flatten what is left at the end of the day. It
  submits the exit and gives the venue one quote of the same time, before the
  activation of the exit; unless an earlier exit still works there, nothing
  fills, and the trade is missing from the result. `PaperSession!Flatten` is the
  step.
* `execution/ledger.py:5` says the position log is enough after a crash. A crash
  after `on_fill` has journaled an exit as FILLED and before its row is in the
  position log (`runtime.py:149`, `:164`) leaves a position that is gone, and the
  next process sells it again (`CrashClosing` of `RiskDay` at `"none"`).

## Proofs

Eight modules hold theorems. Each proves one inductive invariant, `IInv`, with
one lemma per kind of step, and every property from it (`RecordProofs` has two
components and an invariant for each). The only assumptions are
the named ones of the modules: quantities are positive or natural numbers as the
code has them, times and limits are natural numbers, intervals are positive,
entry and exit ids differ, no symbol is the string that stands for "no entry".
Bounds are arbitrary, so the theorems hold for any number of orders, trades,
crashes and restarts.

`OrderManagerProofs`: `TypeOK`, `OneActiveEntry`, `ReservationBound`,
`ReservationWithinCap`, `JournalAgrees`, `FilledMatchesVenue`, `FilledIsComplete`
and the refinement of `OrderLifecycle`. None of these is inductive alone. `IInv`
adds what an order's state says of its other fields (a live order is not fully
filled, FILLED orders are; an absent order's journal row is terminal or missing;
a journaled fill is never above the booked one), the bound on each reservation in
a form division preserves, and that the venue has traded no more than was asked.
The cap is a sum over a finite set of orders: the sum of a function is shown to
be the number of pairs of an order and a unit reserved for it, and what such a
number does when one order changes follows from the cardinality theorems of the
library.

`PaperVenueProofs`: `ToldTheTruth`, `NoneIsLost`, `FokAllOrNone`, and that
`PaperVenue` implements `Exchange`. `IInv` relates each order to what was told of
it (`Truthful`): a working order has traded what was told, at most one ack and no
cancel, and an order that works no more was told traded in full or cancelled.
Each operator of `VenueOrder` is shown to give a right answer to a truthful order,
and the clock plays no part in it.

`PaperSessionProofs`: `NeverOversells`, `ManageMeansPosition`,
`BookAndVenueAgree` and `OnlyLateFillsRaise`. The four hold together or not at
all, and only between calls, so `IInv` is about a session, `Sound`, and each call
is shown to keep it:
* `Desk` holds even while a venue call is half applied: log and position are
  equal, MANAGE has a position, the session has raised only if an expired entry
  was filled in full, every id in use is in the journal (so a restart does not
  give it out again), no exit expires, and at most one exit is at the venue.
* `Covered`: the position is no more than is held.
* `Known`: of an order whose events were applied, book and venue have the same
  fill, and an exit at the venue has no more to sell than the position; an order
  that has left the venue is over in the book as well, has no timer, or is still
  SUBMITTING there.

A venue call walks through the placed orders; `Known` holds of the orders behind
and the orders ahead, and each step makes up for what its events change. The fold
over the orders is proved about by a chain of partial results (`Walks`) and a
least counterexample. That a late completing fill is an entry's is why the other
three survive it: exits have no timer.

`PositionDeskProofs`: `LogRebuildsPosition`, `StopEndsInExit` (with its exception
for the gross cap) and `RealizedIsCash`, for every set of prices, liquidity and minimum fill. The log
clears a position when an exit row has at least its quantity, memory when the
quantity reaches zero, so they agree only as long as no exit sells more than there
is: `IInv` adds that what is unfilled of the exit at the venue is within the
position (`Within`), and that a position without shares is no position (`Held`).
`Accrues` says that what a position has realized is what its fills paid as long
as it is held, for any prices. At flat the cost of the last shares must be gone
as well: `RoundTrips` proves `RealizedIsCash` of behaviours in which the average
entry price is whole (`WholeAverage`), the model's prices being integers; the code
divides floats, and a remainder lost to integer division would be the model's.
In the run every average is whole.

`LiveSessionProofs`: `NeverShortAtBroker` and `NoEntryOnDrift`. The first needs
`Covered`: what the broker works to sell is covered by account and position, and
where the book has no exit the account has at least the position, which is what
the next exit relies on. The second needs `Timely`: while a process trades, a
difference is no older than the last reconcile that went well.

`SignalDeskProofs`: `StopBeyondBurst`, `PatientEntry`, `CalmAfterTrade`,
`NeverEntersHeld` and `EntryHasOrder`. `IInv` adds that the extreme is beyond every price of the burst
(`Beyond`), that a burst is as old as the machine has waited for its confirmation
and old enough once it has it (`Aging`), and that what is left of a cooldown makes
up for the calm that is missing (`Backing`), unless a restart cut it short.

`RecordProofs`, the journal: `NeverResubmitted` and `FreshIsNew` of `OrderJournal`
(`JournalSpec`). Any number of crashes may tear any line, so `FileInv` follows an
order through its stages (`Underway`): an id is given to the venue only when a row
of it is on a line of its own (`OnFile`), the one of its creation or, if a torn
line takes that, the next; and no number on file is above the counter of its key
(`Counted`). The counter a restart finds is the largest number on file.

`RecordProofs`, recorded days: `WindowExact`, `ClassifiedInForce`,
`LabelsLookForward` and `FoldsSound` of `Research`, and `Forward`, that no symbol's
windows go back in time within a day. Folds are a matter of arithmetic. The rest
depends on the order of the replay, as a day is recorded in any order, so
`ReplayInv` adds
* `InOrder`: nothing that is still to come is before anything that was replayed.
  This is where `__lt__` matters: without its second part a trade could be
  classified before a quote of the same time.
* `Windows`: each window is sorted, and holds what was *replayed* of its symbol
  from one window before its last event on. What the code keeps is the longest
  suffix that is not too old; that it is all that is not too old needs the order.
  `WindowExact`, which is about what was *recorded*, follows with `InOrder`.
* `Mids`: the miner has every quote replayed so far, in order.

The steps rest on lemmas about sorted sequences: an append at the end keeps them
sorted and `Trim` drops exactly what is too old, since the old indices are an
initial segment (`Prefix`). The same lemma gives `Searchsorted`: the positions
`np.searchsorted` finds split the quotes at the event and at the horizon, so the
path of a label is what `LabelsLookForward` says; signs are swapped by `Opposite`,
minima and maxima exist for finite sets (`MaxMin`, by a minimal counterexample,
without induction). `FoldsOK` is `FoldsSound` for any number of days, folds and
embargo days, not only those of the run: the parts of `np.array_split` are not
empty and follow each other (`PartEnds`), so every day is in one of them
(`PartOf`: the first part that ends no earlier).

`RiskDayProofs`: `BooksAgree`, `StreakSurvives` and `NoEntryPastLimits`. The first
relates the books to what the fills of the exits made, through partial exits,
restarts and crashes: a position has what its exits earned less what was
forgotten, and the books have the profit of the closed trades less what was lost.
The limits are about the profits the books were told of. The three are nearly inductive; `IInv` adds `StopKnown`, that a stop is in the ledger and in
what gates the entries of this process.

Proving corrected the models in three places. Two arms of a CASE in
`VenueOrder!AfterTrade` overlapped, which leaves open the value TLC happened to
choose. `NeverOversells` counted as held only what the engine had heard of, so it
could not see the fills an exception loses; with the venue's count it does, and
the exception is part of the property. And what the venue tells of one order in
one call is at most two events, which `PaperVenue!Heard` now says.

Left to TLC: the liveness properties (`TimersEndOrders`, `CancelsEnd`,
`ArmedEnds`, `EveryPositionEnds`, `DriftStops`), since the provers reason about
neither fairness nor ENABLED, and the three properties that fail.

## Not modelled

* A crash between two statements of one handler, other than in `OrderJournal` and
  in the closing fill of `RiskDay`: the sessions restart between handlers. The
  order manager's restart may come after any of its calls.
* Torn rows of the risk ledger and the position log: `load_day` and
  `rebuild_positions` pass over a line that cannot be read, as `OrderJournal`
  does, and what it said is lost. Their rows are whole in the models.
* Cooldowns and pauses after a restart: they are lost in the models as they are in
  the code, and no property promises them.
* `shutdown(flatten)`, heartbeats and dashboards; the adapter's payload parsing,
  history download and the calls nothing uses.
* Every real-valued feature, and the scorer, volume, ml and optimizer code: they
  decide *whether* the engine acts, which the models leave open, and a finite
  model of a filter would tell nothing apart. The same holds for the statistics
  of stress and report.
* `run_replay`'s loop over the engine: it drives the handlers that `PaperSession`
  has, in the order that `Research` has; its end of the day is in `PaperSession`.
* `wliq.data` (recorders, data quality) is imported but not in the repository.
* `execution/paper.py` is superseded by the venue and used by tests only.

## Plan

1. The crash inside any handler of `PaperSession`, with the position log as the
   property that then needs an exception.
2. `features/volume.py` (buckets and profile) and the confirmation timers of
   `features/dynamics.py`, as functions compared with reference definitions.
3. The session as an implementation of a smaller specification, in which entries
   and exits happen at once and only shares held can be sold, so that
   `NeverOversells` becomes a refinement.
