------------------------------ MODULE Research ------------------------------
(***************************************************************************)
(* What the research tools make of recorded days: load_events and the       *)
(* order it replays them in (research/replay.py), the windows the           *)
(* FeatureEngine keeps of them (features/engine.py), the events mine_events *)
(* finds and the labels it gives them (research/miner.py), and the folds    *)
(* purged_walk_forward tests the mined days in (research/walkforward.py).   *)
(*                                                                         *)
(* A quote is its mid.  What the features say of a quote is left to chance; *)
(* returns are price differences, which have their sign and order.          *)
(***************************************************************************)
EXTENDS Integers, Sequences, FiniteSets, FiniteSetsExt, Functions

CONSTANTS Symbol, Mined,        \* streamed symbols, and those traded
          Time, Price,          \* times and prices of the tape
          Window,               \* feature_window_seconds
          EvalEvery, MinEvents, MinGap,
          Check, Horizon,       \* the kinds of events mined, HORIZONS
          MaxEvents, MaxDays    \* bounds: of the first day (later ones have one event), of days

ASSUME ResearchAssumption ==
  /\ Mined \subseteq Symbol /\ Time \subseteq Nat /\ Price \subseteq Nat \ {0}
  /\ Window \in Nat /\ EvalEvery \in Nat /\ MinEvents \in Nat /\ MinGap \in Nat
  /\ Horizon \subseteq Nat \ {0}
  /\ MaxEvents \in Nat /\ MaxDays \in Nat

VARIABLES day,          \* everything recorded of the day
          tape,         \* what of it is still to be replayed
          replaying,
          quotes, trades,       \* the windows of each symbol
          trimmed,      \* when each symbol's windows were last trimmed
          mids,         \* the quotes of each mined symbol, in order
          lastEval, lastMined,
          mined,        \* the events found
          days          \* days mined before

engine == <<quotes, trades, trimmed>>
miner == <<mids, lastEval, lastMined, mined>>
vars == <<day, tape, replaying, engine, miner, days>>

Event == [symbol: Symbol, kind: {"quote", "trade"}, ts: Time, px: Price]

Never == -1000

Fresh ==
  /\ quotes' = [s \in Symbol |-> <<>>] /\ trades' = [s \in Symbol |-> <<>>]
  /\ trimmed' = [s \in Symbol |-> Never]
  /\ mids' = [s \in Mined |-> <<>>] /\ mined' = {}
  /\ lastEval' = [s \in Mined |-> Never]
  /\ lastMined' = [s \in Mined, c \in Check |-> Never]

Init ==
  /\ day = {} /\ tape = {} /\ replaying = FALSE /\ days = 0
  /\ quotes = [s \in Symbol |-> <<>>] /\ trades = [s \in Symbol |-> <<>>]
  /\ trimmed = [s \in Symbol |-> Never]
  /\ mids = [s \in Mined |-> <<>>] /\ mined = {}
  /\ lastEval = [s \in Mined |-> Never]
  /\ lastMined = [s \in Mined, c \in Check |-> Never]

(* An event is recorded, in whatever order the feed had it. *)
Record(e) ==
  /\ ~replaying /\ Cardinality(day) < (IF days = 0 THEN MaxEvents ELSE 1)
  /\ day' = day \cup {e}
  /\ UNCHANGED <<tape, replaying, engine, miner, days>>

(* load_events: a heap of the whole day. *)
LoadEvents ==
  /\ ~replaying /\ day # {}
  /\ replaying' = TRUE /\ tape' = day
  /\ UNCHANGED <<day, engine, miner, days>>

-----------------------------------------------------------------------------
BeforeInTime(d, e) == d.ts < e.ts

(* ReplayEvent.__lt__: by time, a quote before a trade of the same time.    *)
Before(d, e) == d.ts < e.ts \/ (d.ts = e.ts /\ d.kind = "quote" /\ e.kind = "trade")

(* heappop: any of the least. *)
Pops(e) == replaying /\ e \in tape /\ ~ \E d \in tape : Before(d, e)

TrimOne(q, now) == IF q # <<>> /\ Head(q).ts < now - Window THEN Tail(q) ELSE q

(* _trim drops from the left what is older than the window. *)
Trim(q, now) ==
  LET old == {i \in DOMAIN q : \A k \in 1..i : q[k].ts < now - Window}
  IN SubSeq(q, Cardinality(old) + 1, Len(q))

(* _classify: the side of a trade relative to the mid of the last quote.    *)
Classify(t) ==
  LET q == quotes[t.symbol]
  IN IF q = <<>> \/ t.px = q[Len(q)].px THEN "none" ELSE IF t.px > q[Len(q)].px THEN "BUY" ELSE "SELL"

EngineOnQuote(e) ==
  /\ quotes' = [quotes EXCEPT ![e.symbol] = Trim(Append(@, e), e.ts)]
  /\ trades' = [trades EXCEPT ![e.symbol] = Trim(@, e.ts)]
  /\ trimmed' = [trimmed EXCEPT ![e.symbol] = e.ts]

EngineOnTrade(e) ==
  LET t == [ts |-> e.ts, px |-> e.px, side |-> Classify(e)]
  IN /\ trades' = [trades EXCEPT ![e.symbol] = Trim(Append(@, t), e.ts)]
     /\ quotes' = [quotes EXCEPT ![e.symbol] = Trim(@, e.ts)]
     /\ trimmed' = [trimmed EXCEPT ![e.symbol] = e.ts]

OnTrade(e) ==
  /\ Pops(e) /\ e.kind = "trade" /\ tape' = tape \ {e}
  /\ EngineOnTrade(e)
  /\ UNCHANGED <<day, replaying, miner, days>>

(* A quote of a benchmark, or one too soon after the last evaluation. *)
OnQuoteUnseen(e) ==
  /\ Pops(e) /\ e.kind = "quote" /\ tape' = tape \ {e}
  /\ EngineOnQuote(e)
  /\ e.symbol \in Mined => e.ts - lastEval[e.symbol] < EvalEvery
  /\ mids' = IF e.symbol \in Mined THEN [mids EXCEPT ![e.symbol] = Append(@, e)] ELSE mids
  /\ UNCHANGED <<day, replaying, lastEval, lastMined, mined, days>>

(* A quote that is evaluated: of the checks that hit, those whose last      *)
(* event lies min_gap_seconds back are mined.                              *)
OnQuoteEvaluated(e, hits, direction) ==
  LET s == e.symbol
      busy == Len(quotes'[s]) + Len(trades'[s]) >= MinEvents
      found == {c \in hits : busy /\ e.ts - lastMined[s, c] >= MinGap}
  IN /\ Pops(e) /\ e.kind = "quote" /\ tape' = tape \ {e}
     /\ s \in Mined /\ e.ts - lastEval[s] >= EvalEvery
     /\ EngineOnQuote(e)
     /\ mids' = [mids EXCEPT ![s] = Append(@, e)]
     /\ lastEval' = [lastEval EXCEPT ![s] = e.ts]
     /\ lastMined' = [k \in DOMAIN lastMined |->
                        IF k[1] = s /\ k[2] \in found THEN e.ts ELSE lastMined[k]]
     /\ mined' = mined \cup
          {[symbol |-> s, ts |-> e.ts, check |-> c, direction |-> direction, px |-> e.px] : c \in found}
     /\ UNCHANGED <<day, replaying, days>>

(* The next day is mined by a new engine.                                   *)
NextDay ==
  /\ replaying /\ tape = {}
  /\ days < MaxDays /\ days' = days + 1
  /\ Fresh
  /\ day' = {} /\ replaying' = FALSE /\ UNCHANGED tape

Next ==
  \/ \E e \in Event : Record(e)
  \/ LoadEvents
  \/ \E e \in tape : OnTrade(e) \/ OnQuoteUnseen(e)
  \/ \E e \in tape, hits \in SUBSET Check, direction \in {1, -1} : OnQuoteEvaluated(e, hits, direction)
  \/ NextDay

Spec == Init /\ [][Next]_vars

-----------------------------------------------------------------------------
(* Labels.                                                                  *)

NoLabel == [fwd |-> Never, mfe |-> Never, mae |-> Never]

(* np.searchsorted, with side "left" and "right".                           *)
Left(series, t) == Cardinality({i \in DOMAIN series : series[i].ts < t})
Right(series, t) == Cardinality({i \in DOMAIN series : series[i].ts <= t})

LabelPastHorizon(m, h) ==
  LET series == mids[m.symbol]
      j == Right(series, m.ts + h) + 1
      moves == {m.direction * (series[i].px - m.px) : i \in (Right(series, m.ts) + 1)..j}
  IN IF j > Len(series) THEN NoLabel
     ELSE [fwd |-> m.direction * (series[j].px - m.px), mfe |-> -Min(moves), mae |-> -Max(moves)]

(* _attach_forward: the move to the first quote at or after the horizon, in  *)
(* the direction of the event, and the best and the worst of the path for   *)
(* who fades it; none if the day ends before.                              *)
Label(m, h) ==
  LET series == mids[m.symbol]
      j == Left(series, m.ts + h) + 1
      moves == {m.direction * (series[i].px - m.px) : i \in (Right(series, m.ts) + 1)..j}
  IN IF j > Len(series) THEN NoLabel
     ELSE [fwd |-> m.direction * (series[j].px - m.px), mfe |-> -Min(moves), mae |-> -Max(moves)]

-----------------------------------------------------------------------------
(* Folds over n mined dates, 1..n.                                          *)

(* np.array_split into k parts: the first n % k get one more.               *)
PartEnd(n, k, i) == i * (n \div k) + (IF i < n % k THEN i ELSE n % k)

Part(n, k, i) == (PartEnd(n, k, i - 1) + 1)..PartEnd(n, k, i)

FoldCount(n, folds) == IF n >= folds + 1 THEN folds ELSE Max({1, n - 1})

FoldsFromFirst(n, folds, embargo) ==
  LET k == FoldCount(n, folds)
  IN [i \in 1..k |-> [train |-> 1..PartEnd(n, k + 1, i - 1), test |-> Part(n, k + 1, i)]]

(* purged_walk_forward: train on everything before the part tested, without *)
(* its last embargo_days, if there are more than that.                      *)
Folds(n, folds, embargo) ==
  LET k == FoldCount(n, folds)
      before(i) == PartEnd(n, k + 1, i)
  IN [i \in 1..k |->
        [train |-> 1..(IF before(i) > embargo THEN before(i) - embargo ELSE before(i)),
         test |-> Part(n, k + 1, i + 1)]]

-----------------------------------------------------------------------------
(* Replay never looks ahead and forgets nothing: whatever the order events  *)
(* were recorded in, the windows of a symbol hold what was recorded in the  *)
(* window before the last event of it, and nothing later.                  *)
Inside(s, kind) ==
  {e \in day : e.symbol = s /\ e.kind = kind /\ e.ts >= trimmed[s] - Window}

WindowExact ==
  \A s \in Symbol : trimmed[s] # Never =>
    /\ {e \in Inside(s, "quote") : e.ts < trimmed[s]} \subseteq Range(quotes[s])
    /\ Range(quotes[s]) \subseteq {e \in Inside(s, "quote") : e.ts <= trimmed[s]}
    /\ {[ts |-> e.ts, px |-> e.px] : e \in {d \in Inside(s, "trade") : d.ts < trimmed[s]}}
         \subseteq {[ts |-> t.ts, px |-> t.px] : t \in Range(trades[s])}
    /\ \A t \in Range(trades[s]) : t.ts >= trimmed[s] - Window /\ t.ts <= trimmed[s]

(* The quotes in force at a time: the last of those before or at it.        *)
InForce(s, t) ==
  {q \in day : /\ q.symbol = s /\ q.kind = "quote" /\ q.ts <= t
               /\ \A d \in day : d.symbol = s /\ d.kind = "quote" /\ d.ts <= t => d.ts <= q.ts}

(* "tiebreak: quotes before trades at equal ts": a trade has the side the   *)
(* quotes in force at its time give it, if any.                            *)
ClassifiedInForce ==
  \A s \in Symbol : \A t \in Range(trades[s]) :
    CASE t.side = "BUY" -> \E q \in InForce(s, t.ts) : t.px > q.px
      [] t.side = "SELL" -> \E q \in InForce(s, t.ts) : t.px < q.px
      [] OTHER -> TRUE

(* A label is the move from the event to a first quote at or after the      *)
(* horizon, its excursions are those of the quotes strictly after the event *)
(* up to that quote, and it is missing only if the day has no such quote.   *)
LabelsLookForward ==
  replaying /\ tape = {} =>
    \A m \in mined, h \in Horizon :
      LET after == {q \in day : q.symbol = m.symbol /\ q.kind = "quote" /\ q.ts > m.ts}
          reached == {q \in after : q.ts >= m.ts + h}
          gain(q) == -m.direction * (q.px - m.px)
          first == {q \in reached : \A r \in reached : q.ts <= r.ts}
          l == Label(m, h)
      IN IF reached = {} THEN l = NoLabel
         ELSE \E q \in first :
                LET path == {p \in after : p.ts < q.ts} \cup {q}
                IN /\ l.fwd = -gain(q)
                   /\ l.mfe = Max({gain(p) : p \in path})
                   /\ l.mae = Min({gain(p) : p \in path})

(* "Day-level purged walk-forward with embargo between train and test": of  *)
(* two days or more, every day but those of the first part is tested once,  *)
(* after days it was trained on, which end embargo_days before it unless    *)
(* there are no more than that; there is always something to train on.      *)
FoldsSound ==
  \A folds \in 1..MaxDays, embargo \in 0..2 : days >= 2 =>
    LET f == Folds(days, folds, embargo)
    IN /\ \A i \in DOMAIN f :
            /\ f[i].train # {} /\ f[i].test # {}
            /\ \/ Max(f[i].train) + embargo < Min(f[i].test)
               \/ Min(f[i].test) - 1 <= embargo /\ f[i].train = 1..(Min(f[i].test) - 1)
       /\ \A d \in 1..days :
            Cardinality({i \in DOMAIN f : d \in f[i].test}) = IF d < Min(f[1].test) THEN 0 ELSE 1
=============================================================================
