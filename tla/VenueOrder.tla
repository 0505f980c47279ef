----------------------------- MODULE VenueOrder -----------------------------
(***************************************************************************)
(* One working order of the PaperVenue (execution/venue_paper.py): the     *)
(* record it keeps (_Working) and what submissions, market data and clock  *)
(* polls do to it.  Every operator returns the order afterwards and the    *)
(* venue events it produced, as a sequence.                                *)
(*                                                                         *)
(* Prices are abstracted to what decides a fill: whether a limit is        *)
(* marketable, where a print is relative to it, and how many shares a      *)
(* quote lets the venue take.                                              *)
(***************************************************************************)
EXTENDS Integers, Sequences

CONSTANTS AckLatency, Latency, CancelLatency,   \* ack, activation and cancel delays
          MinFill,                              \* partial_fill_min_shares
          TradeThrough                          \* require_trade_through

ASSUME VenueAssumption ==
  /\ AckLatency \in Nat /\ Latency \in Nat /\ CancelLatency \in Nat
  /\ MinFill \in Nat \ {0}
  /\ TradeThrough \in BOOLEAN

Kind == {"MARKET", "LIMIT"}
Tif == {"DAY", "IOC", "FOK"}

None == -1                              \* cancel_at is None
Gone == [gone |-> TRUE]                 \* not in PaperVenue.working

Ack(c) == [kind |-> "ack", coid |-> c, qty |-> 0]
Fill(c, q) == [kind |-> "fill", coid |-> c, qty |-> q]
CancelAck(c) == [kind |-> "cancel_ack", coid |-> c, qty |-> 0]

Unfilled(w) == IF w.quantity > w.filled THEN w.quantity - w.filled ELSE 0

(***************************************************************************)
(* submit: a market order, a marketable limit, an IOC or an FOK waits for  *)
(* the first quote after its activation; another limit queues behind the   *)
(* displayed size.                                                         *)
(***************************************************************************)
Working(kind, tif, quantity, marketable, displayed, now) ==
  LET aggressive == kind = "MARKET" \/ marketable \/ tif # "DAY"
  IN [kind |-> kind, tif |-> tif, quantity |-> quantity, filled |-> 0,
      awaiting |-> aggressive, queue |-> IF aggressive THEN 0 ELSE displayed,
      acked |-> FALSE, ackAt |-> now + AckLatency, activateAt |-> now + Latency,
      cancelAt |-> None]

AfterCancel(w, now) ==
  IF w = Gone \/ w.cancelAt # None THEN w ELSE [w EXCEPT !.cancelAt = now + CancelLatency]

AggressFokPartially(c, w, take) ==
  LET qty == IF take < Unfilled(w) THEN take ELSE Unfilled(w)
      traded == IF qty >= MinFill THEN [w EXCEPT !.filled = @ + qty] ELSE w
      fills == IF qty >= MinFill THEN <<Fill(c, qty)>> ELSE <<>>
  IN IF w.tif # "DAY"
       THEN <<Gone, IF Unfilled(traded) > 0 THEN Append(fills, CancelAck(c)) ELSE fills>>
     ELSE IF Unfilled(traded) = 0 THEN <<Gone, fills>>
     ELSE <<traded, fills>>

AggressSilently(c, w, take) ==
  LET qty == IF take < Unfilled(w) THEN take ELSE Unfilled(w)
      traded == IF qty >= MinFill THEN [w EXCEPT !.filled = @ + qty] ELSE w
      fills == IF qty >= MinFill THEN <<Fill(c, qty)>> ELSE <<>>
  IN IF w.tif # "DAY" \/ Unfilled(traded) = 0 THEN <<Gone, fills>> ELSE <<traded, fills>>

AggressWithoutMinimum(c, w, take) ==
  LET traded == [w EXCEPT !.filled = @ + take]
      fills == <<Fill(c, take)>>
  IN IF w.tif # "DAY"
       THEN <<Gone, IF Unfilled(traded) > 0 THEN Append(fills, CancelAck(c)) ELSE fills>>
     ELSE IF Unfilled(traded) = 0 THEN <<Gone, fills>>
     ELSE <<traded, fills>>

(***************************************************************************)
(* _aggress: take shares are on offer at a price within the limit.  A      *)
(* filled FOK stays in the working orders; an IOC never does.              *)
(***************************************************************************)
Aggress(c, w, take) ==
  LET qty == IF take < Unfilled(w) THEN take ELSE Unfilled(w)
      traded == IF qty >= MinFill THEN [w EXCEPT !.filled = @ + qty] ELSE w
      fills == IF qty >= MinFill THEN <<Fill(c, qty)>> ELSE <<>>
  IN IF w.tif = "FOK"
       THEN IF take >= Unfilled(w)
              THEN <<[w EXCEPT !.filled = @ + Unfilled(w)], <<Fill(c, Unfilled(w))>> >>
              ELSE <<Gone, <<CancelAck(c)>> >>
     ELSE IF w.tif = "IOC"
       THEN <<Gone, IF Unfilled(traded) > 0 THEN Append(fills, CancelAck(c)) ELSE fills>>
     ELSE IF Unfilled(traded) = 0 THEN <<Gone, fills>>
     ELSE <<traded, fills>>

(* on_quote, for one order: only a quote made and seen after its activation *)
(* reaches it.                                                             *)
AfterQuote(c, w, take, ts, now) ==
  IF w # Gone /\ w.awaiting /\ now >= w.activateAt /\ ts >= w.activateAt
    THEN Aggress(c, w, take) ELSE <<w, <<>> >>

AfterTradeUnbooked(c, w, print, size, lucky, now) ==
  IF w # Gone /\ ~w.awaiting /\ now >= w.activateAt /\ print = "at" /\ size < Unfilled(w)
    THEN <<w, <<Fill(c, size)>> >> ELSE <<w, <<>> >>

(***************************************************************************)
(* on_trade, for one resting limit: a print through the limit fills the    *)
(* rest of it, a print at the limit works off the queue and then, unless   *)
(* fills need a trade-through, fills up to its size.  lucky is the outcome *)
(* of the fill-probability draw.                                           *)
(***************************************************************************)
AfterTrade(c, w, print, size, lucky, now) ==
  LET qty == IF size < Unfilled(w) THEN size ELSE Unfilled(w)
      traded == [w EXCEPT !.filled = @ + qty]
  IN IF w = Gone \/ w.awaiting \/ w.kind = "MARKET" \/ now < w.activateAt THEN <<w, <<>> >>
     ELSE CASE print = "through" /\ lucky -> <<Gone, <<Fill(c, Unfilled(w))>> >>
            [] print = "at" /\ w.queue > 0 ->
                 <<[w EXCEPT !.queue = IF @ > size THEN @ - size ELSE 0], <<>> >>
            [] print = "at" /\ w.queue = 0 /\ ~TradeThrough /\ lucky /\ qty >= MinFill ->
                 <<IF Unfilled(traded) = 0 THEN Gone ELSE traded, <<Fill(c, qty)>> >>
            [] OTHER -> <<w, <<>> >>

AfterVenuePollAwaiting(c, w, now) ==
  LET acks == w # Gone /\ ~w.acked /\ now >= w.ackAt
      ends == w # Gone /\ w.cancelAt # None /\ now >= w.cancelAt /\ ~w.awaiting
  IN <<IF ends THEN Gone ELSE IF acks THEN [w EXCEPT !.acked = TRUE] ELSE w,
       (IF acks THEN <<Ack(c)>> ELSE <<>>) \o (IF ends THEN <<CancelAck(c)>> ELSE <<>>)>>

(* poll, for one order: the ack once it is due, then the cancel-ack.        *)
AfterVenuePoll(c, w, now) ==
  LET acks == w # Gone /\ ~w.acked /\ now >= w.ackAt
      ends == w # Gone /\ w.cancelAt # None /\ now >= w.cancelAt
  IN <<IF ends THEN Gone ELSE IF acks THEN [w EXCEPT !.acked = TRUE] ELSE w,
       (IF acks THEN <<Ack(c)>> ELSE <<>>) \o (IF ends THEN <<CancelAck(c)>> ELSE <<>>)>>
=============================================================================
