-------------------------- MODULE PaperVenueProofs --------------------------
(***************************************************************************)
(* Proofs about PaperVenue, for every set of orders and quantities, every   *)
(* size on offer, every delay and fill parameter, and a clock without end.  *)
(***************************************************************************)
EXTENDS PaperVenue, SequenceTheorems, TLAPS

OrderSet == [kind: Kind, tif: Tif, quantity: Nat \ {0}, filled: Nat,
             awaiting: BOOLEAN, queue: Nat, acked: BOOLEAN,
             ackAt: Nat, activateAt: Nat, cancelAt: Nat \cup {None}]

ToldSet == [acks: Nat, traded: Nat, cancels: Nat]

(* What the venue keeps of a working order is what it told, and only a      *)
(* filled FOK stays with nothing left to trade.                             *)
Kept(w, t, s) ==
  /\ w \in OrderSet
  /\ s = w.quantity /\ t.traded = w.filled
  /\ t.acks = (IF w.acked THEN 1 ELSE 0) /\ t.cancels = 0
  /\ w.tif # "DAY" => w.awaiting
  /\ IF w.tif = "FOK" THEN w.filled \in {0, w.quantity} ELSE w.filled < w.quantity

(* An order w, what was told t of it, and its quantity s when it was sent.  *)
Truthful(w, t, s) ==
  /\ s \in Nat /\ t \in ToldSet
  /\ t.traded <= s /\ t.acks <= 1 /\ t.cancels <= 1
  /\ w # Gone => Kept(w, t, s)
  /\ w = Gone /\ s > 0 => t.traded = s \/ t.cancels = 1
  /\ s = 0 => t = [acks |-> 0, traded |-> 0, cancels |-> 0]

IInv ==
  /\ now \in Nat
  /\ working = [c \in Coid |-> working[c]]
  /\ sent \in [Coid -> Nat]
  /\ told \in [Coid -> ToldSet]
  /\ \A c \in Coid : Truthful(working[c], told[c], sent[c])

(* A report that an exchange may make of an order.                          *)
Legal(t, u, s) ==
  u # t =>
    /\ s > 0
    /\ t.cancels = 0 /\ u.cancels \in 0..1
    /\ u.acks \in t.acks..1
    /\ u.traded \in t.traded..s

(* A fill-or-kill order trades everything at once.                          *)
AllOrNone(w, t, u, s) ==
  w # Gone /\ w.tif = "FOK" /\ u.traded # t.traded => t.traded = 0 /\ u.traded = s

(* An answer r to a call is right if it leaves the order truthful and its    *)
(* report is legal.                                                         *)
Right(w, t, s, r) ==
  LET u == Heard(t, r[2])
  IN Truthful(r[1], u, s) /\ Legal(t, u, s) /\ AllOrNone(w, t, u, s)

-----------------------------------------------------------------------------
(* A working order is not mistaken for none.                                *)
LEMMA NotGone == ASSUME NEW w \in OrderSet PROVE w # Gone
BY DEF OrderSet, Gone

(* What is told after each sequence of events the venue makes of an order.  *)
Telling(a, b, c) == [acks |-> a, traded |-> b, cancels |-> c]

LEMMA HeardOf ==
  ASSUME NEW t \in ToldSet, NEW c, NEW q \in Nat
  PROVE  /\ Heard(t, <<>>) = t
         /\ Heard(t, <<Fill(c, q)>>) = Telling(t.acks, t.traded + q, t.cancels)
         /\ Heard(t, <<CancelAck(c)>>) = Telling(t.acks, t.traded, t.cancels + 1)
         /\ Heard(t, <<Ack(c)>>) = Telling(t.acks + 1, t.traded, t.cancels)
         /\ Heard(t, <<Fill(c, q), CancelAck(c)>>)
              = Telling(t.acks, t.traded + q, t.cancels + 1)
         /\ Heard(t, <<Ack(c), CancelAck(c)>>) = Telling(t.acks + 1, t.traded, t.cancels + 1)
PROOF
<1>1. \A u \in ToldSet :
        /\ Tell(u, Fill(c, q)) = Telling(u.acks, u.traded + q, u.cancels)
        /\ Tell(u, CancelAck(c)) = Telling(u.acks, u.traded, u.cancels + 1)
        /\ Tell(u, Ack(c)) = Telling(u.acks + 1, u.traded, u.cancels)
  BY DEF Tell, Telling, ToldSet, Fill, CancelAck, Ack
<1>2. /\ Telling(t.acks, t.traded + q, t.cancels) \in ToldSet
      /\ Telling(t.acks + 1, t.traded, t.cancels) \in ToldSet
  BY DEF Telling, ToldSet
<1>3. \A e : Heard(t, <<e>>) = Tell(t, e)
  BY DEF Heard
<1>4. \A e, f : Heard(t, <<e, f>>) = Tell(Tell(t, e), f)
  BY DEF Heard
<1>5. Heard(t, <<>>) = t
  BY DEF Heard
<1> QED
  BY <1>1, <1>2, <1>3, <1>4, <1>5 DEF Telling

(* Sequences of the one or two events of a call.                            *)
LEMMA Events ==
  ASSUME NEW a, NEW b
  PROVE  /\ Append(<<>>, b) = <<b>> /\ Append(<<a>>, b) = <<a, b>>
         /\ <<>> \o <<>> = <<>> /\ <<a>> \o <<>> = <<a>> /\ <<>> \o <<b>> = <<b>>
         /\ <<a>> \o <<b>> = <<a, b>>
<1> DEFINE both == <<a, b>>
<1>0. <<a>> \in Seq({a, b}) /\ <<b>> \in Seq({a, b}) /\ both \in Seq({a, b})
  OBVIOUS
<1>1. Append(<<>>, b) = <<b>>
  OBVIOUS
<1>2. Append(<<a>>, b) = both
  <2>1. Append(<<a>>, b) \in Seq({a, b}) /\ Len(Append(<<a>>, b)) = 2 /\ Len(both) = 2
    BY <1>0
  <2>2. \A i \in 1..2 : Append(<<a>>, b)[i] = both[i]
    BY <1>0
  <2> HIDE DEF both
  <2> QED
    BY <1>0, <2>1, <2>2, SeqEqual
<1>3. <<>> \o <<>> = <<>>
  OBVIOUS
<1>4. <<a>> \o <<>> = <<a>>
  OBVIOUS
<1>5. <<>> \o <<b>> = <<b>>
  OBVIOUS
<1>6. <<a>> \o <<b>> = both
  <2>1. <<a>> \o <<b>> \in Seq({a, b}) /\ Len(<<a>> \o <<b>>) = 2 /\ Len(both) = 2
    BY <1>0
  <2>2. \A i \in 1..2 : (<<a>> \o <<b>>)[i] = both[i]
    BY <1>0
  <2> HIDE DEF both
  <2> QED
    BY <1>0, <2>1, <2>2, SeqEqual
<1> QED
  BY <1>1, <1>2, <1>3, <1>4, <1>5, <1>6

(* A call that says nothing of an order and changes at most its queue, or   *)
(* when it is to be cancelled.                                              *)
LEMMA SilentRight ==
  ASSUME NEW w, NEW t, NEW s, Truthful(w, t, s), NEW v,
         v = w \/ (w # Gone /\ v \in OrderSet /\ v # Gone /\ v.tif = w.tif /\ v.quantity = w.quantity
                   /\ v.filled = w.filled /\ v.awaiting = w.awaiting /\ v.acked = w.acked)
  PROVE  Right(w, t, s, <<v, <<>> >>)
<1>1. Heard(t, <<>>) = t
  BY DEF Heard
<1>2. Truthful(v, t, s)
  BY DEF Truthful, Kept
<1> QED
  BY <1>1, <1>2 DEF Right, Legal, AllOrNone

(* A fill that leaves the order working: part of it, or a whole FOK.         *)
LEMMA FillRight ==
  ASSUME NEW c, NEW w, NEW t, NEW s, Truthful(w, t, s), w # Gone, NEW q \in Nat,
         IF w.tif = "FOK" THEN q = w.quantity - w.filled ELSE w.filled + q < w.quantity
  PROVE  Right(w, t, s, << [w EXCEPT !.filled = @ + q], <<Fill(c, q)>> >>)
PROOF
<1> DEFINE v == [w EXCEPT !.filled = @ + q]
           u == Heard(t, <<Fill(c, q)>>)
<1>1. Kept(w, t, s) /\ t \in ToldSet /\ w \in OrderSet
  BY DEF Truthful, Kept
<1>2. u = Telling(t.acks, t.traded + q, t.cancels)
  BY <1>1, HeardOf
<1>3. /\ v \in OrderSet /\ v.filled = w.filled + q /\ v.quantity = w.quantity
      /\ v.tif = w.tif /\ v.awaiting = w.awaiting /\ v.acked = w.acked
  BY <1>1 DEF OrderSet
<1>4. /\ w.quantity \in Nat \ {0} /\ w.filled \in Nat
      /\ t.acks \in Nat /\ t.traded \in Nat /\ t.cancels \in Nat
  BY <1>1 DEF OrderSet, ToldSet
<1>5. u \in ToldSet /\ u.acks = t.acks /\ u.traded = t.traded + q /\ u.cancels = t.cancels
  BY <1>2, <1>4 DEF Telling, ToldSet
<1> HIDE DEF u, v
<1>6. Kept(v, u, s)
  BY <1>1, <1>3, <1>4, <1>5 DEF Kept
<1>7. Truthful(v, u, s)
  BY <1>1, <1>3, <1>4, <1>5, <1>6, NotGone DEF Truthful, Kept
<1>8. Legal(t, u, s)
  BY <1>1, <1>4, <1>5, <1>7 DEF Legal, Kept, Truthful
<1>9. AllOrNone(w, t, u, s)
  BY <1>1, <1>4, <1>5 DEF AllOrNone, Kept
<1> QED
  BY <1>7, <1>8, <1>9 DEF Right, u, v

(* The last that is told of an order: everything is traded, or it is        *)
(* cancelled after whatever else the call told.                             *)
Ending(w, t, u) ==
  /\ u \in ToldSet
  /\ u.acks \in t.acks..1 /\ u.cancels \in {0, 1}
  /\ u.traded \in t.traded..w.quantity
  /\ w.tif = "FOK" => u.traded = t.traded
  /\ u.traded = w.quantity \/ u.cancels = 1

LEMMA LeavesRight ==
  ASSUME NEW w, NEW t, NEW s, Truthful(w, t, s), w # Gone, NEW events,
         Ending(w, t, Heard(t, events))
  PROVE  Right(w, t, s, <<Gone, events>>)
PROOF
<1> DEFINE u == Heard(t, events)
<1>1. Kept(w, t, s) /\ t \in ToldSet /\ w \in OrderSet
  BY DEF Truthful, Kept
<1>2. /\ w.quantity \in Nat \ {0} /\ w.filled \in Nat
      /\ t.acks \in Nat /\ t.traded \in Nat /\ t.cancels \in Nat
  BY <1>1 DEF OrderSet, ToldSet
<1>3. Ending(w, t, u)
  OBVIOUS
<1> HIDE DEF u
<1>4. t.cancels = 0 /\ s = w.quantity /\ t.traded = w.filled
  BY <1>1 DEF Kept
<1>5. Truthful(Gone, u, s)
  BY <1>2, <1>3, <1>4 DEF Truthful, Ending
<1>6. Legal(t, u, s) /\ AllOrNone(w, t, u, s)
  BY <1>2, <1>3, <1>4 DEF Legal, AllOrNone, Ending
<1> QED
  BY <1>5, <1>6 DEF Right, u

-----------------------------------------------------------------------------
(* What is left to trade, and what a quote or a print trades of it.         *)
LEMMA UnfilledOf ==
  ASSUME NEW w, NEW t, NEW s, Kept(w, t, s)
  PROVE  /\ Unfilled(w) = w.quantity - w.filled /\ Unfilled(w) \in Nat
         /\ w.quantity \in Nat \ {0} /\ w.filled \in Nat
         /\ w.tif # "FOK" => Unfilled(w) > 0
         /\ \A q \in Nat : Unfilled([w EXCEPT !.filled = @ + q])
              = IF w.quantity > w.filled + q THEN w.quantity - (w.filled + q) ELSE 0
<1>1. /\ w \in OrderSet /\ w.quantity \in Nat \ {0} /\ w.filled \in Nat
      /\ IF w.tif = "FOK" THEN w.filled \in {0, w.quantity} ELSE w.filled < w.quantity
  BY DEF Kept, OrderSet
<1>2. \A q \in Nat : LET v == [w EXCEPT !.filled = @ + q]
                     IN v.filled = w.filled + q /\ v.quantity = w.quantity
  BY <1>1 DEF OrderSet
<1> QED
  BY <1>1, <1>2 DEF Unfilled

(* Three ways out: cancelled, traded, and cancelled after a fill.           *)
LEMMA WaysOut ==
  ASSUME NEW c, NEW w, NEW t, NEW s, Truthful(w, t, s), w # Gone, NEW q \in 0..Unfilled(w)
  PROVE  /\ Right(w, t, s, <<Gone, <<CancelAck(c)>> >>)
         /\ w.tif # "FOK" => Right(w, t, s, <<Gone, <<Fill(c, Unfilled(w))>> >>)
         /\ w.tif # "FOK" => Right(w, t, s, <<Gone, <<Fill(c, q), CancelAck(c)>> >>)
PROOF
<1> DEFINE left == Unfilled(w)
<1>1. Kept(w, t, s) /\ t \in ToldSet
  BY DEF Truthful
<1>2. /\ left = w.quantity - w.filled /\ left \in Nat
      /\ w.quantity \in Nat \ {0} /\ w.filled \in Nat
      /\ t.acks \in Nat /\ t.acks <= 1 /\ t.traded = w.filled /\ t.cancels = 0
  BY <1>1, UnfilledOf DEF Kept, ToldSet
<1> HIDE DEF left
<1>3. q \in 0..left /\ q \in Nat
  BY <1>2 DEF left
<1>4. Ending(w, t, Heard(t, <<CancelAck(c)>>))
  <2>1. Heard(t, <<CancelAck(c)>>) = Telling(t.acks, t.traded, t.cancels + 1)
    BY <1>1, HeardOf
  <2> QED
    BY <1>2, <2>1 DEF Ending, Telling, ToldSet
<1>5. w.tif # "FOK" => Ending(w, t, Heard(t, <<Fill(c, left)>>))
  <2>1. Heard(t, <<Fill(c, left)>>) = Telling(t.acks, t.traded + left, t.cancels)
    BY <1>1, <1>2, HeardOf
  <2> QED
    BY <1>2, <2>1 DEF Ending, Telling, ToldSet
<1>6. w.tif # "FOK" => Ending(w, t, Heard(t, <<Fill(c, q), CancelAck(c)>>))
  <2>1. Heard(t, <<Fill(c, q), CancelAck(c)>>) = Telling(t.acks, t.traded + q, t.cancels + 1)
    BY <1>1, <1>3, HeardOf, Zenon
  <2> QED
    BY <1>2, <1>3, <2>1 DEF Ending, Telling, ToldSet
<1> QED
  BY <1>4, <1>5, <1>6, LeavesRight DEF left

(* _aggress answers rightly, whatever is on offer.                          *)
LEMMA AggressRight ==
  ASSUME NEW c, NEW w, NEW t, NEW s, Truthful(w, t, s), w # Gone, NEW take \in Nat
  PROVE  Right(w, t, s, Aggress(c, w, take))
PROOF
<1> DEFINE left == Unfilled(w)
           qty == IF take < left THEN take ELSE left
           traded == IF qty >= MinFill THEN [w EXCEPT !.filled = @ + qty] ELSE w
           fills == IF qty >= MinFill THEN <<Fill(c, qty)>> ELSE <<>>
           after == IF w.tif = "FOK"
                      THEN IF take >= left
                             THEN << [w EXCEPT !.filled = @ + left], <<Fill(c, left)>> >>
                             ELSE <<Gone, <<CancelAck(c)>> >>
                    ELSE IF w.tif = "IOC"
                      THEN <<Gone, IF Unfilled(traded) > 0 THEN Append(fills, CancelAck(c)) ELSE fills>>
                    ELSE IF Unfilled(traded) = 0 THEN <<Gone, fills>>
                    ELSE <<traded, fills>>
<1>1. Kept(w, t, s)
  BY DEF Truthful
<1>2. /\ left = w.quantity - w.filled /\ left \in Nat
      /\ w.quantity \in Nat \ {0} /\ w.filled \in Nat
      /\ w.tif # "FOK" => left > 0
  BY <1>1, UnfilledOf
<1>3. qty \in 0..left /\ MinFill \in Nat \ {0}
  BY <1>2, VenueAssumption
<1>4. Unfilled(traded) = IF qty >= MinFill THEN left - qty ELSE left
  BY <1>1, <1>2, <1>3, UnfilledOf
<1>5. Aggress(c, w, take) = after
  BY DEF Aggress
<1>6. /\ Right(w, t, s, <<Gone, <<CancelAck(c)>> >>)
      /\ w.tif # "FOK" => Right(w, t, s, <<Gone, <<Fill(c, left)>> >>)
      /\ w.tif # "FOK" => Right(w, t, s, <<Gone, <<Fill(c, qty), CancelAck(c)>> >>)
  BY <1>3, WaysOut
<1>7. Right(w, t, s, <<w, <<>> >>)
  BY SilentRight
<1>8. w.tif = "FOK" => Right(w, t, s, << [w EXCEPT !.filled = @ + left], <<Fill(c, left)>> >>)
  BY <1>2, FillRight
<1>9. w.tif # "FOK" /\ qty < left
        => Right(w, t, s, << [w EXCEPT !.filled = @ + qty], <<Fill(c, qty)>> >>)
  BY <1>2, <1>3, FillRight
<1>10. CASE qty >= MinFill /\ qty < left
  <2>1. /\ fills = <<Fill(c, qty)>> /\ traded = [w EXCEPT !.filled = @ + qty]
        /\ Unfilled(traded) > 0
    BY <1>2, <1>3, <1>4, <1>10
  <2> HIDE DEF left, qty, traded, fills
  <2>2. Append(fills, CancelAck(c)) = <<Fill(c, qty), CancelAck(c)>>
    BY <2>1, Events
  <2> QED
    BY <1>5, <1>6, <1>8, <1>9, <1>10, <2>1, <2>2
<1>11. CASE qty >= MinFill /\ qty = left
  <2>1. fills = <<Fill(c, left)>> /\ Unfilled(traded) = 0
    BY <1>2, <1>3, <1>4, <1>11
  <2> HIDE DEF left, qty, traded, fills
  <2> QED
    BY <1>5, <1>6, <1>8, <2>1
<1>12. CASE ~(qty >= MinFill)
  <2>1. fills = <<>> /\ traded = w /\ (w.tif # "FOK" => Unfilled(traded) > 0)
    BY <1>2, <1>3, <1>4, <1>12
  <2> HIDE DEF left, qty, traded, fills
  <2>2. Append(fills, CancelAck(c)) = <<CancelAck(c)>>
    BY <2>1, Events
  <2> QED
    BY <1>5, <1>6, <1>7, <1>8, <2>1, <2>2
<1> QED
  BY <1>2, <1>3, <1>10, <1>11, <1>12

(* on_quote answers rightly, late quotes and late calls included.            *)
LEMMA QuoteRight ==
  ASSUME NEW c, NEW w, NEW t, NEW s, Truthful(w, t, s), NEW take \in Nat, NEW ts, NEW at
  PROVE  Right(w, t, s, AfterQuote(c, w, take, ts, at))
<1>1. Right(w, t, s, <<w, <<>> >>)
  BY SilentRight
<1> QED
  BY <1>1, AggressRight DEF AfterQuote

(* on_trade answers rightly: no FOK is among the orders it reaches.          *)
LEMMA TradeRight ==
  ASSUME NEW c, NEW w, NEW t, NEW s, Truthful(w, t, s),
         NEW print, NEW size \in Nat, NEW lucky, NEW at
  PROVE  Right(w, t, s, AfterTrade(c, w, print, size, lucky, at))
PROOF
<1> DEFINE left == Unfilled(w)
           qty == IF size < left THEN size ELSE left
           traded == [w EXCEPT !.filled = @ + qty]
           shorter == [w EXCEPT !.queue = IF @ > size THEN @ - size ELSE 0]
           r == AfterTrade(c, w, print, size, lucky, at)
<1>1. Right(w, t, s, <<w, <<>> >>)
  BY SilentRight
<1>2. CASE w = Gone \/ w.awaiting \/ w.kind = "MARKET" \/ at < w.activateAt
  <2>1. r = <<w, <<>> >>
    BY <1>2 DEF AfterTrade
  <2> QED
    BY <1>1, <2>1
<1>3. CASE ~(w = Gone \/ w.awaiting \/ w.kind = "MARKET" \/ at < w.activateAt)
  <2>1. Kept(w, t, s) /\ t \in ToldSet /\ w.tif # "FOK" /\ w \in OrderSet
    BY <1>3 DEF Truthful, Kept
  <2>2. /\ left = w.quantity - w.filled /\ left \in Nat /\ left > 0
        /\ w.quantity \in Nat \ {0} /\ w.filled \in Nat
        /\ t.acks \in Nat /\ t.traded \in Nat /\ t.cancels \in Nat
        /\ qty \in 0..left
    BY <2>1, UnfilledOf DEF ToldSet
  <2>3. Unfilled(traded) = left - qty
    BY <2>1, <2>2, UnfilledOf
  <2>4. Right(w, t, s, <<Gone, <<Fill(c, left)>> >>)
    BY <1>3, <2>1, <2>2, WaysOut
  <2>5. Right(w, t, s, <<shorter, <<>> >>)
    <3>1. shorter \in OrderSet /\ shorter.tif = w.tif /\ shorter.quantity = w.quantity
          /\ shorter.filled = w.filled /\ shorter.awaiting = w.awaiting
          /\ shorter.acked = w.acked
      BY <2>1 DEF OrderSet
    <3> HIDE DEF shorter
    <3> QED
      BY <1>3, <3>1, SilentRight, NotGone
  <2>6. qty < left => Right(w, t, s, <<traded, <<Fill(c, qty)>> >>)
    BY <1>3, <2>1, <2>2, FillRight
  <2>7. r \in {<<Gone, <<Fill(c, left)>> >>, <<shorter, <<>> >>, <<w, <<>> >>,
               <<IF Unfilled(traded) = 0 THEN Gone ELSE traded, <<Fill(c, qty)>> >>}
    BY <1>3 DEF AfterTrade
  <2>8. Right(w, t, s, <<IF Unfilled(traded) = 0 THEN Gone ELSE traded, <<Fill(c, qty)>> >>)
    BY <2>2, <2>3, <2>4, <2>6
  <2> HIDE DEF r, traded, shorter, qty, left
  <2> QED
    BY <1>1, <2>4, <2>5, <2>7, <2>8 DEF r
<1> QED
  BY <1>2, <1>3

(* poll answers rightly, an ack and a cancel-ack in one call included.       *)
LEMMA PollRight ==
  ASSUME NEW c, NEW w, NEW t, NEW s, Truthful(w, t, s), NEW at
  PROVE  Right(w, t, s, AfterVenuePoll(c, w, at))
PROOF
<1> DEFINE acks == w # Gone /\ ~w.acked /\ at >= w.ackAt
           ends == w # Gone /\ w.cancelAt # None /\ at >= w.cancelAt
           told1 == IF acks THEN <<Ack(c)>> ELSE <<>>
           told2 == IF ends THEN <<CancelAck(c)>> ELSE <<>>
           r == AfterVenuePoll(c, w, at)
<1>1. r = <<IF ends THEN Gone ELSE IF acks THEN [w EXCEPT !.acked = TRUE] ELSE w, told1 \o told2>>
  BY DEF AfterVenuePoll
<1>2. CASE ~acks /\ ~ends
  <2>1. told1 \o told2 = <<>>
    BY <1>2, Events
  <2> HIDE DEF told1, told2
  <2> QED
    BY <1>1, <1>2, <2>1, SilentRight
<1>3. CASE acks \/ ends
  <2>1. Kept(w, t, s) /\ t \in ToldSet /\ w \in OrderSet /\ w # Gone
    BY <1>3 DEF Truthful, Kept
  <2>2. /\ w.quantity \in Nat \ {0} /\ w.filled \in Nat /\ w.filled + 0 <= w.quantity
        /\ t.acks \in Nat /\ t.traded \in Nat /\ t.cancels \in Nat
    BY <2>1 DEF Kept, ToldSet, OrderSet
  <2>3. CASE acks /\ ends
    <3>1. told1 \o told2 = <<Ack(c), CancelAck(c)>>
      BY <2>3, Events
    <3>2. Heard(t, <<Ack(c), CancelAck(c)>>) = Telling(t.acks + 1, t.traded, t.cancels + 1)
      BY <2>1, HeardOf
    <3>3. t.acks = 0 /\ t.cancels = 0 /\ t.traded <= w.quantity
      BY <2>1, <2>2, <2>3 DEF Kept
    <3>4. Ending(w, t, Heard(t, <<Ack(c), CancelAck(c)>>))
      BY <2>2, <3>2, <3>3 DEF Ending, Telling, ToldSet
    <3> HIDE DEF told1, told2
    <3> QED
      BY <1>1, <2>1, <2>3, <3>1, <3>4, LeavesRight
  <2>4. CASE ~acks /\ ends
    <3>1. told1 \o told2 = <<CancelAck(c)>>
      BY <2>4, Events
    <3>2. 0 \in 0..Unfilled(w)
      BY <2>1, UnfilledOf
    <3> HIDE DEF told1, told2
    <3> QED
      BY <1>1, <2>1, <2>4, <3>1, <3>2, WaysOut
  <2>5. CASE acks /\ ~ends
    <3> DEFINE v == [w EXCEPT !.acked = TRUE]
               u == Telling(t.acks + 1, t.traded, t.cancels)
    <3>1. r = <<v, <<Ack(c)>> >>
      <4>1. told1 \o told2 = <<Ack(c)>>
        BY <2>5, Events
      <4> HIDE DEF told1, told2
      <4> QED
        BY <1>1, <2>1, <2>5, <4>1
    <3>2. Heard(t, <<Ack(c)>>) = u
      BY <2>1, HeardOf
    <3>3. /\ u \in ToldSet /\ u.acks = t.acks + 1 /\ u.traded = t.traded /\ u.cancels = t.cancels
      BY <2>2 DEF Telling, ToldSet
    <3>4. /\ v \in OrderSet /\ v.quantity = w.quantity /\ v.filled = w.filled
          /\ v.tif = w.tif /\ v.awaiting = w.awaiting /\ v.acked
      BY <2>1 DEF OrderSet
    <3> HIDE DEF u, v
    <3>5. t.acks = 0 /\ Kept(v, u, s) /\ s = w.quantity /\ t.traded <= s /\ t.cancels = 0
      BY <2>1, <2>5, <3>3, <3>4 DEF Kept, Truthful
    <3>6. Truthful(v, u, s)
      BY <2>2, <3>3, <3>4, <3>5, NotGone DEF Truthful
    <3>7. Legal(t, u, s) /\ AllOrNone(w, t, u, s)
      BY <2>2, <3>3, <3>5 DEF Legal, AllOrNone
    <3> QED
      BY <3>1, <3>2, <3>6, <3>7 DEF Right
  <2> QED
    BY <1>3, <2>3, <2>4, <2>5
<1> QED
  BY <1>2, <1>3

-----------------------------------------------------------------------------
LEMMA InitOK == Init => IInv
BY DEF Init, IInv, Truthful, ToldSet

(* What a step may do to an order: nothing the exchange may not report, and  *)
(* all or none of a fill-or-kill.                                           *)
Reports ==
  \A c \in Coid :
    /\ Legal(told[c], told'[c], sent[c])
    /\ AllOrNone(working[c], told[c], told'[c], sent[c])

(* Right answers keep every order truthful, in one call to the venue.       *)
LEMMA AnswerOK ==
  ASSUME IInv, NEW f, Answer([c \in Coid |-> f[c]]),
         \A c \in Coid : Right(working[c], told[c], sent[c], f[c])
  PROVE  IInv' /\ Reports /\ UNCHANGED sent
PROOF
<1>1. /\ working' = [c \in Coid |-> f[c][1]]
      /\ told' = [c \in Coid |-> Heard(told[c], f[c][2])]
      /\ now' = now /\ sent' = sent
  BY DEF Answer
<1>2. \A c \in Coid :
        /\ Truthful(f[c][1], Heard(told[c], f[c][2]), sent[c])
        /\ Legal(told[c], Heard(told[c], f[c][2]), sent[c])
        /\ AllOrNone(working[c], told[c], Heard(told[c], f[c][2]), sent[c])
  BY DEF Right
<1>3. \A c \in Coid : working'[c] = f[c][1] /\ told'[c] = Heard(told[c], f[c][2])
  BY <1>1
<1>4. \A c \in Coid : told'[c] \in ToldSet
  BY <1>2, <1>3 DEF Truthful
<1>5. told' \in [Coid -> ToldSet] /\ working' = [c \in Coid |-> working'[c]]
  BY <1>1, <1>3, <1>4
<1>6. \A c \in Coid : Truthful(working'[c], told'[c], sent'[c])
  BY <1>1, <1>2, <1>3
<1> QED
  BY <1>1, <1>2, <1>3, <1>5, <1>6 DEF IInv, Reports

LEMMA QuoteOK ==
  ASSUME IInv, NEW take \in Take, NEW ts, OnQuote(take, ts)
  PROVE  IInv' /\ Reports /\ UNCHANGED sent
PROOF
<1> DEFINE f == [c \in Coid |-> AfterQuote(c, working[c], take, ts, now)]
<1>1. PICK g : g = f
  OBVIOUS
<1>2. Answer(g) /\ g = [c \in Coid |-> g[c]]
  BY <1>1 DEF OnQuote
<1>3. take \in Nat
  BY DataAssumption
<1>4. \A c \in Coid : Right(working[c], told[c], sent[c], g[c])
  BY <1>1, <1>3, QuoteRight DEF IInv
<1> HIDE DEF f
<1> QED
  BY <1>2, <1>4, AnswerOK

LEMMA TradeOK ==
  ASSUME IInv, NEW print, NEW size \in Size, NEW lucky, OnTrade(print, size, lucky)
  PROVE  IInv' /\ Reports /\ UNCHANGED sent
PROOF
<1> DEFINE f == [c \in Coid |-> AfterTrade(c, working[c], print, size, lucky, now)]
<1>1. PICK g : g = f
  OBVIOUS
<1>2. Answer(g) /\ g = [c \in Coid |-> g[c]]
  BY <1>1 DEF OnTrade
<1>3. size \in Nat
  BY DataAssumption
<1>4. \A c \in Coid : Right(working[c], told[c], sent[c], g[c])
  BY <1>1, <1>3, TradeRight DEF IInv
<1> HIDE DEF f
<1> QED
  BY <1>2, <1>4, AnswerOK

LEMMA PollOK == ASSUME IInv, Poll PROVE IInv' /\ Reports /\ UNCHANGED sent
PROOF
<1> DEFINE f == [c \in Coid |-> AfterVenuePoll(c, working[c], now)]
<1>1. PICK g : g = f
  OBVIOUS
<1>2. Answer(g) /\ g = [c \in Coid |-> g[c]]
  BY <1>1 DEF Poll
<1>3. \A c \in Coid : Right(working[c], told[c], sent[c], g[c])
  BY <1>1, PollRight DEF IInv
<1> HIDE DEF f
<1> QED
  BY <1>2, <1>3, AnswerOK

(* A new order has nothing told of it yet.                                  *)
LEMMA SubmitOK ==
  ASSUME IInv, NEW c \in Coid, NEW kind \in Kind, NEW tif \in Tif, NEW q \in Quantity,
         NEW marketable \in BOOLEAN, NEW displayed \in Size,
         Submit(c, kind, tif, q, marketable, displayed)
  PROVE  IInv' /\ told' = told
PROOF
<1> DEFINE w == Working(kind, tif, q, marketable, displayed, now)
<1>1. /\ sent[c] = 0 /\ working' = [working EXCEPT ![c] = w]
      /\ sent' = [sent EXCEPT ![c] = q] /\ now' = now /\ told' = told
  BY DEF Submit
<1>2. q \in Nat \ {0} /\ displayed \in Nat /\ now \in Nat
  BY DataAssumption DEF IInv
<1>3. /\ w \in OrderSet /\ w.quantity = q /\ w.filled = 0 /\ w.tif = tif /\ w.acked = FALSE
      /\ tif # "DAY" => w.awaiting
  <2> DEFINE aggressive == kind = "MARKET" \/ marketable \/ tif # "DAY"
             queue == IF aggressive THEN 0 ELSE displayed
  <2>1. w = [kind |-> kind, tif |-> tif, quantity |-> q, filled |-> 0,
             awaiting |-> aggressive, queue |-> queue,
             acked |-> FALSE, ackAt |-> now + AckLatency, activateAt |-> now + Latency,
             cancelAt |-> None]
    BY DEF Working
  <2>2. /\ aggressive \in BOOLEAN /\ queue \in Nat /\ (tif # "DAY" => aggressive)
        /\ now + AckLatency \in Nat /\ now + Latency \in Nat
    BY <1>2, VenueAssumption
  <2> HIDE DEF aggressive, queue, w
  <2> QED
    BY <1>2, <2>1, <2>2 DEF OrderSet
<1> HIDE DEF w
<1>4. told[c] = [acks |-> 0, traded |-> 0, cancels |-> 0]
  BY <1>1 DEF IInv, Truthful
<1>5. Truthful(w, told[c], q)
  BY <1>2, <1>3, <1>4, NotGone DEF Truthful, Kept, ToldSet
<1>6. sent' \in [Coid -> Nat] /\ sent'[c] = q /\ working'[c] = w
      /\ working' = [d \in Coid |-> working'[d]]
  BY <1>1, <1>2 DEF IInv
<1>7. \A d \in Coid : d # c => sent'[d] = sent[d] /\ working'[d] = working[d]
  BY <1>1 DEF IInv
<1>8. \A d \in Coid : Truthful(working'[d], told'[d], sent'[d])
  BY <1>1, <1>5, <1>6, <1>7 DEF IInv
<1> QED
  BY <1>1, <1>6, <1>8 DEF IInv

(* A cancel request sets a time, and says nothing yet.                      *)
LEMMA CancelOK ==
  ASSUME IInv, NEW c \in Coid, Cancel(c)
  PROVE  IInv' /\ told' = told /\ sent' = sent
PROOF
<1> DEFINE v == [working[c] EXCEPT !.cancelAt = now + CancelLatency]
<1>1. /\ working[c] # Gone /\ working' = [working EXCEPT ![c] = v]
      /\ now' = now /\ sent' = sent /\ told' = told
  BY DEF Cancel, AfterCancel
<1>2. Truthful(working[c], told[c], sent[c]) /\ Kept(working[c], told[c], sent[c])
  BY <1>1 DEF IInv, Truthful
<1>3. working[c] \in OrderSet /\ now + CancelLatency \in Nat
  BY <1>2, VenueAssumption DEF Kept, IInv
<1>4. /\ v \in OrderSet /\ v.tif = working[c].tif /\ v.quantity = working[c].quantity
      /\ v.filled = working[c].filled /\ v.awaiting = working[c].awaiting
      /\ v.acked = working[c].acked
  BY <1>3 DEF OrderSet
<1> HIDE DEF v
<1>5. Truthful(v, told[c], sent[c])
  BY <1>2, <1>4, NotGone DEF Truthful, Kept
<1>6. \A d \in Coid : Truthful(working'[d], told'[d], sent'[d])
  BY <1>1, <1>5 DEF IInv
<1>7. working' = [d \in Coid |-> working'[d]]
  BY <1>1 DEF IInv
<1> QED
  BY <1>1, <1>6, <1>7 DEF IInv

(* Every step keeps the orders truthful, reports what an exchange may, and  *)
(* sends an order at most once.                                             *)
LEMMA StepOK ==
  ASSUME IInv, [Next]_vars
  PROVE  /\ IInv' /\ Reports
         /\ [IsExchange!Next]_(IsExchange!vars)
PROOF
<1>1. CASE IInv' /\ told' = told /\ UNCHANGED sent
  <2>1. Reports
    BY <1>1 DEF Reports, Legal, AllOrNone
  <2> QED
    BY <1>1, <2>1 DEF IsExchange!vars
<1>2. CASE IInv' /\ Reports /\ UNCHANGED sent
  <2>1. IsExchange!Report
    BY <1>2 DEF Reports, Legal, IsExchange!Report
  <2> QED
    BY <1>2, <2>1 DEF IsExchange!Next
<1>3. ASSUME NEW c \in Coid, NEW k \in Kind, NEW t \in Tif, NEW q \in Quantity,
             NEW m \in BOOLEAN, NEW d \in Size, Submit(c, k, t, q, m, d)
      PROVE  IInv' /\ Reports /\ [IsExchange!Next]_(IsExchange!vars)
  <2>1. IInv' /\ told' = told
    BY <1>3, SubmitOK
  <2>2. Reports
    BY <2>1 DEF Reports, Legal, AllOrNone
  <2>3. IsExchange!Send(c, q)
    BY <1>3 DEF Submit, IsExchange!Send
  <2> QED
    BY <2>1, <2>2, <2>3 DEF IsExchange!Next
<1>4. ASSUME NEW c \in Coid, Cancel(c) PROVE IInv' /\ told' = told /\ UNCHANGED sent
  BY <1>4, CancelOK
<1>5. ASSUME NEW take \in Take, NEW ts, OnQuote(take, ts)
      PROVE  IInv' /\ Reports /\ UNCHANGED sent
  BY <1>5, QuoteOK
<1>6. ASSUME NEW p, NEW size \in Size, NEW lucky, OnTrade(p, size, lucky)
      PROVE  IInv' /\ Reports /\ UNCHANGED sent
  BY <1>6, TradeOK
<1>7. CASE Tick
  <2>1. now' \in Nat /\ working' = working /\ sent' = sent /\ told' = told
    BY <1>7 DEF Tick, IInv
  <2> QED
    BY <1>1, <2>1 DEF IInv
<1>8. CASE UNCHANGED vars
  BY <1>1, <1>8 DEF vars, IInv
<1> QED
  BY <1>1, <1>2, <1>3, <1>4, <1>5, <1>6, <1>7, <1>8, PollOK DEF Next

LEMMA Safe == Spec => []IInv
<1>1. IInv /\ [Next]_vars => IInv'
  BY StepOK
<1> QED
  BY <1>1, InitOK, PTL DEF Spec

-----------------------------------------------------------------------------
(* The venue's record of a working order is what it reported of it, after   *)
(* every interleaving of quotes, prints, cancels and polls.                 *)
THEOREM Truth == Spec => []ToldTheTruth
<1>1. IInv => ToldTheTruth
  BY DEF IInv, Truthful, Kept, ToldTheTruth
<1> QED
  BY <1>1, Safe, PTL

(* An order leaves the venue filled or cancelled, and its cancel is told.   *)
THEOREM NoneLost == Spec => []NoneIsLost
<1>1. IInv => NoneIsLost
  BY DEF IInv, Truthful, NoneIsLost
<1> QED
  BY <1>1, Safe, PTL

(* A fill-or-kill order trades its quantity at once or not at all.          *)
THEOREM AllOrNothing == Spec => FokAllOrNone
<1>1. IInv /\ [Next]_vars =>
        [\A c \in Coid :
           working[c] # Gone /\ working[c].tif = "FOK" /\ told'[c].traded # told[c].traded
           => told[c].traded = 0 /\ told'[c].traded = sent[c]]_vars
  BY StepOK DEF Reports, AllOrNone
<1> QED
  BY <1>1, Safe, PTL DEF Spec, FokAllOrNone

(* The venue is an Exchange: every step of it sends one order or reports,   *)
(* within the quantity, at most one ack, and nothing after a cancel-ack.    *)
THEOREM VenueIsExchange == Spec => ExchangeSpec
<1>1. Init => IsExchange!Init
  BY DEF Init, IsExchange!Init, IsExchange!Nothing
<1>2. IInv /\ [Next]_vars => [IsExchange!Next]_(IsExchange!vars)
  BY StepOK
<1> QED
  BY <1>1, <1>2, Safe, PTL DEF Spec, ExchangeSpec, IsExchange!Spec
=============================================================================
