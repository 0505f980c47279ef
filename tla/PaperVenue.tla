----------------------------- MODULE PaperVenue -----------------------------
(***************************************************************************)
(* execution/venue_paper.py: the simulated venue behind the OrderManager,  *)
(* with its working orders, the clock, and everything it has reported.     *)
(***************************************************************************)
EXTENDS VenueOrder

CONSTANTS Coid, Quantity,
          Take,         \* shares a quote lets the venue take, 0 for none
          Size,         \* sizes of prints, and of the displayed queue
          MaxTime       \* bound on the clock

ASSUME DataAssumption == Quantity \subseteq Nat \ {0} /\ Take \subseteq Nat /\ Size \subseteq Nat

VARIABLES now,
          working,      \* PaperVenue.working, Gone where it has no entry
          sent,         \* quantity submitted under each coid, 0 if none
          told          \* what the venue has reported of each coid

vars == <<now, working, sent, told>>

Init ==
  /\ now = 0
  /\ working = [c \in Coid |-> Gone]
  /\ sent = [c \in Coid |-> 0]
  /\ told = [c \in Coid |-> [acks |-> 0, traded |-> 0, cancels |-> 0]]

(* What is told of an order after one more event about it. *)
Tell(t, ev) ==
  CASE ev.kind = "ack" -> [t EXCEPT !.acks = @ + 1]
    [] ev.kind = "fill" -> [t EXCEPT !.traded = @ + ev.qty]
    [] ev.kind = "cancel_ack" -> [t EXCEPT !.cancels = @ + 1]

(* What is told of an order after a call, which makes at most two events    *)
(* about it: one, and its cancellation.                                     *)
Heard(t, events) ==
  CASE Len(events) = 0 -> t
    [] Len(events) = 1 -> Tell(t, events[1])
    [] Len(events) = 2 -> Tell(Tell(t, events[1]), events[2])

(* Every working order answers a call with after[c] = <<order, events>>. *)
Answer(after) ==
  /\ working' = [c \in Coid |-> after[c][1]]
  /\ told' = [c \in Coid |-> Heard(told[c], after[c][2])]
  /\ UNCHANGED <<now, sent>>

Submit(c, kind, tif, q, marketable, displayed) ==
  /\ sent[c] = 0
  /\ kind = "MARKET" => marketable
  /\ working' = [working EXCEPT ![c] = Working(kind, tif, q, marketable, displayed, now)]
  /\ sent' = [sent EXCEPT ![c] = q]
  /\ UNCHANGED <<now, told>>

(* MaxTime bounds the cancel's own delay, too. *)
Cancel(c) ==
  /\ now + CancelLatency <= MaxTime
  /\ AfterCancel(working[c], now) # working[c]
  /\ working' = [working EXCEPT ![c] = AfterCancel(@, now)]
  /\ UNCHANGED <<now, sent, told>>

(* A quote made at ts is seen now; every order of its symbol sees it.       *)
OnQuote(take, ts) ==
  Answer([c \in Coid |-> AfterQuote(c, working[c], take, ts, now)])

OnTrade(print, size, lucky) ==
  Answer([c \in Coid |-> AfterTrade(c, working[c], print, size, lucky, now)])

Poll == Answer([c \in Coid |-> AfterVenuePoll(c, working[c], now)])

Tick == /\ now < MaxTime
        /\ now' = now + 1
        /\ UNCHANGED <<working, sent, told>>

PrintAt == {"through", "at", "away"}

Next ==
  \/ \E c \in Coid, k \in Kind, t \in Tif, q \in Quantity, m \in BOOLEAN, d \in Size :
       Submit(c, k, t, q, m, d)
  \/ \E c \in Coid : Cancel(c)
  \/ \E take \in Take, ts \in {now, now - 1} : OnQuote(take, ts)
  \/ \E p \in PrintAt, size \in Size, lucky \in BOOLEAN : OnTrade(p, size, lucky)
  \/ Poll
  \/ Tick

Spec == Init /\ [][Next]_vars

(* The market keeps quoting, and every event polls the venue. *)
FairSpec ==
  /\ Spec /\ WF_vars(Tick) /\ WF_vars(Poll)
  /\ WF_vars(\E take \in Take : OnQuote(take, now))

-----------------------------------------------------------------------------

(* The venue is an Exchange: whatever quotes, prints, cancels and polls     *)
(* arrive in whatever order, it acknowledges an order at most once, trades  *)
(* no more than was asked, and says nothing after a cancel-ack.             *)
IsExchange == INSTANCE Exchange
ExchangeSpec == IsExchange!Spec

(* A fill-or-kill order trades all of its quantity at once or none of it.   *)
FokAllOrNone ==
  [][\A c \in Coid :
       working[c] # Gone /\ working[c].tif = "FOK" /\ told'[c].traded # told[c].traded
       => told[c].traded = 0 /\ told'[c].traded = sent[c]]_vars

(* The venue's record of a working order is what it reported of it.        *)
ToldTheTruth ==
  \A c \in Coid : working[c] # Gone =>
    /\ told[c].traded = working[c].filled
    /\ told[c].acks = (IF working[c].acked THEN 1 ELSE 0)
    /\ told[c].cancels = 0

(* An order that left the venue left it by trading everything or by a       *)
(* cancel-ack the OrderManager was told of: none is lost.                   *)
NoneIsLost ==
  \A c \in Coid : sent[c] > 0 /\ working[c] = Gone =>
    told[c].traded = sent[c] \/ told[c].cancels = 1

(* A cancel is answered: the order leaves the venue.                        *)
CancelsEnd == \A c \in Coid : (working[c] # Gone /\ working[c].cancelAt # None) ~> (working[c] = Gone)

=============================================================================
