------------------------------ MODULE Exchange ------------------------------
(***************************************************************************)
(* What the OrderManager relies on of any venue: the reports about an      *)
(* order start after it is sent, acknowledge it at most once, never trade  *)
(* more than it asks for, and end with its cancellation if it is cancelled.*)
(***************************************************************************)
EXTENDS Naturals

CONSTANTS Coid, Quantity

VARIABLES sent,         \* [Coid -> quantity of the order, 0 before it is sent]
          told          \* [Coid -> what the venue has reported of it so far]

vars == <<sent, told>>

Nothing == [acks |-> 0, traded |-> 0, cancels |-> 0]

Init == /\ sent = [c \in Coid |-> 0]
        /\ told = [c \in Coid |-> Nothing]

Send(c, q) == /\ sent[c] = 0
              /\ sent' = [sent EXCEPT ![c] = q]
              /\ UNCHANGED told

(* Reports about any number of orders; none about one already cancelled. *)
Report ==
  /\ UNCHANGED sent
  /\ \A c \in Coid : told'[c] # told[c] =>
       /\ sent[c] > 0
       /\ told[c].cancels = 0 /\ told'[c].cancels \in 0..1
       /\ told'[c].acks \in told[c].acks..1
       /\ told'[c].traded \in told[c].traded..sent[c]

Next == Report \/ \E c \in Coid, q \in Quantity : Send(c, q)

Spec == Init /\ [][Next]_vars
=============================================================================
