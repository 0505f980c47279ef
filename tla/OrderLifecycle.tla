--------------------------- MODULE OrderLifecycle ---------------------------
(***************************************************************************)
(* What the order book promises to the rest of the bot, whatever its       *)
(* timers, fills, venue races and restarts do: every client order id has   *)
(* one recorded life, which only moves along the legal transitions, ends   *)
(* in a terminal state for good, and no two entries of one symbol live at  *)
(* the same time.                                                          *)
(***************************************************************************)
CONSTANTS Coid,         \* client order ids
          Symbol,
          OState,       \* states of an order
          TERMINAL,     \* those that end it
          Legal         \* legal (from, to) pairs

VARIABLES status,       \* [Coid -> state], "ABSENT" before the order exists
          entryOf       \* [Coid -> symbol it is an entry of], "none" otherwise

vars == <<status, entryOf>>

Alive(c) == status[c] \in OState \ TERMINAL

Init == /\ status = [c \in Coid |-> "ABSENT"]
        /\ entryOf = [c \in Coid |-> "none"]

(* A new order; an entry only when its symbol has no entry alive. *)
Open(c, s) ==
  /\ status[c] = "ABSENT"
  /\ s \in Symbol => \A d \in Coid : entryOf[d] = s => ~Alive(d)
  /\ status' = [status EXCEPT ![c] = "NEW"]
  /\ entryOf' = [entryOf EXCEPT ![c] = s]

(* Any number of orders move, each along one legal transition. *)
Move ==
  /\ \A c \in Coid : status'[c] # status[c] => <<status[c], status'[c]>> \in Legal
  /\ UNCHANGED entryOf

Next == Move \/ \E c \in Coid, s \in Symbol \cup {"none"} : Open(c, s)

Spec == Init /\ [][Next]_vars
=============================================================================
