------------------------- MODULE OrderManagerProofs -------------------------
(***************************************************************************)
(* Proofs about OrderManager, for every set of coids and symbols, every    *)
(* quantity, price and timer, and any number of restarts.                  *)
(***************************************************************************)
EXTENDS OrderManager, FiniteSetTheorems, WellFoundedInduction, TLAPS

(* An order the book may hold: its reservation is within its untraded      *)
(* share, an ended order holds none, and FILLED means nothing is missing.  *)
OrderOK(o) ==
  /\ o.reserved <= o.req.quantity * o.req.price
  /\ o.reserved * o.req.quantity <= o.req.quantity * o.req.price * Remaining(o)
  /\ ~IsLive(o) => o.reserved = 0
  /\ o.state = "FILLED" => Remaining(o) = 0

(* What a call that books qty shares does to an order the book holds. *)
Step(o, p, qty) ==
  /\ p \in Order
  /\ p.req = o.req
  /\ p.filled = o.filled + qty
  /\ p.reserved <= o.reserved
  /\ p.state # o.state => <<o.state, p.state>> \in Legal
  /\ OrderOK(p)

(* Typing of the pieces of a request, from the constants' assumptions. *)
LEMMA RequestType ==
  ASSUME NEW r \in Request
  PROVE  /\ r.quantity \in Nat \ {0} /\ r.price \in Nat
         /\ r.intent \in {"entry", "exit"} /\ r.symbol \in Symbol
BY QuantityAssumption, PriceAssumption DEF Request, Intent

(* Scaling an amount by a fraction rem/q rounds down to at most the amount. *)
LEMMA Scaling ==
  ASSUME NEW a \in Nat, NEW rem \in Nat, NEW q \in Nat \ {0}, rem <= q
  PROVE  /\ (a * rem) \div q \in Nat
         /\ ((a * rem) \div q) * q <= a * rem
         /\ (a * rem) \div q <= a
PROOF
<1> DEFINE d == (a * rem) \div q
<1>1. a * rem \in Nat
  OBVIOUS
<1>2. d \in Nat /\ d * q <= a * rem
  <2>1. ASSUME NEW n \in Nat PROVE n \div q \in Nat /\ (n \div q) * q <= n
    BY SMT
  <2> QED
    BY <1>1, <2>1
<1>3. a * rem <= a * q
  BY SMT
<1>4. d <= a
  <2>1. SUFFICES ASSUME d > a PROVE FALSE
    BY <1>2
  <2>2. d >= a + 1
    BY <1>2, <2>1
  <2>3. d * q >= (a + 1) * q
    BY <1>2, <2>2, SMT
  <2>4. (a + 1) * q = a * q + q
    OBVIOUS
  <2> QED
    BY <1>1, <1>2, <1>3, <2>3, <2>4, SMT
<1> QED
  BY <1>2, <1>4

(* A new order is a well-formed order that reserves exactly its notional. *)
LEMMA NewOrderOK ==
  ASSUME NEW r \in Request, NEW e \in Nat \cup {NoTtl}
  PROVE  /\ NewOrder(r, e) \in Order
         /\ OrderOK(NewOrder(r, e))
         /\ NewOrder(r, e).req = r /\ NewOrder(r, e).state = "NEW"
         /\ NewOrder(r, e).filled = 0
PROOF
<1>1. r.quantity \in Nat \ {0} /\ r.price \in Nat
  BY RequestType
<1>2. r.quantity * r.price \in Nat
  BY <1>1
<1>3. NewOrder(r, e) \in Order
  BY <1>2 DEF NewOrder, Order, OState
<1>4. Remaining(NewOrder(r, e)) = r.quantity
  BY <1>1 DEF NewOrder, Remaining
<1>5. IsLive(NewOrder(r, e))
  BY DEF NewOrder, IsLive, OState, TERMINAL
<1>6. (r.quantity * r.price) * r.quantity = r.quantity * r.price * r.quantity
  BY <1>1
<1> QED
  BY <1>1, <1>2, <1>3, <1>4, <1>5, <1>6 DEF NewOrder, OrderOK

(* A transition is a legal step, whether it is taken or raises. *)
LEMMA TransitionSteps ==
  ASSUME NEW o \in Order, OrderOK(o), NEW to \in OState,
         to = "FILLED" => Remaining(o) = 0
  PROVE  Step(o, Transition(o, to), 0)
PROOF
<1>1. o.req \in Request /\ o.filled \in Nat /\ o.reserved \in Nat /\ o.rev \in Nat
  BY DEF Order
<1>2. o.req.quantity \in Nat \ {0} /\ o.req.price \in Nat
  BY <1>1, RequestType
<1>3. CASE <<o.state, to>> \notin Legal
  BY <1>1, <1>3 DEF Transition, Step
<1>4. CASE <<o.state, to>> \in Legal
  <2> DEFINE p == Transition(o, to)
  <2>1. p = [o EXCEPT !.state = to, !.rev = @ + 1,
                      !.reserved = IF to \in TERMINAL THEN 0 ELSE @]
    BY <1>4 DEF Transition
  <2> DEFINE res == IF to \in TERMINAL THEN 0 ELSE o.reserved
  <2>a. p = [req |-> o.req, state |-> to, filled |-> o.filled, reserved |-> res,
             expireAt |-> o.expireAt, rev |-> o.rev + 1]
    BY <2>1 DEF Order
  <2>b. res \in Nat /\ o.rev + 1 \in Nat /\ o.expireAt \in Nat \cup {NoTtl}
    BY <1>1 DEF Order
  <2>2. p \in Order
    <3> HIDE DEF res, p
    <3> QED BY <2>a, <2>b, <1>1 DEF Order
  <2>3. /\ p.req = o.req /\ p.filled = o.filled /\ p.expireAt = o.expireAt /\ p.state = to
        /\ p.reserved = IF to \in TERMINAL THEN 0 ELSE o.reserved
    BY <2>a
  <2>4. Remaining(p) = Remaining(o) /\ Remaining(o) \in Nat
    BY <2>3, <1>1, <1>2 DEF Remaining
  <2>5. OrderOK(p)
    <3>1. CASE to \in TERMINAL
      <4>1. p.reserved = 0
        BY <3>1, <2>3
      <4>2. p.req.quantity * p.req.price * Remaining(p) \in Nat /\ p.req.quantity * p.req.price \in Nat
        BY <2>3, <2>4, <1>2
      <4> QED
        BY <4>1, <4>2, <2>3, <2>4, <1>2 DEF OrderOK
    <3>2. CASE to \notin TERMINAL
      BY <3>2, <2>3, <2>4 DEF OrderOK, IsLive
    <3> QED
      BY <3>1, <3>2
  <2> QED
    BY <2>2, <2>3, <2>5, <1>1, <1>4 DEF Step
<1> QED
  BY <1>3, <1>4

(* Counting a revision more is a legal step. *)
LEMMA RevisionSteps ==
  ASSUME NEW o \in Order, OrderOK(o)
  PROVE  Step(o, [o EXCEPT !.rev = @ + 1], 0)
PROOF
<1> DEFINE p == [o EXCEPT !.rev = @ + 1]
<1>1. /\ o.req \in Request /\ o.filled \in Nat /\ o.reserved \in Nat /\ o.rev \in Nat
      /\ o.state \in OState /\ o.expireAt \in Nat \cup {NoTtl}
  BY DEF Order
<1>2. p = [req |-> o.req, state |-> o.state, filled |-> o.filled, reserved |-> o.reserved,
           expireAt |-> o.expireAt, rev |-> o.rev + 1]
  BY DEF Order
<1>3. o.rev + 1 \in Nat
  BY <1>1
<1>4. p \in Order
  <2> HIDE DEF p
  <2> QED BY <1>1, <1>2, <1>3 DEF Order
<1>5. Remaining(p) = Remaining(o)
  BY <1>2 DEF Remaining
<1>6. OrderOK(p)
  BY <1>2, <1>5 DEF OrderOK, IsLive
<1> QED
  BY <1>1, <1>2, <1>4, <1>6 DEF Step

(* Booking a fill keeps the state and scales the reservation with the      *)
(* remaining quantity, whatever the state of the order.                    *)
LEMMA BookedSteps ==
  ASSUME NEW o \in Order, OrderOK(o), NEW qty \in Nat
  PROVE  Step(o, Booked(o, qty), qty) /\ Booked(o, qty).state = o.state
PROOF
<1> DEFINE b == [o EXCEPT !.filled = @ + qty]
<1> DEFINE d == (o.reserved * Remaining(b)) \div o.req.quantity
<1> DEFINE p == Booked(o, qty)
<1>1. /\ o.req \in Request /\ o.filled \in Nat /\ o.reserved \in Nat /\ o.rev \in Nat
      /\ o.state \in OState /\ o.expireAt \in Nat \cup {NoTtl}
  BY DEF Order
<1>2. o.req.quantity \in Nat \ {0} /\ o.req.price \in Nat
  BY <1>1, RequestType
<1>3. /\ b.req = o.req /\ b.filled = o.filled + qty /\ b.reserved = o.reserved
      /\ b.state = o.state /\ b.expireAt = o.expireAt /\ b.rev = o.rev
  BY DEF Order
<1>4. /\ Remaining(b) \in Nat /\ Remaining(b) <= o.req.quantity
      /\ Remaining(b) <= Remaining(o) /\ Remaining(o) \in Nat
  BY <1>1, <1>2, <1>3 DEF Remaining
<1>5. p = [req |-> o.req, state |-> o.state, filled |-> o.filled + qty, reserved |-> d,
           expireAt |-> o.expireAt, rev |-> o.rev]
  <2>1. p = [b EXCEPT !.reserved = (b.reserved * Remaining(b)) \div b.req.quantity]
    BY DEF Booked
  <2>2. b = [req |-> o.req, state |-> o.state, filled |-> o.filled + qty,
             reserved |-> o.reserved, expireAt |-> o.expireAt, rev |-> o.rev]
    BY DEF Order
  <2>3. (b.reserved * Remaining(b)) \div b.req.quantity = d
    BY <1>3
  <2> HIDE DEF b, d, p
  <2> QED
    BY <2>1, <2>2, <2>3
<1>6. d \in Nat /\ d * o.req.quantity <= o.reserved * Remaining(b) /\ d <= o.reserved
  <2> HIDE DEF b
  <2> QED BY <1>1, <1>2, <1>4, Scaling
<1>7. Remaining(p) = Remaining(b)
  BY <1>3, <1>5 DEF Remaining
<1> HIDE DEF b, d, p
<1>8. p \in Order
  BY <1>1, <1>5, <1>6 DEF Order
<1>9. OrderOK(p)
  <2> DEFINE N == o.req.quantity * o.req.price
  <2>1. N \in Nat /\ o.reserved <= N
    BY <1>2 DEF OrderOK
  <2>2. p.reserved <= N
    BY <1>1, <1>5, <1>6, <2>1
  <2>3. o.reserved * Remaining(b) <= N * Remaining(b)
    <3> HIDE DEF N
    <3>1. ASSUME NEW x \in Nat, NEW y \in Nat, NEW z \in Nat, x <= y PROVE x * z <= y * z
      BY <3>1, SMT
    <3> QED BY <1>1, <1>4, <2>1, <3>1
  <2>4. o.reserved * Remaining(b) \in Nat /\ N * Remaining(b) \in Nat
        /\ d * o.req.quantity \in Nat
    BY <1>1, <1>2, <1>4, <1>6, <2>1
  <2>5. d * o.req.quantity <= N * Remaining(b)
    <3> HIDE DEF N
    <3> QED BY <1>6, <2>3, <2>4
  <2>6. ~IsLive(p) => p.reserved = 0
    BY <1>1, <1>5, <1>6 DEF OrderOK, IsLive
  <2>7. p.state = "FILLED" => Remaining(p) = 0
    BY <1>4, <1>5, <1>7 DEF OrderOK
  <2> QED
    BY <1>5, <1>7, <2>2, <2>5, <2>6, <2>7 DEF OrderOK
<1>10. p.reserved <= o.reserved
  BY <1>5, <1>6
<1> QED
  BY <1>5, <1>8, <1>9, <1>10 DEF Step, p

(* A fill of qty shares is a step of every order, ended or not. *)
LEMMA FillSteps ==
  ASSUME NEW o \in Order, OrderOK(o), NEW qty \in Nat
  PROVE  Step(o, AfterFill(o, qty), qty)
PROOF
<1> DEFINE b == Booked(o, qty)
<1>1. Step(o, b, qty) /\ b.state = o.state
  BY BookedSteps
<1>2. b \in Order /\ OrderOK(b) /\ o.filled \in Nat /\ o.reserved \in Nat /\ b.reserved \in Nat
  BY <1>1 DEF Step, Order
<1>3. ASSUME NEW p, Step(b, p, 0) PROVE Step(o, p, qty)
  <2> HIDE DEF b
  <2>1. p \in Order /\ p.reserved \in Nat
    BY <1>3 DEF Step, Order
  <2>2. p.reserved <= b.reserved /\ b.reserved <= o.reserved
    BY <1>1, <1>3 DEF Step
  <2>3. p.reserved <= o.reserved
    BY <1>2, <2>1, <2>2
  <2> QED
    BY <1>1, <1>2, <1>3, <2>3 DEF Step
<1> HIDE DEF b
<1>4. CASE Remaining(b) = 0
  <2>1. Step(b, Transition(b, "FILLED"), 0)
    BY <1>2, <1>4, TransitionSteps DEF OState
  <2> QED
    BY <1>3, <1>4, <2>1 DEF AfterFill, b
<1>5. CASE Remaining(b) # 0 /\ b.state \in {"SUBMITTING", "ACKNOWLEDGED", "CANCEL_PENDING"}
  <2>1. Step(b, Transition(b, "PARTIAL"), 0)
    BY <1>2, TransitionSteps DEF OState
  <2> QED
    BY <1>3, <1>5, <2>1 DEF AfterFill, b
<1>6. CASE Remaining(b) # 0 /\ b.state = "PARTIAL"
  <2>1. Step(b, [b EXCEPT !.rev = @ + 1], 0)
    BY <1>2, RevisionSteps
  <2> QED
    BY <1>3, <1>6, <2>1 DEF AfterFill, b
<1>7. CASE Remaining(b) # 0 /\ b.state \notin {"SUBMITTING", "ACKNOWLEDGED", "CANCEL_PENDING", "PARTIAL"}
  BY <1>1, <1>7 DEF AfterFill, b
<1> QED
  BY <1>4, <1>5, <1>6, <1>7

(* So is the sweep of its timer; it leaves an absent order absent. *)
LEMMA PollSteps ==
  ASSUME NEW t \in Nat
  PROVE  /\ \A o \in Order : OrderOK(o) => Step(o, AfterPoll(o, t), 0)
         /\ AfterPoll(Absent, t) = Absent
PROOF
<1>1. ASSUME NEW o \in Order, OrderOK(o) PROVE Step(o, AfterPoll(o, t), 0)
  <2>1. Step(o, Transition(o, "CANCEL_PENDING"), 0) /\ Step(o, Transition(o, "EXPIRED"), 0)
    BY <1>1, TransitionSteps DEF OState
  <2>2. Step(o, o, 0)
    BY <1>1 DEF Step, Order
  <2> QED
    BY <2>1, <2>2 DEF AfterPoll
<1>2. AfterPoll(Absent, t) = Absent
  BY DEF AfterPoll, IsDue, IsLive, Absent, OState
<1> QED
  BY <1>1, <1>2

-----------------------------------------------------------------------------
(* What the orders S of a book hold together, as ReservedNotional sums it.  *)
Held(book, S) == MapThenSumSet(LAMBDA c : book[c].reserved, S)

(* The next order the sum takes from a set of orders. *)
Pick(s) == CHOOSE c \in s : TRUE

(* g[s] is what the sum says of the orders s, given what g says of fewer.    *)
Summed(g, book, s) ==
  IF s = {} THEN 0 ELSE book[Pick(s)].reserved + g[s \ {Pick(s)}]

Sums(g, book, S) == g = [s \in SUBSET S |-> Summed(g, book, s)]

(* The dollars the orders S hold, one by one: there are as many of them as  *)
(* the sum of what each order holds.                                        *)
Dollars(book, S) == {d \in S \X Nat : 1 <= d[2] /\ d[2] <= book[d[1]].reserved}

(* What is true of 0 and of the successor of every number it is true of.     *)
LEMMA Least ==
  ASSUME NEW T \in SUBSET Nat, T # {}
  PROVE  \E n \in T : \A m \in T : n <= m
PROOF
<1>1. PICK n \in T : \A m \in T : <<m, n>> \notin OpToRel(<, Nat)
  BY NatLessThanWellFounded, WFMin
<1>2. ASSUME NEW m \in T PROVE n <= m
  <2>1. <<m, n>> \in Nat \X Nat
    OBVIOUS
  <2>2. <<m, n>> \notin {ss \in Nat \X Nat : ss[1] < ss[2]}
    BY <1>1 DEF OpToRel
  <2>3. ~(m < n)
    BY <2>1, <2>2
  <2> QED
    BY <2>3
<1> QED
  BY <1>2

(* A nonempty set of orders loses one order to the sum at a time. *)
LEMMA PickOne ==
  ASSUME NEW s, IsFiniteSet(s), s # {}
  PROVE  /\ Pick(s) \in s
         /\ IsFiniteSet(s \ {Pick(s)})
         /\ Cardinality(s) \in Nat /\ Cardinality(s \ {Pick(s)}) \in Nat
         /\ Cardinality(s \ {Pick(s)}) = Cardinality(s) - 1
PROOF
<1>1. Pick(s) \in s
  BY DEF Pick
<1> HIDE DEF Pick
<1> QED
  BY <1>1, FS_RemoveElement, FS_CardinalityType

(* The recursion the sum is written with has a solution: one for the sets   *)
(* of at most n orders, for every n.                                        *)
LEMMA SumExists ==
  ASSUME NEW book, NEW S, IsFiniteSet(S)
  PROVE  \E g : Sums(g, book, S)
PROOF
<1> DEFINE Upto(g, n) == /\ DOMAIN g = SUBSET S
                         /\ g = [s \in SUBSET S |-> g[s]]
                         /\ \A s \in SUBSET S : Cardinality(s) <= n => g[s] = Summed(g, book, s)
<1>1. \A s \in SUBSET S : IsFiniteSet(s) /\ Cardinality(s) \in Nat /\ Cardinality(s) <= Cardinality(S)
  BY FS_Subset, FS_CardinalityType
<1>2. \E g : Upto(g, 0)
  <2> DEFINE g == [s \in SUBSET S |-> 0]
  <2>1. \A s \in SUBSET S : Cardinality(s) <= 0 => s = {}
    BY <1>1, FS_EmptySet
  <2>2. Upto(g, 0)
    BY <2>1 DEF Summed
  <2> QED
    BY <2>2
<1>3. ASSUME NEW n \in Nat, \E g : Upto(g, n)
      PROVE  \E g : Upto(g, n + 1)
  <2>1. PICK g : Upto(g, n)
    BY <1>3
  <2> DEFINE h == [s \in SUBSET S |-> IF Cardinality(s) <= n THEN g[s] ELSE Summed(g, book, s)]
  <2>2. ASSUME NEW s \in SUBSET S, Cardinality(s) <= n + 1
        PROVE  Summed(h, book, s) = Summed(g, book, s) /\ h[s] = Summed(g, book, s)
    <3>1. Summed(h, book, s) = Summed(g, book, s)
      <4>1. CASE s = {}
        BY <4>1 DEF Summed
      <4>2. CASE s # {}
        <5>1. s \ {Pick(s)} \in SUBSET S /\ Cardinality(s \ {Pick(s)}) <= n
          BY <1>1, <2>2, <4>2, PickOne
        <5>2. h[s \ {Pick(s)}] = g[s \ {Pick(s)}]
          BY <5>1
        <5> QED
          BY <5>2 DEF Summed
      <4> QED
        BY <4>1, <4>2
    <3>2. h[s] = Summed(g, book, s)
      BY <2>1
    <3> QED
      BY <3>1, <3>2
  <2>3. Upto(h, n + 1)
    BY <2>2
  <2> QED
    BY <2>3
<1> DEFINE Good(n) == \E g : Upto(g, n)
<1>4. \A n \in Nat : Good(n)
  <2>1. Good(0) /\ \A n \in Nat : Good(n) => Good(n + 1)
    BY <1>2, <1>3
  <2> HIDE DEF Good
  <2> DEFINE Bad == {n \in Nat : ~Good(n)}
  <2>2. SUFFICES ASSUME Bad # {} PROVE FALSE
    OBVIOUS
  <2>3. PICK n \in Bad : \A m \in Bad : n <= m
    BY <2>2, Least
  <2>4. n # 0
    BY <2>1
  <2>5. n - 1 \in Nat /\ (n - 1) + 1 = n /\ ~(n <= n - 1)
    BY <2>4
  <2>6. Good(n - 1)
    BY <2>3, <2>5
  <2> QED
    BY <2>1, <2>5, <2>6
<1>5. PICK g : Upto(g, Cardinality(S))
  BY <1>4, FS_CardinalityType
<1>6. \A s \in SUBSET S : g[s] = Summed(g, book, s)
  BY <1>1, <1>5
<1> QED
  BY <1>5, <1>6 DEF Sums

(* The sum is taken one order at a time. *)
LEMMA HeldTakesOne ==
  ASSUME NEW book, NEW S, IsFiniteSet(S)
  PROVE  \E g : /\ Held(book, S) = g[S]
                /\ \A s \in SUBSET S : g[s] = Summed(g, book, s)
PROOF
<1> DEFINE g == CHOOSE g : Sums(g, book, S)
<1>1. Held(book, S) = g[S]
  BY DEF Held, Sums, Summed, Pick, MapThenSumSet, MapThenFoldSet
<1>2. Sums(g, book, S)
  BY SumExists
<1> HIDE DEF g
<1>3. \A s \in SUBSET S : g[s] = Summed(g, book, s)
  BY <1>2 DEF Sums
<1> QED
  BY <1>1, <1>3

(* One order more has as many dollars more as it holds. *)
LEMMA DollarsOfOneMore ==
  ASSUME NEW book, NEW s, NEW c, c \notin s, book[c].reserved \in Nat,
         IsFiniteSet(Dollars(book, s))
  PROVE  /\ IsFiniteSet(Dollars(book, s \cup {c}))
         /\ Cardinality(Dollars(book, s \cup {c}))
              = book[c].reserved + Cardinality(Dollars(book, s))
PROOF
<1> DEFINE n == book[c].reserved
<1> DEFINE mine == {c} \X (1..n)
<1> DEFINE f == [i \in 1..n |-> <<c, i>>]
<1>1. f \in Bijection(1..n, mine)
  <2>1. f \in [1..n -> mine]
    OBVIOUS
  <2>2. \A i, j \in 1..n : f[i] = f[j] => i = j
    OBVIOUS
  <2>3. \A d \in mine : \E i \in 1..n : f[i] = d
    OBVIOUS
  <2> HIDE DEF f, mine
  <2>4. f \in Injection(1..n, mine)
    BY <2>1, <2>2 DEF Injection, IsInjective
  <2>5. f \in Surjection(1..n, mine)
    BY <2>1, <2>3 DEF Surjection
  <2> QED
    BY <2>4, <2>5 DEF Bijection
<1>2. IsFiniteSet(1..n) /\ Cardinality(1..n) = n
  <2> HIDE DEF n
  <2>1. n \in Nat
    BY DEF n
  <2>2. 1 > n => n = 0
    BY <2>1
  <2> QED
    BY <2>1, <2>2, FS_Interval
<1>3. IsFiniteSet(mine) /\ Cardinality(mine) = n
  <2>1. ExistsBijection(1..n, mine)
    BY <1>1 DEF ExistsBijection
  <2> HIDE DEF mine
  <2> QED
    BY <1>2, <2>1, FS_Bijection
<1>4. Dollars(book, s \cup {c}) = Dollars(book, s) \cup mine
  BY DEF Dollars
<1>5. Dollars(book, s) \cap mine = {}
  BY DEF Dollars
<1> HIDE DEF mine
<1>6. Cardinality(Dollars(book, s)) \in Nat
  BY FS_CardinalityType
<1>7. /\ IsFiniteSet(Dollars(book, s) \cup mine)
      /\ Cardinality(Dollars(book, s) \cup mine)
           = Cardinality(Dollars(book, s)) + Cardinality(mine) - Cardinality({})
  BY <1>3, <1>5, FS_Union
<1>8. book[c].reserved = Cardinality(mine) /\ book[c].reserved \in Nat
  BY <1>3
<1> HIDE DEF n
<1>9. Cardinality({}) = 0
  BY FS_EmptySet
<1>10. \A a, b \in Nat : a + b - 0 = b + a
  OBVIOUS
<1> HIDE DEF mine
<1>11. Cardinality(Dollars(book, s)) + Cardinality(mine) - Cardinality({})
        = book[c].reserved + Cardinality(Dollars(book, s))
  BY <1>6, <1>8, <1>9, <1>10
<1> QED
  BY <1>4, <1>7, <1>11

(* The sum counts the dollars. *)
LEMMA HeldCounts ==
  ASSUME NEW book, NEW S, IsFiniteSet(S), \A c \in S : book[c].reserved \in Nat
  PROVE  /\ IsFiniteSet(Dollars(book, S))
         /\ Held(book, S) = Cardinality(Dollars(book, S))
PROOF
<1>1. PICK g : /\ Held(book, S) = g[S]
               /\ \A s \in SUBSET S : g[s] = Summed(g, book, s)
  BY HeldTakesOne
<1> DEFINE Right(s) == /\ IsFiniteSet(Dollars(book, s))
                       /\ g[s] = Cardinality(Dollars(book, s))
<1>2. \A s \in SUBSET S : IsFiniteSet(s) /\ Cardinality(s) \in Nat
  BY FS_Subset, FS_CardinalityType
<1>3. Right({})
  <2>1. Dollars(book, {}) = {}
    BY DEF Dollars
  <2>2. g[{}] = 0
    BY <1>1 DEF Summed
  <2> QED
    BY <2>1, <2>2, FS_EmptySet
<1>4. ASSUME NEW s \in SUBSET S, s # {}, Right(s \ {Pick(s)})
      PROVE  Right(s)
  <2> DEFINE c == Pick(s)
  <2>1. c \in s /\ c \in S /\ book[c].reserved \in Nat
    BY <1>2, <1>4, PickOne
  <2>2. g[s] = book[c].reserved + g[s \ {c}]
    BY <1>1, <1>4 DEF Summed
  <2>3. IsFiniteSet(Dollars(book, s \ {c})) /\ g[s \ {c}] = Cardinality(Dollars(book, s \ {c}))
    BY <1>4
  <2> HIDE DEF c
  <2>4. (s \ {c}) \cup {c} = s /\ c \notin s \ {c}
    BY <2>1
  <2>5. /\ IsFiniteSet(Dollars(book, (s \ {c}) \cup {c}))
        /\ Cardinality(Dollars(book, (s \ {c}) \cup {c}))
             = book[c].reserved + Cardinality(Dollars(book, s \ {c}))
    BY <2>1, <2>3, <2>4, DollarsOfOneMore
  <2> QED
    BY <2>2, <2>3, <2>4, <2>5
<1>5. \A s \in SUBSET S : Right(s)
  <2> HIDE DEF Right
  <2> DEFINE Bad == {s \in SUBSET S : ~Right(s)}
  <2> DEFINE Sizes == {Cardinality(s) : s \in Bad}
  <2>1. SUFFICES ASSUME Bad # {} PROVE FALSE
    OBVIOUS
  <2>2. Sizes \in SUBSET Nat /\ Sizes # {}
    BY <1>2, <2>1
  <2>3. PICK s \in Bad : \A t \in Bad : Cardinality(s) <= Cardinality(t)
    <3>1. PICK n \in Sizes : \A m \in Sizes : n <= m
      BY <2>2, Least
    <3>2. PICK s \in Bad : Cardinality(s) = n
      BY <3>1
    <3> QED
      BY <3>1, <3>2
  <2>4. s # {} /\ IsFiniteSet(s)
    BY <1>2, <1>3
  <2>5. /\ s \ {Pick(s)} \in SUBSET S
        /\ Cardinality(s) \in Nat
        /\ Cardinality(s \ {Pick(s)}) = Cardinality(s) - 1
    BY <2>4, PickOne
  <2>6. Right(s \ {Pick(s)})
    BY <2>3, <2>5
  <2> QED
    BY <1>4, <2>4, <2>6
<1> QED
  BY <1>1, <1>5

(* Fewer orders that hold no more each hold no more together. *)
LEMMA HeldFalls ==
  ASSUME NEW book, NEW S, IsFiniteSet(S), \A c \in S : book[c].reserved \in Nat,
         NEW book2, NEW T \in SUBSET S,
         \A c \in T : book2[c].reserved \in Nat /\ book2[c].reserved <= book[c].reserved
  PROVE  Held(book2, T) <= Held(book, S)
PROOF
<1>1. Dollars(book2, T) \in SUBSET Dollars(book, S)
  BY DEF Dollars
<1>2. IsFiniteSet(T)
  BY FS_Subset
<1>3. /\ IsFiniteSet(Dollars(book, S)) /\ Held(book, S) = Cardinality(Dollars(book, S))
      /\ Held(book2, T) = Cardinality(Dollars(book2, T))
  BY <1>2, HeldCounts
<1> QED
  BY <1>1, <1>3, FS_Subset

(* A new order adds what it holds. *)
LEMMA HeldRises ==
  ASSUME NEW book, NEW S, IsFiniteSet(S), \A c \in S : book[c].reserved \in Nat,
         NEW book2, NEW c, c \notin S, book2[c].reserved \in Nat,
         \A d \in S : book2[d].reserved = book[d].reserved
  PROVE  Held(book2, S \cup {c}) = Held(book, S) + book2[c].reserved
PROOF
<1>1. Dollars(book2, S) = Dollars(book, S)
  BY DEF Dollars
<1>2. IsFiniteSet(S \cup {c}) /\ \A d \in S \cup {c} : book2[d].reserved \in Nat
  BY FS_AddElement
<1>3. /\ IsFiniteSet(Dollars(book, S)) /\ Held(book, S) = Cardinality(Dollars(book, S))
      /\ Held(book2, S \cup {c}) = Cardinality(Dollars(book2, S \cup {c}))
  BY <1>2, HeldCounts
<1>4. Cardinality(Dollars(book2, S \cup {c}))
        = book2[c].reserved + Cardinality(Dollars(book2, S))
  BY <1>1, <1>3, DollarsOfOneMore
<1>5. Cardinality(Dollars(book, S)) \in Nat
  BY <1>3, FS_CardinalityType
<1> QED
  BY <1>1, <1>3, <1>4, <1>5

-----------------------------------------------------------------------------

(* What the book knows of an order it holds. *)
BookOK(c) ==
  orders[c] # Absent => /\ OrderOK(orders[c])
                        /\ orders[c].filled <= executed[c]
                        /\ restarts = 0 => orders[c].filled = executed[c]

(* What the journal knows of an order, which outlives the book. *)
RowOK(c) ==
  /\ journal[c] = NoRow => executed[c] = 0
  /\ journal[c] # NoRow => /\ executed[c] <= journal[c].req.quantity
                           /\ journal[c].filled <= executed[c]

Live(book) == {c \in Coid : IsLive(book[c])}

(* What the live orders hold together, which are finitely many although the *)
(* ids are not.                                                             *)
Within ==
  /\ IsFiniteSet({c \in Coid : orders[c] # Absent})
  /\ ReservedNotional <= MaxGross

(* The inductive invariant: a restart replaces the book by what the journal *)
(* says, so the journal must know enough for the book to be rebuilt.        *)
IInv ==
  /\ TypeOK
  /\ OneActiveEntry
  /\ JournalAgrees
  /\ \A c \in Coid : BookOK(c) /\ RowOK(c)
  /\ Within

(* Only live orders move, and they move to states of an order. *)
LEMMA LegalEnds ==
  ASSUME NEW a, NEW b, <<a, b>> \in Legal
  PROVE  a \in OState \ TERMINAL /\ b \in OState
BY DEF Legal, OState, TERMINAL

(* An order is not the absent order. *)
LEMMA OrderNotAbsent ==
  /\ \A o \in Order : o # Absent /\ o.state \in OState /\ o.req \in Request
  /\ \A r \in Row : r # NoRow /\ r.state \in OState /\ r.req \in Request
  /\ ~IsLive(Absent) /\ Absent = NoRow
BY DEF Order, Row, Absent, NoRow, OState, IsLive

(* What a row says of the order it was written for. *)
LEMMA RowOfFields ==
  ASSUME NEW o \in Order
  PROVE  /\ RowOf(o) \in Row /\ RowOf(o) # NoRow
         /\ RowOf(o).req = o.req /\ RowOf(o).state = o.state /\ RowOf(o).filled = o.filled
PROOF
<1>1. RowOf(o) \in Row
  BY DEF RowOf, Row, Order
<1> QED
  BY <1>1, OrderNotAbsent DEF RowOf

(* The live orders of a book are finitely many, and what they hold is a     *)
(* number.                                                                  *)
LEMMA LiveOrders ==
  ASSUME NEW book \in [Coid -> Order \cup {Absent}],
         IsFiniteSet({c \in Coid : book[c] # Absent})
  PROVE  /\ IsFiniteSet(Live(book))
         /\ \A c \in Live(book) : book[c].reserved \in Nat
         /\ Held(book, Live(book)) \in Nat
PROOF
<1>1. Live(book) \in SUBSET {c \in Coid : book[c] # Absent}
  BY OrderNotAbsent DEF Live
<1>2. IsFiniteSet(Live(book))
  BY <1>1, FS_Subset
<1>3. \A c \in Live(book) : book[c].reserved \in Nat
  BY <1>1 DEF Order
<1> QED
  BY <1>2, <1>3, HeldCounts, FS_CardinalityType

(* ReservedNotional is what the live orders of the book hold.               *)
LEMMA ReservedIsHeld ==
  /\ ReservedNotional = Held(orders, Live(orders))
  /\ ReservedNotional' = Held(orders', Live(orders'))
BY DEF ReservedNotional, Held, Live, MapThenSumSet, MapThenFoldSet

(* A step that opens no order and raises no reservation keeps the total     *)
(* within the cap.                                                          *)
LEMMA NothingRaised ==
  ASSUME TypeOK, Within, TypeOK',
         \A c \in Coid : orders'[c] # Absent => orders[c] # Absent,
         \A c \in Coid : IsLive(orders'[c]) => /\ IsLive(orders[c])
                                               /\ orders'[c].reserved <= orders[c].reserved
  PROVE  Within'
PROOF
<1>1. IsFiniteSet({c \in Coid : orders'[c] # Absent})
  <2>1. {c \in Coid : orders'[c] # Absent} \in SUBSET {c \in Coid : orders[c] # Absent}
    OBVIOUS
  <2> QED
    BY <2>1, FS_Subset DEF Within
<1>2. /\ orders \in [Coid -> Order \cup {Absent}] /\ orders' \in [Coid -> Order \cup {Absent}]
      /\ IsFiniteSet({c \in Coid : orders[c] # Absent}) /\ ReservedNotional <= MaxGross
  BY DEF TypeOK, Within, Absent, Order, OState, Row, Request, Intent
<1>3. PICK old, new : old = orders /\ new = orders'
  OBVIOUS
<1>4. /\ IsFiniteSet(Live(old)) /\ \A c \in Live(old) : old[c].reserved \in Nat
      /\ Held(old, Live(old)) \in Nat
  BY <1>2, <1>3, LiveOrders
<1>5. /\ \A c \in Live(new) : new[c].reserved \in Nat
      /\ Held(new, Live(new)) \in Nat
  BY <1>1, <1>2, <1>3, LiveOrders
<1>6. Live(new) \in SUBSET Live(old) /\ \A c \in Live(new) : new[c].reserved <= old[c].reserved
  BY <1>3 DEF Live
<1>7. Held(new, Live(new)) <= Held(old, Live(old))
  BY <1>4, <1>5, <1>6, HeldFalls
<1>8. ReservedNotional = Held(old, Live(old)) /\ ReservedNotional' = Held(new, Live(new))
  BY <1>3, ReservedIsHeld
<1>9. ReservedNotional' <= MaxGross
  BY <1>2, <1>4, <1>5, <1>7, <1>8, BoundsAssumption
<1> QED
  BY <1>1, <1>9 DEF Within, Absent

(* Calls that leave each order where a step leaves it keep the invariant,   *)
(* and are moves of the abstract order life.                                *)
LEMMA CallsPreserve ==
  ASSUME IInv,
         NEW after \in [Coid -> Order \cup {Absent}],
         NEW qty \in [Coid -> Nat],
         Write(after), now' \in Nat, restarts' = restarts,
         executed' \in [Coid -> Nat],
         \A c \in Coid : executed'[c] = executed[c] + qty[c],
         \A c \in Coid : IF orders[c] = Absent
                         THEN after[c] = Absent /\ qty[c] = 0
                         ELSE /\ Step(orders[c], after[c], qty[c])
                              /\ executed[c] + qty[c] <= orders[c].req.quantity
  PROVE  IInv' /\ Lifecycle!Move
PROOF
<1>1. TypeOK /\ OneActiveEntry /\ JournalAgrees
  BY DEF IInv
<1>2. orders' = after /\ \A c \in Coid : orders'[c] = after[c]
  BY DEF Write
<1>3. \A c \in Coid : journal'[c] = IF after[c].state # orders[c].state
                                    THEN RowOf(after[c]) ELSE journal[c]
  BY DEF Write
<1>4. ASSUME NEW c \in Coid, orders[c] = Absent
      PROVE  after[c] = Absent /\ journal'[c] = journal[c] /\ executed'[c] = executed[c]
  BY <1>1, <1>3, <1>4 DEF TypeOK
<1>5. ASSUME NEW c \in Coid, orders[c] # Absent
      PROVE  /\ orders[c] \in Order /\ after[c] \in Order /\ after[c] # Absent
             /\ Step(orders[c], after[c], qty[c])
             /\ journal[c] \in Row /\ journal[c] # NoRow
             /\ journal[c].state = orders[c].state /\ journal[c].req = orders[c].req
             /\ journal[c].filled <= orders[c].filled
  <2>1. orders[c] \in Order /\ Step(orders[c], after[c], qty[c])
    BY <1>1, <1>5 DEF TypeOK
  <2>2. after[c] \in Order
    BY <2>1 DEF Step
  <2> QED
    BY <1>1, <1>5, <2>1, <2>2, OrderNotAbsent DEF TypeOK, JournalAgrees
<1>6. ASSUME NEW c \in Coid, orders[c] # Absent
      PROVE  /\ journal'[c] \in Row /\ journal'[c] # NoRow
             /\ journal'[c].req = orders[c].req /\ journal'[c].state = after[c].state
             /\ journal'[c].filled \in {journal[c].filled, after[c].filled}
             /\ orders[c].filled \in Nat /\ after[c].filled \in Nat /\ journal[c].filled \in Nat
             /\ after[c].req = orders[c].req /\ after[c].filled = orders[c].filled + qty[c]
             /\ OrderOK(after[c]) /\ qty[c] \in Nat
  <2>1. /\ after[c].req = orders[c].req /\ after[c].filled = orders[c].filled + qty[c]
        /\ OrderOK(after[c])
    BY <1>5, <1>6 DEF Step
  <2>2. orders[c].filled \in Nat /\ after[c].filled \in Nat /\ journal[c].filled \in Nat
    BY <1>5, <1>6 DEF Order, Row
  <2>3. CASE after[c].state = orders[c].state
    <3>1. journal'[c] = journal[c]
      BY <1>3, <2>3
    <3> QED
      BY <1>5, <1>6, <2>1, <2>2, <2>3, <3>1
  <2>4. CASE after[c].state # orders[c].state
    <3>1. journal'[c] = RowOf(after[c])
      BY <1>3, <2>4
    <3> QED
      BY <1>5, <1>6, <2>1, <2>2, <3>1, RowOfFields
  <2> QED
    BY <2>3, <2>4
<1>6a. TypeOK'
  <2>1. journal' \in [Coid -> Row \cup {NoRow}]
    <3>1. \A c \in Coid : journal'[c] \in Row \cup {NoRow}
      BY <1>1, <1>4, <1>6 DEF TypeOK
    <3> QED
      BY <3>1 DEF Write
  <2> QED
    BY <1>1, <1>2, <2>1 DEF TypeOK
<1>7. ASSUME NEW c \in Coid, IsLive(after[c])
      PROVE  orders[c] # Absent /\ IsLive(orders[c]) /\ after[c].req = orders[c].req
  <2>1. orders[c] # Absent
    BY <1>4, <1>7, OrderNotAbsent
  <2>2. CASE after[c].state = orders[c].state
    BY <1>5, <1>7, <2>1, <2>2 DEF IsLive, Step
  <2>3. CASE after[c].state # orders[c].state
    BY <1>5, <2>1, <2>3, LegalEnds DEF IsLive, Step
  <2> QED
    BY <2>1, <2>2, <2>3
<1>8. OneActiveEntry'
  BY <1>1, <1>2, <1>7 DEF OneActiveEntry, IsLive
<1>9. JournalAgrees'
  <2>1. ASSUME NEW c \in Coid, orders[c] # Absent
        PROVE  /\ journal'[c] # NoRow /\ journal'[c].state = after[c].state
               /\ journal'[c].req = after[c].req /\ journal'[c].filled <= after[c].filled
    BY <1>5, <1>6, <2>1
  <2>2. ASSUME NEW c \in Coid, after[c] = Absent
        PROVE  journal'[c].state \notin OState \ TERMINAL
    BY <1>1, <1>4, <1>5, <2>2 DEF JournalAgrees
  <2> QED
    BY <1>2, <1>4, <2>1, <2>2 DEF JournalAgrees
<1>10. ASSUME NEW c \in Coid PROVE BookOK(c)' /\ RowOK(c)'
  <2>1. BookOK(c) /\ RowOK(c) /\ executed[c] \in Nat /\ qty[c] \in Nat
    BY DEF IInv, TypeOK
  <2>2. CASE orders[c] = Absent
    BY <1>2, <1>4, <2>1, <2>2 DEF BookOK, RowOK
  <2>3. CASE orders[c] # Absent
    <3>1. BookOK(c)'
      BY <1>2, <1>5, <1>6, <2>1, <2>3 DEF BookOK, OrderOK, IsLive, Remaining
    <3>2. executed'[c] <= orders[c].req.quantity
      BY <2>3
    <3>3. journal'[c].filled <= executed'[c]
      BY <1>5, <1>6, <2>1, <2>3 DEF BookOK, RowOK
    <3> QED
      BY <1>6, <2>3, <3>1, <3>2, <3>3 DEF RowOK
  <2> QED
    BY <2>2, <2>3
<1>11. Within'
  <2>1. \A c \in Coid : orders'[c] # Absent => orders[c] # Absent
    BY <1>2, <1>4
  <2>2. \A c \in Coid : IsLive(orders'[c]) => /\ IsLive(orders[c])
                                              /\ orders'[c].reserved <= orders[c].reserved
    BY <1>2, <1>5, <1>7 DEF Step
  <2> QED
    BY <1>1, <1>6a, <2>1, <2>2, NothingRaised DEF IInv
<1>11a. IInv'
  BY <1>6a, <1>8, <1>9, <1>10, <1>11 DEF IInv
<1>12. Lifecycle!Move
  <2>1. ASSUME NEW c \in Coid
        PROVE  /\ journal'[c].state # journal[c].state
                  => <<journal[c].state, journal'[c].state>> \in Legal
               /\ (journal'[c] # NoRow) <=> (journal[c] # NoRow)
               /\ journal[c] # NoRow => journal'[c].req = journal[c].req
    <3>1. CASE orders[c] = Absent
      BY <1>4, <3>1
    <3>2. CASE orders[c] # Absent
      BY <1>5, <1>6, <3>2 DEF Step
    <3> QED
      BY <3>1, <3>2
  <2> QED
    BY <2>1 DEF Lifecycle!Move, EntryOf
<1> QED
  BY <1>11a, <1>12

(* The case of one call on one order, which books qty shares. *)
LEMMA OneCallPreserves ==
  ASSUME IInv, NEW c \in Coid, orders[c].state \in OState, NEW o, NEW qty \in Nat,
         OrderOK(orders[c]) => Step(orders[c], o, qty),
         executed[c] + qty <= orders[c].req.quantity,
         executed' = [executed EXCEPT ![c] = @ + qty],
         WriteOne(c, o), now' = now, restarts' = restarts
  PROVE  IInv' /\ Lifecycle!Move
PROOF
<1> DEFINE after == [orders EXCEPT ![c] = o]
<1> DEFINE q == [d \in Coid |-> IF d = c THEN qty ELSE 0]
<1>1. TypeOK /\ BookOK(c)
  BY DEF IInv
<1>2. orders[c] # Absent
  BY DEF Absent, OState
<1>3. Step(orders[c], o, qty) /\ o \in Order
  BY <1>1, <1>2 DEF BookOK, Step
<1>4. after \in [Coid -> Order \cup {Absent}] /\ q \in [Coid -> Nat]
  BY <1>1, <1>3 DEF TypeOK
<1>5. executed' \in [Coid -> Nat] /\ \A d \in Coid : executed'[d] = executed[d] + q[d]
  BY <1>1 DEF TypeOK
<1>6. Write(after) /\ now' \in Nat
  BY <1>1 DEF WriteOne, TypeOK
<1>7. ASSUME NEW d \in Coid, orders[d] # Absent, d # c
      PROVE  Step(orders[d], after[d], q[d]) /\ executed[d] + q[d] <= orders[d].req.quantity
  <2>1. orders[d] \in Order /\ OrderOK(orders[d]) /\ after[d] = orders[d] /\ q[d] = 0
    BY <1>1, <1>7 DEF IInv, TypeOK, BookOK
  <2>2. orders[d].filled \in Nat /\ executed[d] \in Nat
    BY <1>1, <2>1 DEF Order, TypeOK
  <2>3. executed[d] <= orders[d].req.quantity
    BY <1>7 DEF IInv, JournalAgrees, RowOK
  <2>4. orders[d].reserved \in Nat
    BY <2>1 DEF Order
  <2> QED
    BY <2>1, <2>2, <2>3, <2>4 DEF Step
<1>8. \A d \in Coid : IF orders[d] = Absent
                      THEN after[d] = Absent /\ q[d] = 0
                      ELSE /\ Step(orders[d], after[d], q[d])
                           /\ executed[d] + q[d] <= orders[d].req.quantity
  BY <1>1, <1>2, <1>3, <1>7 DEF TypeOK
<1> HIDE DEF after, q
<1> QED
  BY <1>4, <1>5, <1>6, <1>8, CallsPreserve

(* A call that books nothing. *)
LEMMA QuietCallPreserves ==
  ASSUME IInv, NEW c \in Coid, orders[c].state \in OState, NEW o,
         orders[c] \in Order /\ OrderOK(orders[c]) => Step(orders[c], o, 0),
         WriteOne(c, o), UNCHANGED <<now, executed, restarts>>
  PROVE  IInv' /\ Lifecycle!Move
PROOF
<1>1. orders[c] # Absent
  BY DEF Absent, OState
<1>2. TypeOK /\ orders[c] \in Order /\ executed[c] \in Nat
  BY <1>1 DEF IInv, TypeOK
<1>3. executed[c] <= orders[c].req.quantity
  BY <1>1 DEF IInv, JournalAgrees, RowOK
<1>4. executed' = [executed EXCEPT ![c] = @ + 0]
  BY <1>2 DEF TypeOK
<1>5. executed[c] + 0 <= orders[c].req.quantity
  BY <1>2, <1>3
<1> QED
  BY <1>2, <1>4, <1>5, OneCallPreserves

(* The initial state satisfies the invariant and is initial above. *)
LEMMA InitOK == Init => IInv /\ Lifecycle!Init
PROOF
<1> SUFFICES ASSUME Init PROVE IInv /\ Lifecycle!Init
  OBVIOUS
<1>1. \A c \in Coid : /\ orders[c] = Absent /\ journal[c] = NoRow /\ executed[c] = 0
                      /\ ~IsLive(orders[c]) /\ journal[c].state = "ABSENT"
  BY OrderNotAbsent DEF Init, NoRow
<1>2. TypeOK
  BY DEF Init, TypeOK
<1>3. OneActiveEntry
  BY <1>1 DEF OneActiveEntry
<1>4. JournalAgrees
  BY <1>1 DEF JournalAgrees, OState
<1>5. \A c \in Coid : BookOK(c) /\ RowOK(c)
  BY <1>1 DEF BookOK, RowOK
<1>6. Lifecycle!Init
  BY <1>1 DEF Lifecycle!Init, EntryOf
<1>7. Within
  <2>1. {c \in Coid : orders[c] # Absent} = {} /\ Live(orders) = {}
    BY <1>1 DEF Live
  <2>2. Held(orders, {}) = 0
    <3>1. Dollars(orders, {}) = {}
      BY DEF Dollars
    <3> QED
      BY <3>1, HeldCounts, FS_EmptySet
  <2> QED
    BY <2>1, <2>2, ReservedIsHeld, FS_EmptySet, BoundsAssumption DEF Within
<1> QED
  BY <1>2, <1>3, <1>4, <1>5, <1>6, <1>7 DEF IInv

(* create makes one order the journal never had a row for, and, for an     *)
(* entry, on a symbol without a live one.                                  *)
LEMMA CreateOK ==
  ASSUME IInv, NEW c \in Coid, NEW r \in Request, NEW ttl \in Ttl \cup {NoTtl},
         Create(c, r, ttl)
  PROVE  IInv' /\ Lifecycle!Next
PROOF
<1> DEFINE e == IF ttl = NoTtl THEN NoTtl ELSE now + ttl
<1> DEFINE o == NewOrder(r, e)
<1>1. TypeOK /\ OneActiveEntry /\ JournalAgrees
  BY DEF IInv
<1>2. e \in Nat \cup {NoTtl}
  BY <1>1, BoundsAssumption DEF TypeOK
<1>3. /\ o \in Order /\ OrderOK(o) /\ o.req = r /\ o.state = "NEW" /\ o.filled = 0
  BY <1>2, NewOrderOK
<1>4. orders[c] = Absent /\ journal[c] = NoRow /\ executed[c] = 0
  BY DEF Create, IInv, RowOK
<1>5. r.quantity \in Nat /\ r.intent \in {"entry", "exit"} /\ r.symbol \in Symbol
  BY RequestType
<1>6. UNCHANGED <<now, executed, restarts>> /\ WriteOne(c, o)
  BY DEF Create
<1> HIDE DEF o, e
<1>7. /\ orders' = [orders EXCEPT ![c] = o]
      /\ orders'[c] = o /\ \A d \in Coid \ {c} : orders'[d] = orders[d]
  BY <1>1, <1>6 DEF WriteOne, Write, TypeOK
<1>8. /\ journal'[c] = RowOf(o) /\ RowOf(o) \in Row /\ RowOf(o) # NoRow
      /\ RowOf(o).req = r /\ RowOf(o).state = "NEW" /\ RowOf(o).filled = 0
      /\ \A d \in Coid \ {c} : journal'[d] = journal[d]
  <2>1. [orders EXCEPT ![c] = o][c] = o /\ orders[c].state # o.state
    BY <1>1, <1>3, <1>4 DEF TypeOK, Absent
  <2> QED
    BY <1>1, <1>3, <1>6, <2>1, RowOfFields DEF WriteOne, Write, TypeOK
<1>9. TypeOK'
  <2>1. journal' \in [Coid -> Row \cup {NoRow}]
    <3>1. \A d \in Coid : journal'[d] \in Row \cup {NoRow}
      BY <1>1, <1>8 DEF TypeOK
    <3> QED
      BY <1>6, <3>1 DEF WriteOne, Write
  <2> QED
    BY <1>1, <1>3, <1>6, <1>7, <2>1 DEF TypeOK
<1>10. r.intent = "entry" =>
         \A d \in Coid : IsLive(orders[d]) /\ orders[d].req.intent = "entry"
                        => orders[d].req.symbol # r.symbol
  BY DEF Create, HasActiveEntry
<1>11. OneActiveEntry'
  <2> SUFFICES ASSUME NEW x \in Coid, NEW y \in Coid,
                      IsLive(orders'[x]), orders'[x].req.intent = "entry",
                      IsLive(orders'[y]), orders'[y].req.intent = "entry",
                      orders'[x].req.symbol = orders'[y].req.symbol
               PROVE  x = y
    BY DEF OneActiveEntry, IsLive
  <2>1. CASE x # c /\ y # c
    BY <1>1, <1>7, <2>1 DEF OneActiveEntry
  <2>2. CASE x = c \/ y = c
    BY <1>3, <1>7, <1>10, <2>2
  <2> QED
    BY <2>1, <2>2
<1>12. JournalAgrees'
  BY <1>1, <1>3, <1>7, <1>8, OrderNotAbsent DEF JournalAgrees
<1>13. ASSUME NEW d \in Coid PROVE BookOK(d)' /\ RowOK(d)'
  <2>1. BookOK(d) /\ RowOK(d)
    BY DEF IInv
  <2>2. CASE d = c
    BY <1>3, <1>4, <1>5, <1>6, <1>7, <1>8, <2>2
       DEF BookOK, RowOK, OrderOK, IsLive, Remaining
  <2>3. CASE d # c
    BY <1>6, <1>7, <1>8, <2>1, <2>3 DEF BookOK, RowOK, OrderOK, IsLive, Remaining
  <2> QED
    BY <2>2, <2>3
<1>14. Lifecycle!Next
  <2> DEFINE s == IF r.intent = "entry" THEN r.symbol ELSE "none"
  <2>1. s \in Symbol \cup {"none"}
    BY <1>5
  <2>2. journal[c].state = "ABSENT"
    BY <1>4 DEF NoRow
  <2>3. [d \in Coid |-> journal'[d].state] = [[d \in Coid |-> journal[d].state] EXCEPT ![c] = "NEW"]
    BY <1>8
  <2>4. [d \in Coid |-> EntryOf(journal'[d])] = [[d \in Coid |-> EntryOf(journal[d])] EXCEPT ![c] = s]
    <3>1. EntryOf(journal'[c]) = s
      BY <1>8 DEF EntryOf
    <3>2. \A d \in Coid \ {c} : EntryOf(journal'[d]) = EntryOf(journal[d])
      BY <1>8
    <3> QED
      BY <3>1, <3>2
  <2>5. ASSUME s \in Symbol, NEW d \in Coid, EntryOf(journal[d]) = s
        PROVE  journal[d].state \notin OState \ TERMINAL
    <3>1. r.intent = "entry" /\ s = r.symbol
      BY <2>5, SymbolAssumption
    <3>2. journal[d] # NoRow /\ journal[d].req.intent = "entry" /\ journal[d].req.symbol = r.symbol
      BY <2>5, <3>1, SymbolAssumption DEF EntryOf
    <3>3. CASE orders[d] = Absent
      BY <1>1, <3>3 DEF JournalAgrees
    <3>4. CASE orders[d] # Absent
      <4>1. journal[d].state = orders[d].state /\ journal[d].req = orders[d].req
        BY <1>1, <3>4 DEF JournalAgrees
      <4> QED
        BY <1>10, <3>1, <3>2, <4>1 DEF IsLive
    <3> QED
      BY <3>3, <3>4
  <2>6. Lifecycle!Open(c, s)
    BY <2>2, <2>3, <2>4, <2>5 DEF Lifecycle!Open, Lifecycle!Alive
  <2> QED
    BY <2>1, <2>6 DEF Lifecycle!Next
<1>15. Within'
  <2>1. {d \in Coid : orders'[d] # Absent} = {d \in Coid : orders[d] # Absent} \cup {c}
    BY <1>3, <1>7, OrderNotAbsent
  <2>2. IsFiniteSet({d \in Coid : orders'[d] # Absent})
    BY <2>1, FS_AddElement DEF IInv, Within
  <2>3. PICK old, new : old = orders /\ new = orders'
    OBVIOUS
  <2>4. old \in [Coid -> Order \cup {Absent}] /\ IsFiniteSet({d \in Coid : old[d] # Absent})
    BY <1>1, <2>3 DEF TypeOK, IInv, Within
  <2>5. /\ IsFiniteSet(Live(old)) /\ \A d \in Live(old) : old[d].reserved \in Nat
        /\ Held(old, Live(old)) \in Nat
    BY <2>4, LiveOrders
  <2>6. c \notin Live(old) /\ Live(new) = Live(old) \cup {c}
    BY <1>3, <1>4, <1>7, <2>3, OrderNotAbsent DEF Live, IsLive, OState, TERMINAL
  <2>7. new[c].reserved = r.quantity * r.price /\ r.quantity * r.price \in Nat
    <3>1. new[c] = o
      BY <1>7, <2>3
    <3>2. o.reserved = r.quantity * r.price
      BY DEF o, NewOrder
    <3>3. r.price \in Nat
      BY RequestType
    <3> QED
      BY <1>5, <3>1, <3>2, <3>3
  <2>8. \A d \in Live(old) : new[d].reserved = old[d].reserved
    BY <1>7, <2>3, <2>6 DEF Live
  <2>9. Held(new, Live(new)) = Held(old, Live(old)) + new[c].reserved
    <3> DEFINE S == Live(old)
    <3>1. /\ IsFiniteSet(S) /\ \A d \in S : old[d].reserved \in Nat
          /\ c \notin S /\ new[c].reserved \in Nat
          /\ \A d \in S : new[d].reserved = old[d].reserved
      BY <2>5, <2>6, <2>7, <2>8
    <3> HIDE DEF S
    <3>2. Held(new, S \cup {c}) = Held(old, S) + new[c].reserved
      BY <3>1, HeldRises
    <3> QED
      BY <2>6, <3>2 DEF S
  <2>10. ReservedNotional = Held(old, Live(old)) /\ ReservedNotional' = Held(new, Live(new))
    BY <2>3, ReservedIsHeld
  <2>11. ReservedNotional' <= MaxGross
    BY <2>7, <2>9, <2>10 DEF Create
  <2> QED
    BY <2>2, <2>11 DEF Within, Absent
<1> QED
  BY <1>9, <1>11, <1>12, <1>13, <1>14, <1>15 DEF IInv

(* A restart puts back every live order the book held, and only those. *)
LEMMA RestartOK ==
  ASSUME IInv, Restart
  PROVE  IInv' /\ journal' = journal
PROOF
<1>1. TypeOK /\ OneActiveEntry /\ JournalAgrees /\ \A c \in Coid : RowOK(c)
  BY DEF IInv
<1>2. /\ UNCHANGED <<now, journal, executed>> /\ restarts' = restarts + 1
      /\ orders' = [c \in Coid |-> Restored(journal[c])]
      /\ \A c \in Coid : orders'[c] = Restored(journal[c])
  BY DEF Restart
<1>3. restarts' \in Nat /\ restarts' # 0
  BY <1>1, <1>2 DEF TypeOK
<1>4. ASSUME NEW c \in Coid, journal[c].state \in OState \ TERMINAL
      PROVE  /\ orders'[c] \in Order /\ orders'[c].req = journal[c].req
             /\ orders'[c].state = journal[c].state /\ orders'[c].filled = journal[c].filled
             /\ orders'[c].reserved = 0 /\ journal[c] \in Row
             /\ IsLive(orders[c]) /\ orders[c].req = journal[c].req
             /\ OrderOK(orders'[c])
  <2>1. journal[c] \in Row
    BY <1>1, <1>4, OrderNotAbsent DEF TypeOK, NoRow, OState
  <2>2. /\ journal[c].req \in Request /\ journal[c].filled \in Nat /\ journal[c].state \in OState
    BY <2>1 DEF Row
  <2>3. orders'[c] = [req |-> journal[c].req, state |-> journal[c].state,
                      filled |-> journal[c].filled, reserved |-> 0, expireAt |-> NoTtl, rev |-> 0]
    BY <1>2, <1>4 DEF Restored
  <2>4. orders'[c] \in Order
    BY <2>2, <2>3 DEF Order
  <2>5. orders[c] # Absent
    BY <1>1, <1>4 DEF JournalAgrees
  <2>6. orders[c].state = journal[c].state /\ orders[c].req = journal[c].req
    BY <1>1, <2>5 DEF JournalAgrees
  <2>7. OrderOK(orders'[c])
    <3>1. /\ journal[c].req.quantity \in Nat /\ journal[c].req.price \in Nat
      BY <2>2, RequestType
    <3>2. Remaining(orders'[c]) \in Nat
      BY <2>2, <2>3, <3>1 DEF Remaining
    <3>3. journal[c].req.quantity * journal[c].req.price \in Nat
      BY <3>1
    <3>4. journal[c].req.quantity * journal[c].req.price * Remaining(orders'[c]) \in Nat
      BY <3>2, <3>3
    <3>5. orders'[c].state # "FILLED"
      BY <1>4, <2>3 DEF TERMINAL
    <3> QED
      BY <2>3, <3>1, <3>3, <3>4, <3>5 DEF OrderOK
  <2> QED
    BY <1>4, <2>1, <2>3, <2>4, <2>5, <2>6, <2>7 DEF IsLive
<1>5. ASSUME NEW c \in Coid, journal[c].state \notin OState \ TERMINAL
      PROVE  orders'[c] = Absent
  BY <1>2, <1>5 DEF Restored
<1>6. TypeOK'
  <2>1. \A c \in Coid : orders'[c] \in Order \cup {Absent}
    BY <1>4, <1>5
  <2> QED
    BY <1>1, <1>2, <1>3, <2>1 DEF TypeOK
<1>7. \A c \in Coid : IsLive(orders'[c]) => journal[c].state \in OState \ TERMINAL
  BY <1>5, OrderNotAbsent
<1>8. OneActiveEntry'
  <2> SUFFICES ASSUME NEW x \in Coid, NEW y \in Coid,
                      IsLive(orders'[x]), orders'[x].req.intent = "entry",
                      IsLive(orders'[y]), orders'[y].req.intent = "entry",
                      orders'[x].req.symbol = orders'[y].req.symbol
               PROVE  x = y
    BY DEF OneActiveEntry, IsLive
  <2>1. /\ IsLive(orders[x]) /\ orders[x].req = orders'[x].req
        /\ IsLive(orders[y]) /\ orders[y].req = orders'[y].req
    BY <1>4, <1>7
  <2> QED
    BY <1>1, <2>1 DEF OneActiveEntry
<1>9. JournalAgrees'
  <2>1. ASSUME NEW c \in Coid, journal[c].state \in OState \ TERMINAL
        PROVE  journal[c] # NoRow /\ orders'[c] # Absent /\ journal[c].filled <= orders'[c].filled
    <3>1. journal[c].filled \in Nat
      BY <1>4, <2>1 DEF Row
    <3> QED
      BY <1>4, <2>1, <3>1, OrderNotAbsent
  <2> QED
    BY <1>2, <1>4, <1>5, <2>1 DEF JournalAgrees
<1>10. ASSUME NEW c \in Coid PROVE BookOK(c)' /\ RowOK(c)'
  <2>1. RowOK(c)'
    BY <1>1, <1>2 DEF RowOK
  <2>2. CASE journal[c].state \in OState \ TERMINAL
    BY <1>1, <1>2, <1>3, <1>4, <2>1, <2>2, OrderNotAbsent
       DEF BookOK, RowOK, OrderOK, IsLive, Remaining
  <2>3. CASE journal[c].state \notin OState \ TERMINAL
    BY <1>5, <2>1, <2>3 DEF BookOK
  <2> QED
    BY <2>1, <2>2, <2>3 DEF BookOK
<1>11. Within'
  <2>1. \A c \in Coid : orders'[c] # Absent => orders[c] # Absent
    BY <1>4, <1>5, OrderNotAbsent
  <2>2. ASSUME NEW c \in Coid, IsLive(orders'[c])
        PROVE  IsLive(orders[c]) /\ orders'[c].reserved <= orders[c].reserved
    <3>1. IsLive(orders[c]) /\ orders'[c].reserved = 0
      BY <1>4, <1>7, <2>2
    <3>2. orders[c].reserved \in Nat
      BY <1>1, <3>1, OrderNotAbsent DEF TypeOK, Order
    <3> QED
      BY <3>1, <3>2
  <2> QED
    BY <1>1, <1>6, <2>1, <2>2, NothingRaised DEF IInv
<1> QED
  BY <1>2, <1>6, <1>8, <1>9, <1>10, <1>11 DEF IInv

(* Every step keeps the invariant, and is a step or a stutter of the       *)
(* abstract order life.                                                    *)
LEMMA NextOK == IInv /\ [Next]_vars => IInv' /\ [Lifecycle!Next]_(Lifecycle!vars)
PROOF
<1> SUFFICES ASSUME IInv, [Next]_vars PROVE IInv' /\ [Lifecycle!Next]_(Lifecycle!vars)
  OBVIOUS
<1>1. Lifecycle!Move => [Lifecycle!Next]_(Lifecycle!vars)
  BY DEF Lifecycle!Next
<1>2. journal' = journal => [Lifecycle!Next]_(Lifecycle!vars)
  BY DEF Lifecycle!vars
<1>3. CASE \E c \in Coid, r \in Request, ttl \in Ttl \cup {NoTtl} : Create(c, r, ttl)
  BY <1>3, CreateOK
<1>4. CASE \E c \in Coid : MarkSubmitting(c)
  <2>1. PICK c \in Coid : MarkSubmitting(c)
    BY <1>4
  <2>2. orders[c].state = "NEW" /\ WriteOne(c, Transition(orders[c], "SUBMITTING"))
        /\ UNCHANGED <<now, executed, restarts>>
    BY <2>1 DEF MarkSubmitting
  <2> QED
    BY <1>1, <2>2, TransitionSteps, QuietCallPreserves DEF OState
<1>5. CASE \E c \in Coid : OnAck(c)
  <2>1. PICK c \in Coid : OnAck(c)
    BY <1>5
  <2>2. orders[c].state = "SUBMITTING" /\ WriteOne(c, Transition(orders[c], "ACKNOWLEDGED"))
        /\ UNCHANGED <<now, executed, restarts>>
    BY <2>1 DEF OnAck, AfterAck
  <2> QED
    BY <1>1, <2>2, TransitionSteps, QuietCallPreserves DEF OState
<1>6. CASE \E c \in Coid : OnReject(c)
  <2>1. PICK c \in Coid : OnReject(c)
    BY <1>6
  <2>2. orders[c].state \in OState \ TERMINAL
    BY <2>1, LegalEnds DEF OnReject
  <2>3. WriteOne(c, Transition(orders[c], "REJECTED")) /\ UNCHANGED <<now, executed, restarts>>
    BY <2>1, <2>2 DEF OnReject, AfterReject, IsLive
  <2> QED
    BY <1>1, <2>2, <2>3, TransitionSteps, QuietCallPreserves DEF OState
<1>7. CASE \E c \in Coid, qty \in FillQuantity : OnFill(c, qty)
  <2>1. PICK c \in Coid, qty \in FillQuantity : OnFill(c, qty)
    BY <1>7
  <2>2. qty \in Nat
    BY QuantityAssumption DEF FillQuantity
  <2>3. orders[c] \in Order
    BY <2>1 DEF OnFill, IInv, TypeOK, Absent, OState
  <2>4. OrderOK(orders[c]) => Step(orders[c], AfterFill(orders[c], qty), qty)
    BY <2>2, <2>3, FillSteps
  <2> QED
    BY <1>1, <2>1, <2>2, <2>4, OneCallPreserves DEF OnFill
<1>8. CASE \E c \in Coid : RequestCancel(c)
  <2>1. PICK c \in Coid : RequestCancel(c)
    BY <1>8
  <2>2. orders[c].state \in OState /\ WriteOne(c, Transition(orders[c], "CANCEL_PENDING"))
        /\ UNCHANGED <<now, executed, restarts>>
    BY <2>1 DEF RequestCancel, AfterCancelRequest, OState
  <2> QED
    BY <1>1, <2>2, TransitionSteps, QuietCallPreserves DEF OState
<1>9. CASE \E c \in Coid : OnCancelAck(c)
  <2>1. PICK c \in Coid : OnCancelAck(c)
    BY <1>9
  <2>2. orders[c].state \in OState /\ WriteOne(c, Transition(orders[c], "CANCELLED"))
        /\ UNCHANGED <<now, executed, restarts>>
    BY <2>1 DEF OnCancelAck, AfterCancelAck, OState
  <2> QED
    BY <1>1, <2>2, TransitionSteps, QuietCallPreserves DEF OState
<1>10. CASE Poll
  <2> DEFINE after == [c \in Coid |-> AfterPoll(orders[c], now)]
  <2> DEFINE q == [c \in Coid |-> 0]
  <2>1. TypeOK /\ \A c \in Coid : BookOK(c)
    BY DEF IInv
  <2>2. Write(after) /\ UNCHANGED <<now, executed, restarts>>
    BY <1>10 DEF Poll
  <2>3. ASSUME NEW c \in Coid, orders[c] # Absent
        PROVE  Step(orders[c], after[c], q[c]) /\ executed[c] + q[c] <= orders[c].req.quantity
    <3>1. orders[c] \in Order /\ OrderOK(orders[c]) /\ executed[c] \in Nat
      BY <2>1, <2>3 DEF TypeOK, BookOK
    <3>2. executed[c] <= orders[c].req.quantity
      BY <2>3 DEF IInv, JournalAgrees, RowOK
    <3> QED
      BY <2>1, <3>1, <3>2, PollSteps DEF TypeOK
  <2>4. ASSUME NEW c \in Coid, orders[c] = Absent PROVE after[c] = Absent /\ q[c] = 0
    BY <2>1, <2>4, PollSteps DEF TypeOK
  <2>5. after \in [Coid -> Order \cup {Absent}] /\ q \in [Coid -> Nat]
    BY <2>3, <2>4 DEF Step
  <2>6. executed' \in [Coid -> Nat] /\ \A c \in Coid : executed'[c] = executed[c] + q[c]
    BY <2>1, <2>2 DEF TypeOK
  <2>7. \A c \in Coid : IF orders[c] = Absent
                        THEN after[c] = Absent /\ q[c] = 0
                        ELSE /\ Step(orders[c], after[c], q[c])
                             /\ executed[c] + q[c] <= orders[c].req.quantity
    BY <2>3, <2>4
  <2> HIDE DEF after, q
  <2>8. now' \in Nat /\ restarts' = restarts
    BY <2>1, <2>2 DEF TypeOK
  <2> QED
    BY <1>1, <2>2, <2>5, <2>6, <2>7, <2>8, CallsPreserve
<1>11. CASE Tick \/ UNCHANGED vars
  <2>1. UNCHANGED <<orders, journal, executed, restarts>> /\ now' \in Nat
    BY <1>11 DEF Tick, vars, IInv, TypeOK
  <2>2. Within'
    BY <2>1, ReservedIsHeld DEF IInv, Within
  <2> QED
    BY <1>2, <2>1, <2>2 DEF IInv, TypeOK, OneActiveEntry, JournalAgrees, BookOK, RowOK, OrderOK,
                            IsLive, Remaining
<1>12. CASE Restart
  BY <1>2, <1>12, RestartOK
<1> QED
  BY <1>3, <1>4, <1>5, <1>6, <1>7, <1>8, <1>9, <1>10, <1>11, <1>12 DEF Next

-----------------------------------------------------------------------------

(* The invariant holds, over any number of fills, timers and restarts.     *)
THEOREM InvariantHolds == Spec => []IInv
PROOF
<1>1. Init => IInv
  BY InitOK
<1>2. IInv /\ [Next]_vars => IInv'
  BY NextOK
<1> QED
  BY <1>1, <1>2, PTL DEF Spec

(* The book and the journal are well formed in every reachable state.      *)
THEOREM TypeCorrect == Spec => []TypeOK
PROOF
<1>1. IInv => TypeOK
  BY DEF IInv
<1> QED
  BY <1>1, InvariantHolds, PTL

(* What all live orders hold together never exceeds the cap on gross        *)
(* notional: create refuses what would pass it, and no fill, cancel, timer  *)
(* or restart raises what an order holds.                                   *)
THEOREM TotalReserved == Spec => []ReservationWithinCap
PROOF
<1>1. IInv => ReservationWithinCap
  BY DEF IInv, Within, ReservationWithinCap
<1> QED
  BY <1>1, InvariantHolds, PTL

(* Exactly one active entry intent per symbol, restarts included.          *)
THEOREM OneEntryPerSymbol == Spec => []OneActiveEntry
PROOF
<1>1. IInv => OneActiveEntry
  BY DEF IInv
<1> QED
  BY <1>1, InvariantHolds, PTL

(* No order ever holds more buying power than its untraded share, and an   *)
(* ended order holds none.                                                 *)
THEOREM ReservationsBounded == Spec => []ReservationBound
PROOF
<1>1. IInv => ReservationBound
  BY DEF IInv, BookOK, ReservationBound, OrderOK
<1> QED
  BY <1>1, InvariantHolds, PTL

(* The journal suffices to rebuild the book between any two calls.         *)
THEOREM JournalRebuildsBook == Spec => []JournalAgrees
PROOF
<1>1. IInv => JournalAgrees
  BY DEF IInv
<1> QED
  BY <1>1, InvariantHolds, PTL

(* The book counts only shares the venue traded, and each once.            *)
THEOREM FillsAreReal == Spec => []FilledMatchesVenue
PROOF
<1>1. IInv => FilledMatchesVenue
  BY DEF IInv, BookOK, FilledMatchesVenue
<1> QED
  BY <1>1, InvariantHolds, PTL

(* FILLED is only said of an order that traded all of its quantity.        *)
THEOREM FilledOrdersAreComplete == Spec => []FilledIsComplete
PROOF
<1>1. ASSUME IInv PROVE FilledIsComplete
  <2> SUFFICES ASSUME NEW c \in Coid, orders[c].state = "FILLED"
               PROVE  executed[c] = orders[c].req.quantity
    BY DEF FilledIsComplete
  <2>1. orders[c] # Absent /\ orders[c] \in Order /\ executed[c] \in Nat
    BY <1>1 DEF IInv, TypeOK, Absent
  <2>2. Remaining(orders[c]) = 0 /\ orders[c].filled <= executed[c]
    BY <1>1, <2>1 DEF IInv, BookOK, OrderOK
  <2>3. executed[c] <= orders[c].req.quantity
    BY <1>1, <2>1 DEF IInv, JournalAgrees, RowOK
  <2>4. orders[c].filled \in Nat /\ orders[c].req.quantity \in Nat
    BY <2>1, RequestType DEF Order
  <2> QED
    BY <2>2, <2>1, <2>3, <2>4 DEF Remaining
<1> QED
  BY <1>1, InvariantHolds, PTL

(* The order book with its journal implements the abstract order life.     *)
THEOREM ImplementsLifecycle == Spec => LifecycleSpec
PROOF
<1>1. Init => Lifecycle!Init
  BY InitOK
<1>2. IInv /\ [Next]_vars => [Lifecycle!Next]_(Lifecycle!vars)
  BY NextOK
<1> QED
  BY <1>1, <1>2, InvariantHolds, PTL DEF Spec, LifecycleSpec, Lifecycle!Spec
=============================================================================
