-------------------------- MODULE SignalDeskProofs --------------------------
(***************************************************************************)
(* Proofs about SignalDesk, for every set of prices, every timeout,         *)
(* tolerance, cooldown and tolerance of the health monitor, and with or     *)
(* without a monitor shared with the stream.                               *)
(***************************************************************************)
EXTENDS SignalDesk, TLAPS

State == {"IDLE", "ENTRY", "MANAGE", "COOLDOWN"} \cup Armed

(* The machine has the impulse and its extreme behind it.                   *)
Following == Armed \cup {"ENTRY"}

(* The states only reached through the wait for a confirmation.             *)
Confirmed == {"EXHAUSTION", "FAILED_RETEST", "ENTRY"}

TrackSet == [state: State, direction: {-1, 0, 1}, dwell: 0..MaxAge, extreme: Nat,
             retest: BOOLEAN, cooldown: 0..Cooldown]
BurstSet == [mids: SUBSET Mid, age: 0..ConfirmWait, calm: 0..Cooldown,
             forgot: BOOLEAN, silent: BOOLEAN]

Typed == track \in TrackSet /\ burst \in BurstSet

(* The extreme of a machine that follows a burst is beyond all of it.       *)
Beyond(t, b) ==
  t.state \in Following =>
    /\ b.mids # {}
    /\ \A mid \in b.mids : t.direction * (t.extreme - mid) >= 0

(* The burst is as old as the wait for its confirmation, and old enough     *)
(* after it.                                                                *)
Aging(t, b) ==
  /\ t.state = "CONFIRM_WAIT" => b.age = ConfirmWait \/ t.dwell <= b.age
  /\ t.state \in Confirmed => b.age = ConfirmWait

(* What is left of a cooldown makes up for what is not calm yet, unless a   *)
(* restart forgot it.                                                      *)
Backing(t, b) ==
  ~b.forgot =>
    /\ t.state = "COOLDOWN" => t.cooldown + b.calm >= Cooldown \div 2
    /\ t.state # "COOLDOWN" => b.calm >= Cooldown \div 2

IInv ==
  /\ Typed
  /\ Beyond(track, burst)
  /\ Aging(track, burst)
  /\ Backing(track, burst)
  /\ EntryHasOrder
  /\ NeverEntersHeld

-----------------------------------------------------------------------------
(* The integers that the proofs are about.                                  *)
LEMMA Times ==
  /\ ConfirmWait \in Nat /\ Cooldown \in Nat /\ MaxAge \in Nat
  /\ ConfirmWait < MaxAge /\ Cooldown < MaxAge
  /\ Cooldown \div 2 \in 0..Cooldown
  /\ Mid \subseteq Nat
BY TimesAssumption

LEMMA States ==
  /\ Armed \subseteq Following /\ Following \subseteq State /\ Confirmed \subseteq Following
  /\ "IDLE" \notin Following /\ "COOLDOWN" \notin Following /\ "MANAGE" \notin Following
  /\ "IDLE" \in State /\ "COOLDOWN" \in State /\ "MANAGE" \in State
BY DEF Armed, Following, State, Confirmed

(* _transition changes the state, starts its dwell and leaves the rest.     *)
LEMMA GoMoves ==
  ASSUME NEW t \in TrackSet, NEW to \in State
  PROVE  /\ Go(t, to) \in TrackSet
         /\ Go(t, to).state = to /\ Go(t, to).dwell = 0
         /\ Go(t, to).direction = t.direction /\ Go(t, to).extreme = t.extreme
         /\ Go(t, to).cooldown = t.cooldown
PROOF
<1> DEFINE u == [t EXCEPT !.state = to]
<1>1. /\ u \in TrackSet /\ u.state = to
      /\ u.direction = t.direction /\ u.extreme = t.extreme /\ u.cooldown = t.cooldown
  BY DEF TrackSet
<1>2. Go(t, to) = [u EXCEPT !.dwell = 0]
  BY DEF Go, TrackSet
<1>3. 0 \in 0..MaxAge
  BY Times
<1> HIDE DEF u
<1> QED
  BY <1>1, <1>2, <1>3 DEF TrackSet

(* A machine that starts to back off has what is left of the cooldown.      *)
LEMMA BacksOff ==
  ASSUME NEW t \in TrackSet, NEW left \in 0..Cooldown
  PROVE  LET u == [Go(t, "COOLDOWN") EXCEPT !.cooldown = left]
         IN u \in TrackSet /\ u.state = "COOLDOWN" /\ u.cooldown = left
BY GoMoves, States DEF TrackSet

(* Following a price changes the extreme only, to one that no price seen so *)
(* far is beyond, nor the price itself.                                    *)
LEMMA FollowedBeyond ==
  ASSUME NEW t \in TrackSet, NEW b \in BurstSet, NEW mid \in Mid,
         t.state \in Armed, Beyond(t, b)
  PROVE  LET u == Followed(t, mid)
             c == [b EXCEPT !.mids = @ \cup {mid}]
         IN /\ u \in TrackSet /\ c \in BurstSet
            /\ u.state = t.state /\ u.dwell = t.dwell /\ u.direction = t.direction
            /\ u.cooldown = t.cooldown
            /\ c.age = b.age /\ c.calm = b.calm /\ c.forgot = b.forgot
            /\ Beyond(u, c)
PROOF
<1> DEFINE u == Followed(t, mid)
           c == [b EXCEPT !.mids = @ \cup {mid}]
           far == IF t.direction * (mid - t.extreme) > 0 THEN mid ELSE t.extreme
<1> USE Times
<1>1. u = [t EXCEPT !.extreme = far]
  BY DEF Followed, TrackSet
<1>2. far \in Nat
  BY DEF TrackSet
<1>3. /\ t.direction \in {-1, 0, 1} /\ t.extreme \in Nat /\ mid \in Nat
      /\ \A m \in b.mids : m \in Nat /\ t.direction * (t.extreme - m) >= 0
  BY States DEF TrackSet, BurstSet, Beyond
<1>4. \A m \in b.mids \cup {mid} : t.direction * (far - m) >= 0
  <2>1. CASE t.direction = 1
    BY <1>3, <2>1
  <2>2. CASE t.direction = -1
    BY <1>3, <2>2
  <2>3. CASE t.direction = 0
    BY <1>3, <1>2, <2>3
  <2> QED
    BY <1>3, <2>1, <2>2, <2>3
<1> HIDE DEF far
<1>5. /\ u \in TrackSet /\ u.extreme = far /\ u.direction = t.direction
      /\ u.state = t.state /\ u.dwell = t.dwell /\ u.cooldown = t.cooldown
  BY <1>1, <1>2 DEF TrackSet
<1>6. c \in BurstSet /\ c.mids = b.mids \cup {mid} /\ c.age = b.age /\ c.calm = b.calm
      /\ c.forgot = b.forgot
  BY DEF BurstSet
<1> QED
  BY <1>4, <1>5, <1>6 DEF Beyond

(* A step of an armed machine moves neither its extreme nor its direction,  *)
(* passes the wait for a confirmation only when it is over, and ends armed,  *)
(* idle or with a signal.                                                   *)
LEMMA StepMoves ==
  ASSUME NEW t \in TrackSet, t.state \in Armed, NEW mid \in Mid,
         NEW exhausted \in BOOLEAN, NEW against \in BOOLEAN
  PROVE  LET u == Step(t, mid, exhausted, against)
         IN /\ u \in TrackSet
            /\ u.state \in {"IDLE"} \cup Following
            /\ u.extreme = t.extreme /\ u.direction = t.direction
            /\ u.state = "CONFIRM_WAIT" =>
                 u.dwell = 0 \/ (t.state = "CONFIRM_WAIT" /\ u.dwell = t.dwell)
            /\ u.state \in Confirmed =>
                 t.state \in Confirmed \/ (t.state = "CONFIRM_WAIT" /\ t.dwell >= ConfirmWait)
PROOF
<1> DEFINE u == Step(t, mid, exhausted, against)
<1>1. CASE t.state = "IMPULSE"
  <2>1. u = Go(t, "IDLE") \/ u = Go(t, "CONFIRM_WAIT")
    BY <1>1 DEF Step
  <2> QED
    BY <1>1, <2>1, GoMoves DEF State, Following, Armed, Confirmed
<1>2. CASE t.state = "CONFIRM_WAIT"
  <2>1. \/ u = t \/ u = Go(t, "IDLE")
        \/ t.dwell >= ConfirmWait /\ u = Go(t, "EXHAUSTION")
    BY <1>2, Times DEF Step, StepConfirm, TrackSet
  <2> QED
    BY <1>2, <2>1, GoMoves DEF State, Following, Armed, Confirmed
<1>3. CASE t.state = "EXHAUSTION"
  <2>1. u \in {t, Go(t, "IDLE"), Go(t, "FAILED_RETEST"), [t EXCEPT !.retest = TRUE]}
    BY <1>3 DEF Step, StepExhaustion
  <2>2. LET v == [t EXCEPT !.retest = TRUE]
        IN /\ v \in TrackSet /\ v.state = t.state /\ v.dwell = t.dwell
           /\ v.extreme = t.extreme /\ v.direction = t.direction
    BY DEF TrackSet
  <2>3. CASE u \in {t, [t EXCEPT !.retest = TRUE]}
    BY <1>3, <2>2, <2>3 DEF Following, Armed, Confirmed
  <2>4. CASE u = Go(t, "IDLE")
    BY <2>4, GoMoves DEF State, Following, Armed, Confirmed
  <2>5. CASE u = Go(t, "FAILED_RETEST")
    BY <1>3, <2>5, GoMoves DEF State, Following, Armed, Confirmed
  <2> HIDE DEF u
  <2> QED
    BY <2>1, <2>3, <2>4, <2>5
<1>4. CASE t.state = "FAILED_RETEST"
  <2>1. u \in {Go(t, "IDLE"), Go(t, "CONFIRM_WAIT"), Go(t, "ENTRY")}
    BY <1>4 DEF Step, StepRetest
  <2> QED
    BY <1>4, <2>1, GoMoves DEF State, Following, Armed, Confirmed
<1> QED
  BY <1>1, <1>2, <1>3, <1>4 DEF Armed

-----------------------------------------------------------------------------
LEMMA InitOK == Init => IInv
<1> SUFFICES ASSUME Init PROVE IInv
  OBVIOUS
<1>1. track \in TrackSet /\ track.state = "IDLE"
  BY Times DEF Init, NewTrack, TrackSet, State
<1>2. burst \in BurstSet /\ burst.calm = Cooldown
  BY Times DEF Init, NewBurst, BurstSet
<1> QED
  BY <1>1, <1>2, Times, States
  DEF IInv, Typed, Beyond, Aging, Backing, EntryHasOrder, NeverEntersHeld, Confirmed

(* The machine was told: what is calm starts anew, and nothing is forgotten. *)
LEMMA ToldBurst ==
  ASSUME NEW b \in BurstSet
  PROVE  Told(b) \in BurstSet /\ Told(b).calm = 0
PROOF
<1> DEFINE c == [b EXCEPT !.calm = 0]
<1>1. c \in BurstSet /\ c.calm = 0
  BY Times DEF BurstSet
<1>2. Told(b) = [c EXCEPT !.forgot = FALSE]
  BY DEF Told, BurstSet
<1> HIDE DEF c
<1> QED
  BY <1>1, <1>2 DEF BurstSet

(* A new process starts like the first one, but for what really was.        *)
LEMMA RestartOK == ASSUME IInv, Restart PROVE IInv'
<1>1. track' \in TrackSet /\ track'.state = "IDLE"
  BY Times DEF Restart, NewTrack, TrackSet, State
<1>2. /\ burst' = [mids |-> {}, age |-> 0, calm |-> burst.calm,
                   forgot |-> burst.forgot \/ track.state = "COOLDOWN", silent |-> FALSE]
  BY DEF Restart, NewBurst
<1>3. /\ burst' \in BurstSet /\ burst'.calm = burst.calm
      /\ burst'.forgot = (burst.forgot \/ track.state = "COOLDOWN")
  BY <1>2, Times DEF IInv, Typed, BurstSet
<1> QED
  BY <1>1, <1>3, Times, States
  DEF IInv, Typed, Beyond, Aging, Backing, EntryHasOrder, NeverEntersHeld, Confirmed

(* A burst arms an idle machine at the price of the burst.                  *)
LEMMA IdleOK ==
  ASSUME IInv, NEW lag, NEW missed, NEW market, NEW d \in {-1, 1}, NEW mid \in Mid,
         StepIdle(lag, missed, market, d, mid)
  PROVE  IInv'
PROOF
<1>1. /\ track.state = "IDLE"
      /\ track' = [Go(track, "IMPULSE") EXCEPT !.direction = d, !.extreme = mid]
      /\ burst' = [burst EXCEPT !.mids = {mid}, !.age = 0]
      /\ position' = position
  BY DEF StepIdle
<1>2. Go(track, "IMPULSE") \in TrackSet /\ Go(track, "IMPULSE").state = "IMPULSE"
  BY GoMoves DEF IInv, Typed, State, Armed
<1>3. /\ track' \in TrackSet /\ track'.state = "IMPULSE"
      /\ track'.direction = d /\ track'.extreme = mid
  BY <1>1, <1>2, Times DEF TrackSet
<1>4. /\ burst' \in BurstSet /\ burst'.mids = {mid} /\ burst'.age = 0
      /\ burst'.calm = burst.calm /\ burst'.forgot = burst.forgot
  <2>1. {mid} \in SUBSET Mid /\ 0 \in 0..ConfirmWait
    BY Times
  <2> QED
    BY <1>1, <2>1 DEF IInv, Typed, BurstSet
<1>5. \A m \in {mid} : d * (mid - m) >= 0
  BY Times
<1> QED
  BY <1>1, <1>3, <1>4, <1>5, Times
  DEF IInv, Typed, Beyond, Aging, Backing, EntryHasOrder, NeverEntersHeld, Following, Armed, Confirmed

(* An armed machine that is called off goes idle.                           *)
LEMMA DisarmOK ==
  ASSUME IInv, NEW lag, NEW missed, NEW market, NEW confirmed, NEW mid \in Mid,
         StepDisarm(lag, missed, market, confirmed, mid)
  PROVE  IInv'
PROOF
<1>1. /\ track.state \in Armed
      /\ track' = Go(Followed(track, mid), "IDLE")
      /\ burst' = burst /\ position' = position
  BY DEF StepDisarm
<1>2. track' \in TrackSet /\ track'.state = "IDLE"
  BY <1>1, FollowedBeyond, GoMoves, States DEF IInv, Typed
<1> QED
  BY <1>1, <1>2, States
  DEF IInv, Typed, Beyond, Aging, Backing, EntryHasOrder, NeverEntersHeld, Confirmed

(* An armed machine steps, and what it signals is submitted at once.        *)
LEMMA ArmedOK ==
  ASSUME IInv, NEW lag, NEW missed, NEW market, NEW mid \in Mid,
         NEW exhausted \in BOOLEAN, NEW against \in BOOLEAN, NEW refused \in BOOLEAN,
         StepArmed(lag, missed, market, mid, exhausted, against, refused)
  PROVE  IInv'
PROOF
<1> DEFINE t == Followed(track, mid)
           b == [burst EXCEPT !.mids = @ \cup {mid}]
           u == Step(t, mid, exhausted, against)
<1>1. /\ track.state \in Armed
      /\ SubmitEntry(u, b, refused)
      /\ position' = position
  BY DEF StepArmed
<1>2. /\ t \in TrackSet /\ b \in BurstSet
      /\ t.state = track.state /\ t.dwell = track.dwell
      /\ b.age = burst.age /\ b.calm = burst.calm /\ b.forgot = burst.forgot
      /\ Beyond(t, b)
  BY <1>1, FollowedBeyond DEF IInv, Typed
<1> HIDE DEF t, b
<1>3. /\ u \in TrackSet
      /\ u.state \in {"IDLE"} \cup Following
      /\ u.extreme = t.extreme /\ u.direction = t.direction
      /\ u.state = "CONFIRM_WAIT" =>
           u.dwell = 0 \/ (t.state = "CONFIRM_WAIT" /\ u.dwell = t.dwell)
      /\ u.state \in Confirmed =>
           t.state \in Confirmed \/ (t.state = "CONFIRM_WAIT" /\ t.dwell >= ConfirmWait)
  BY <1>1, <1>2, StepMoves
<1> HIDE DEF u
<1>4. Beyond(u, b)
  BY <1>1, <1>2, <1>3, States DEF Beyond
<1>5. Aging(u, b)
  <2>1. b.age \in 0..ConfirmWait /\ u.dwell \in Int /\ t.dwell \in Int
    BY <1>2, <1>3, Times DEF BurstSet, TrackSet
  <2> QED
    BY <1>2, <1>3, <2>1, Times DEF IInv, Aging
<1>6. ~b.forgot => b.calm >= Cooldown \div 2
  BY <1>1, <1>2, States DEF IInv, Backing
<1>7. Backing(u, b)
  BY <1>3, <1>6, States DEF Backing
<1>8. CASE u.state = "ENTRY" /\ (refused \/ entry # "none" \/ position)
  <2>1. /\ track' = [Go(u, "COOLDOWN") EXCEPT !.cooldown = Cooldown \div 2]
        /\ burst' = Told(b)
    BY <1>1, <1>8 DEF SubmitEntry, AfterEntryFailed
  <2>2. track' \in TrackSet /\ track'.state = "COOLDOWN" /\ track'.cooldown = Cooldown \div 2
    BY <1>3, <2>1, BacksOff, Times
  <2>3. burst' \in BurstSet /\ burst'.calm = 0
    BY <1>2, <2>1, ToldBurst
  <2> QED
    BY <2>2, <2>3, States, Times
    DEF IInv, Typed, Beyond, Aging, Backing, EntryHasOrder, NeverEntersHeld, Confirmed
<1>9. CASE ~(u.state = "ENTRY" /\ (refused \/ entry # "none" \/ position))
  <2>1. track' = u /\ burst' = b /\ (u.state = "ENTRY" => entry' = "unfilled")
    BY <1>1, <1>9 DEF SubmitEntry
  <2> QED
    BY <1>1, <1>2, <1>3, <1>4, <1>5, <1>7, <1>9, <2>1 DEF IInv, Typed, EntryHasOrder, NeverEntersHeld
<1> QED
  BY <1>8, <1>9

(* A machine that backed off long enough goes idle.                         *)
LEMMA CooldownOK ==
  ASSUME IInv, NEW lag, NEW missed, StepCooldown(lag, missed) PROVE IInv'
<1>1. /\ track.state = "COOLDOWN" /\ track.cooldown = 0
      /\ track' = Go(track, "IDLE") /\ burst' = burst /\ position' = position
  BY DEF StepCooldown
<1>2. track' \in TrackSet /\ track'.state = "IDLE"
  BY <1>1, GoMoves, States DEF IInv, Typed
<1>3. ~burst.forgot => burst.calm >= Cooldown \div 2
  BY <1>1, Times DEF IInv, Typed, BurstSet, Backing
<1> QED
  BY <1>1, <1>2, <1>3, States
  DEF IInv, Typed, Beyond, Aging, Backing, EntryHasOrder, NeverEntersHeld, Confirmed

-----------------------------------------------------------------------------
(* The first fill takes the machine out of ENTRY.                           *)
LEMMA FillOK == ASSUME IInv, EntryFills PROVE IInv'
<1>1. track' = AfterEntryFill(track) /\ burst' = burst
  BY DEF EntryFills
<1>2. CASE track.state = "ENTRY"
  <2>1. track' \in TrackSet /\ track'.state = "MANAGE"
    BY <1>1, <1>2, GoMoves, States DEF IInv, Typed, AfterEntryFill
  <2>2. ~burst.forgot => burst.calm >= Cooldown \div 2
    BY <1>2 DEF IInv, Backing
  <2> QED
    BY <1>1, <2>1, <2>2, States
    DEF IInv, Typed, Beyond, Aging, Backing, EntryHasOrder, NeverEntersHeld, Confirmed
<1>3. CASE track.state # "ENTRY"
  BY <1>1, <1>3 DEF IInv, Typed, AfterEntryFill, EntryHasOrder, NeverEntersHeld
<1> QED
  BY <1>2, <1>3

(* An entry that ends without a fill costs half a cooldown.                 *)
LEMMA FailOK == ASSUME IInv, EntryFails PROVE IInv'
<1>1. /\ track' = AfterEntryFailed(track) /\ position' = position
      /\ burst' = IF track.state = "ENTRY" THEN Told(burst) ELSE burst
  BY DEF EntryFails
<1>2. CASE track.state = "ENTRY"
  <2>1. track' = [Go(track, "COOLDOWN") EXCEPT !.cooldown = Cooldown \div 2]
    BY <1>1, <1>2 DEF AfterEntryFailed
  <2>2. track' \in TrackSet /\ track'.state = "COOLDOWN" /\ track'.cooldown = Cooldown \div 2
    BY <2>1, BacksOff, Times DEF IInv, Typed
  <2>3. burst' \in BurstSet /\ burst'.calm = 0
    BY <1>1, <1>2, ToldBurst DEF IInv, Typed
  <2> QED
    BY <2>2, <2>3, States, Times
    DEF IInv, Typed, Beyond, Aging, Backing, EntryHasOrder, NeverEntersHeld, Confirmed
<1>3. CASE track.state # "ENTRY"
  <2>1. track' = track /\ burst' = burst
    BY <1>1, <1>3 DEF IInv, Typed, BurstSet, AfterEntryFailed
  <2> QED
    BY <1>1, <1>3, <2>1 DEF IInv, Typed, EntryHasOrder, NeverEntersHeld
<1> QED
  BY <1>2, <1>3

(* A position that closes costs a whole cooldown, whatever the machine did. *)
LEMMA CloseOK == ASSUME IInv, PositionCloses PROVE IInv'
<1>1. /\ track' = [Go(track, "COOLDOWN") EXCEPT !.cooldown = Cooldown]
      /\ burst' = Told(burst)
  BY DEF PositionCloses, AfterPositionClosed
<1>2. track' \in TrackSet /\ track'.state = "COOLDOWN" /\ track'.cooldown = Cooldown
  BY <1>1, BacksOff, Times DEF IInv, Typed
<1>3. burst' \in BurstSet /\ burst'.calm = 0
  BY <1>1, ToldBurst DEF IInv, Typed
<1> QED
  BY <1>2, <1>3, States, Times
  DEF IInv, Typed, Beyond, Aging, Backing, EntryHasOrder, NeverEntersHeld, Confirmed

(* Time makes dwell and burst older together, and calm grows as the         *)
(* cooldown shrinks.                                                        *)
LEMMA TickOK == ASSUME IInv, Tick PROVE IInv'
PROOF
<1> DEFINE dwell == AtMost(track.dwell + 1, MaxAge)
           left == IF track.cooldown > 0 THEN track.cooldown - 1 ELSE 0
           age == AtMost(burst.age + 1, ConfirmWait)
           calm == AtMost(burst.calm + 1, Cooldown)
<1>1. /\ track' = [track EXCEPT !.dwell = dwell, !.cooldown = left]
      /\ burst' = [burst EXCEPT !.age = age, !.calm = calm]
      /\ position' = position /\ entry' = entry
  BY DEF Tick, IInv, Typed, TrackSet, BurstSet
<1>2. /\ track.dwell \in 0..MaxAge /\ track.cooldown \in 0..Cooldown
      /\ burst.age \in 0..ConfirmWait /\ burst.calm \in 0..Cooldown
  BY DEF IInv, Typed, TrackSet, BurstSet
<1>3. /\ dwell \in 0..MaxAge /\ left \in 0..Cooldown /\ age \in 0..ConfirmWait /\ calm \in 0..Cooldown
      /\ burst.age = ConfirmWait => age = ConfirmWait
      /\ track.dwell <= burst.age => age = ConfirmWait \/ dwell <= age
      /\ burst.calm >= Cooldown \div 2 => calm >= Cooldown \div 2
      /\ track.cooldown + burst.calm >= Cooldown \div 2 => left + calm >= Cooldown \div 2
  BY <1>2, Times DEF AtMost
<1> HIDE DEF dwell, left, age, calm
<1>4. /\ track' \in TrackSet /\ track'.state = track.state /\ track'.dwell = dwell
      /\ track'.cooldown = left
      /\ track'.extreme = track.extreme /\ track'.direction = track.direction
  BY <1>1, <1>3 DEF IInv, Typed, TrackSet
<1>5. burst' \in BurstSet /\ burst'.mids = burst.mids /\ burst'.age = age /\ burst'.calm = calm
      /\ burst'.forgot = burst.forgot /\ burst'.silent = burst.silent
  BY <1>1, <1>3 DEF IInv, Typed, BurstSet
<1>6. Beyond(track, burst)'
  BY <1>4, <1>5 DEF IInv, Beyond
<1>7. Aging(track, burst)' /\ Backing(track, burst)'
  BY <1>3, <1>4, <1>5 DEF IInv, Aging, Backing
<1> QED
  BY <1>1, <1>4, <1>5, <1>6, <1>7 DEF IInv, Typed, EntryHasOrder, NeverEntersHeld

(* Every step keeps the invariant.                                          *)
LEMMA NextOK == IInv /\ [Next]_vars => IInv'
PROOF
<1> SUFFICES ASSUME IInv, [Next]_vars PROVE IInv'
  OBVIOUS
<1>1. CASE Quoted
  BY <1>1, IdleOK, DisarmOK, ArmedOK, CooldownOK DEF Quoted
<1>2. CASE UNCHANGED <<track, entry, position, burst>>
  BY <1>2 DEF IInv, Typed, EntryHasOrder, NeverEntersHeld
<1>3. ASSUME NEW lag, NEW missed, OnMessage(lag, missed) PROVE IInv'
  BY <1>2, <1>3 DEF OnMessage
<1>4. ASSUME NEW up, Connect(up) PROVE IInv'
  BY <1>2, <1>4 DEF Connect
<1>5. CASE EntryCompletes
  <2>1. track' = track /\ position' = position
    BY <1>5 DEF EntryCompletes
  <2>2. /\ burst' = [burst EXCEPT !.silent = @ \/ track.state = "ENTRY"]
        /\ burst' \in BurstSet
    BY <1>5 DEF EntryCompletes, IInv, Typed, BurstSet
  <2>3. /\ burst'.mids = burst.mids /\ burst'.age = burst.age /\ burst'.calm = burst.calm
        /\ burst'.forgot = burst.forgot /\ (track.state = "ENTRY" => burst'.silent)
    BY <2>2 DEF IInv, Typed, BurstSet
  <2> QED
    BY <2>1, <2>2, <2>3
    DEF IInv, Typed, Beyond, Aging, Backing, EntryHasOrder, NeverEntersHeld
<1>6. CASE UNCHANGED vars
  BY <1>2, <1>6 DEF vars
<1> QED
  BY <1>1, <1>3, <1>4, <1>5, <1>6, FillOK, FailOK, CloseOK, TickOK, RestartOK DEF Next

(* The inductive invariant of the signal desk.                              *)
LEMMA Safe == Spec => []IInv
BY InitOK, NextOK, PTL DEF Spec

-----------------------------------------------------------------------------
(* The stop of an entry lies beyond every price its burst ever showed: the  *)
(* extreme is followed in every armed state, not in IMPULSE alone.          *)
THEOREM StopsBeyond == Spec => []StopBeyondBurst
<1>1. IInv => StopBeyondBurst
  BY DEF IInv, Beyond, StopBeyondBurst, Following
<1> QED
  BY <1>1, Safe, PTL

(* No path of the machine signals an entry before the burst is confirm_wait *)
(* old, a new extreme that starts the wait anew included.                   *)
THEOREM Patient == Spec => []PatientEntry
<1>1. IInv => PatientEntry
  BY Times DEF IInv, Aging, PatientEntry, Confirmed
<1> QED
  BY <1>1, Safe, PTL

(* A machine that is armed has left the end of its last order or position   *)
(* at least half a cooldown behind, in whatever process that was, unless a  *)
(* restart cut the cooldown short.                                         *)
THEOREM Calm == Spec => []CalmAfterTrade
<1>1. IInv => CalmAfterTrade
  BY States DEF IInv, Backing, CalmAfterTrade
<1> QED
  BY <1>1, Safe, PTL

(* A machine that gave a signal has the order of it to wait for: no refusal  *)
(* and no end of the order it is told of leaves it in ENTRY.                *)
THEOREM SignalsHaveOrders == Spec => []EntryHasOrder
<1>1. IInv => EntryHasOrder
  BY DEF IInv
<1> QED
  BY <1>1, Safe, PTL

(* No entry is under way for a symbol that has a position, one that a       *)
(* restart brought back included.                                           *)
THEOREM NeverHeld == Spec => []NeverEntersHeld
<1>1. IInv => NeverEntersHeld
  BY DEF IInv
<1> QED
  BY <1>1, Safe, PTL
=============================================================================
