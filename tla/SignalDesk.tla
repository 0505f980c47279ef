----------------------------- MODULE SignalDesk -----------------------------
(***************************************************************************)
(* What stands between a quote and an entry, for one symbol: the stream's   *)
(* health monitor, the governor's decision (strategy/governor.py) and the   *)
(* signal state machine (strategy/fsm.py), with the order and the position  *)
(* that own the machine's later states.                                    *)
(*                                                                         *)
(* Features are reduced to the comparisons the machine makes of them; only  *)
(* the price is kept, as a small integer.  Times are kept as the time      *)
(* since, capped where more makes no difference.                           *)
(***************************************************************************)
EXTENDS StreamHealth

CONSTANTS Mid,                                  \* prices
          ConfirmWait, ImpulseTimeout, ExhaustionTimeout, RetestTimeout,
          Tolerance,                            \* retest_tolerance_bps
          Cooldown,                             \* cooldown_s
          SharedMonitor,        \* the governor asks the monitor the stream feeds
          MaxAge                \* cap on ages, above every timeout

ASSUME TimesAssumption ==
  /\ {ConfirmWait, ImpulseTimeout, ExhaustionTimeout, RetestTimeout, Cooldown} \subseteq 0..(MaxAge - 1)
  /\ MaxAge \in Nat /\ Mid \subseteq Nat /\ Tolerance \in Nat

Armed == {"IMPULSE", "CONFIRM_WAIT", "EXHAUSTION", "FAILED_RETEST"}

(* Entries of this process; one that a restart restored never ends. *)
Managed == {"unfilled", "partial"}

VARIABLES feed,         \* the monitor the stream feeds
          gate,         \* the monitor the governor asks
          track,        \* _Track of the symbol
          entry,        \* the live entry order of the symbol
          position,     \* the symbol has an open position
          burst         \* what was really seen since the burst began

vars == <<feed, gate, track, entry, position, burst>>

NewTrack == [state |-> "IDLE", direction |-> 0, dwell |-> 0, extreme |-> 0,
             retest |-> FALSE, cooldown |-> 0]

(* mids are the prices evaluated since the impulse, age the time since it.   *)
(* calm is the time since a machine of the symbol was told of the end of    *)
(* its order or of a position, whatever process it was in; forgot: a        *)
(* restart cut the cooldown short that followed.  silent: the fill that     *)
(* completed the entry was its first, and the machine was not told of it.   *)
NewBurst == [mids |-> {}, age |-> 0, calm |-> Cooldown, forgot |-> FALSE, silent |-> FALSE]

Told(b) == [b EXCEPT !.calm = 0, !.forgot = FALSE]

Init ==
  /\ feed = NewMonitor /\ gate = NewMonitor
  /\ track = NewTrack
  /\ entry = "none" /\ position = FALSE
  /\ burst = NewBurst

-----------------------------------------------------------------------------
(* The machine, as operators on a track.                                    *)

Go(t, to) == [t EXCEPT !.state = to, !.dwell = 0]

AfterEntryFailedAtOnce(t) == IF t.state = "ENTRY" THEN Go(t, "IDLE") ELSE t

(* on_entry_failed: half a cooldown. *)
AfterEntryFailed(t) ==
  IF t.state = "ENTRY" THEN [Go(t, "COOLDOWN") EXCEPT !.cooldown = Cooldown \div 2] ELSE t

AfterEntryFill(t) == IF t.state = "ENTRY" THEN Go(t, "MANAGE") ELSE t

(* on_position_closed, whatever the machine was doing. *)
AfterPositionClosed(t) == [Go(t, "COOLDOWN") EXCEPT !.cooldown = Cooldown]

FollowedOnlyInImpulse(t, mid) ==
  [t EXCEPT !.extreme = IF t.state = "IMPULSE" /\ t.direction * (mid - @) > 0 THEN mid ELSE @]

(* Every evaluation while armed follows the burst to its extreme.           *)
Followed(t, mid) == [t EXCEPT !.extreme = IF t.direction * (mid - @) > 0 THEN mid ELSE @]

(* The price is back at the extreme, or near it.                            *)
Near(t, mid) == t.direction * (t.extreme - mid) <= Tolerance

StepConfirmAtOnce(t, exhausted) ==
  IF exhausted THEN Go(t, "EXHAUSTION")
  ELSE IF t.dwell > ImpulseTimeout THEN Go(t, "IDLE") ELSE t

StepConfirmUntimed(t, exhausted) ==
  IF t.dwell >= ConfirmWait /\ exhausted THEN Go(t, "EXHAUSTION") ELSE t

StepConfirm(t, exhausted) ==
  IF t.dwell < ConfirmWait THEN t
  ELSE IF exhausted THEN Go(t, "EXHAUSTION")
  ELSE IF t.dwell > ImpulseTimeout THEN Go(t, "IDLE") ELSE t

StepExhaustion(t, mid, against) ==
  IF t.dwell > ExhaustionTimeout THEN Go(t, "IDLE")
  ELSE IF Near(t, mid) THEN [t EXCEPT !.retest = TRUE]
  ELSE IF t.retest /\ against THEN Go(t, "FAILED_RETEST") ELSE t

(* The new extreme is looked for after the track has followed it.           *)
StepRetest(t, mid) ==
  IF t.dwell > RetestTimeout THEN Go(t, "IDLE")
  ELSE IF t.direction * (mid - t.extreme) > 0 THEN Go(t, "CONFIRM_WAIT")
  ELSE Go(t, "ENTRY")

(* step in an armed state, called off by neither governor nor peers.  A     *)
(* faded impulse is called off by the governor first: both ask for the same *)
(* residual_z.                                                              *)
Step(t, mid, exhausted, against) ==
  CASE t.state = "IMPULSE" -> Go(t, IF t.dwell > ImpulseTimeout THEN "IDLE" ELSE "CONFIRM_WAIT")
    [] t.state = "CONFIRM_WAIT" -> StepConfirm(t, exhausted)
    [] t.state = "EXHAUSTION" -> StepExhaustion(t, mid, against)
    [] t.state = "FAILED_RETEST" -> StepRetest(t, mid)

-----------------------------------------------------------------------------
(* The governor: an unhealthy stream ends in NO_TRADE, and so does a market  *)
(* a gate blocks or that fits neither logic (blocked).                      *)
Market == {"blocked", "reversal", "continuation"}

Decide(m, market) ==
  IF ~IsHealthy(m) \/ market = "blocked" THEN "NO_TRADE"
  ELSE IF market = "reversal" THEN "REVERSAL" ELSE "CONTINUATION"

(* A message made lag ago, after missed lost ones, reaches the monitors.    *)
Observe(lag, missed) ==
  /\ feed' = OnEvent(feed, lag, missed)
  /\ gate' = IF SharedMonitor THEN OnEvent(gate, lag, missed) ELSE gate

(* A message the machine does not hear of: a print, depth, or a quote that  *)
(* is not evaluated or changes nothing.                                     *)
OnMessage(lag, missed) ==
  /\ Observe(lag, missed)
  /\ UNCHANGED <<track, entry, position, burst>>

(* on_quote while the machine is idle, on a burst in direction d.           *)
StepIdle(lag, missed, market, d, mid) ==
  /\ track.state = "IDLE"
  /\ Observe(lag, missed)
  /\ Decide(gate', market) # "NO_TRADE"
  /\ track' = [Go(track, "IMPULSE") EXCEPT !.direction = d, !.extreme = mid]
  /\ burst' = [burst EXCEPT !.mids = {mid}, !.age = 0]
  /\ UNCHANGED <<entry, position>>

(* on_quote while armed: the governor or fast peers call it off.            *)
StepDisarm(lag, missed, market, confirmed, mid) ==
  /\ track.state \in Armed
  /\ Observe(lag, missed)
  /\ Decide(gate', market) = "NO_TRADE" \/ confirmed
  /\ track' = Go(Followed(track, mid), "IDLE")
  /\ UNCHANGED <<entry, position, burst>>

SubmitEntryUnasked(t, b, refused) ==
  LET failed == t.state = "ENTRY" /\ (refused \/ entry # "none")
  IN /\ track' = IF failed THEN AfterEntryFailed(t) ELSE t
     /\ burst' = IF failed THEN Told(b) ELSE b
     /\ entry' = IF t.state = "ENTRY" /\ ~failed THEN "unfilled" ELSE entry

SubmitEntryLeavingIt(t, b, refused) ==
  LET failed == t.state = "ENTRY" /\ (refused \/ entry # "none" \/ position)
  IN /\ track' = t /\ burst' = b
     /\ entry' = IF t.state = "ENTRY" /\ ~failed THEN "unfilled" ELSE entry

(* A signal is submitted at once; the risk managers may refuse it, and do   *)
(* while a position is open or an entry is live.                            *)
SubmitEntry(t, b, refused) ==
  LET failed == t.state = "ENTRY" /\ (refused \/ entry # "none" \/ position)
  IN /\ track' = IF failed THEN AfterEntryFailed(t) ELSE t
     /\ burst' = IF failed THEN Told(b) ELSE b
     /\ entry' = IF t.state = "ENTRY" /\ ~failed THEN "unfilled" ELSE entry

(* on_quote while armed, not called off.  What is exhausted, against the    *)
(* burst or refused matters in one state each.                              *)
StepArmed(lag, missed, market, mid, exhausted, against, refused) ==
  LET t == Followed(track, mid)
      b == [burst EXCEPT !.mids = @ \cup {mid}]
  IN /\ track.state \in Armed
     /\ Observe(lag, missed)
     /\ Decide(gate', market) # "NO_TRADE"
     /\ exhausted => track.state = "CONFIRM_WAIT" /\ market = "reversal"
     /\ against => track.state = "EXHAUSTION"
     /\ refused => track.state = "FAILED_RETEST"
     /\ SubmitEntry(Step(t, mid, exhausted, against), b, refused)
     /\ UNCHANGED position

(* on_quote after the cooldown. *)
StepCooldown(lag, missed) ==
  /\ track.state = "COOLDOWN" /\ track.cooldown = 0
  /\ Observe(lag, missed)
  /\ track' = Go(track, "IDLE")
  /\ UNCHANGED <<entry, position, burst>>

-----------------------------------------------------------------------------
(* The order and the position, and what the engine tells the machine.       *)

(* A partial fill of the live entry. *)
EntryFills ==
  /\ entry \in Managed
  /\ entry' = "partial"
  /\ position' = TRUE
  /\ track' = AfterEntryFill(track)
  /\ UNCHANGED <<feed, gate, burst>>

(* The live entry ends without a fill. *)
EntryFails ==
  /\ entry = "unfilled"
  /\ entry' = "none"
  /\ track' = AfterEntryFailed(track)
  /\ burst' = IF track.state = "ENTRY" THEN Told(burst) ELSE burst
  /\ UNCHANGED <<feed, gate, position>>

(* The live entry ends after fills, or by the fill that completes it: the   *)
(* engine does not tell the machine.                                        *)
EntryCompletes ==
  /\ entry \in Managed
  /\ entry' = "none"
  /\ burst' = [burst EXCEPT !.silent = @ \/ track.state = "ENTRY"]
  /\ UNCHANGED <<feed, gate, track, position>>

PositionCloses ==
  /\ position
  /\ position' = FALSE
  /\ track' = AfterPositionClosed(track)
  /\ burst' = Told(burst)
  /\ UNCHANGED <<feed, gate, entry>>

(* The stream connects, or fails to. *)
Connect(up) ==
  /\ feed' = IF up THEN OnConnect(feed) ELSE OnDisconnect(feed)
  /\ gate' = IF SharedMonitor THEN feed' ELSE gate
  /\ UNCHANGED <<track, entry, position, burst>>

(* Time passes for everything that is older than a moment. *)
Tick ==
  /\ feed' = Aged(feed) /\ gate' = Aged(gate)
  /\ track' = [track EXCEPT !.dwell = AtMost(@ + 1, MaxAge), !.cooldown = IF @ > 0 THEN @ - 1 ELSE 0]
  /\ burst' = [burst EXCEPT !.age = AtMost(@ + 1, ConfirmWait), !.calm = AtMost(@ + 1, Cooldown)]
  /\ UNCHANGED <<entry, position>>

(* A new process: recovered orders and positions, and no other memory; a     *)
(* cooldown that was running is in no file.                                 *)
Restart ==
  /\ feed' = NewMonitor /\ gate' = NewMonitor
  /\ track' = NewTrack
  /\ burst' = [NewBurst EXCEPT !.calm = burst.calm,
                              !.forgot = burst.forgot \/ track.state = "COOLDOWN"]
  /\ entry' = IF entry = "none" THEN "none" ELSE "restored"
  /\ UNCHANGED position

Quoted ==
  \E lag \in 0..(Stale + 1), missed \in {0, 1}, market \in Market, mid \in Mid :
    \/ \E d \in {-1, 1} : StepIdle(lag, missed, market, d, mid)
    \/ \E confirmed \in BOOLEAN : StepDisarm(lag, missed, market, confirmed, mid)
    \/ \E exhausted, against, refused \in BOOLEAN :
         StepArmed(lag, missed, market, mid, exhausted, against, refused)
    \/ StepCooldown(lag, missed)

Next ==
  \/ Quoted
  \/ \E lag \in 0..(Stale + 1), missed \in {0, 1} : OnMessage(lag, missed)
  \/ EntryFills
  \/ EntryFails
  \/ EntryCompletes
  \/ PositionCloses
  \/ \E up \in BOOLEAN : Connect(up)
  \/ Tick
  \/ Restart

Spec == Init /\ [][Next]_vars

(* Time passes and the symbol is quoted and evaluated. *)
FairSpec == Spec /\ WF_vars(Tick) /\ WF_vars(Quoted)

-----------------------------------------------------------------------------

(* The stop of an entry lies beyond every price of its burst: when the      *)
(* signal is emitted the machine's extreme is the extreme of what it saw    *)
(* since the impulse, through all its states.                               *)
StopBeyondBurst ==
  track.state = "ENTRY" =>
    /\ burst.mids # {}
    /\ \A mid \in burst.mids : track.direction * (track.extreme - mid) >= 0

(* No entry is emitted on a young burst, whatever path the machine took.    *)
PatientEntry == track.state = "ENTRY" => burst.age >= ConfirmWait

(* After its order failed or a position closed the machine backs off: for   *)
(* half the cooldown it is not armed again, in whatever state that found    *)
(* it, by this process or a later one, unless a restart cut the cooldown    *)
(* short: nothing brings it back.                                           *)
CalmAfterTrade == track.state \in Armed /\ ~burst.forgot => burst.calm >= Cooldown \div 2

(* A machine that has given a signal has the order of it to wait for: a     *)
(* refused one sends it back, and so does every end of the order, but for   *)
(* the fill that completes it at once.                                      *)
EntryHasOrder == track.state = "ENTRY" => entry = "unfilled" \/ burst.silent

(* No entry is on its way for a symbol that has a position, a position that *)
(* survived a restart included.                                             *)
NeverEntersHeld == track.state = "ENTRY" => ~position

(* An armed machine does not stay armed: timeouts, the governor or a signal *)
(* end it.                                                                  *)
ArmedEnds == (track.state \in Armed) ~> (track.state \notin Armed)

(* "The governor consults this before permitting any trade": a stream that  *)
(* its monitor calls healthy is one the governor sees healthy.              *)
GovernorConsultsStream == IsHealthy(feed) => IsHealthy(gate)
=============================================================================
