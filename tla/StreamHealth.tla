---------------------------- MODULE StreamHealth ----------------------------
(***************************************************************************)
(* broker/health.py, for one symbol: what the data-health monitor remembers *)
(* of the stream.  Times are kept as ages, capped one above the limit that  *)
(* tells them apart, and so are the gaps.                                  *)
(***************************************************************************)
EXTENDS Integers

CONSTANTS Stale,                \* stale_ms
          GapTolerance          \* gap_tolerance

ASSUME HealthAssumption == Stale \in Nat /\ GapTolerance \in Nat

NoData == -1                    \* last_event is None

NewMonitor == [connected |-> FALSE, age |-> NoData, gaps |-> 0]

AtMost(n, cap) == IF n > cap THEN cap ELSE n

OnConnect(m) == [m EXCEPT !.connected = TRUE]

OnDisconnect(m) == [m EXCEPT !.connected = FALSE]

(* on_event, of an event made lag ago whose sequence number skipped missed  *)
(* others; nothing ever takes a gap back.                                   *)
OnEvent(m, lag, missed) ==
  [m EXCEPT !.age = AtMost(lag, Stale + 1), !.gaps = AtMost(@ + missed, GapTolerance + 1)]

(* The clock moves on. *)
Aged(m) == [m EXCEPT !.age = IF @ = NoData THEN @ ELSE AtMost(@ + 1, Stale + 1)]

IsHealthy(m) ==
  /\ m.connected
  /\ m.age # NoData
  /\ m.age <= Stale
  /\ m.gaps <= GapTolerance
=============================================================================
