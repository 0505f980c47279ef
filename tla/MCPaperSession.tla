--------------------------- MODULE MCPaperSession ---------------------------
EXTENDS PaperSession
(* Times to live by time in force: 1.5 s for an IOC, 4 s for a day order.   *)
MCTtlOf == [t \in {"DAY", "IOC"} |-> IF t = "IOC" THEN 3 ELSE 4]
=============================================================================
