------------------------- MODULE MCOutcomeResolver -------------------------
EXTENDS OutcomeResolver
CONSTANTS e1, e2

\* Two launch events, one tick apart: the first of the current protocol, the second of a pool that traded no more.
MCLane == [e \in Events |-> "launch"]
MCAnchor == [e \in Events |-> IF e = e1 THEN 0 ELSE 1]
MCDelay == [h \in Horizons |-> IF h = "1h" THEN 0 ELSE 1]
MCPriority == [h \in Horizons |-> IF h = "24h" THEN 0 ELSE 1]
MCQuotes == [e \in Events |-> IF e = e1 THEN Prices ELSE {}]
=============================================================================
