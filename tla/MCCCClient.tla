----------------------------- MODULE MCCCClient -----------------------------
(* The code's own retry count, margin, timeout and poll delays, in seconds; two *)
(* calls on one client, over listings of no page, a full one and one and a half. *)
EXTENDS CCClient

MCLifetimes == {80}
MCDurations == {0, 30}
MCRetryAfters == {90}
MCGaps == {0, 60}
MCTotals == {0, 2, 3}
MCLimits == {0, 1}
=============================================================================
