--------------------------- MODULE MCAwaitAnalysis ---------------------------
(* Timeouts and intervals below and above the clamps, and an interval below *)
(* and above the pace of the limiter.                                       *)
EXTENDS AwaitAnalysis

=============================================================================
