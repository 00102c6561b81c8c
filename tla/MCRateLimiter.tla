---------------------------- MODULE MCRateLimiter ----------------------------
(* Three threads on one limiter; no symmetry, since Progress is checked. *)
EXTENDS RateLimiter

=============================================================================
