--------------------------- MODULE MCRateLimiter ---------------------------
(***************************************************************************)
(* Small instances of RateLimiter.  Two ticks to the second are enough to  *)
(* tell a whole second from a part of one.                                 *)
(***************************************************************************)
EXTENDS RateLimiter
=============================================================================
