------------------------ MODULE MCMutateRateLimiter ------------------------
(* Two threads, two calls a minute, two ticks a minute.  Two ticks are      *)
(* enough to drain a bucket, refill it to its cap, and drain it again.      *)
EXTENDS MutateRateLimiter

MCPerMinute == 2
MCMinute == 2
MCMaxTime == 2
=============================================================================
