------------------------- MODULE RateLimitProperties -------------------------
(* What the rate limit lets through.                                          *)
EXTENDS RateLimit

\* The requests of a bucket that passed during the last Window ticks, each as how many ticks
\* ago and as which of that tick; and their number.
Recent(b) == UNION {{t} \X (1..passed[b][t]) : t \in Ago}
Lately(b) == Cardinality(Recent(b))

\* In no interval of the length of a window do more than twice the limit pass, and the limit
\* once more for each restart: a fixed window gives no better bound, and removing buckets
\* from a full map no worse.
RateBound == \A b \in Buckets : Lately(b) <= (2 + restarts) * LimitOf(b)

\* A client that is refused is let through again in time, however often it tries: what is
\* refused does not prolong the window.
NoLockout == \A b \in Buckets : (count[b] > LimitOf(b)) ~> (b \notin kept \/ Expired(b))
=============================================================================
