---------------------------- MODULE RateLimiter -----------------------------
(***************************************************************************)
(* RateLimiter (src/src/http/rate_limiter.cpp): a fixed window of requests *)
(* for every client.  check is called with the time its caller read before *)
(* it took the mutex.                                                      *)
(***************************************************************************)
EXTENDS Integers, FiniteSets

CONSTANTS
    MaxRequests,   \* max_requests_, 0 for no limit
    Window,        \* window_, in ticks
    MaxBuckets,    \* max_buckets_
    CleanupEvery   \* every 1024th check removes stale buckets

ASSUME LimiterAssumption ==
    /\ MaxRequests \in Nat /\ Window \in Nat \ {0}
    /\ MaxBuckets \in Nat \ {0} /\ CleanupEvery \in Nat \ {0}

NoBuckets == [buckets |-> << >>, checks |-> 0]

Keep(buckets, clients) == [client \in clients |-> buckets[client]]

(* Buckets whose window started more than two windows ago.                 *)
cleanup_locked(limiter, at) ==
    LET checks == (limiter.checks + 1) % CleanupEvery
        kept == {client \in DOMAIN limiter.buckets :
                    limiter.buckets[client].window_start >= at - 2 * Window}
    IN  [buckets |-> IF checks = 0 THEN Keep(limiter.buckets, kept) ELSE limiter.buckets,
         checks |-> checks]

(* A full table gives up some bucket for a new client: which one is the    *)
(* first of an unordered map.                                              *)
AfterEviction(limiter, client) ==
    IF client \notin DOMAIN limiter.buckets /\ Cardinality(DOMAIN limiter.buckets) >= MaxBuckets
    THEN {[limiter EXCEPT !.buckets = Keep(@, DOMAIN @ \ {victim})] :
              victim \in DOMAIN limiter.buckets}
    ELSE {limiter}

(* Mutant: the counter is reset and the start of the window is not.        *)
CurrentBucketKept(limiter, client, at) ==
    LET bucket == limiter.buckets[client]
    IN  IF client \notin DOMAIN limiter.buckets THEN [window_start |-> at, request_count |-> 0]
        ELSE IF at - bucket.window_start >= Window THEN [bucket EXCEPT !.request_count = 0]
        ELSE bucket

CurrentBucket(limiter, client, at) ==
    LET bucket == limiter.buckets[client]
    IN  IF \/ client \notin DOMAIN limiter.buckets
           \/ at - bucket.window_start >= Window
        THEN [window_start |-> at, request_count |-> 0]
        ELSE bucket

SetBucket(limiter, client, bucket) ==
    LET buckets == limiter.buckets
    IN  [limiter EXCEPT !.buckets =
            [c \in DOMAIN buckets \cup {client} |-> IF c = client THEN bucket ELSE buckets[c]]]

(* The decisions that check may come to.                                   *)
check(limiter, client, at) ==
    IF MaxRequests = 0 THEN {[limiter |-> limiter, allowed |-> TRUE, start |-> at]}
    ELSE {LET bucket == CurrentBucket(room, client, at)
              allowed == bucket.request_count < MaxRequests
          IN  [limiter |-> SetBucket(room, client,
                              [bucket EXCEPT !.request_count = IF allowed THEN @ + 1 ELSE @]),
               allowed |-> allowed,
               start |-> bucket.window_start] :
             room \in AfterEviction(cleanup_locked(limiter, at), client)}
=============================================================================
