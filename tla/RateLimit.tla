----------------------------- MODULE RateLimit ------------------------------
(***************************************************************************)
(* RateLimitGuard (rate-limit.guard.ts): fixed windows that open with the  *)
(* first request after the last window, one bucket per tenant for the      *)
(* expensive commands, one per tenant for logins and one for all logins.   *)
(* canActivate runs without an await, hence in one step.  Other routes pass *)
(* uncounted and are left out.                                             *)
(***************************************************************************)
EXTENDS Naturals, FiniteSets, Sequences

CONSTANTS
  Tenants,
  Window,            \* TENANT_RATE_WINDOW_MS
  TenantLimit, LoginTenantLimit, LoginGlobalLimit,
  MaxTime,           \* bound: the clock stops there
  MaxAsks            \* bound: requests that come to the guard

ASSUME RateConstants ==
  /\ {Window, TenantLimit, LoginTenantLimit, LoginGlobalLimit} \subseteq Nat
  /\ MaxTime \in Nat /\ MaxAsks \in Nat

VARIABLES
  now,
  buckets,   \* the map of buckets
  passed,    \* history: the requests of each bucket that were let through, with the time
             \* and the end of their window
  asks       \* history: how many requests came

rate == <<now, buckets, passed, asks>>

Key(route, tenant) == <<route, tenant>>
Global == Key("login", "global")
Keys == { Key(route, t) : route \in {"login", "command"}, t \in Tenants } \cup {Global}

Limit(k) ==
  CASE k = Global -> LoginGlobalLimit
    [] k[1] = "login" /\ k # Global -> LoginTenantLimit
    [] OTHER -> TenantLimit

NewBucket == [resetTime |-> now + Window, count |-> 0]

\* Faulty: the count starts over, the window does not.
UpdatedCount(bucket) == IF now > bucket.resetTime THEN [bucket EXCEPT !.count = 0] ELSE bucket

\* updateBucket.
Updated(bucket) == IF now > bucket.resetTime THEN NewBucket ELSE bucket

\* Faulty: the request is not counted.
CountedNot(k) == Updated(IF k \in DOMAIN buckets THEN buckets[k] ELSE NewBucket)

\* The bucket once this request is in it.
Counted(k) ==
  LET bucket == Updated(IF k \in DOMAIN buckets THEN buckets[k] ELSE NewBucket) IN
  [bucket EXCEPT !.count = @ + 1]

\* The buckets that a request is counted in; it counts when it is refused, too.
BucketsOf(route, tenant) ==
  {Key(route, tenant)} \cup IF route = "login" THEN {Global} ELSE {}

Allowed(route, tenant) == \A k \in BucketsOf(route, tenant) : Counted(k).count <= Limit(k)

\* canActivate.
CanActivate(route, tenant) ==
  LET ks == BucketsOf(route, tenant) IN
  /\ asks < MaxAsks /\ asks' = asks + 1
  /\ buckets' = [k \in DOMAIN buckets \cup ks |-> IF k \in ks THEN Counted(k) ELSE buckets[k]]
  /\ passed' = IF Allowed(route, tenant)
               THEN [k \in Keys |-> IF k \in ks
                                    THEN Append(passed[k], [at |-> now, until |-> Counted(k).resetTime])
                                    ELSE passed[k]]
               ELSE passed
  /\ UNCHANGED now

Tick == now < MaxTime /\ now' = now + 1 /\ UNCHANGED <<buckets, passed, asks>>

RateInit ==
  /\ now = 0 /\ asks = 0
  /\ buckets = <<>>
  /\ passed = [k \in Keys |-> <<>>]

RateTypeOK ==
  /\ now \in 0..MaxTime /\ asks \in 0..MaxAsks
  /\ DOMAIN buckets \subseteq Keys
  /\ \A k \in DOMAIN buckets :
       /\ buckets[k].resetTime \in Nat /\ buckets[k].count \in 1..MaxAsks
  /\ passed \in [Keys -> Seq([at : 0..MaxTime, until : Nat])]

\* However requests fall on the edges of the windows, no span of a window's length
\* sees more than twice the limit of a bucket let through, refused ones and those of
\* other buckets notwithstanding: between a request and the one that is two limits
\* after it in the same bucket lies more than a window.
WindowsBounded ==
  \A k \in Keys : \A i, j \in DOMAIN passed[k] :
    j >= i + 2 * Limit(k) => passed[k][j].at > passed[k][i].at + Window
=============================================================================
