------------------------------- MODULE RateLimit -------------------------------
(***************************************************************************)
(* The token bucket in front of POST /api/dlp/scan: rateLimiter of         *)
(* agent/internal/api.                                                     *)
(*                                                                         *)
(* Tokens are counted in parts, Whole of them to a token, and time in      *)
(* ticks; the code has both as floating-point numbers.  Allow works under  *)
(* the limiter's lock, and so it is one action.                            *)
(***************************************************************************)
EXTENDS Integers

CONSTANTS
    Whole,       \* parts of a token
    Rate,        \* rates the configuration may have, in parts per tick; 0 is unlimited
    Burst,       \* the bursts that go with them
    MaxTicks     \* bound on the clock

ASSUME RateAssumption ==
    /\ Whole \in Nat \ {0}
    /\ Rate \subseteq Nat
    /\ Burst \subseteq Nat
    /\ MaxTicks \in Nat

VARIABLES
    ticks,       \* time.Now
    limiter,     \* Server.scanLimiter
    \* History variables:
    mark,        \* some moment since the limiter was made
    granted      \* the requests the bucket allowed since then

rateVars == <<ticks, limiter, mark, granted>>

Limiter == [rate : Rate, burst : Nat, tokens : Nat, lastFill : 0..MaxTicks]

RateTypeOK ==
    /\ ticks \in 0..MaxTicks
    /\ limiter \in Limiter
    /\ mark \in 0..ticks
    /\ granted \in Nat

\* newRateLimiter
NewLimiter(rate, burst, t) ==
    LET size == Whole * (IF burst < 1 THEN 1 ELSE burst)
    IN  [rate |-> rate, burst |-> size, tokens |-> size, lastFill |-> t]

\* NewServer makes a limiter, and the agent replaces it by the configured one
\* before it serves.
RateInit ==
    /\ ticks = 0
    /\ \E r \in Rate, b \in Burst : limiter = NewLimiter(r, b, 0)
    /\ mark = 0
    /\ granted = 0

SetScanRateLimit(rate, burst) ==
    /\ limiter' = NewLimiter(rate, burst, ticks)
    /\ mark' = ticks
    /\ granted' = 0
    /\ UNCHANGED ticks

RateTick ==
    /\ ticks < MaxTicks
    /\ ticks' = ticks + 1
    /\ \/ UNCHANGED <<mark, granted>>
       \/ mark' = ticks' /\ granted' = 0
    /\ UNCHANGED limiter

\* Mutant: the bucket has no rim.
Overfull == limiter.tokens + limiter.rate * (ticks - limiter.lastFill)

\* What is in the bucket now.
Filled ==
    LET tokens == limiter.tokens + limiter.rate * (ticks - limiter.lastFill)
    IN  IF tokens > limiter.burst THEN limiter.burst ELSE tokens

\* rateLimitMiddleware lets the request on to the handler.
Allowed ==
    /\ \/ limiter.rate = 0 /\ UNCHANGED <<limiter, granted>>
       \/ /\ limiter.rate > 0
          /\ Filled >= Whole
          /\ granted' = granted + 1
          /\ limiter' = [limiter EXCEPT !.tokens = Filled - Whole, !.lastFill = ticks]
    /\ UNCHANGED <<ticks, mark>>

\* It answers 429; what the bucket gained is kept.
TurnedAway ==
    /\ limiter.rate > 0
    /\ Filled < Whole
    /\ limiter' = [limiter EXCEPT !.tokens = Filled, !.lastFill = ticks]
    /\ UNCHANGED <<ticks, mark, granted>>

RateNext ==
    \/ \E r \in Rate, b \in Burst : SetScanRateLimit(r, b)
    \/ RateTick
    \/ Allowed
    \/ TurnedAway

RateSpec == RateInit /\ [][RateNext]_rateVars

\* Over any stretch of time the scans allowed are at most a burst and what the
\* rate yields in it, however they and the refusals fall.
RateKept ==
    limiter.rate > 0 => Whole * granted <= limiter.burst + limiter.rate * (ticks - mark)
=============================================================================
