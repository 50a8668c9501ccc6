----------------------------- MODULE RateWindow -----------------------------
(***************************************************************************)
(* How many requests the limiter of RateLimiter lets out in one minute: a  *)
(* history of its grants by age, for whatever specification drives it.     *)
(***************************************************************************)
EXTENDS RateLimiter, FiniteSets, Functions

CONSTANT Minute       \* ticks in a minute; Interval is Minute \div MaxTokens

ASSUME WindowAssumption ==
  /\ Minute \in Nat \ {0}
  /\ Interval = Minute \div MaxTokens

\* issued[a]: the grants given a ticks ago.
VARIABLE issued

Ages == 0 .. Minute - 1

NothingIssued == issued = [a \in Ages |-> 0]

Granted == Cardinality({ c \in Callers : waiting[c] # "granted" /\ waiting'[c] = "granted" })

\* A step in which time passes, and any other.
Older == issued' = [a \in Ages |-> IF a = 0 THEN 0 ELSE issued[a - 1]]
Counted == issued' = [issued EXCEPT ![0] = @ + Granted]

WindowInit == Init /\ NothingIssued

WindowNext ==
  \/ Tick /\ Older
  \/ Next /\ ~ Tick /\ Counted

WindowSpec == WindowInit /\ [][WindowNext]_<< limiterVars, issued >>

IssuedInLastMinute == SumFunction(issued)

\* The refills that fit into a minute.  The interval is rounded down, so this
\* is one more than MaxTokens when it does not divide a minute.
RefillsPerMinute == (Minute + Interval - 1) \div Interval

\* A full bucket and then every refill: no minute, wherever it starts, sees
\* more requests than that, backoffs and late timers included.  This is about
\* twice what types.ts:11 calls "Maximum requests per minute (default: 60)":
\* the bucket starts full, so that maximum is not kept.
BurstAndRefillsOnly == IssuedInLastMinute <= MaxTokens + RefillsPerMinute
=============================================================================
