---------------------------- MODULE MCRateWindow ----------------------------
\* Model values and small numbers for the runs of RateLimiter and RateWindow.
EXTENDS RateWindow, TLC

CONSTANTS c1, c2, c3

ThreeCallers == {c1, c2, c3}
ShortDelays == << 1, 2 >>

CallerSymmetry == Permutations(ThreeCallers)
=============================================================================
