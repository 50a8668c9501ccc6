----------------------------- MODULE MCA2AServer -----------------------------
\* Model values for the runs of A2AServer.
EXTENDS A2AServer, TLC

CONSTANTS m1, m2, c1, w1

TwoMessages == {m1, m2}
OneContext == {c1}
OneConfig == {w1}
SocialOnly == {"social"}
=============================================================================
