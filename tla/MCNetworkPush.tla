--------------------------- MODULE MCNetworkPush ---------------------------
\* NetworkPush alone: two pushes of any posts, with every kind of failure.
EXTENDS NetworkPush, TLC

CONSTANTS d, c, a1, a2, a3, bad

PushersMC == {d, c}
PostsMC == {a1, a2, a3, bad}
PushableMC == {a1, a2, a3}

\* a3 does not fit into a batch with another post, nor into a request with a2,
\* and bad is refused.
BytesMC == [p \in PostsMC |-> CASE p = a3 -> 4 [] p = a2 -> 2 [] OTHER -> 1]

\* Lists of posts, two of which may have the same URL: up to three batches.
Lists == UNION { [1 .. n -> PostsMC] : n \in 0 .. 3 }
=============================================================================
