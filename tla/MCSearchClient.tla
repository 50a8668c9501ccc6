--------------------------- MODULE MCSearchClient ---------------------------
\* Model values and small numbers for the run of the search clients.
EXTENDS SearchWindow

CONSTANTS c1, c2

TwoCallers == {c1, c2}
ShortDelays == << 1, 2 >>
=============================================================================
