---------------------------- MODULE MCTaskPaging ----------------------------
\* Model values for the runs of TaskPaging.
EXTENDS TaskPaging, TLC

CONSTANTS m1, m2, m3, c1

Sends == {m1, m2, m3}
OneContext == {c1}
PlainOnly == {"plain"}
NoConfigs == {}

\* Messages are interchangeable, and so are the ids drawn for them.
SendSymmetry == Permutations(Sends)
=============================================================================
