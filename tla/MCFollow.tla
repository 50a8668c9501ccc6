------------------------------ MODULE MCFollow ------------------------------
\* Model values for the run of Follow.
EXTENDS Follow, TLC

CONSTANTS c1, c2, c3, f1, f2, A, B, x, y, z

ThreeCalls == {c1, c2, c3}
TwoFollows == {f1, f2}
TwoRegistries == {A, B}

\* On A the handle can pass from x to y; on B it is z's.
TheirAgents == [r \in TwoRegistries |-> IF r = A THEN {x, y} ELSE {z}]

\* On B it is taken, on A it may be free.
FreeOrTaken == { [r \in TwoRegistries |-> IF r = A THEN S ELSE {z}] : S \in {{}, {x}} }

\* Runs of one kind are interchangeable.
RunSymmetry == Permutations(ThreeCalls) \cup Permutations(TwoFollows)
=============================================================================
