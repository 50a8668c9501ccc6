------------------------------- MODULE TaskLog -------------------------------
(***************************************************************************)
(* What the task store promises its readers, whatever calls run side by    *)
(* side: a task, once listed, stays listed; it keeps its rank in the order *)
(* of creation, where later tasks rank above all earlier ones (so a cursor *)
(* stays good); and its history is a log, extended at its end and never    *)
(* rewritten.                                                              *)
(***************************************************************************)
EXTENDS Naturals, Sequences

VARIABLES
  log,    \* task id -> the task's history
  rank    \* task id -> its place in the order of creation

\* t continues s: nothing of s is lost or changed.
Continues(s, t) ==
  /\ Len(s) <= Len(t)
  /\ \A i \in 1 .. Len(s) : t[i] = s[i]

Init == log = << >> /\ rank = << >>

\* Task t appears, with something said in it, above all others.
Open(t) ==
  /\ t \notin DOMAIN log
  /\ DOMAIN log' = DOMAIN log \cup {t}
  /\ DOMAIN rank' = DOMAIN log'
  /\ \A u \in DOMAIN log : log'[u] = log[u] /\ rank'[u] = rank[u]
  /\ \A u \in DOMAIN log : rank[u] < rank'[t]
  /\ log'[t] # << >>

\* Something more is said in task t.
Extend(t) ==
  /\ t \in DOMAIN log
  /\ DOMAIN log' = DOMAIN log
  /\ \A u \in DOMAIN log \ {t} : log'[u] = log[u]
  /\ Continues(log[t], log'[t])
  /\ rank' = rank

Next == \E t \in DOMAIN log' : Open(t) \/ Extend(t)

Spec == Init /\ [][Next]_<<log, rank>>
=============================================================================
