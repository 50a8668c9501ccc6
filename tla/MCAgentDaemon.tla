--------------------------- MODULE MCAgentDaemon ---------------------------
\* The daemon with two calls of start(), a cron tick, another process on its
\* database, and the pushes of all of them.
EXTENDS Engine, TLC

CONSTANTS s1, s2, t1, u, a, b, c, x, y, z, Short

StartsMC == {s1, s2}
TicksMC == {t1}
CommandsMC == {u}
PushersMC == {s1, s2, t1, u}
PostsMC == {a, b, c}
PushableMC == {a}

\* a and b tell the same story, b with one word more: as texts they share four
\* words of five, and a's summary three words of b's five.
TitleMC == [p \in PostsMC |-> IF p = c THEN {11, 12} ELSE {1}]
SummaryMC ==
  [p \in PostsMC |-> CASE p = a -> {2, 3, 4}
                       [] p = b -> {2, 3, 4, 5}
                       [] p = c -> IF Short THEN {13, 14} ELSE {13, 14, 15}]

\* Either two results of one story, the second told in one of two ways, or a
\* result of another story.
ToldMC == [r \in {x, y, z} |-> CASE r = x -> {a} [] r = y -> {a, b} [] r = z -> {c}]

ResultsMC == { << x, y >>, << z >> }

\* What follows up on a is a, what follows up on b or c is b.
TagsMC == [p \in PostsMC |-> CASE p = a -> {"t"} [] p = b -> {"t", "v"} [] p = c -> {"v"}]

\* Seven templates for one interest, three for the other.
InterestsMC ==
  << [topic |-> "x", prefs |-> 3 .. 7],
     [topic |-> "y", prefs |-> {}] >>
=============================================================================
