------------------------- MODULE MCAgentA2AService -------------------------
\* Model values for the run of AgentA2AService.
EXTENDS AgentA2AService, TLC

CONSTANTS k1, k2

TwoStops == {k1, k2}

\* Follows and unfollows, polls, a feed read and a look for the card, one after
\* the other.
SomeScripts ==
  { << a, b >> : a, b \in {"follow", "unfollow"} }
    \cup { << "follow", "unfollow", "follow" >>,
           << "posts", "posts" >>, << "feed", "unfollow" >>, << "card", "follow" >> }

\* Posts are saved while they are asked for.
ThreeForPolls ==
  [s \in SomeScripts |->
     CASE s = << "posts", "posts" >>   -> 3
       [] s = << "feed", "unfollow" >> -> 1
       [] OTHER                     -> 0]

StopSymmetry == Permutations(TwoStops)
=============================================================================
