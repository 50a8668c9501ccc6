---------------------------- MODULE PushPromise ----------------------------
(***************************************************************************)
(* What NetworkPusher.push (src/registry/pusher.ts) promises the daemon    *)
(* and the command line, with the batches left out: a push that returns    *)
(* has every post it could send at the registry; one that throws may have  *)
(* any of them there, now or later, and nothing else ever arrives.         *)
(***************************************************************************)
EXTENDS Naturals, FiniteSets

CONSTANTS
  Pushers,        \* calls of push()
  Posts,
  Pushable        \* posts with a usable URL and a summary

ASSUME PromiseAssumption == Pushable \subseteq Posts

VARIABLES
  call,      \* pusher -> its call and the posts it has to send
  network    \* posts the registry holds for this agent

promiseVars == << call, network >>

PromiseTypeOK ==
  /\ call \in [Pushers -> [pc : {"idle", "sending", "done", "failed"},
                           posts : SUBSET Pushable]]
  /\ network \subseteq Pushable

PromiseInit ==
  /\ call = [p \in Pushers |-> [pc |-> "idle", posts |-> {}]]
  /\ network = {}

\* push() with these posts: what the registry would refuse is left out, and
\* with nothing left it returns at once.
Begin(p, posts) ==
  /\ call[p].pc = "idle"
  /\ call' = [call EXCEPT ![p] =
       [pc |-> IF posts \cap Pushable = {} THEN "done" ELSE "sending",
        posts |-> posts \cap Pushable]]
  /\ UNCHANGED network

\* Some of a call's posts reach the registry, be it after the call gave up.
Arrive(p) ==
  /\ call[p].pc # "idle"
  /\ \E some \in SUBSET call[p].posts : network' = network \cup some
  /\ UNCHANGED call

Return(p) ==
  /\ call[p].pc = "sending"
  /\ call[p].posts \subseteq network
  /\ call' = [call EXCEPT ![p].pc = "done"]
  /\ UNCHANGED network

Throw(p) ==
  /\ call[p].pc = "sending"
  /\ call' = [call EXCEPT ![p].pc = "failed"]
  /\ UNCHANGED network

PromiseNext ==
  \E p \in Pushers :
    \/ \E posts \in SUBSET Posts : Begin(p, posts)
    \/ Arrive(p)
    \/ Return(p)
    \/ Throw(p)

PromiseSpec == PromiseInit /\ [][PromiseNext]_promiseVars

=============================================================================
