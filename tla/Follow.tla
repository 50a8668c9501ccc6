------------------------------- MODULE Follow -------------------------------
(***************************************************************************)
(* `youagent follow` and `youagent unfollow` (src/cli/commands): a row in   *)
(* the agent's own database (src/storage/follow-repo.ts), mirrored on the   *)
(* network the agent is registered with (src/registry/registry-client.ts).  *)
(* The target is looked up by handle or id; between the lookup, the row and *)
(* the mirrored request anything may happen: the commands of Credentials,   *)
(* other follows and unfollows, an agent that leaves and another that takes *)
(* its handle.  The agent itself is not a target.                           *)
(***************************************************************************)
EXTENDS Credentials, FiniteSets

CONSTANTS
  FollowCalls,   \* runs of follow and unfollow
  AtHandle,      \* the target "@handle", for one handle
  Handle,        \* the same handle without the @
  AgentsOf,      \* registry -> the ids its agents with that handle have
  Typed,         \* ids the user may type
  FirstHolders,  \* who may have the handle at first: registry -> none or one
  MaxCommands,   \* bound: runs of any command
  MaxMoves       \* bound: how often the handle changes hands

Agents == UNION { AgentsOf[r] : r \in Registries }

\* What the user may type.
Targets == {AtHandle, Handle} \cup Typed

\* One agent at a time has the handle on a registry.
ASSUME FollowAssumption ==
  /\ Typed \subseteq Agents
  /\ FirstHolders \subseteq [Registries -> SUBSET Agents]
  /\ \A r \in Registries, first \in FirstHolders :
       first[r] \subseteq AgentsOf[r] /\ AtMostOne(first[r])
  /\ MaxMoves \in Nat

VARIABLES
  follows,   \* the runs: where each is and what it holds
  rows,      \* whom the database says this agent follows
  network,   \* registry -> whom it has this agent following
  holder,    \* registry -> the agent with the handle, if there is one
  moves,     \* how often the handle has changed hands
  sole       \* history: the run, if any, since whose start nothing else
             \* touched rows, network or the agents

mirrorVars == << rows, network, holder, moves, sole >>
followVars == << follows, mirrorVars >>

\* A "late" run gave up before its request was taken.  `warned` is whether the
\* user was told that something did not work.
FollowCall ==
  [at : {"idle", "resolving", "resolved", "unreachable", "mirroring", "taken", "late", "ended"},
   wish : {"follow", "unfollow"}, target : Targets, creds : SUBSET Creds,
   browse : Registries, found : SUBSET Agents, warned : BOOLEAN]

\* Only ids and the bare handle are ever stored, and a run has at most one set
\* of credentials and one agent; the commands' state is as they leave it.
FollowTypeOK ==
  /\ CredTypeOK
  /\ follows \in [FollowCalls -> FollowCall]
  /\ \A f \in FollowCalls :
       AtMostOne(follows[f].creds) /\ AtMostOne(follows[f].found)
  /\ rows \subseteq {Handle} \cup Agents
  /\ network \in [Registries -> SUBSET Agents]
  /\ holder \in [Registries -> SUBSET Agents]
  /\ \A r \in Registries : holder[r] \subseteq AgentsOf[r] /\ AtMostOne(holder[r])
  /\ moves \in 0 .. MaxMoves
  /\ sole \subseteq FollowCalls

FollowInit ==
  /\ CredInit
  /\ follows = [f \in FollowCalls |->
       [at |-> "idle", wish |-> "follow", target |-> Handle, creds |-> {},
        browse |-> AnyRegistry, found |-> {}, warned |-> FALSE]]
  /\ rows = {}
  /\ network = [r \in Registries |-> {}]
  /\ holder \in FirstHolders
  /\ moves = 0
  /\ sole = {}

-----------------------------------------------------------------------------
(* Up to the row *)

UnderWay(f) == follows[f].at \notin {"idle", "ended"}

\* The command reads the credentials, and browses the registry they are for, or
\* the default one, or the one YOUAGENT_REGISTRY_URL names.
BeginFollow(f) ==
  /\ follows[f].at = "idle"
  /\ \E wish \in {"follow", "unfollow"}, target \in Targets, r \in Registries :
       follows' = [follows EXCEPT ![f] =
         [@ EXCEPT !.at = "resolving", !.wish = wish, !.target = target,
                   !.creds = file, !.browse = r]]
  /\ sole' = IF \E g \in FollowCalls : UnderWay(g) THEN {} ELSE {f}
  /\ UNCHANGED << credVars, rows, network, holder, moves >>

\* resolveAgentTarget: an id is looked up as such, a name by handle.
LookedUp(target, r) ==
  IF target \in {AtHandle, Handle} THEN holder[r] ELSE holder[r] \cap {target}

\* The registry answers a lookup.
Resolve(f) ==
  /\ follows[f].at = "resolving"
  /\ follows' = [follows EXCEPT ![f] =
       [@ EXCEPT !.at = "resolved", !.found = LookedUp(follows[f].target, follows[f].browse)]]
  /\ UNCHANGED << credVars, mirrorVars >>

\* It cannot be reached, refuses, or answers too late.
ResolveFails(f) ==
  /\ follows[f].at = "resolving"
  /\ follows' = [follows EXCEPT ![f].at = "unreachable"]
  /\ UNCHANGED << credVars, mirrorVars >>

\* The id a row is for: the registry's, or what the user typed.
FollowId(call) == IF call.found = {} THEN {call.target} ELSE call.found

\* follow gives up on a handle nobody has, or when it cannot ask.
GivesUp(call) ==
  /\ call.wish = "follow"
  /\ call.found = {}
  /\ call.target = AtHandle \/ call.at = "unreachable"

\* Mutant: what is followed already is not mirrored again.
MirrorsNewOnly(call) ==
  /\ call.creds # {}
  /\ call.found # {}
  /\ \A k \in call.creds : k.reg = call.browse
  /\ call.wish = "follow" => rows \cap (FollowId(call) \cup {call.target}) = {}

\* Mutant: the registry of the target is not compared with the key's.
MirrorsAnywhere(call) ==
  /\ call.creds # {}
  /\ call.found # {}

\* The network is told when the target was found on the registry the key is
\* for, whether the row changes or not: an earlier run may have failed to.
Mirrors(call) ==
  /\ call.creds # {}
  /\ call.found # {}
  /\ \A k \in call.creds : k.reg = call.browse

\* INSERT OR IGNORE unless the id or what was typed is followed; DELETE of both.
NewRows(call) ==
  LET names == FollowId(call) \cup {call.target} IN
  IF call.wish = "unfollow" THEN rows \ names
  ELSE IF rows \cap names = {} THEN rows \cup FollowId(call) ELSE rows

\* The lookup is over: change the row, and send the mirrored request.
ChangeRow(f) ==
  /\ follows[f].at \in {"resolved", "unreachable"}
  /\ LET call == follows[f] IN
     IF GivesUp(call)
       THEN /\ follows' = [follows EXCEPT ![f] = [@ EXCEPT !.at = "ended", !.warned = TRUE]]
            /\ UNCHANGED rows
       ELSE /\ follows' = [follows EXCEPT ![f].at = IF Mirrors(call) THEN "mirroring" ELSE "ended"]
            /\ rows' = NewRows(call)
  /\ UNCHANGED << credVars, network, holder, moves, sole >>

-----------------------------------------------------------------------------
(* The mirrored request *)

\* The registry takes the key of a live registration, and looks the handle up
\* once more.
MirrorCarriedOut(f, at) ==
  /\ \E k \in follows[f].creds :
       /\ server[k.reg] = [state |-> "live", key |-> k.key]
       /\ holder[k.reg] # {}
       /\ network' = [network EXCEPT ![k.reg] =
            IF follows[f].wish = "follow" THEN @ \cup holder[k.reg] ELSE @ \ holder[k.reg]]
  /\ follows' = [follows EXCEPT ![f].at = at]
  /\ UNCHANGED << credVars, rows, holder, moves, sole >>

MirrorTaken(f) == follows[f].at = "mirroring" /\ MirrorCarriedOut(f, "taken")

MirrorTakenLate(f) == follows[f].at = "late" /\ MirrorCarriedOut(f, "ended")

MirrorAnswered(f) ==
  /\ follows[f].at = "taken"
  /\ follows' = [follows EXCEPT ![f].at = "ended"]
  /\ UNCHANGED << credVars, mirrorVars >>

\* Refused, timed out, or the answer is lost: the user is told to run it again.
MirrorFails(f) ==
  /\ follows[f].at \in {"mirroring", "taken"}
  /\ \E at \in IF follows[f].at = "taken" THEN {"ended"} ELSE {"late", "ended"} :
       follows' = [follows EXCEPT ![f] = [@ EXCEPT !.at = at, !.warned = TRUE]]
  /\ UNCHANGED << credVars, mirrorVars >>

\* The command is killed, or the database cannot be opened.
Dies(f) ==
  /\ follows[f].at \in {"resolving", "resolved", "unreachable"}
  /\ follows' = [follows EXCEPT ![f] = [@ EXCEPT !.at = "ended", !.warned = TRUE]]
  /\ UNCHANGED << credVars, mirrorVars >>

-----------------------------------------------------------------------------
(* Everything else *)

\* The agent with the handle leaves, or one that takes it is registered.
HandleMoves(r) ==
  /\ moves < MaxMoves
  /\ moves' = moves + 1
  /\ \E S \in SUBSET AgentsOf[r] :
       /\ AtMostOne(S) /\ S # holder[r]
       /\ holder' = [holder EXCEPT ![r] = S]
  /\ network' = [network EXCEPT ![r] = @ \ holder[r]]
  /\ sole' = {}
  /\ UNCHANGED << credVars, follows, rows >>

\* A step of the other commands; with the registration goes what it followed.
OtherCommand ==
  /\ CredNext
  /\ network' = [r \in Registries |-> IF server'[r].state = "free" THEN {} ELSE network[r]]
  /\ sole' = IF network' = network THEN sole ELSE {}
  /\ UNCHANGED << follows, rows, holder, moves >>

FollowStep(f) ==
  \/ BeginFollow(f)
  \/ Resolve(f) \/ ResolveFails(f)
  \/ ChangeRow(f) \/ Dies(f)
  \/ MirrorTaken(f) \/ MirrorTakenLate(f) \/ MirrorAnswered(f) \/ MirrorFails(f)

\* The runs of any command that have begun.
Begun ==
  Cardinality({ c \in Calls : calls[c].at # "idle" })
    + Cardinality({ f \in FollowCalls : follows[f].at # "idle" })

FollowNext ==
  /\ \/ \E f \in FollowCalls : FollowStep(f)
     \/ \E r \in Registries : HandleMoves(r)
     \/ OtherCommand
  /\ Begun' <= MaxCommands

FollowSpec == FollowInit /\ [][FollowNext]_<< credVars, followVars >>

-----------------------------------------------------------------------------
(* Properties *)

\* "an earlier run may have failed to record the follow on the network": a run
\* that ends without a word of trouble, and that nothing else crossed, leaves
\* the row and the network as the user wished, whatever runs before it failed
\* half-way.
RerunRepairs ==
  \A f \in sole :
    /\ follows[f].at = "ended" /\ ~ follows[f].warned
    /\ \E k \in follows[f].creds : k.reg = follows[f].browse
    => \A agent \in follows[f].found :
         /\ follows[f].wish = "follow" <=> rows \cap {agent, follows[f].target} # {}
         /\ follows[f].wish = "follow" <=> agent \in network[follows[f].browse]

\* While the handle stays where it is, a registry has this agent follow only
\* whom a run found there for the user: a target looked up on one network is
\* not mirrored on another, where the handle is someone else's.
OnlyMeantAreFollowed ==
  moves = 0 => \A r \in Registries : \A agent \in network[r] :
    \E f \in FollowCalls :
      follows[f].wish = "follow" /\ follows[f].browse = r /\ agent \in follows[f].found

=============================================================================
