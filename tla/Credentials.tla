---------------------------- MODULE Credentials ----------------------------
(***************************************************************************)
(* The agent's registration with a network and the one key it comes with:  *)
(* `youagent register`, `key rotate`, `key revoke` and `deregister`        *)
(* (src/cli/commands), each a process of its own over the same credentials *)
(* file (src/registry/credentials.ts) and the registries, which are        *)
(* external.  A registry shows a key once and keeps only its hash, so what *)
(* the file holds, what a process holds and what the registry accepts can  *)
(* come apart.                                                             *)
(*                                                                         *)
(* The YOUAGENT_* variables are unset.                                     *)
(***************************************************************************)
EXTENDS Naturals

CONSTANTS
  Calls,        \* runs of the commands
  Registries

\* The commands fall back on a default registry.
ASSUME CredAssumption == Registries # {}

VARIABLES
  file,       \* what ~/.youagent/credentials.json holds, if anything usable
  server,     \* registry -> what it holds for the agent's handle
  calls,      \* the runs: where each is and what it holds
  keys,       \* how many keys have been issued: a key is a number
  overwritten \* history: keys that a command erased from the file, or mixed
              \* with its own, though it had begun from something else

credVars == << file, server, calls, keys, overwritten >>

\* A stored registration: the server-issued agent id goes with the key.
Creds == [reg : Registries, key : 1 .. keys]

Commands == {"register", "rotate", "revoke", "deregister"}

\* Where a call is.  A "late" one gave up before its request was taken;
\* "lost", "unsaved" and "undeleted" ones got through to the registry but not
\* to the file ("unsaved" ones show the key to the user).
Places ==
  {"idle", "sending", "taken", "answered", "saving", "ended",
   "late", "lost", "unsaved", "undeleted"}

AtMostOne(S) == \A a, b \in S : a = b

\* A file that can be read holds a key that was issued.
CredTypeOK ==
  /\ keys \in Nat
  /\ file \in SUBSET Creds
  /\ AtMostOne(file)
  /\ server \in [Registries -> [state : {"free", "live", "revoked"}, key : 0 .. keys]]
  /\ calls \in [Calls -> [at : Places, command : Commands, reg : Registries,
                          key : 0 .. keys, new : 0 .. keys]]
  /\ overwritten \subseteq 1 .. keys

\* Stands for the registry of a command that has none yet.
AnyRegistry == CHOOSE r \in Registries : TRUE

CredInit ==
  /\ file = {}
  /\ server = [r \in Registries |-> [state |-> "free", key |-> 0]]
  /\ calls = [c \in Calls |-> [at |-> "idle", command |-> "register", reg |-> AnyRegistry,
                              key |-> 0, new |-> 0]]
  /\ keys = 0
  /\ overwritten = {}

-----------------------------------------------------------------------------
(* A command up to its request *)

\* register: only without stored credentials, and without a key.  A file that
\* is missing, torn or not as expected counts as none.
BeginRegister(c) ==
  /\ calls[c].at = "idle"
  /\ \E r \in Registries :
       calls' = [calls EXCEPT ![c] =
         [@ EXCEPT !.reg = r, !.at = IF file = {} THEN "sending" ELSE "ended"]]
  /\ UNCHANGED << file, server, keys, overwritten >>

\* The others: with the stored key, to the registry that issued it.
BeginKeyed(c) ==
  /\ calls[c].at = "idle"
  /\ \E command \in Commands \ {"register"} :
       \/ /\ file = {}
          /\ calls' = [calls EXCEPT ![c] = [@ EXCEPT !.at = "ended", !.command = command]]
       \/ \E f \in file :
            calls' = [calls EXCEPT ![c] = [@ EXCEPT !.at = "sending", !.command = command,
                                                    !.reg = f.reg, !.key = f.key]]
  /\ UNCHANGED << file, server, keys, overwritten >>

-----------------------------------------------------------------------------
(* The registry *)

\* A handle is registered once; a key works until it is rotated or revoked.  The
\* repository says both that a handle whose key was revoked stays reserved and that
\* it can be registered anew: the registry may refuse, or not.
Permits(call) ==
  IF call.command = "register"
    THEN server[call.reg].state # "live"
    ELSE server[call.reg] = [state |-> "live", key |-> call.key]

\* register and rotate: a new key exists from here on.
KeyIssued(c, at) ==
  /\ calls[c].command \in {"register", "rotate"}
  /\ keys' = keys + 1
  /\ server' = [server EXCEPT ![calls[c].reg] = [state |-> "live", key |-> keys + 1]]
  /\ calls' = [calls EXCEPT ![c].at = at, ![c].new = keys + 1]

KeyRevoked(c, at) ==
  /\ calls[c].command = "revoke"
  /\ server' = [server EXCEPT ![calls[c].reg].state = "revoked"]
  /\ calls' = [calls EXCEPT ![c].at = at]
  /\ UNCHANGED keys

AgentRemoved(c, at) ==
  /\ calls[c].command = "deregister"
  /\ server' = [server EXCEPT ![calls[c].reg] = [state |-> "free", key |-> 0]]
  /\ calls' = [calls EXCEPT ![c].at = at]
  /\ UNCHANGED keys

\* The request of c is carried out.
CarriedOut(c, at) ==
  /\ Permits(calls[c])
  /\ KeyIssued(c, at) \/ KeyRevoked(c, at) \/ AgentRemoved(c, at)
  /\ UNCHANGED << file, overwritten >>

RegistryTakes(c) == calls[c].at = "sending" /\ CarriedOut(c, "taken")

RegistryTakesLate(c) == calls[c].at = "late" /\ CarriedOut(c, "lost")

\* An error status: the command reports it and ends, the file is left alone.
RegistryRefuses(c) ==
  /\ calls[c].at = "sending"
  /\ calls' = [calls EXCEPT ![c].at = "ended"]
  /\ UNCHANGED << file, server, keys, overwritten >>

-----------------------------------------------------------------------------
(* A command after its request *)

Answered(c) ==
  /\ calls[c].at = "taken"
  /\ calls' = [calls EXCEPT ![c].at = "answered"]
  /\ UNCHANGED << file, server, keys, overwritten >>

\* The request times out or the network fails; the answer cannot be read, or
\* has no key in it; or the process is killed.
Lost(c) ==
  /\ calls[c].at \in {"sending", "taken", "answered", "saving"}
  /\ calls' = [calls EXCEPT ![c].at = IF @ = "sending" THEN "late" ELSE "lost"]
  /\ UNCHANGED << file, server, keys, overwritten >>

\* What is in the file and the call did not begin from.
Foreign(call) == { f.key : f \in file } \ {call.key}

\* saveCredentials: writeFile truncates the file before it writes.
BeginSave(c) ==
  /\ calls[c].at = "answered"
  /\ calls[c].command \in {"register", "rotate"}
  /\ file' = {}
  /\ calls' = [calls EXCEPT ![c].at = "saving"]
  /\ overwritten' = overwritten \cup Foreign(calls[c])
  /\ UNCHANGED << server, keys >>

\* Mutant: the credentials are saved as they were loaded.
OldCredentials(call) == [reg |-> call.reg, key |-> call.key]

\* What register and rotate save.
NewCredentials(call) == [reg |-> call.reg, key |-> call.new]

\* Mutant: the file may end torn though nobody else has written to it.
EndSaveTorn(c) ==
  /\ calls[c].at = "saving"
  /\ file' \in {{NewCredentials(calls[c])}, {}}
  /\ overwritten' = overwritten \cup Foreign(calls[c])
  /\ calls' = [calls EXCEPT ![c].at = "ended"]
  /\ UNCHANGED << server, keys >>

\* Another save may have written since: what is left of the longer text after
\* the shorter one makes the file unreadable.
EndSave(c) ==
  /\ calls[c].at = "saving"
  /\ \/ /\ file' = {NewCredentials(calls[c])}
        /\ overwritten' = overwritten \cup Foreign(calls[c])
     \/ /\ file # {} /\ file' = {}
        /\ overwritten' = overwritten \cup Foreign(calls[c]) \cup {calls[c].new}
  /\ calls' = [calls EXCEPT ![c].at = "ended"]
  /\ UNCHANGED << server, keys >>

\* mkdir, writeFile or chmod fails: the key is shown to the user.
SaveFails(c) ==
  /\ calls[c].command \in {"register", "rotate"}
  /\ calls[c].at \in {"answered", "saving"}
  /\ calls' = [calls EXCEPT ![c].at = "unsaved"]
  /\ \/ UNCHANGED << file, overwritten >>
     \/ /\ calls[c].at = "saving" /\ file' = {NewCredentials(calls[c])}
        /\ overwritten' = overwritten \cup Foreign(calls[c])
  /\ UNCHANGED << server, keys >>

\* The commands after which the agent has no key: the file goes.
EndsWithDelete(call) == call.command \in {"revoke", "deregister"}

\* deleteCredentials, of whatever the file holds by now: a save under way
\* writes to a file that has no name any more, and its chmod fails.
Delete(c) ==
  /\ calls[c].at = "answered"
  /\ EndsWithDelete(calls[c])
  /\ file' = {}
  /\ overwritten' = overwritten \cup Foreign(calls[c])
  /\ calls' = [d \in Calls |->
       IF d = c THEN [calls[c] EXCEPT !.at = "ended"]
       ELSE IF calls[d].at = "saving" THEN [calls[d] EXCEPT !.at = "unsaved"]
       ELSE calls[d]]
  /\ UNCHANGED << server, keys >>

\* Any error of unlink is swallowed: the command reports success.
DeleteFails(c) ==
  /\ calls[c].at = "answered"
  /\ EndsWithDelete(calls[c])
  /\ calls' = [calls EXCEPT ![c].at = "undeleted"]
  /\ UNCHANGED << file, server, keys, overwritten >>

CredNext ==
  \E c \in Calls :
    \/ BeginRegister(c) \/ BeginKeyed(c)
    \/ RegistryTakes(c) \/ RegistryTakesLate(c) \/ RegistryRefuses(c)
    \/ Answered(c) \/ Lost(c)
    \/ BeginSave(c) \/ EndSave(c) \/ SaveFails(c)
    \/ Delete(c) \/ DeleteFails(c)

CredSpec == CredInit /\ [][CredNext]_credVars

-----------------------------------------------------------------------------
(* Properties *)

Works(creds) == server[creds.reg] = [state |-> "live", key |-> creds.key]

\* A stored key that no longer works is one that a command is just replacing
\* or removing, or was when its answer, its save or its delete failed: no
\* interleaving of commands, and no request that arrives late, leaves a dead
\* key behind commands that all went well.
StoredKeyWorks ==
  \A f \in file : ~ Works(f) =>
    \E c \in Calls :
      /\ calls[c].command # "register"
      /\ calls[c].reg = f.reg /\ calls[c].key = f.key
      /\ calls[c].at \in {"taken", "answered", "lost", "unsaved", "undeleted"}

\* And no live registration loses its key while all goes well: a key that the
\* registry accepts and the file does not hold is with the command that got it, or
\* that command ended badly, or the key was overwritten: another command erased
\* that very key, in the file or on its way there, without having started from it.
LiveKeyKept ==
  \A r \in Registries : server[r].state = "live" =>
    \/ file = {[reg |-> r, key |-> server[r].key]}
    \/ server[r].key \in overwritten
    \/ \E c \in Calls : /\ calls[c].reg = r /\ calls[c].new = server[r].key
                        /\ calls[c].at # "ended"

\* "Never overwrite: the stored key cannot be re-issued.": register does not save
\* over a key that works.  (It does: it looks before its request and saves after.)
RegisterNeverOverwrites ==
  [][ \A c \in Calls :
        calls[c].command = "register" /\ calls[c].at = "answered" /\ calls'[c].at = "saving"
          => \A f \in file : ~ Works(f) ]_credVars

=============================================================================
