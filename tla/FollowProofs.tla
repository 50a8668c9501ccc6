----------------------------- MODULE FollowProofs -----------------------------
(***************************************************************************)
(* Theorems about Credentials and Follow, for any number of runs of the    *)
(* commands, of registries, agents and moves of the handle.                *)
(***************************************************************************)
EXTENDS Follow, TLAPS

-----------------------------------------------------------------------------
(* The key and where it is: what no interleaving of the commands breaks *)

Issues(c) == calls[c].command \in {"register", "rotate"}

\* The registry has carried out what c asked for with the key it had.
Spent(c) ==
  /\ calls[c].command # "register"
  /\ \/ calls[c].at \in {"taken", "answered", "saving", "lost", "unsaved", "undeleted"}
     \/ calls[c].new # 0

\* A key is on its way to the file: the registry accepts it, and neither the
\* file nor a command has it yet.
OnTheWay ==
  \A c \in Calls :
    calls[c].at \in {"taken", "answered", "saving"} /\ Issues(c) =>
      /\ calls[c].new # 0
      /\ server[calls[c].reg] = [state |-> "live", key |-> calls[c].new]
      /\ \A f \in file : f.key # calls[c].new
      /\ \A d \in Calls : calls[d].key # calls[c].new

\* No two commands are given the same key, and none before its request is taken.
NewKeys ==
  /\ \A c, d \in Calls : calls[c].new = calls[d].new /\ calls[c].new # 0 => c = d
  /\ \A c \in Calls : calls[c].at \in {"idle", "sending", "late"} \/ ~ Issues(c)
                        => calls[c].new = 0

\* register starts without a key, the others with one.
OldKeys ==
  \A c \in Calls :
    /\ calls[c].at = "idle" => calls[c].command = "register"
    /\ calls[c].command = "register" => calls[c].key = 0
    /\ calls[c].command # "register" /\ calls[c].at \notin {"idle", "ended"}
         => calls[c].key # 0

\* A command was given key k of registry r and has written it to the file.
WasSaved(r, k) ==
  \E e \in Calls : /\ calls[e].reg = r /\ calls[e].new = k
                   /\ calls[e].at \in {"ended", "unsaved"}

\* What is in the file, and what a command started from, was saved; a command
\* that saves does not find the key it started from any more.
SavedKeys ==
  /\ \A f \in file : f.key # 0 /\ WasSaved(f.reg, f.key)
  /\ \A c \in Calls : calls[c].key # 0 => WasSaved(calls[c].reg, calls[c].key)
  /\ \A c \in Calls : calls[c].at = "saving" =>
       Issues(c) /\ \A f \in file : f.key # calls[c].key

\* A key is used up by the command that was carried out with it, and by one only.
SpentKeys ==
  /\ \A c \in Calls : Spent(c) =>
       \A r \in Registries : server[r].state = "live" => server[r].key # calls[c].key
  /\ \A c, d \in Calls : Spent(c) /\ Spent(d) /\ calls[c].key = calls[d].key => c = d

\* No two registries accept one key.
LiveKeys ==
  \A r \in Registries : server[r].state = "live" =>
    /\ server[r].key # 0
    /\ \A q \in Registries : server[q].state = "live" /\ server[q].key = server[r].key => q = r

CredInv ==
  /\ CredTypeOK
  /\ OnTheWay
  /\ NewKeys
  /\ OldKeys
  /\ SavedKeys
  /\ SpentKeys
  /\ LiveKeys
  /\ StoredKeyWorks
  /\ LiveKeyKept

\* Commands step one at a time: all that changes of the others is in `at`.
LEMMA MovedTo ==
  ASSUME CredTypeOK, NEW c \in Calls, NEW at, calls' = [calls EXCEPT ![c].at = at]
  PROVE  /\ calls'[c] = [calls[c] EXCEPT !.at = at]
         /\ calls'[c].at = at
         /\ calls'[c].command = calls[c].command
         /\ calls'[c].reg = calls[c].reg
         /\ calls'[c].key = calls[c].key
         /\ calls'[c].new = calls[c].new
         /\ \A d \in Calls \ {c} : calls'[d] = calls[d]
BY DEF CredTypeOK

-----------------------------------------------------------------------------
(* Type correctness *)

LEMMA InitCredTypeOK == CredInit => CredTypeOK
<1> SUFFICES ASSUME CredInit PROVE CredTypeOK
  OBVIOUS
<1>1. AnyRegistry \in Registries
  BY CredAssumption DEF AnyRegistry
<1>2. 0 \in 0 .. 0 /\ 0 \in Nat
  OBVIOUS
<1>3. QED
  BY <1>1, <1>2 DEF CredInit, CredTypeOK, Places, Commands, AtMostOne

LEMMA ForeignIsIssued ==
  ASSUME CredTypeOK, NEW call
  PROVE  Foreign(call) \subseteq 1 .. keys
BY DEF CredTypeOK, Creds, Foreign

LEMMA NextCredTypeOK ==
  ASSUME CredTypeOK, OnTheWay, SavedKeys, [CredNext]_credVars
  PROVE  CredTypeOK'
<1> DEFINE CallType(n) == [at : Places, command : Commands, reg : Registries,
                           key : 0 .. n, new : 0 .. n]
           HeldType(n) == [state : {"free", "live", "revoked"}, key : 0 .. n]
<1>1. keys \in Nat /\ calls \in [Calls -> CallType(keys)]
        /\ server \in [Registries -> HeldType(keys)]
  BY DEF CredTypeOK
<1>2. ASSUME NEW c \in Calls, NEW at \in Places, calls' = [calls EXCEPT ![c].at = at]
      PROVE  calls' \in [Calls -> CallType(keys)]
  BY <1>1, <1>2
<1>3. ASSUME NEW c \in Calls, BeginRegister(c)
      PROVE  CredTypeOK'
  <2>1. PICK r \in Registries, at \in {"sending", "ended"} :
          calls' = [calls EXCEPT ![c] = [@ EXCEPT !.reg = r, !.at = at]]
    BY <1>3 DEF BeginRegister
  <2>2. calls' \in [Calls -> CallType(keys)]
    <3>1. [calls[c] EXCEPT !.reg = r, !.at = at] \in CallType(keys)
      BY <1>1 DEF Places
    <3>2. QED
      BY <1>1, <2>1, <3>1
  <2>3. QED
    BY <1>3, <2>2 DEF BeginRegister, CredTypeOK, Creds
<1>4. ASSUME NEW c \in Calls, BeginKeyed(c)
      PROVE  CredTypeOK'
  <2>1. PICK command \in Commands \ {"register"} :
       \/ /\ file = {}
          /\ calls' = [calls EXCEPT ![c] = [@ EXCEPT !.at = "ended", !.command = command]]
       \/ \E f \in file :
            calls' = [calls EXCEPT ![c] = [@ EXCEPT !.at = "sending", !.command = command,
                                                    !.reg = f.reg, !.key = f.key]]
    BY <1>4 DEF BeginKeyed
  <2>2. \A f \in file : f.reg \in Registries /\ f.key \in 0 .. keys
    BY <1>1 DEF CredTypeOK, Creds
  <2>3. calls' \in [Calls -> CallType(keys)]
    <3>1. CASE calls' = [calls EXCEPT ![c] = [@ EXCEPT !.at = "ended", !.command = command]]
      BY <1>1, <3>1 DEF Places
    <3>2. ASSUME NEW f \in file,
                 calls' = [calls EXCEPT ![c] = [@ EXCEPT !.at = "sending", !.command = command,
                                                    !.reg = f.reg, !.key = f.key]]
          PROVE  calls' \in [Calls -> CallType(keys)]
      <4>1. [calls[c] EXCEPT !.at = "sending", !.command = command,
                             !.reg = f.reg, !.key = f.key] \in CallType(keys)
        BY <1>1, <2>2 DEF Places
      <4>2. QED
        BY <1>1, <3>2, <4>1
    <3>3. QED
      BY <2>1, <3>1, <3>2
  <2>4. QED
    BY <1>4, <2>3 DEF BeginKeyed, CredTypeOK, Creds
<1>5. ASSUME NEW c \in Calls, NEW at \in {"taken", "lost"}, CarriedOut(c, at)
      PROVE  CredTypeOK'
  <2>1. calls[c].reg \in Registries /\ at \in Places
    BY <1>1 DEF Places
  <2>2. CASE KeyIssued(c, at)
    <3>1. keys + 1 \in Nat /\ keys' = keys + 1
            /\ 0 .. keys \subseteq 0 .. keys + 1 /\ keys + 1 \in 0 .. keys + 1
      BY <1>1, <2>2 DEF KeyIssued
    <3>2. calls \in [Calls -> CallType(keys + 1)] /\ server \in [Registries -> HeldType(keys + 1)]
      BY <1>1, <3>1
    <3> HIDE DEF CallType, HeldType
    <3>3. calls' \in [Calls -> CallType(keys')]
      BY <2>1, <2>2, <3>1, <3>2 DEF KeyIssued, CallType
    <3>4. server' \in [Registries -> HeldType(keys')]
      BY <2>1, <2>2, <3>1, <3>2 DEF KeyIssued, HeldType
    <3>5. 1 .. keys \subseteq 1 .. keys'
      BY <1>1, <3>1
    <3>6. file' = file /\ file' \in SUBSET [reg : Registries, key : 1 .. keys'] /\ AtMostOne(file')
      BY <1>5, <3>5 DEF CarriedOut, CredTypeOK, Creds, AtMostOne
    <3>7. overwritten' \subseteq 1 .. keys'
      BY <1>5, <3>5 DEF CarriedOut, CredTypeOK
    <3>8. QED
      BY <3>1, <3>3, <3>4, <3>6, <3>7 DEF CredTypeOK, Creds, CallType, HeldType
  <2>3. CASE KeyRevoked(c, at) \/ AgentRemoved(c, at)
    <3>1. server' \in [Registries -> HeldType(keys)]
      BY <1>1, <2>1, <2>3 DEF KeyRevoked, AgentRemoved
    <3>2. calls' \in [Calls -> CallType(keys)] /\ keys' = keys
      BY <1>2, <2>1, <2>3 DEF KeyRevoked, AgentRemoved
    <3>3. QED
      BY <1>5, <3>1, <3>2 DEF CarriedOut, CredTypeOK, Creds
  <2>4. QED
    BY <1>5, <2>2, <2>3 DEF CarriedOut
<1>6. ASSUME NEW c \in Calls,
             RegistryRefuses(c) \/ Answered(c) \/ Lost(c) \/ DeleteFails(c)
      PROVE  CredTypeOK'
  <2>1. PICK at \in Places : calls' = [calls EXCEPT ![c].at = at]
    BY <1>1, <1>6 DEF RegistryRefuses, Answered, Lost, DeleteFails, Places
  <2>2. QED
    BY <1>2, <1>6, <2>1 DEF RegistryRefuses, Answered, Lost, DeleteFails, CredTypeOK, Creds
<1>7. ASSUME NEW c \in Calls, BeginSave(c) \/ EndSave(c) \/ SaveFails(c)
      PROVE  CredTypeOK'
  <2>1. PICK at \in Places : calls' = [calls EXCEPT ![c].at = at]
    BY <1>7 DEF BeginSave, EndSave, SaveFails, Places
  <2>2. calls' \in [Calls -> CallType(keys)] /\ keys' = keys /\ server' = server
    BY <1>2, <1>7, <2>1 DEF BeginSave, EndSave, SaveFails
  <2>3. \/ file' \in {file, {}}
        \/ calls[c].at = "saving" /\ file' = {NewCredentials(calls[c])}
    BY <1>7 DEF BeginSave, EndSave, SaveFails
  <2>4. calls[c].at = "saving" => NewCredentials(calls[c]) \in Creds
    <3>1. calls[c].at = "saving" => calls[c].new # 0
      BY DEF OnTheWay, SavedKeys
    <3>2. calls[c].reg \in Registries /\ calls[c].new \in 0 .. keys
      BY <1>1
    <3>3. calls[c].new # 0 => calls[c].new \in 1 .. keys
      BY <1>1, <3>2
    <3>4. QED
      BY <3>1, <3>2, <3>3 DEF NewCredentials, Creds
  <2>5. file' \in SUBSET Creds /\ AtMostOne(file')
    BY <2>3, <2>4 DEF CredTypeOK, AtMostOne
  <2>6. overwritten' \subseteq overwritten \cup Foreign(calls[c])
          \cup (IF calls[c].at = "saving" THEN {NewCredentials(calls[c]).key} ELSE {})
    BY <1>7 DEF BeginSave, EndSave, SaveFails, NewCredentials
  <2>7. overwritten' \subseteq 1 .. keys
    BY <2>4, <2>6, ForeignIsIssued DEF CredTypeOK, Creds
  <2>8. QED
    BY <1>1, <2>2, <2>5, <2>7 DEF CredTypeOK, Creds
<1>8. ASSUME NEW c \in Calls, Delete(c)
      PROVE  CredTypeOK'
  <2>1. \A d \in Calls : [calls[d] EXCEPT !.at = "ended"] \in CallType(keys)
                          /\ [calls[d] EXCEPT !.at = "unsaved"] \in CallType(keys)
    BY <1>1 DEF Places
  <2>2. calls' \in [Calls -> CallType(keys)]
    BY <1>1, <1>8, <2>1 DEF Delete
  <2>3. overwritten' \subseteq 1 .. keys
    BY <1>8, ForeignIsIssued DEF Delete, CredTypeOK
  <2>4. QED
    BY <1>8, <2>2, <2>3 DEF Delete, CredTypeOK, Creds, AtMostOne
<1>9. CASE UNCHANGED credVars
  BY <1>9 DEF credVars, CredTypeOK, Creds
<1>10. QED
  BY <1>3, <1>4, <1>5, <1>6, <1>7, <1>8, <1>9
     DEF CredNext, RegistryTakes, RegistryTakesLate

-----------------------------------------------------------------------------
(* One lemma per kind of step                                              *)

\* Steps by which a command only gets further: an answer, an error, a timeout,
\* a failed save that left the file alone, a failed delete.
Further(from, to) ==
  \/ from = "sending" /\ to \in {"ended", "late"}
  \/ from = "taken" /\ to \in {"answered", "lost"}
  \/ from \in {"answered", "saving"} /\ to = "lost"
  \/ from = "answered" /\ to = "undeleted"
  \/ from \in {"answered", "saving"} /\ to = "unsaved"

LEMMA FurtherInv ==
  ASSUME CredInv, CredTypeOK', NEW c \in Calls, NEW to, Further(calls[c].at, to),
         calls' = [calls EXCEPT ![c].at = to], UNCHANGED << file, server, keys, overwritten >>
  PROVE  CredInv'
<1> USE DEF CredInv
<1>1. /\ calls'[c].at = to
      /\ \A d \in Calls : /\ calls'[d].command = calls[d].command
                          /\ calls'[d].reg = calls[d].reg
                          /\ calls'[d].key = calls[d].key
                          /\ calls'[d].new = calls[d].new
                          /\ d # c => calls'[d].at = calls[d].at
  BY MovedTo
<1>2. OnTheWay'
  BY <1>1 DEF OnTheWay, Further, Issues
<1>3. NewKeys'
  BY <1>1 DEF NewKeys, Further, Issues
<1>4. OldKeys'
  BY <1>1 DEF OldKeys, Further
<1>5. SavedKeys'
  <2>1. \A e \in Calls : calls[e].at \in {"ended", "unsaved"}
          => calls'[e].at = calls[e].at /\ calls'[e].new = calls[e].new
    BY <1>1 DEF Further
  <2>2. \A r, k : WasSaved(r, k) => WasSaved(r, k)'
    BY <2>1 DEF WasSaved
  <2>3. QED
    BY <1>1, <2>2 DEF SavedKeys, Further, Issues
<1>6. SpentKeys'
  <2>1. \A d \in Calls : Spent(d)' => Spent(d)
    BY <1>1 DEF Spent, Further
  <2>2. QED
    BY <1>1, <2>1 DEF SpentKeys
<1>7. LiveKeys'
  BY DEF LiveKeys
<1>8. StoredKeyWorks'
  BY <1>1 DEF StoredKeyWorks, Works, Further
<1>9. LiveKeyKept'
  <2>1. calls[c].at = "sending" => calls[c].new = 0
    BY DEF NewKeys
  <2>2. \A d \in Calls : calls'[d].at = "ended" => calls[d].at = "ended" \/ calls[d].new = 0
    BY <1>1, <2>1 DEF Further
  <2>3. QED
    BY <1>1, <2>2 DEF LiveKeyKept, LiveKeys
<1>10. QED
  BY <1>2, <1>3, <1>4, <1>5, <1>6, <1>7, <1>8, <1>9

\* A command reads the file and begins, or gives up at once.
LEMMA BeginInv ==
  ASSUME CredInv, CredTypeOK', NEW c \in Calls, BeginRegister(c) \/ BeginKeyed(c)
  PROVE  CredInv'
<1> USE DEF CredInv
<1>1. /\ UNCHANGED << file, server, keys, overwritten >>
      /\ calls[c].at = "idle" /\ calls[c].new = 0
      /\ calls[c].command = "register" /\ calls[c].key = 0
  BY DEF BeginRegister, BeginKeyed, NewKeys, OldKeys
<1>2. /\ calls'[c].new = 0
      /\ calls'[c].at \in {"sending", "ended"}
      /\ \/ calls'[c].command = "register" /\ calls'[c].key = 0
         \/ /\ calls'[c].command # "register"
            /\ calls'[c].at = "ended" /\ calls'[c].key = 0
         \/ /\ calls'[c].command # "register"
            /\ calls'[c].at = "sending"
            /\ \E f \in file : calls'[c].key = f.key /\ calls'[c].reg = f.reg
      /\ \A d \in Calls \ {c} : calls'[d] = calls[d]
  <2>1. CASE BeginRegister(c)
    <3>1. PICK r \in Registries, at \in {"sending", "ended"} :
            calls' = [calls EXCEPT ![c] = [@ EXCEPT !.reg = r, !.at = at]]
      BY <2>1 DEF BeginRegister
    <3>2. calls'[c] = [calls[c] EXCEPT !.reg = r, !.at = at]
            /\ \A d \in Calls \ {c} : calls'[d] = calls[d]
      BY <3>1 DEF CredTypeOK
    <3>3. calls'[c].new = calls[c].new /\ calls'[c].command = calls[c].command
            /\ calls'[c].key = calls[c].key /\ calls'[c].at = at
      BY <3>2 DEF CredTypeOK
    <3>4. QED
      BY <1>1, <3>2, <3>3
  <2>2. CASE BeginKeyed(c)
    <3>1. PICK command \in Commands \ {"register"} :
           \/ /\ file = {}
              /\ calls' = [calls EXCEPT ![c] = [@ EXCEPT !.at = "ended", !.command = command]]
           \/ \E f \in file :
                calls' = [calls EXCEPT ![c] = [@ EXCEPT !.at = "sending", !.command = command,
                                                        !.reg = f.reg, !.key = f.key]]
      BY <2>2 DEF BeginKeyed
    <3>2. CASE calls' = [calls EXCEPT ![c] = [@ EXCEPT !.at = "ended", !.command = command]]
      <4>1. calls'[c] = [calls[c] EXCEPT !.at = "ended", !.command = command]
              /\ \A d \in Calls \ {c} : calls'[d] = calls[d]
        BY <3>2 DEF CredTypeOK
      <4>2. calls'[c].new = calls[c].new /\ calls'[c].command = command
              /\ calls'[c].key = calls[c].key /\ calls'[c].at = "ended"
        BY <4>1 DEF CredTypeOK
      <4>3. QED
        BY <1>1, <4>1, <4>2
    <3>3. ASSUME NEW f \in file,
                 calls' = [calls EXCEPT ![c] = [@ EXCEPT !.at = "sending", !.command = command,
                                                         !.reg = f.reg, !.key = f.key]]
          PROVE  /\ calls'[c].new = 0 /\ calls'[c].at = "sending"
                 /\ calls'[c].command = command
                 /\ calls'[c].key = f.key /\ calls'[c].reg = f.reg
                 /\ \A d \in Calls \ {c} : calls'[d] = calls[d]
      <4>1. calls'[c] = [calls[c] EXCEPT !.at = "sending", !.command = command,
                                         !.reg = f.reg, !.key = f.key]
              /\ \A d \in Calls \ {c} : calls'[d] = calls[d]
        BY <3>3 DEF CredTypeOK
      <4>2. QED
        BY <1>1, <4>1 DEF CredTypeOK
    <3>4. QED
      BY <3>1, <3>2, <3>3
  <2>3. QED
    BY <2>1, <2>2
<1>3. OnTheWay'
  <2>1. ASSUME NEW d \in Calls, calls'[d].at \in {"taken", "answered", "saving"}, Issues(d)'
        PROVE  /\ d # c /\ calls'[d] = calls[d] /\ calls[d].new # 0
               /\ server[calls[d].reg] = [state |-> "live", key |-> calls[d].new]
               /\ \A f \in file : f.key # calls[d].new
               /\ \A e \in Calls : calls[e].key # calls[d].new
    BY <1>2, <2>1 DEF OnTheWay, Issues
  <2>2. QED
    BY <1>1, <1>2, <2>1 DEF OnTheWay
<1>4. NewKeys'
  <2>1. \A d \in Calls : calls'[d].new = calls[d].new
    BY <1>1, <1>2
  <2>2. QED
    BY <1>1, <1>2, <2>1 DEF NewKeys, Issues
<1>5. OldKeys'
  BY <1>1, <1>2 DEF OldKeys, SavedKeys
<1>6. SavedKeys'
  <2>1. \A r, k : k # 0 /\ WasSaved(r, k) => WasSaved(r, k)'
    BY <1>1, <1>2 DEF WasSaved
  <2>2. \A d \in Calls : calls'[d].key # 0 => WasSaved(calls'[d].reg, calls'[d].key)
    BY <1>2 DEF SavedKeys
  <2>3. QED
    BY <1>1, <1>2, <2>1, <2>2 DEF SavedKeys, Issues
<1>7. SpentKeys'
  <2>1. ~ Spent(c)'
    BY <1>2 DEF Spent
  <2>2. \A d \in Calls \ {c} : Spent(d)' <=> Spent(d)
    BY <1>2 DEF Spent
  <2>3. QED
    BY <1>1, <1>2, <2>1, <2>2 DEF SpentKeys
<1>8. LiveKeys'
  BY <1>1 DEF LiveKeys
<1>9. StoredKeyWorks'
  BY <1>1, <1>2 DEF StoredKeyWorks, Works
<1>10. LiveKeyKept'
  <2>1. ASSUME NEW r \in Registries, server[r].state = "live", NEW e \in Calls,
               calls[e].new = server[r].key
        PROVE  e # c
    BY <1>1, <2>1 DEF LiveKeys
  <2>2. QED
    BY <1>1, <1>2, <2>1 DEF LiveKeyKept
<1>11. QED
  BY <1>3, <1>4, <1>5, <1>6, <1>7, <1>8, <1>9, <1>10

\* The registry carries a request out: a new key, or none from here on.
LEMMA CarriedOutInv ==
  ASSUME CredInv, CredTypeOK', NEW c \in Calls, NEW at \in {"taken", "lost"},
         calls[c].at \in {"sending", "late"}, CarriedOut(c, at)
  PROVE  CredInv'
<1> DEFINE reg == calls[c].reg
<1> USE DEF CredInv
<1>1. /\ file' = file /\ overwritten' = overwritten /\ keys \in Nat /\ keys' \in Nat /\ reg \in Registries
      /\ calls[c].new = 0
  BY DEF CarriedOut, CredTypeOK, NewKeys
<1>2. /\ \A d \in Calls : calls[d].key # keys + 1 /\ calls[d].new # keys + 1
      /\ \A f \in file : f.key # keys + 1 /\ f.reg \in Registries
      /\ \A r \in Registries : server[r].key # keys + 1
  <2>1. \A n \in 0 .. keys : n # keys + 1
    BY <1>1
  <2>2. /\ \A d \in Calls : calls[d].key \in 0 .. keys /\ calls[d].new \in 0 .. keys
        /\ \A r \in Registries : server[r].key \in 0 .. keys
    BY DEF CredTypeOK
  <2>3. \A f \in file : f.key \in 1 .. keys /\ f.reg \in Registries
    BY DEF CredTypeOK, Creds
  <2>4. 1 .. keys \subseteq 0 .. keys
    BY <1>1
  <2>5. QED
    BY <2>1, <2>2, <2>3, <2>4
<1>3. /\ calls'[c].at = at
      /\ calls'[c].command = calls[c].command
      /\ calls'[c].reg = calls[c].reg
      /\ calls'[c].key = calls[c].key
      /\ \A d \in Calls \ {c} : calls'[d] = calls[d]
      /\ \A r \in Registries \ {reg} : server'[r] = server[r]
  BY DEF CarriedOut, KeyIssued, KeyRevoked, AgentRemoved, CredTypeOK
<1>4. \/ /\ Issues(c)
         /\ calls'[c].new = keys + 1 /\ keys + 1 # 0
         /\ server'[reg] = [state |-> "live", key |-> keys + 1]
      \/ /\ ~ Issues(c)
         /\ calls'[c].new = 0
         /\ server'[reg].state # "live"
  <2>1. CASE Issues(c)
    <3>1. KeyIssued(c, at)
      BY <2>1 DEF Issues, CarriedOut, KeyRevoked, AgentRemoved
    <3>2. QED
      BY <1>1, <2>1, <3>1 DEF KeyIssued, CredTypeOK
  <2>2. CASE ~ Issues(c)
    BY <1>1, <2>2 DEF CarriedOut, KeyIssued, KeyRevoked, AgentRemoved, Issues, CredTypeOK
  <2>3. QED
    BY <2>1, <2>2
<1>5. /\ calls[c].command = "register" => server[reg].state # "live"
      /\ calls[c].command # "register"
           => server[reg].state = "live" /\ server[reg].key = calls[c].key
  BY DEF CarriedOut, Permits
<1>6. /\ \A d \in Calls \ {c} : Spent(d)' <=> Spent(d)
      /\ Spent(c)' => calls[c].command # "register"
      /\ ~ Spent(c)
  BY <1>1, <1>3 DEF Spent
<1>7. OnTheWay'
  <2>1. ASSUME NEW d \in Calls, d # c,
               calls[d].at \in {"taken", "answered", "saving"}, Issues(d)
        PROVE  /\ calls[d].new # 0
               /\ server'[calls[d].reg] = [state |-> "live", key |-> calls[d].new]
               /\ \A f \in file : f.key # calls[d].new
               /\ \A e \in Calls : calls[e].key # calls[d].new
    <3>1. /\ calls[d].new # 0
          /\ server[calls[d].reg] = [state |-> "live", key |-> calls[d].new]
          /\ \A f \in file : f.key # calls[d].new
          /\ \A e \in Calls : calls[e].key # calls[d].new
      BY <2>1 DEF OnTheWay
    <3>2. calls[d].reg # reg
      BY <1>5, <3>1
    <3>3. calls[d].reg \in Registries
      BY DEF CredTypeOK
    <3>4. QED
      BY <1>3, <3>1, <3>2, <3>3
  <2>2. \A e \in Calls : calls'[e].key = calls[e].key
    BY <1>3
  <2>3. ASSUME NEW d \in Calls, calls'[d].at \in {"taken", "answered", "saving"}, Issues(d)'
        PROVE  /\ calls'[d].new # 0
               /\ server'[calls'[d].reg] = [state |-> "live", key |-> calls'[d].new]
               /\ \A f \in file' : f.key # calls'[d].new
               /\ \A e \in Calls : calls'[e].key # calls'[d].new
    <3>1. CASE d = c
      BY <1>1, <1>2, <1>3, <1>4, <2>2, <2>3, <3>1 DEF Issues
    <3>2. CASE d # c
      BY <1>1, <1>3, <2>1, <2>2, <2>3, <3>2 DEF Issues
    <3>3. QED
      BY <3>1, <3>2
  <2>4. QED
    BY <2>3 DEF OnTheWay
<1>8. NewKeys'
  BY <1>2, <1>3, <1>4 DEF NewKeys, Issues
<1>9. OldKeys'
  BY <1>3 DEF OldKeys
<1>10. SavedKeys'
  <2>1. \A r, k : WasSaved(r, k) => WasSaved(r, k)'
    BY <1>3 DEF WasSaved
  <2>2. QED
    BY <1>1, <1>3, <2>1 DEF SavedKeys, Issues
<1>11. LiveKeys'
  <2>1. \A r \in Registries : server'[r].state = "live" =>
          \/ r = reg /\ server'[r].key = keys + 1 /\ keys + 1 # 0
          \/ r # reg /\ server'[r] = server[r]
    BY <1>3, <1>4
  <2>2. QED
    BY <1>2, <2>1 DEF LiveKeys
<1>12. SpentKeys'
  <2>1. \A d \in Calls \ {c} : Spent(d) => calls[d].key # calls[c].key \/ calls[c].command = "register"
    BY <1>1, <1>5 DEF SpentKeys
  <2>2. \A d \in Calls : calls'[d].key = calls[d].key
    BY <1>3
  <2>3. \A d, e \in Calls : Spent(d)' /\ Spent(e)' /\ calls'[d].key = calls'[e].key => d = e
    BY <1>6, <2>1, <2>2 DEF SpentKeys
  <2>4. ASSUME NEW d \in Calls, Spent(d)', NEW r \in Registries, server'[r].state = "live"
        PROVE  server'[r].key # calls'[d].key
    <3>1. CASE r = reg
      BY <1>2, <1>4, <2>2, <2>4, <3>1
    <3>2. CASE r # reg /\ d # c
      BY <1>3, <1>6, <2>2, <2>4, <3>2 DEF SpentKeys
    <3>3. CASE r # reg /\ d = c
      BY <1>1, <1>3, <1>5, <1>6, <2>2, <2>4, <3>3 DEF LiveKeys
    <3>4. QED
      BY <3>1, <3>2, <3>3
  <2>5. QED
    BY <2>3, <2>4 DEF SpentKeys
<1>13. StoredKeyWorks'
  <2>1. ASSUME NEW f \in file, ~ Works(f)'
        PROVE  \E d \in Calls :
                 /\ calls'[d].command # "register"
                 /\ calls'[d].reg = f.reg /\ calls'[d].key = f.key
                 /\ calls'[d].at \in {"taken", "answered", "lost", "unsaved", "undeleted"}
    <3>1. CASE Works(f)
      <4>1. f.reg = reg
        BY <1>2, <1>3, <2>1, <3>1 DEF Works
      <4>2. server[reg].state = "live" /\ server[reg].key = f.key
        BY <3>1, <4>1 DEF Works
      <4>3. calls[c].command # "register" /\ calls[c].key = f.key
        BY <1>5, <4>2
      <4>4. QED
        BY <1>3, <4>1, <4>3
    <3>2. CASE ~ Works(f)
      <4>1. PICK d \in Calls :
               /\ calls[d].command # "register"
               /\ calls[d].reg = f.reg /\ calls[d].key = f.key
               /\ calls[d].at \in {"taken", "answered", "lost", "unsaved", "undeleted"}
        BY <3>2 DEF StoredKeyWorks
      <4>2. d # c
        BY <4>1
      <4>3. QED
        BY <1>3, <4>1, <4>2
    <3>3. QED
      BY <3>1, <3>2
  <2>2. QED
    BY <1>1, <2>1 DEF StoredKeyWorks
<1>14. LiveKeyKept'
  <2>1. ASSUME NEW r \in Registries, server'[r].state = "live"
        PROVE  \/ file = {[reg |-> r, key |-> server'[r].key]}
               \/ server'[r].key \in overwritten
               \/ \E e \in Calls : /\ calls'[e].reg = r /\ calls'[e].new = server'[r].key
                                   /\ calls'[e].at # "ended"
    <3>1. CASE r = reg
      BY <1>3, <1>4, <2>1, <3>1
    <3>2. CASE r # reg
      <4>1. server'[r] = server[r] /\ calls[c].new = 0 /\ server[r].key # 0
        BY <1>1, <1>3, <2>1, <3>2 DEF LiveKeys
      <4>2. QED
        BY <1>3, <2>1, <4>1 DEF LiveKeyKept
    <3>3. QED
      BY <3>1, <3>2
  <2>2. QED
    BY <1>1, <2>1 DEF LiveKeyKept
<1>15. QED
  BY <1>7, <1>8, <1>9, <1>10, <1>11, <1>12, <1>13, <1>14

\* A command that is about to write or to delete has used up the key it started
\* from: a key in the file that still works is not that one.
LEMMA StoredIsForeign ==
  ASSUME CredInv, NEW r \in Registries, NEW c \in Calls, server[r].state = "live",
         calls[c].at \in {"answered", "saving"},
         file = {[reg |-> r, key |-> server[r].key]}
  PROVE  server[r].key \in Foreign(calls[c])
<1>1. server[r].key # calls[c].key
  <2>1. CASE calls[c].command = "register"
    BY <2>1 DEF CredInv, OldKeys, LiveKeys
  <2>2. CASE calls[c].command # "register"
    <3>1. Spent(c)
      BY <2>2 DEF Spent
    <3>2. QED
      BY <3>1 DEF CredInv, SpentKeys
  <2>3. QED
    BY <2>1, <2>2
<1>2. QED
  BY <1>1 DEF Foreign

\* writeFile truncates the file.
LEMMA BeginSaveInv ==
  ASSUME CredInv, CredTypeOK', NEW c \in Calls, BeginSave(c)
  PROVE  CredInv'
<1> USE DEF CredInv
<1>1. /\ calls[c].at = "answered" /\ Issues(c)
      /\ file' = {} /\ server' = server /\ keys' = keys
      /\ overwritten' = overwritten \cup Foreign(calls[c])
      /\ calls'[c].at = "saving"
      /\ \A d \in Calls : /\ calls'[d].command = calls[d].command
                          /\ calls'[d].reg = calls[d].reg
                          /\ calls'[d].key = calls[d].key
                          /\ calls'[d].new = calls[d].new
                          /\ d # c => calls'[d].at = calls[d].at
  BY MovedTo DEF BeginSave, Issues
<1>2. OnTheWay'
  BY <1>1 DEF OnTheWay, Issues
<1>3. NewKeys' /\ OldKeys'
  BY <1>1 DEF NewKeys, OldKeys, Issues
<1>4. SavedKeys'
  <2>1. \A r, k : WasSaved(r, k) => WasSaved(r, k)'
    BY <1>1 DEF WasSaved
  <2>2. QED
    BY <1>1, <2>1 DEF SavedKeys, Issues
<1>5. SpentKeys'
  <2>1. \A d \in Calls : Spent(d)' => Spent(d)
    BY <1>1 DEF Spent
  <2>2. QED
    BY <1>1, <2>1 DEF SpentKeys
<1>6. LiveKeys' /\ StoredKeyWorks'
  BY <1>1 DEF LiveKeys, StoredKeyWorks
<1>7. LiveKeyKept'
  <2>1. ASSUME NEW r \in Registries, server[r].state = "live"
        PROVE  \/ server[r].key \in overwritten'
               \/ \E e \in Calls : /\ calls'[e].reg = r /\ calls'[e].new = server[r].key
                                   /\ calls'[e].at # "ended"
    <3>1. CASE file = {[reg |-> r, key |-> server[r].key]}
      BY <1>1, <2>1, <3>1, StoredIsForeign
    <3>2. CASE file # {[reg |-> r, key |-> server[r].key]}
      BY <1>1, <2>1, <3>2 DEF LiveKeyKept
    <3>3. QED
      BY <3>1, <3>2
  <2>2. QED
    BY <1>1, <2>1 DEF LiveKeyKept
<1>8. QED
  BY <1>2, <1>3, <1>4, <1>5, <1>6, <1>7

\* A save that ends: the file holds the new key, or is torn by another save.
LEMMA SavedInv ==
  ASSUME CredInv, CredTypeOK', NEW c \in Calls, calls[c].at = "saving",
         NEW at \in {"ended", "unsaved"}, calls' = [calls EXCEPT ![c].at = at],
         \/ /\ file' = {NewCredentials(calls[c])}
            /\ overwritten' = overwritten \cup Foreign(calls[c])
         \/ /\ file # {} /\ file' = {}
            /\ overwritten' = overwritten \cup Foreign(calls[c]) \cup {calls[c].new},
         UNCHANGED << server, keys >>
  PROVE  CredInv'
<1> USE DEF CredInv
<1>1. /\ Issues(c) /\ \A f \in file : f.key # calls[c].key
      /\ calls'[c].at = at
      /\ \A d \in Calls : /\ calls'[d].command = calls[d].command
                          /\ calls'[d].reg = calls[d].reg
                          /\ calls'[d].key = calls[d].key
                          /\ calls'[d].new = calls[d].new
                          /\ d # c => calls'[d].at = calls[d].at
  <2>1. Issues(c) /\ \A f \in file : f.key # calls[c].key
    BY DEF SavedKeys
  <2>2. QED
    BY <2>1, MovedTo
<1>2. /\ calls[c].new # 0
      /\ server[calls[c].reg] = [state |-> "live", key |-> calls[c].new]
      /\ \A d \in Calls : calls[d].key # calls[c].new
      /\ \A d \in Calls \ {c} : calls[d].new # calls[c].new
  BY <1>1 DEF OnTheWay, NewKeys
<1>3. \A f \in file' : f = [reg |-> calls[c].reg, key |-> calls[c].new]
  BY DEF NewCredentials
<1>4. OnTheWay'
  <2>1. ASSUME NEW d \in Calls, calls'[d].at \in {"taken", "answered", "saving"}, Issues(d)'
        PROVE  /\ calls[d].new # 0
               /\ server[calls[d].reg] = [state |-> "live", key |-> calls[d].new]
               /\ \A f \in file' : f.key # calls[d].new
               /\ \A e \in Calls : calls[e].key # calls[d].new
    <3>1. d # c /\ calls[d].at \in {"taken", "answered", "saving"} /\ Issues(d)
      BY <1>1, <2>1 DEF Issues
    <3>2. QED
      BY <1>2, <1>3, <3>1 DEF OnTheWay
  <2>2. QED
    BY <1>1, <2>1 DEF OnTheWay
<1>5. NewKeys' /\ OldKeys'
  BY <1>1 DEF NewKeys, OldKeys, Issues
<1>6. SavedKeys'
  <2>1. \A r, k : WasSaved(r, k) => WasSaved(r, k)'
    BY <1>1 DEF WasSaved
  <2>2. WasSaved(calls[c].reg, calls[c].new)'
    BY <1>1 DEF WasSaved
  <2>3. QED
    BY <1>1, <1>2, <1>3, <2>1, <2>2 DEF SavedKeys, Issues
<1>7. SpentKeys'
  <2>1. \A d \in Calls : Spent(d)' => Spent(d)
    BY <1>1 DEF Spent
  <2>2. QED
    BY <1>1, <2>1 DEF SpentKeys
<1>8. LiveKeys' /\ StoredKeyWorks'
  BY <1>2, <1>3 DEF LiveKeys, StoredKeyWorks, Works
<1>9. LiveKeyKept'
  <2>1. overwritten \cup Foreign(calls[c]) \subseteq overwritten'
    OBVIOUS
  <2>2. ASSUME NEW r \in Registries, server[r].state = "live"
        PROVE  \/ file' = {[reg |-> r, key |-> server[r].key]}
               \/ server[r].key \in overwritten'
               \/ \E e \in Calls : /\ calls'[e].reg = r /\ calls'[e].new = server[r].key
                                   /\ calls'[e].at # "ended"
    <3>1. CASE file = {[reg |-> r, key |-> server[r].key]}
      BY <2>1, <2>2, <3>1, StoredIsForeign
    <3>2. CASE server[r].key \in overwritten
      BY <2>1, <3>2
    <3>3. ASSUME NEW e \in Calls, calls[e].reg = r, calls[e].new = server[r].key,
                 calls[e].at # "ended"
          PROVE  \/ file' = {[reg |-> r, key |-> server[r].key]}
                 \/ server[r].key \in overwritten'
                 \/ \E d \in Calls : /\ calls'[d].reg = r /\ calls'[d].new = server[r].key
                                     /\ calls'[d].at # "ended"
      <4>1. CASE e # c
        BY <1>1, <3>3, <4>1
      <4>2. CASE e = c
        BY <3>3, <4>2 DEF NewCredentials
      <4>3. QED
        BY <4>1, <4>2
    <3>4. QED
      BY <2>2, <3>1, <3>2, <3>3 DEF LiveKeyKept
  <2>3. QED
    BY <2>2 DEF LiveKeyKept
<1>10. QED
  BY <1>4, <1>5, <1>6, <1>7, <1>8, <1>9

\* revoke or deregister removes the file, whatever it holds by then; a save
\* under way ends without it.
LEMMA DeleteInv ==
  ASSUME CredInv, CredTypeOK', NEW c \in Calls, Delete(c)
  PROVE  CredInv'
<1> USE DEF CredInv
<1>1. /\ calls[c].at = "answered" /\ calls[c].command \in {"revoke", "deregister"}
      /\ file' = {} /\ server' = server /\ keys' = keys
      /\ overwritten' = overwritten \cup Foreign(calls[c])
  BY DEF Delete, EndsWithDelete
<1>2. \A d \in Calls :
        /\ calls'[d].at = IF d = c THEN "ended"
                          ELSE IF calls[d].at = "saving" THEN "unsaved" ELSE calls[d].at
        /\ calls'[d].command = calls[d].command
        /\ calls'[d].reg = calls[d].reg
        /\ calls'[d].key = calls[d].key
        /\ calls'[d].new = calls[d].new
  BY DEF Delete, CredTypeOK
<1>3. calls[c].new = 0 /\ calls[c].key # 0 /\ Spent(c)
  BY <1>1 DEF NewKeys, OldKeys, Issues, Spent
<1>4. OnTheWay'
  <2>1. ASSUME NEW d \in Calls, calls'[d].at \in {"taken", "answered", "saving"}, Issues(d)'
        PROVE  calls[d].at \in {"taken", "answered", "saving"} /\ Issues(d)
    BY <1>2, <2>1 DEF Issues
  <2>2. QED
    BY <1>1, <1>2, <2>1 DEF OnTheWay
<1>5. NewKeys' /\ OldKeys'
  BY <1>2 DEF NewKeys, OldKeys, Issues
<1>6. SavedKeys'
  <2>1. \A e \in Calls : calls[e].at \in {"ended", "unsaved"}
          => calls'[e].at \in {"ended", "unsaved"}
    BY <1>2
  <2>2. \A r, k : WasSaved(r, k) => WasSaved(r, k)'
    BY <1>2, <2>1 DEF WasSaved
  <2>3. QED
    BY <1>1, <1>2, <2>2 DEF SavedKeys, Issues
<1>7. SpentKeys'
  <2>1. \A d \in Calls : Spent(d)' => Spent(d)
    BY <1>2 DEF Spent
  <2>2. QED
    BY <1>1, <1>2, <2>1 DEF SpentKeys
<1>8. LiveKeys' /\ StoredKeyWorks'
  BY <1>1 DEF LiveKeys, StoredKeyWorks
<1>9. LiveKeyKept'
  <2>1. ASSUME NEW r \in Registries, server[r].state = "live"
        PROVE  \/ server[r].key \in overwritten'
               \/ \E e \in Calls : /\ calls'[e].reg = r /\ calls'[e].new = server[r].key
                                   /\ calls'[e].at # "ended"
    <3>1. CASE file = {[reg |-> r, key |-> server[r].key]}
      BY <1>1, <2>1, <3>1, StoredIsForeign
    <3>2. ASSUME NEW e \in Calls, calls[e].reg = r, calls[e].new = server[r].key,
                 calls[e].at # "ended"
          PROVE  calls'[e].at # "ended"
      <4>1. e # c
        BY <1>3, <2>1, <3>2 DEF LiveKeys
      <4>2. QED
        BY <1>2, <3>2, <4>1
    <3>3. QED
      BY <1>1, <1>2, <2>1, <3>1, <3>2 DEF LiveKeyKept
  <2>2. QED
    BY <1>1, <2>1 DEF LiveKeyKept
<1>10. QED
  BY <1>4, <1>5, <1>6, <1>7, <1>8, <1>9

LEMMA InitCredInv == CredInit => CredInv
<1> SUFFICES ASSUME CredInit PROVE CredInv
  OBVIOUS
<1>1. \A c \in Calls : /\ calls[c].at = "idle" /\ calls[c].command = "register"
                       /\ calls[c].key = 0 /\ calls[c].new = 0
  BY DEF CredInit
<1>2. file = {} /\ \A r \in Registries : server[r].state = "free"
  BY DEF CredInit
<1>3. OnTheWay /\ NewKeys /\ OldKeys /\ SavedKeys
  BY <1>1, <1>2 DEF OnTheWay, NewKeys, OldKeys, SavedKeys
<1>4. SpentKeys /\ LiveKeys /\ StoredKeyWorks /\ LiveKeyKept
  BY <1>1, <1>2 DEF SpentKeys, Spent, LiveKeys, StoredKeyWorks, LiveKeyKept
<1>5. QED
  BY <1>3, <1>4, InitCredTypeOK DEF CredInv

LEMMA NextCredInv == CredInv /\ [CredNext]_credVars => CredInv'
<1> SUFFICES ASSUME CredInv, [CredNext]_credVars PROVE CredInv'
  OBVIOUS
<1>1. CredTypeOK'
  BY NextCredTypeOK DEF CredInv
<1>2. ASSUME NEW c \in Calls, BeginRegister(c) \/ BeginKeyed(c)
      PROVE  CredInv'
  BY <1>1, <1>2, BeginInv
<1>3. ASSUME NEW c \in Calls, RegistryTakes(c) \/ RegistryTakesLate(c)
      PROVE  CredInv'
  BY <1>1, <1>3, CarriedOutInv DEF RegistryTakes, RegistryTakesLate
<1>4. ASSUME NEW c \in Calls, RegistryRefuses(c) \/ Answered(c) \/ Lost(c) \/ DeleteFails(c)
      PROVE  CredInv'
  <2>1. PICK to : Further(calls[c].at, to) /\ calls' = [calls EXCEPT ![c].at = to]
    <3>1. CASE RegistryRefuses(c)
      BY <3>1 DEF RegistryRefuses, Further
    <3>2. CASE Answered(c)
      BY <3>2 DEF Answered, Further
    <3>3. CASE Lost(c)
      BY <3>3 DEF Lost, Further
    <3>4. CASE DeleteFails(c)
      BY <3>4 DEF DeleteFails, Further
    <3>5. QED
      BY <1>4, <3>1, <3>2, <3>3, <3>4
  <2>2. UNCHANGED << file, server, keys, overwritten >>
    BY <1>4 DEF RegistryRefuses, Answered, Lost, DeleteFails
  <2>3. QED
    BY <1>1, <2>1, <2>2, FurtherInv
<1>5. ASSUME NEW c \in Calls, BeginSave(c)
      PROVE  CredInv'
  BY <1>1, <1>5, BeginSaveInv
<1>6. ASSUME NEW c \in Calls, EndSave(c)
      PROVE  CredInv'
  BY <1>1, <1>6, SavedInv DEF EndSave
<1>7. ASSUME NEW c \in Calls, SaveFails(c)
      PROVE  CredInv'
  <2>1. CASE UNCHANGED << file, overwritten >>
    <3>1. Further(calls[c].at, "unsaved") /\ calls' = [calls EXCEPT ![c].at = "unsaved"]
      BY <1>7 DEF SaveFails, Further
    <3>2. QED
      BY <1>1, <1>7, <2>1, <3>1, FurtherInv DEF SaveFails
  <2>2. CASE /\ calls[c].at = "saving" /\ file' = {NewCredentials(calls[c])}
             /\ overwritten' = overwritten \cup Foreign(calls[c])
    BY <1>1, <1>7, <2>2, SavedInv DEF SaveFails
  <2>3. QED
    BY <1>7, <2>1, <2>2 DEF SaveFails
<1>8. ASSUME NEW c \in Calls, Delete(c)
      PROVE  CredInv'
  BY <1>1, <1>8, DeleteInv
<1>9. CASE UNCHANGED credVars
  <2>1. UNCHANGED << file, server, calls, keys, overwritten >>
    BY <1>9 DEF credVars
  <2>2. \A c : Spent(c)' <=> Spent(c)
    BY <2>1 DEF Spent
  <2>3. \A r, k : WasSaved(r, k)' <=> WasSaved(r, k)
    BY <2>1 DEF WasSaved
  <2>4. /\ (OnTheWay' <=> OnTheWay) /\ (NewKeys' <=> NewKeys) /\ (OldKeys' <=> OldKeys)
        /\ (LiveKeys' <=> LiveKeys) /\ (LiveKeyKept' <=> LiveKeyKept)
    BY <2>1 DEF OnTheWay, NewKeys, OldKeys, Issues, LiveKeys, LiveKeyKept
  <2>5. SavedKeys' <=> SavedKeys
    BY <2>1, <2>3 DEF SavedKeys, Issues
  <2>6. SpentKeys' <=> SpentKeys
    BY <2>1, <2>2 DEF SpentKeys
  <2>7. StoredKeyWorks' <=> StoredKeyWorks
    BY <2>1 DEF StoredKeyWorks, Works
  <2>8. QED
    BY <1>1, <2>4, <2>5, <2>6, <2>7 DEF CredInv
<1>10. QED
  BY <1>2, <1>3, <1>4, <1>5, <1>6, <1>7, <1>8, <1>9 DEF CredNext

-----------------------------------------------------------------------------
(* Where a run of follow or unfollow is *)

\* What a run found is whom the registry it browsed gives the handle.
FoundHolder(f) == \A agent \in follows[f].found : holder[follows[f].browse] = {agent}

\* Until its lookup a run has found nobody; one with a request under way found
\* someone where its key is for; and who was found stays while nobody moves.
RunsInv ==
  \A f \in FollowCalls :
    /\ follows[f].at \in {"idle", "resolving", "unreachable"} => follows[f].found = {}
    /\ follows[f].at \in {"mirroring", "taken", "late"} => Mirrors(follows[f])
    /\ moves = 0 => FoundHolder(f)

\* The row, or the network, is as the run's user wished.
RowIsWished(f) ==
  \A agent \in follows[f].found :
    follows[f].wish = "follow" <=> rows \cap {agent, follows[f].target} # {}

NetworkIsWished(f) ==
  \A agent \in follows[f].found :
    follows[f].wish = "follow" <=> agent \in network[follows[f].browse]

\* What is known, wherever it is, of the run that nothing has crossed.
Uncrossed(f) ==
  /\ \A g \in FollowCalls \ {f} : ~ UnderWay(g)
  /\ follows[f].at \notin {"idle", "resolving"} => FoundHolder(f)
  /\ follows[f].at = "late" => follows[f].warned
  /\ follows[f].at \in {"mirroring", "taken", "ended"} /\ ~ follows[f].warned => RowIsWished(f)
  /\ follows[f].at = "taken" /\ ~ follows[f].warned => NetworkIsWished(f)
  /\ /\ follows[f].at = "ended" /\ ~ follows[f].warned
     /\ \E k \in follows[f].creds : k.reg = follows[f].browse
     => NetworkIsWished(f)

FollowInv ==
  /\ CredInv
  /\ FollowTypeOK
  /\ RunsInv
  /\ \A f \in sole : Uncrossed(f)
  /\ OnlyMeantAreFollowed

\* A step changes one run; the others stay as they are.
LEMMA RunMovedTo ==
  ASSUME FollowTypeOK, NEW f \in FollowCalls, NEW run \in FollowCall,
         follows' = [follows EXCEPT ![f] = run]
  PROVE  /\ follows' \in [FollowCalls -> FollowCall]
         /\ follows'[f] = run
         /\ \A g \in FollowCalls \ {f} : follows'[g] = follows[g]
BY DEF FollowTypeOK

\* The fields of a run that has got further, and of the others.
LEMMA TypeOfRest ==
  ASSUME FollowTypeOK, UNCHANGED credVars,
         follows' \in [FollowCalls -> FollowCall],
         \A f \in FollowCalls : AtMostOne(follows'[f].creds) /\ AtMostOne(follows'[f].found),
         rows' \subseteq {Handle} \cup Agents,
         network' \in [Registries -> SUBSET Agents],
         UNCHANGED << holder, moves >>, sole' \subseteq FollowCalls
  PROVE  FollowTypeOK'
<1>1. UNCHANGED << file, server, calls, keys, overwritten >>
  BY DEF credVars
<1>2. CredTypeOK' /\ FollowCall' = FollowCall
  BY <1>1 DEF FollowTypeOK, CredTypeOK, FollowCall, Creds
<1>3. QED
  BY <1>2 DEF FollowTypeOK

\* No credential, key or registration is touched by a run of these commands.
LEMMA CredInvStays == CredInv /\ UNCHANGED credVars => CredInv'
BY NextCredInv

LEMMA BeginFollowInv ==
  ASSUME FollowInv, NEW f \in FollowCalls, BeginFollow(f)
  PROVE  FollowInv'
<1> USE DEF FollowInv
<1>1. PICK wish \in {"follow", "unfollow"}, target \in Targets, r \in Registries :
        follows' = [follows EXCEPT ![f] =
          [@ EXCEPT !.at = "resolving", !.wish = wish, !.target = target,
                    !.creds = file, !.browse = r]]
  BY DEF BeginFollow
<1> DEFINE run == [follows[f] EXCEPT !.at = "resolving", !.wish = wish, !.target = target,
                                     !.creds = file, !.browse = r]
<1>2. follows[f] \in FollowCall /\ file \in SUBSET Creds /\ AtMostOne(file)
  BY DEF FollowTypeOK, CredTypeOK
<1>3. /\ run \in FollowCall
      /\ run.at = "resolving" /\ run.creds = file /\ run.found = follows[f].found
  BY <1>2 DEF FollowCall
<1>4. follows[f].at = "idle" /\ follows[f].found = {}
  BY DEF BeginFollow, RunsInv
<1> HIDE DEF run
<1>5. /\ follows' \in [FollowCalls -> FollowCall] /\ follows'[f] = run
      /\ \A g \in FollowCalls \ {f} : follows'[g] = follows[g]
  BY <1>1, <1>3, RunMovedTo DEF run
<1>6. UNCHANGED << credVars, rows, network, holder, moves >>
  BY DEF BeginFollow
<1>7. CredInv'
  BY <1>6, CredInvStays
<1>8. sole' \subseteq {f} /\ \A g \in sole' : \A h \in FollowCalls \ {g} : ~ UnderWay(h)
  BY DEF BeginFollow
<1>9. FollowTypeOK'
  <2>1. \A g \in FollowCalls : AtMostOne(follows'[g].creds) /\ AtMostOne(follows'[g].found)
    BY <1>2, <1>3, <1>5 DEF FollowTypeOK
  <2>2. QED
    BY <1>5, <1>6, <1>8, <2>1, TypeOfRest DEF FollowTypeOK
<1>10. RunsInv'
  <2>1. \A g \in FollowCalls \ {f} : FoundHolder(g)' <=> FoundHolder(g)
    BY <1>5, <1>6 DEF FoundHolder
  <2>2. FoundHolder(f)'
    BY <1>3, <1>4, <1>5 DEF FoundHolder
  <2>3. QED
    BY <1>3, <1>4, <1>5, <1>6, <2>1, <2>2 DEF RunsInv, Mirrors
<1>11. \A g \in sole' : Uncrossed(g)'
  <2>1. ASSUME NEW g \in sole' PROVE Uncrossed(g)'
    <3>1. g = f /\ follows'[g].at = "resolving"
      BY <1>3, <1>5, <1>8
    <3>2. \A h \in FollowCalls \ {g} : ~ UnderWay(h)'
      BY <1>5, <1>8, <3>1 DEF UnderWay
    <3>3. QED
      BY <3>1, <3>2 DEF Uncrossed
  <2>2. QED
    BY <2>1
<1>12. OnlyMeantAreFollowed'
  BY <1>4, <1>5, <1>6 DEF OnlyMeantAreFollowed
<1>13. QED
  BY <1>7, <1>9, <1>10, <1>11, <1>12

\* Whom a lookup can find.
LEMMA LookedUpHolder ==
  ASSUME FollowTypeOK, NEW target, NEW r \in Registries
  PROVE  /\ LookedUp(target, r) \subseteq Agents
         /\ AtMostOne(LookedUp(target, r))
         /\ \A agent \in LookedUp(target, r) : holder[r] = {agent}
BY DEF FollowTypeOK, LookedUp, AtMostOne

\* A step of run f that changes nothing else: its lookup is over, it gives its
\* request up, it is answered, or it ends badly.
LEMMA RunOnlyInv ==
  ASSUME FollowInv, NEW f \in FollowCalls, NEW run \in FollowCall, UnderWay(f),
         follows' = [follows EXCEPT ![f] = run],
         UNCHANGED << credVars, mirrorVars >>,
         run.wish = follows[f].wish, run.browse = follows[f].browse,
         run.target = follows[f].target, run.creds = follows[f].creds,
         run.at \in {"resolved", "unreachable", "late", "ended"},
         run.at # "resolved" => run.found = follows[f].found,
         run.at \in {"resolved", "unreachable"} => follows[f].at = "resolving",
         run.at = "resolved" => AtMostOne(run.found)
           /\ \A agent \in run.found : holder[run.browse] = {agent},
         run.at = "late" => follows[f].at = "mirroring" /\ run.warned,
         run.at = "ended" =>
           (run.warned \/ (follows[f].at = "taken" /\ run.warned = follows[f].warned))
  PROVE  FollowInv'
<1> USE DEF FollowInv
<1>1. /\ follows' \in [FollowCalls -> FollowCall] /\ follows'[f] = run
      /\ \A g \in FollowCalls \ {f} : follows'[g] = follows[g]
  BY RunMovedTo
<1>2. UNCHANGED << rows, network, holder, moves, sole >>
  BY DEF mirrorVars
<1>3. CredInv'
  BY CredInvStays
<1>4. FollowTypeOK'
  <2>1. \A g \in FollowCalls : AtMostOne(follows'[g].creds) /\ AtMostOne(follows'[g].found)
    BY <1>1 DEF FollowTypeOK
  <2>2. QED
    BY <1>1, <1>2, <2>1, TypeOfRest DEF FollowTypeOK
<1>5. follows[f].at = "resolving" => follows[f].found = {}
  BY DEF RunsInv
<1>6. /\ \A g \in FollowCalls \ {f} : FoundHolder(g)' <=> FoundHolder(g)
      /\ FoundHolder(f) => FoundHolder(f)'
      /\ run.at = "resolved" => FoundHolder(f)'
      /\ follows[f].at = "resolving" => FoundHolder(f)'
  BY <1>1, <1>2, <1>5 DEF FoundHolder
<1>7. RunsInv'
  <2>1. run.at = "late" => Mirrors(run)
    <3>1. Mirrors(follows[f]) /\ run.found = follows[f].found => Mirrors(run)
      BY DEF Mirrors
    <3>2. QED
      BY <3>1 DEF RunsInv
  <2>2. run.at = "unreachable" => run.found = {}
    BY <1>5
  <2>3. moves' = 0 => \A g \in FollowCalls : FoundHolder(g)'
    BY <1>2, <1>6 DEF RunsInv
  <2>4. QED
    BY <1>1, <2>1, <2>2, <2>3 DEF RunsInv
<1>8. ASSUME NEW g \in sole'
      PROVE  Uncrossed(g)'
  <2>1. g \in FollowCalls /\ Uncrossed(g)
    BY <1>2 DEF FollowTypeOK
  <2>2. g = f
    BY <2>1 DEF Uncrossed
  <2>3. \A h \in FollowCalls \ {f} : ~ UnderWay(h)'
    BY <1>1, <2>1, <2>2 DEF Uncrossed, UnderWay
  <2>4. FoundHolder(f)'
    BY <1>6, <2>1, <2>2 DEF Uncrossed, UnderWay
  <2>5. CASE run.at = "ended" /\ ~ run.warned
    <3>1. RowIsWished(f) /\ NetworkIsWished(f) /\ run.found = follows[f].found
      BY <2>1, <2>2, <2>5 DEF Uncrossed
    <3>2. RowIsWished(f)' /\ NetworkIsWished(f)'
      BY <1>1, <1>2, <3>1 DEF RowIsWished, NetworkIsWished
    <3>3. QED
      BY <1>1, <2>2, <2>3, <2>4, <2>5, <3>2 DEF Uncrossed
  <2>6. CASE ~ (run.at = "ended" /\ ~ run.warned)
    BY <1>1, <2>2, <2>3, <2>4, <2>6 DEF Uncrossed
  <2>7. QED
    BY <2>5, <2>6
<1>9. OnlyMeantAreFollowed'
  <2>1. \A g \in FollowCalls : \A agent \in follows[g].found :
          /\ agent \in follows'[g].found
          /\ follows'[g].wish = follows[g].wish /\ follows'[g].browse = follows[g].browse
    BY <1>1, <1>5
  <2>2. QED
    BY <1>2, <2>1 DEF OnlyMeantAreFollowed
<1>10. QED
  BY <1>3, <1>4, <1>7, <1>8, <1>9

LEMMA RunOnlySteps ==
  ASSUME FollowInv, NEW f \in FollowCalls,
         Resolve(f) \/ ResolveFails(f) \/ Dies(f) \/ MirrorAnswered(f) \/ MirrorFails(f)
  PROVE  FollowInv'
<1>1. follows[f] \in FollowCall /\ FollowTypeOK
  BY DEF FollowInv, FollowTypeOK
<1>2. CASE Resolve(f)
  <2> DEFINE found == LookedUp(follows[f].target, follows[f].browse)
             run == [follows[f] EXCEPT !.at = "resolved", !.found = found]
  <2>1. follows[f].browse \in Registries
    BY <1>1 DEF FollowCall
  <2>2. found \subseteq Agents /\ AtMostOne(found)
          /\ \A agent \in found : holder[follows[f].browse] = {agent}
    BY <1>1, <2>1, LookedUpHolder
  <2> HIDE DEF found
  <2>3. run \in FollowCall
    BY <1>1, <2>2 DEF FollowCall
  <2>4. run.at = "resolved" /\ run.found = found /\ run.wish = follows[f].wish
          /\ run.browse = follows[f].browse /\ run.target = follows[f].target
          /\ run.creds = follows[f].creds
    BY <1>1 DEF FollowCall
  <2>5. follows' = [follows EXCEPT ![f] = run] /\ UNCHANGED << credVars, mirrorVars >>
          /\ follows[f].at = "resolving" /\ UnderWay(f)
    BY <1>2 DEF Resolve, UnderWay, found
  <2> HIDE DEF run
  <2>6. QED
    BY <2>2, <2>3, <2>4, <2>5, RunOnlyInv
<1>3. ASSUME NEW at \in {"unreachable", "ended"}, follows' = [follows EXCEPT ![f].at = at],
             UnderWay(f), UNCHANGED << credVars, mirrorVars >>,
             at = "unreachable" => follows[f].at = "resolving",
             at = "ended" => follows[f].at = "taken"
      PROVE  FollowInv'
  <2> DEFINE run == [follows[f] EXCEPT !.at = at]
  <2>1. run \in FollowCall /\ run.at = at /\ run.found = follows[f].found
          /\ run.wish = follows[f].wish /\ run.browse = follows[f].browse
          /\ run.target = follows[f].target /\ run.creds = follows[f].creds
          /\ run.warned = follows[f].warned
    BY <1>1 DEF FollowCall
  <2>2. follows' = [follows EXCEPT ![f] = run]
    BY <1>3
  <2> HIDE DEF run
  <2>3. QED
    BY <1>3, <2>1, <2>2, RunOnlyInv
<1>4. ASSUME NEW at \in {"late", "ended"},
             follows' = [follows EXCEPT ![f] = [@ EXCEPT !.at = at, !.warned = TRUE]],
             UnderWay(f), UNCHANGED << credVars, mirrorVars >>,
             at = "late" => follows[f].at = "mirroring"
      PROVE  FollowInv'
  <2> DEFINE run == [follows[f] EXCEPT !.at = at, !.warned = TRUE]
  <2>1. run \in FollowCall /\ run.at = at /\ run.found = follows[f].found
          /\ run.wish = follows[f].wish /\ run.browse = follows[f].browse
          /\ run.target = follows[f].target /\ run.creds = follows[f].creds
          /\ run.warned = TRUE
    BY <1>1 DEF FollowCall
  <2>2. follows' = [follows EXCEPT ![f] = run]
    BY <1>4
  <2> HIDE DEF run
  <2>3. QED
    BY <1>4, <2>1, <2>2, RunOnlyInv
<1>5. CASE ResolveFails(f)
  BY <1>3, <1>5 DEF ResolveFails, UnderWay
<1>6. CASE MirrorAnswered(f)
  BY <1>3, <1>6 DEF MirrorAnswered, UnderWay
<1>7. CASE Dies(f)
  BY <1>4, <1>7 DEF Dies, UnderWay
<1>8. CASE MirrorFails(f)
  <2>1. PICK at \in {"late", "ended"} :
          /\ follows' = [follows EXCEPT ![f] = [@ EXCEPT !.at = at, !.warned = TRUE]]
          /\ at = "late" => follows[f].at = "mirroring"
    BY <1>8 DEF MirrorFails
  <2>2. QED
    BY <1>4, <1>8, <2>1 DEF MirrorFails, UnderWay
<1>9. QED
  BY <1>2, <1>5, <1>6, <1>7, <1>8

\* The lookup is over: the row is changed, or the command gives up and says so.
LEMMA ChangeRowInv ==
  ASSUME FollowInv, NEW f \in FollowCalls, ChangeRow(f)
  PROVE  FollowInv'
<1> USE DEF FollowInv
<1>1. /\ follows[f] \in FollowCall
      /\ AtMostOne(follows[f].creds) /\ AtMostOne(follows[f].found)
  BY DEF FollowTypeOK
<1>2. /\ UNCHANGED << credVars, network, holder, moves, sole >>
      /\ follows[f].at \in {"resolved", "unreachable"} /\ UnderWay(f)
  BY DEF ChangeRow, UnderWay
<1>3. CASE GivesUp(follows[f])
  <2> DEFINE run == [follows[f] EXCEPT !.at = "ended", !.warned = TRUE]
  <2>1. run \in FollowCall /\ run.at = "ended" /\ run.found = follows[f].found
          /\ run.wish = follows[f].wish /\ run.browse = follows[f].browse
          /\ run.target = follows[f].target /\ run.creds = follows[f].creds
          /\ run.warned = TRUE
    BY <1>1 DEF FollowCall
  <2>2. follows' = [follows EXCEPT ![f] = run] /\ UNCHANGED << credVars, mirrorVars >>
    BY <1>2, <1>3 DEF ChangeRow, mirrorVars
  <2> HIDE DEF run
  <2>3. QED
    BY <1>2, <2>1, <2>2, RunOnlyInv
<1>4. CASE ~ GivesUp(follows[f])
  <2> DEFINE at == IF Mirrors(follows[f]) THEN "mirroring" ELSE "ended"
             run == [follows[f] EXCEPT !.at = at]
  <2>1. /\ run \in FollowCall
        /\ run.at = at /\ run.found = follows[f].found
        /\ run.wish = follows[f].wish /\ run.browse = follows[f].browse
        /\ run.target = follows[f].target /\ run.creds = follows[f].creds
        /\ run.warned = follows[f].warned
    BY <1>1 DEF FollowCall
  <2>2. follows' = [follows EXCEPT ![f] = run] /\ rows' = NewRows(follows[f])
    BY <1>4 DEF ChangeRow
  <2> HIDE DEF run
  <2>3. /\ follows' \in [FollowCalls -> FollowCall] /\ follows'[f] = run
        /\ \A g \in FollowCalls \ {f} : follows'[g] = follows[g]
    BY <2>1, <2>2, RunMovedTo
  <2>4. Mirrors(run) <=> Mirrors(follows[f])
    BY <2>1 DEF Mirrors
  <2>5. FollowTypeOK'
    <3>1. \A g \in FollowCalls : AtMostOne(follows'[g].creds) /\ AtMostOne(follows'[g].found)
      BY <2>1, <2>3 DEF FollowTypeOK
    <3>2. follows[f].target \in {AtHandle, Handle} \cup Agents
            /\ follows[f].found \subseteq Agents
      BY <1>1, FollowAssumption DEF FollowCall, Targets
    <3>3. follows[f].wish = "follow" => FollowId(follows[f]) \subseteq {Handle} \cup Agents
      BY <1>4, <3>2 DEF GivesUp, FollowId
    <3>4. follows[f].wish \in {"follow", "unfollow"} /\ rows \subseteq {Handle} \cup Agents
      BY <1>1 DEF FollowCall, FollowTypeOK
    <3>5. rows' \subseteq {Handle} \cup Agents
      BY <2>2, <3>3, <3>4 DEF NewRows
    <3>6. QED
      BY <1>2, <2>3, <3>1, <3>5, TypeOfRest DEF FollowTypeOK
  <2>6. \A g \in FollowCalls : FoundHolder(g)' <=> FoundHolder(g)
    BY <1>2, <2>1, <2>3 DEF FoundHolder
  <2>7. RunsInv'
    BY <1>2, <2>1, <2>3, <2>4, <2>6 DEF RunsInv
  <2>8. RowIsWished(f)'
    <3>1. ASSUME NEW agent \in follows[f].found
          PROVE  follows[f].wish = "follow" <=> rows' \cap {agent, follows[f].target} # {}
      <4>1. FollowId(follows[f]) = {agent}
        BY <1>1, <3>1 DEF FollowId, AtMostOne
      <4>2. follows[f].wish \in {"follow", "unfollow"}
        BY <1>1 DEF FollowCall
      <4>3. QED
        BY <2>2, <4>1, <4>2 DEF NewRows
    <3>2. QED
      BY <2>1, <2>3, <3>1 DEF RowIsWished
  <2>9. ASSUME NEW g \in sole'
        PROVE  Uncrossed(g)'
    <3>1. g \in FollowCalls /\ Uncrossed(g)
      BY <1>2 DEF FollowTypeOK
    <3>2. g = f
      BY <1>2, <3>1 DEF Uncrossed
    <3>3. \A h \in FollowCalls \ {f} : ~ UnderWay(h)'
      BY <2>3, <3>1, <3>2 DEF Uncrossed, UnderWay
    <3>4. FoundHolder(f)'
      BY <1>2, <2>6, <3>1, <3>2 DEF Uncrossed
    <3>5. (run.at = "ended" /\ \E k \in run.creds : k.reg = run.browse) => NetworkIsWished(f)'
      <4>1. (run.at = "ended" /\ \E k \in run.creds : k.reg = run.browse) => run.found = {}
        BY <1>1, <2>1, <2>4 DEF Mirrors, AtMostOne
      <4>2. QED
        BY <2>3, <4>1 DEF NetworkIsWished
    <3>6. QED
      BY <2>1, <2>3, <2>8, <3>2, <3>3, <3>4, <3>5 DEF Uncrossed
  <2>10. OnlyMeantAreFollowed'
    <3>1. \A g \in FollowCalls : /\ follows'[g].found = follows[g].found
                                 /\ follows'[g].wish = follows[g].wish
                                 /\ follows'[g].browse = follows[g].browse
      BY <2>1, <2>3
    <3>2. QED
      BY <1>2, <3>1 DEF OnlyMeantAreFollowed
  <2>11. QED
    BY <1>2, <2>5, <2>7, <2>9, <2>10, CredInvStays
<1>5. QED
  BY <1>3, <1>4

\* The registry carries a mirrored request out, in time or late.
LEMMA MirrorTakenInv ==
  ASSUME FollowInv, NEW f \in FollowCalls, MirrorTaken(f) \/ MirrorTakenLate(f)
  PROVE  FollowInv'
<1> USE DEF FollowInv
<1>1. /\ follows[f] \in FollowCall
      /\ AtMostOne(follows[f].creds) /\ AtMostOne(follows[f].found)
  BY DEF FollowTypeOK
<1>2. PICK at \in {"taken", "ended"} :
        /\ MirrorCarriedOut(f, at)
        /\ follows[f].at = IF at = "taken" THEN "mirroring" ELSE "late"
  BY DEF MirrorTaken, MirrorTakenLate
<1>3. UNCHANGED << credVars, rows, holder, moves, sole >> /\ UnderWay(f)
  BY <1>2 DEF MirrorCarriedOut, UnderWay
<1>4. Mirrors(follows[f])
  BY <1>2 DEF RunsInv
<1> DEFINE run == [follows[f] EXCEPT !.at = at]
           home == follows[f].browse
<1>5. /\ run \in FollowCall
      /\ run.at = at /\ run.found = follows[f].found
      /\ run.wish = follows[f].wish /\ run.browse = follows[f].browse
      /\ run.target = follows[f].target /\ run.creds = follows[f].creds
      /\ run.warned = follows[f].warned
  BY <1>1 DEF FollowCall
<1>6. home \in Registries /\ network \in [Registries -> SUBSET Agents]
  BY <1>1 DEF FollowCall, FollowTypeOK
<1>7. network' = [network EXCEPT ![home] =
        IF follows[f].wish = "follow" THEN @ \cup holder[home] ELSE @ \ holder[home]]
  BY <1>2, <1>4 DEF MirrorCarriedOut, Mirrors
<1>8. follows' = [follows EXCEPT ![f] = run]
  BY <1>2 DEF MirrorCarriedOut
<1> HIDE DEF run
<1>9. /\ follows' \in [FollowCalls -> FollowCall] /\ follows'[f] = run
      /\ \A g \in FollowCalls \ {f} : follows'[g] = follows[g]
  BY <1>5, <1>8, RunMovedTo
<1>10. Mirrors(run)
  BY <1>4, <1>5 DEF Mirrors
<1>11. FollowTypeOK'
  <2>1. \A g \in FollowCalls : AtMostOne(follows'[g].creds) /\ AtMostOne(follows'[g].found)
    BY <1>5, <1>9 DEF FollowTypeOK
  <2>2. holder[home] \subseteq Agents
    BY <1>6 DEF FollowTypeOK
  <2>3. network' \in [Registries -> SUBSET Agents]
    BY <1>6, <1>7, <2>2
  <2>4. QED
    BY <1>3, <1>9, <2>1, <2>3, TypeOfRest DEF FollowTypeOK
<1>12. \A g \in FollowCalls : FoundHolder(g)' <=> FoundHolder(g)
  BY <1>3, <1>5, <1>9 DEF FoundHolder
<1>13. RunsInv'
  BY <1>3, <1>5, <1>9, <1>10, <1>12 DEF RunsInv
<1>14. ASSUME NEW g \in sole'
       PROVE  Uncrossed(g)'
  <2>1. g \in FollowCalls /\ Uncrossed(g)
    BY <1>3 DEF FollowTypeOK
  <2>2. g = f
    BY <1>3, <2>1 DEF Uncrossed
  <2>3. \A h \in FollowCalls \ {f} : ~ UnderWay(h)'
    BY <1>9, <2>1, <2>2 DEF Uncrossed, UnderWay
  <2>4. FoundHolder(f) /\ FoundHolder(f)'
    BY <1>2, <1>12, <2>1, <2>2 DEF Uncrossed
  <2>5. at = "ended" => run.warned
    BY <1>2, <1>5, <2>1, <2>2 DEF Uncrossed
  <2>6. ~ run.warned => RowIsWished(f)'
    <3>1. ~ run.warned => RowIsWished(f)
      BY <1>2, <1>5, <2>1, <2>2, <2>5 DEF Uncrossed
    <3>2. RowIsWished(f) => RowIsWished(f)'
      BY <1>3, <1>5, <1>9 DEF RowIsWished
    <3>3. QED
      BY <3>1, <3>2
  <2>7. NetworkIsWished(f)'
    <3>1. \A agent \in follows[f].found : holder[home] = {agent}
      BY <2>4 DEF FoundHolder
    <3>2. \A agent \in follows[f].found : follows[f].wish = "follow" <=> agent \in network'[home]
      BY <1>6, <1>7, <3>1
    <3>3. QED
      BY <1>5, <1>9, <3>2 DEF NetworkIsWished
  <2>8. QED
    BY <1>5, <1>9, <2>2, <2>3, <2>4, <2>5, <2>6, <2>7 DEF Uncrossed
<1>15. OnlyMeantAreFollowed'
  <2>1. \A g \in FollowCalls : /\ follows'[g].found = follows[g].found
                               /\ follows'[g].wish = follows[g].wish
                               /\ follows'[g].browse = follows[g].browse
    BY <1>5, <1>9
  <2>2. ASSUME moves' = 0, NEW r \in Registries, NEW agent \in network'[r]
        PROVE  \E g \in FollowCalls :
                 follows[g].wish = "follow" /\ follows[g].browse = r /\ agent \in follows[g].found
    <3>1. CASE agent \in network[r]
      BY <1>3, <2>2, <3>1 DEF OnlyMeantAreFollowed
    <3>2. CASE agent \notin network[r]
      <4>1. r = home /\ follows[f].wish = "follow" /\ agent \in holder[home]
        BY <1>6, <1>7, <2>2, <3>2
      <4>2. PICK other \in follows[f].found : TRUE
        BY <1>4 DEF Mirrors
      <4>3. holder[home] = {other}
        BY <1>3, <2>2 DEF RunsInv, FoundHolder
      <4>4. QED
        BY <4>1, <4>2, <4>3
    <3>3. QED
      BY <3>1, <3>2
  <2>3. QED
    BY <2>1, <2>2 DEF OnlyMeantAreFollowed
<1>16. QED
  BY <1>3, <1>11, <1>13, <1>14, <1>15, CredInvStays

\* The handle changes hands: from here on nothing is promised of whom it names.
LEMMA HandleMovesInv ==
  ASSUME FollowInv, NEW r \in Registries, HandleMoves(r)
  PROVE  FollowInv'
<1> USE DEF FollowInv
<1>1. PICK S \in SUBSET AgentsOf[r] : AtMostOne(S) /\ holder' = [holder EXCEPT ![r] = S]
  BY DEF HandleMoves
<1>2. /\ moves < MaxMoves /\ moves' = moves + 1 /\ sole' = {}
      /\ network' = [network EXCEPT ![r] = @ \ holder[r]]
      /\ UNCHANGED << credVars, follows, rows >>
  BY DEF HandleMoves
<1>3. moves \in Nat /\ MaxMoves \in Nat /\ moves' \in 0 .. MaxMoves /\ moves' # 0
  BY <1>2, FollowAssumption DEF FollowTypeOK
<1>4. UNCHANGED << file, server, calls, keys, overwritten >>
  BY <1>2 DEF credVars
<1>5. S \subseteq Agents
  BY DEF Agents
<1>6. FollowTypeOK'
  <2>1. CredTypeOK' /\ FollowCall' = FollowCall
    BY <1>4 DEF FollowTypeOK, CredTypeOK, FollowCall, Creds
  <2>2. holder' \in [Registries -> SUBSET Agents]
          /\ \A q \in Registries : holder'[q] \subseteq AgentsOf[q] /\ AtMostOne(holder'[q])
    BY <1>1, <1>5 DEF FollowTypeOK
  <2>3. network' \in [Registries -> SUBSET Agents]
    BY <1>2 DEF FollowTypeOK
  <2>4. QED
    BY <1>2, <1>3, <2>1, <2>2, <2>3 DEF FollowTypeOK
<1>7. RunsInv'
  BY <1>2, <1>3 DEF RunsInv, Mirrors
<1>8. OnlyMeantAreFollowed'
  BY <1>3 DEF OnlyMeantAreFollowed
<1>9. QED
  BY <1>2, <1>6, <1>7, <1>8, CredInvStays

\* Another command runs; with a registration goes what it followed.
LEMMA OtherCommandInv ==
  ASSUME FollowInv, OtherCommand
  PROVE  FollowInv'
<1> USE DEF FollowInv
<1>1. /\ CredNext /\ UNCHANGED << follows, rows, holder, moves >>
      /\ network' = [r \in Registries |-> IF server'[r].state = "free" THEN {} ELSE network[r]]
      /\ sole' = IF network' = network THEN sole ELSE {}
  BY DEF OtherCommand
<1>2. CredInv'
  BY <1>1, NextCredInv
<1>3. keys' \in {keys, keys + 1}
  BY <1>1 DEF CredNext, BeginRegister, BeginKeyed, RegistryTakes, RegistryTakesLate,
       CarriedOut, KeyIssued, KeyRevoked, AgentRemoved, RegistryRefuses, Answered, Lost,
       BeginSave, EndSave, SaveFails, Delete, DeleteFails
<1>4. network' \in [Registries -> SUBSET Agents]
        /\ \A r \in Registries : network'[r] \subseteq network[r]
  BY <1>1 DEF FollowTypeOK
<1>5. FollowTypeOK'
  <2>1. 1 .. keys \subseteq 1 .. keys'
    BY <1>3 DEF CredTypeOK, CredInv
  <2>2. Creds \subseteq Creds'
    BY <2>1 DEF Creds
  <2>3. FollowCall \subseteq FollowCall'
    BY <2>2 DEF FollowCall
  <2>4. follows \in [FollowCalls -> FollowCall'] 
    BY <2>3 DEF FollowTypeOK
  <2>5. QED
    BY <1>1, <1>2, <1>4, <2>4 DEF FollowTypeOK, CredInv
<1>6. RunsInv'
  BY <1>1 DEF RunsInv, FoundHolder, Mirrors
<1>7. ASSUME NEW g \in sole'
      PROVE  Uncrossed(g)'
  <2>1. network' = network /\ Uncrossed(g)
    BY <1>1
  <2>2. QED
    BY <1>1, <2>1 DEF Uncrossed, UnderWay, FoundHolder, RowIsWished, NetworkIsWished
<1>8. OnlyMeantAreFollowed'
  BY <1>1, <1>4 DEF OnlyMeantAreFollowed
<1>9. QED
  BY <1>2, <1>5, <1>6, <1>7, <1>8

LEMMA InitFollowInv == FollowInit => FollowInv
<1> SUFFICES ASSUME FollowInit PROVE FollowInv
  OBVIOUS
<1>1. CredInv
  BY InitCredInv DEF FollowInit
<1>2. AnyRegistry \in Registries
  BY CredAssumption DEF AnyRegistry
<1>3. FollowTypeOK
  <2>1. holder \in [Registries -> SUBSET Agents]
          /\ \A r \in Registries : holder[r] \subseteq AgentsOf[r] /\ AtMostOne(holder[r])
    BY FollowAssumption DEF FollowInit
  <2>2. moves \in 0 .. MaxMoves
    BY FollowAssumption DEF FollowInit
  <2>3. follows \in [FollowCalls -> FollowCall]
    BY <1>2 DEF FollowInit, FollowCall, Targets
  <2>4. QED
    BY <1>1, <2>1, <2>2, <2>3 DEF FollowInit, FollowTypeOK, CredInv, AtMostOne
<1>4. RunsInv
  BY DEF FollowInit, RunsInv, FoundHolder
<1>5. OnlyMeantAreFollowed
  BY DEF FollowInit, OnlyMeantAreFollowed
<1>6. QED
  BY <1>1, <1>3, <1>4, <1>5 DEF FollowInit, FollowInv

LEMMA NextFollowInv == FollowInv /\ [FollowNext]_<< credVars, followVars >> => FollowInv'
<1> SUFFICES ASSUME FollowInv, [FollowNext]_<< credVars, followVars >> PROVE FollowInv'
  OBVIOUS
<1>1. ASSUME NEW f \in FollowCalls, FollowStep(f)
      PROVE  FollowInv'
  BY <1>1, BeginFollowInv, RunOnlySteps, ChangeRowInv, MirrorTakenInv DEF FollowStep
<1>2. ASSUME NEW r \in Registries, HandleMoves(r)
      PROVE  FollowInv'
  BY <1>2, HandleMovesInv
<1>3. CASE OtherCommand
  BY <1>3, OtherCommandInv
<1>4. CASE UNCHANGED << credVars, followVars >>
  <2>1. UNCHANGED << file, server, calls, keys, overwritten, follows, rows, network, holder, moves, sole >>
    BY <1>4 DEF credVars, followVars, mirrorVars
  <2>2. CredInv'
    BY <1>4, CredInvStays DEF FollowInv
  <2>3. FollowTypeOK'
    BY <2>1, <2>2 DEF FollowInv, FollowTypeOK, CredInv, FollowCall, Creds
  <2>4. RunsInv' /\ OnlyMeantAreFollowed'
    BY <2>1 DEF FollowInv, RunsInv, FoundHolder, Mirrors, OnlyMeantAreFollowed
  <2>5. \A g \in sole' : Uncrossed(g)'
    BY <2>1 DEF FollowInv, Uncrossed, UnderWay, FoundHolder, RowIsWished, NetworkIsWished
  <2>6. QED
    BY <2>2, <2>3, <2>4, <2>5 DEF FollowInv
<1>5. QED
  BY <1>1, <1>2, <1>3, <1>4 DEF FollowNext

LEMMA FollowInvariant == FollowSpec => []FollowInv
<1>1. FollowInit => FollowInv
  BY InitFollowInv
<1>2. FollowInv /\ [FollowNext]_<< credVars, followVars >> => FollowInv'
  BY NextFollowInv
<1>3. QED
  BY <1>1, <1>2, PTL DEF FollowSpec

-----------------------------------------------------------------------------
(* The theorems *)

\* Everything the commands hold and store stays what its declaration says.
THEOREM FollowTypeCorrect == FollowSpec => []FollowTypeOK
<1>1. FollowInv => FollowTypeOK
  BY DEF FollowInv
<1>2. QED
  BY <1>1, FollowInvariant, PTL

\* saveCredentials and deleteCredentials against the registry: a stored key
\* that does not work is one that a command is replacing or removing, or one
\* whose answer, save or delete failed.
THEOREM StoredKeysWork == FollowSpec => []StoredKeyWorks
<1>1. FollowInv => StoredKeyWorks
  BY DEF FollowInv, CredInv
<1>2. QED
  BY <1>1, FollowInvariant, PTL

\* The registry shows a key once: a live registration whose key is not stored is
\* with the command that got it, or that command ended badly, or another command
\* erased that very key without having started from it.
THEOREM LiveKeysAreKept == FollowSpec => []LiveKeyKept
<1>1. FollowInv => LiveKeyKept
  BY DEF FollowInv, CredInv
<1>2. QED
  BY <1>1, FollowInvariant, PTL

\* follow and unfollow repair what an earlier run left half done: one that ends
\* without a warning, and that nothing crossed, leaves row and network as wished.
THEOREM RerunsRepair == FollowSpec => []RerunRepairs
<1>1. FollowInv => RerunRepairs
  <2> SUFFICES ASSUME FollowInv, NEW f \in sole,
                      follows[f].at = "ended", ~ follows[f].warned,
                      \E k \in follows[f].creds : k.reg = follows[f].browse
               PROVE  RowIsWished(f) /\ NetworkIsWished(f)
    BY DEF RerunRepairs, RowIsWished, NetworkIsWished
  <2>1. QED
    BY DEF FollowInv, Uncrossed
<1>2. QED
  BY <1>1, FollowInvariant, PTL

\* mirrorToNetwork never follows on the registry of the key an agent that was
\* looked up on another one.
THEOREM OnlyTheMeantAreFollowed == FollowSpec => []OnlyMeantAreFollowed
<1>1. FollowInv => OnlyMeantAreFollowed
  BY DEF FollowInv
<1>2. QED
  BY <1>1, FollowInvariant, PTL

\* The same of the commands of Credentials by themselves.
THEOREM KeysOfTheCommands == CredSpec => [](StoredKeyWorks /\ LiveKeyKept)
<1>1. CredInit => CredInv
  BY InitCredInv
<1>2. CredInv /\ [CredNext]_credVars => CredInv'
  BY NextCredInv
<1>3. CredInv => StoredKeyWorks /\ LiveKeyKept
  BY DEF CredInv
<1>4. QED
  BY <1>1, <1>2, <1>3, PTL DEF CredSpec

=============================================================================
