----------------------------- MODULE CardForms ------------------------------
(***************************************************************************)
(* The forms in which youagent makes, accepts, keeps and receives the      *)
(* cards of AgentCards: the schema and its factories                       *)
(* (src/schema/agent-card.schema.ts), the rows of AgentCardRepo            *)
(* (src/storage/agent-card-repo.ts) and the records of the registry        *)
(* (src/registry/registry-client.ts).                                      *)
(***************************************************************************)
EXTENDS AgentCards

-----------------------------------------------------------------------------
(* agentCardSchema *)

AcceptsExtensions(youagent) ==
  /\ HandleAccepted(youagent.handle)
  /\ youagent.interests # {}
  /\ youagent.cadence # ""

\* agentCardObjectSchema, on a card that has been upgraded.
AcceptsObject(card) ==
  LET interfaces == FieldOr(card, "supportedInterfaces", << >>) IN
  /\ Has(card, "name")
  /\ interfaces # << >>
  /\ \A e \in Range(interfaces) :
       {"url", "protocolBinding", "protocolVersion"} \subseteq DOMAIN e
  /\ Has(card, "url") => card.url \in AbsoluteUrls
  /\ Has(card, "provider") => Has(card.provider, "organization")
  /\ isYouAgent(card) => AcceptsExtensions(card.youagent)

Accepts(raw) == AcceptsObject(normalizeAgentCard(raw))

\* What parse() returns: unknown fields are stripped, absent ones get their
\* defaults.
CardFields ==
  {"name", "supportedInterfaces", "provider", "capabilities", "skills",
   "securityRequirements", "url", "protocolVersion", "youagent"}

Parsed(raw) ==
  LET upgraded == normalizeAgentCard(raw)
      card == Default(Restrict(upgraded, DOMAIN upgraded \cap CardFields), "skills", << >>)
  IN  Put(card, "capabilities",
          Default(FieldOr(card, "capabilities", << >>), "pushNotifications", FALSE))

jsonRpcEndpoint(url) ==
  [supportedInterfaces |->
     << [url |-> url, protocolBinding |-> JsonRpc, protocolVersion |-> JsonRpcVersion] >>,
   url |-> url, protocolVersion |-> JsonRpcVersion]

\* The card of an agent of ours, with the id that the schema draws for it.
createAgentCard(id, handle, name, interests) ==
  Parsed(Merged(
    [name |-> name, skills |-> << interests, {"investigation", "deep-dive"} >>,
     capabilities |-> [pushNotifications |-> FALSE],
     youagent |-> [id |-> id, handle |-> handle, interests |-> interests, cadence |-> "6h"]],
    jsonRpcEndpoint(LocalUrl)))

-----------------------------------------------------------------------------
(* AgentCardRepo *)

\* Mutant: the cadence is not kept.
RowWithoutCadence(card) ==
  [id |-> getAgentIdentifier(card).id, handle |-> getAgentIdentifier(card).handle,
   name |-> card.name, interests |-> getEffectiveInterests(card), cadence |-> "",
   capabilities |-> card.capabilities, external |-> ~ isYouAgent(card)]

toRow(card) ==
  [id |-> getAgentIdentifier(card).id, handle |-> getAgentIdentifier(card).handle,
   name |-> card.name, interests |-> getEffectiveInterests(card),
   cadence |-> IF isYouAgent(card) THEN card.youagent.cadence ELSE "",
   capabilities |-> card.capabilities, external |-> ~ isYouAgent(card)]

\* Mutant: an agent of ours comes back without its interests.
RowWithoutInterests(row) ==
  LET card == Merged([name |-> row.name, capabilities |-> row.capabilities, skills |-> << >>],
                     jsonRpcEndpoint(LocalUrl))
  IN  IF row.external THEN card
      ELSE Put(card, "youagent", [id |-> row.id, handle |-> row.handle, interests |-> {},
                                  cadence |-> row.cadence])

\* The row has no url: every card comes back with the local one.
rowToAgentCard(row) ==
  LET tags == IF row.external /\ row.interests # {} THEN << row.interests >> ELSE << >>
      card == Merged([name |-> row.name, capabilities |-> row.capabilities, skills |-> tags],
                     jsonRpcEndpoint(LocalUrl))
  IN  IF row.external THEN card
      ELSE Put(card, "youagent", [id |-> row.id, handle |-> row.handle,
                                  interests |-> row.interests, cadence |-> row.cadence])

-----------------------------------------------------------------------------
(* RegistryClient: entries of the registry *)

\* A flat record, as opposed to a card.
isAgentRecord(entry) == Has(entry, "displayName") /\ ~ Has(entry, "name")

\* Cards are upgraded, not validated.  urlOf is where the registry serves an
\* agent of its own.
toAgentCard(entry, urlOf) ==
  IF ~ isAgentRecord(entry) THEN normalizeAgentCard(entry)
  ELSE LET url == urlOf[entry.handle] IN
       [name |-> entry.displayName,
        supportedInterfaces |->
          << [url |-> url, protocolBinding |-> JsonRpc, protocolVersion |-> "0.2.0"] >>,
        url |-> url, protocolVersion |-> "0.2.0", capabilities |-> << >>, skills |-> << >>,
        youagent |-> [id |-> entry.id, handle |-> entry.handle,
                      interests |-> entry.interests, cadence |-> ""]]
=============================================================================
