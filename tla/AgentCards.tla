----------------------------- MODULE AgentCards -----------------------------
(***************************************************************************)
(* Agent cards (src/types/agent-card.ts), their upgrade from any revision  *)
(* of A2A to v1.0, the schema that accepts them                            *)
(* (src/schema/agent-card.schema.ts), and the records and rows they are    *)
(* rebuilt from (src/registry/registry-client.ts,                          *)
(* src/storage/agent-card-repo.ts).                                        *)
(*                                                                         *)
(* A card is a record whose DOMAIN is the fields it has.  A field is absent *)
(* or well typed; description, version, modes, tenants and signatures,     *)
(* which nothing depends on, are left out.  A skill is its set of tags, an *)
(* interest its topic, and topics are lower-case.                          *)
(***************************************************************************)
EXTENDS Naturals, Sequences, SequencesExt

CONSTANTS
  AbsoluteUrls,  \* the urls new URL() takes; an interface may have others, host:port
  LocalUrl,      \* http://localhost:3141
  NoUrl          \* the url of a card without one, ""

Has(r, field) == field \in DOMAIN r

\* The fields of r, and of s those that r lacks.
Merged(r, s) == [f \in DOMAIN r \cup DOMAIN s |-> IF Has(r, f) THEN r[f] ELSE s[f]]

Put(r, field, value) == Merged([f \in {field} |-> value], r)

Without(r, fields) == Restrict(r, DOMAIN r \ fields)

\* r, with field set if it has none.
Default(r, field, value) == Merged(r, [f \in {field} |-> value])

FieldOr(r, field, value) == IF Has(r, field) THEN r[field] ELSE value

-----------------------------------------------------------------------------
(* Names and handles: a text is its word, the length of its slug before it *)
(* is cut, and whether the cut falls right behind a hyphen.                *)

MaxHandle == 32

slugify(text) ==
  [word |-> text.word,
   length |-> IF text.length > MaxHandle THEN MaxHandle ELSE text.length,
   hyphen |-> text.length > MaxHandle /\ text.cut]

HandleAccepted(handle) == handle.length \in 3 .. MaxHandle /\ ~ handle.hyphen

-----------------------------------------------------------------------------
(* What a reader takes from a card *)

JsonRpc == "JSONRPC"
JsonRpcVersion == "0.2.1"

getPrimaryInterface(card) ==
  IF FieldOr(card, "supportedInterfaces", << >>) # << >>
    THEN Head(card.supportedInterfaces)
    ELSE [url |-> FieldOr(card, "url", NoUrl), protocolBinding |-> JsonRpc,
          protocolVersion |-> FieldOr(card, "protocolVersion", JsonRpcVersion)]

getAgentUrl(card) ==
  FieldOr(getPrimaryInterface(card), "url", FieldOr(card, "url", NoUrl))

\* An empty url is none.
HasUrl(card) == FieldOr(card, "url", NoUrl) # NoUrl

isYouAgent(card) == Has(card, "youagent")

\* What A2A asks of a card in all its revisions: it has a name, its interfaces
\* have urls, and it has none to add to an address that it lacks.
IsCard(raw) ==
  LET interfaces(field) == FieldOr(raw, field, << >>) IN
  /\ Has(raw, "name")
  /\ \A field \in {"supportedInterfaces", "additionalInterfaces"} :
       /\ interfaces(field) \in Seq(Range(interfaces(field)))
       /\ \A e \in Range(interfaces(field)) : Has(e, "url")
  /\ \/ HasUrl(raw) \/ interfaces("supportedInterfaces") # << >>
     \/ interfaces("additionalInterfaces") = << >>

getEffectiveInterests(card) ==
  IF isYouAgent(card) THEN card.youagent.interests ELSE UNION Range(card.skills)

\* Mutant: the top-level url tells external agents apart.
IdentifiedByUrl(card) ==
  IF isYouAgent(card) THEN [id |-> card.youagent.id, handle |-> card.youagent.handle]
  ELSE [id |-> FieldOr(card, "url", NoUrl), handle |-> slugify(card.name)]

getAgentIdentifier(card) ==
  IF isYouAgent(card) THEN [id |-> card.youagent.id, handle |-> card.youagent.handle]
  ELSE [id |-> getAgentUrl(card), handle |-> slugify(card.name)]

-----------------------------------------------------------------------------
(* The upgrade to v1.0 *)

\* However the transport is written.
toProtocolBinding(transport) ==
  CASE transport \in {"jsonrpc", "json-rpc"} -> JsonRpc
    [] transport = "grpc" -> "GRPC"
    [] transport \in {"rest", "http", "http+json", "http_json"} -> "HTTP+JSON"
    [] OTHER -> transport

normalizeInterface(e, version) ==
  LET bound == IF Has(e, "transport")
                 THEN Default(e, "protocolBinding", toProtocolBinding(e.transport))
                 ELSE e
  IN  Default(Without(bound, {"transport"}), "protocolVersion", version)

\* The interfaces of a card: its own, or else its url, and then the others a
\* pre-1.0 card has.
Interfaces(raw) ==
  LET version == FieldOr(raw, "protocolVersion", JsonRpcVersion)
      upgraded(field) == [i \in DOMAIN FieldOr(raw, field, << >>) |->
                            normalizeInterface(raw[field][i], version)]
      binding == IF Has(raw, "preferredTransport")
                   THEN toProtocolBinding(raw.preferredTransport) ELSE JsonRpc
      main == IF upgraded("supportedInterfaces") # << >> \/ ~ HasUrl(raw)
                THEN upgraded("supportedInterfaces")
                ELSE << [url |-> raw.url, protocolBinding |-> binding,
                         protocolVersion |-> version] >>
  IN  main \o upgraded("additionalInterfaces")

upgradeEndpoints(raw) ==
  LET card == Without(raw, {"preferredTransport", "additionalInterfaces"})
      interfaces == Interfaces(raw)
  IN  IF interfaces = << >> THEN card
      ELSE LET listed == Put(card, "supportedInterfaces", interfaces) IN
           IF Has(interfaces[1], "url") /\ ~ HasUrl(raw)
             THEN Put(listed, "url", interfaces[1].url)
             ELSE listed

\* provider.name is provider.organization.
upgradeProvider(card) ==
  IF ~ Has(card, "provider") THEN card
  ELSE LET p == card.provider
           named == IF Has(p, "name") THEN Default(p, "organization", p.name) ELSE p
       IN  Put(card, "provider", Without(named, {"name"}))

\* supportsAuthenticatedExtendedCard is capabilities.extendedAgentCard.
upgradeCapabilities(card) ==
  LET legacy == "supportsAuthenticatedExtendedCard"
      capabilities == FieldOr(card, "capabilities", << >>)
      extended == Default(capabilities, "extendedAgentCard", card[legacy])
  IN  IF Has(card, legacy) THEN Without(Put(card, "capabilities", extended), {legacy})
      ELSE card

\* A requirement of a pre-1.0 card is the scopes by scheme.
upgradeRequirement(requirement) ==
  IF Has(requirement, "schemes") THEN requirement
  ELSE [schemes |-> [scheme \in DOMAIN requirement |-> [list |-> requirement[scheme]]]]

upgradeSecurity(card) ==
  LET requirements == [i \in DOMAIN card.security |-> upgradeRequirement(card.security[i])]
  IN  IF Has(card, "security")
        THEN Without(Default(card, "securityRequirements", requirements), {"security"})
        ELSE card

normalizeAgentCard(raw) ==
  upgradeSecurity(upgradeCapabilities(upgradeProvider(upgradeEndpoints(raw))))

\* The strict card: no legacy fields.
toV1AgentCard(card) ==
  Put(Without(card, {"url", "protocolVersion"}), "capabilities",
      Without(FieldOr(card, "capabilities", << >>), {"stateTransitionHistory"}))
=============================================================================
