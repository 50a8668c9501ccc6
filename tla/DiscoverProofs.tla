--------------------------- MODULE DiscoverProofs ---------------------------
(***************************************************************************)
(* Theorems about Discover, for every card, registry and owner.  The first *)
(* part is about the first of an ordered set; the second about the         *)
(* conversions of AgentCards and CardForms, on any card; the third about   *)
(* the steps of Discover.                                                  *)
(***************************************************************************)
EXTENDS Discover, FoldTheorems

-----------------------------------------------------------------------------
(* The first of a finite set, by a strict order *)

StrictOrder(S, before) ==
  /\ \A a \in S : << a, a >> \notin before
  /\ \A a, b \in S : a # b => << a, b >> \in before \/ << b, a >> \in before
  /\ \A a, b, c \in S : << a, b >> \in before /\ << b, c >> \in before => << a, c >> \in before

LEMMA OrderOfSubset ==
  ASSUME NEW S, NEW before, StrictOrder(S, before), NEW T \in SUBSET S
  PROVE  StrictOrder(T, before)
BY DEF StrictOrder

Before(S, before, a) == { b \in S : << b, a >> \in before }

LEMMA BeforeIsFinite ==
  ASSUME NEW S, IsFiniteSet(S), NEW before, NEW a
  PROVE  IsFiniteSet(Before(S, before, a)) /\ Cardinality(Before(S, before, a)) \in Nat
<1>1. Before(S, before, a) \subseteq S
  BY DEF Before
<1> QED
  BY <1>1, FS_Subset, FS_CardinalityType

LEMMA HasFirst ==
  ASSUME NEW S, IsFiniteSet(S), S # {}, NEW before, StrictOrder(S, before)
  PROVE  \E m \in S : \A a \in S : a # m => << m, a >> \in before
<1> DEFINE counts == { Cardinality(Before(S, before, a)) : a \in S }
<1>1. counts \in SUBSET Nat /\ counts # {}
  BY BeforeIsFinite
<1>2. PICK n \in counts : \A k \in counts : n <= k
  <2> HIDE DEF counts
  <2> QED
    BY <1>1, Least
<1>3. PICK m \in S : n = Cardinality(Before(S, before, m))
  OBVIOUS
<1>4. ASSUME NEW x \in Before(S, before, m) PROVE FALSE
  <2>1. x \in S /\ << x, m >> \in before
    BY DEF Before
  <2>2. Before(S, before, x) \subseteq Before(S, before, m)
    BY <2>1 DEF Before, StrictOrder
  <2>3. x \notin Before(S, before, x)
    BY <2>1 DEF Before, StrictOrder
  <2>4. Cardinality(Before(S, before, x)) < Cardinality(Before(S, before, m))
    BY <2>2, <2>3, BeforeIsFinite, FS_Subset, FS_CardinalityType
  <2>5. n <= Cardinality(Before(S, before, x))
    BY <1>2, <2>1
  <2> QED
    BY <1>3, <2>4, <2>5, BeforeIsFinite
<1> QED
  BY <1>4 DEF Before, StrictOrder

LEMMA FirstOfNext ==
  ASSUME NEW S, IsFiniteSet(S), NEW before, StrictOrder(S, before), NEW n \in Nat,
         n < Cardinality(S), Cardinality(FirstOf(n, S, before)) = n
  PROVE  Cardinality(FirstOf(n + 1, S, before)) = n + 1
<1> DEFINE F == FirstOf(n, S, before)
           rest == S \ F
<1>1. F \subseteq S /\ IsFiniteSet(F)
  BY FS_Subset DEF FirstOf
<1>2. rest \subseteq S /\ IsFiniteSet(rest) /\ rest # {}
  <2>1. rest \in SUBSET S
    OBVIOUS
  <2>2. IsFiniteSet(rest)
    BY <2>1, FS_Subset
  <2>3. F # S
    OBVIOUS
  <2> QED
    BY <1>1, <2>2, <2>3
<1>3. PICK m \in rest : \A a \in rest : a # m => << m, a >> \in before
  <2> HIDE DEF rest
  <2>1. StrictOrder(rest, before)
    BY <1>2, OrderOfSubset
  <2> QED
    BY <1>2, <2>1, HasFirst
<1>4. \A a \in S : a \in F <=> Cardinality(Before(S, before, a)) < n
  BY DEF FirstOf, Before
<1>5. \A a \in S : a \in FirstOf(n + 1, S, before) <=> Cardinality(Before(S, before, a)) < n + 1
  BY DEF FirstOf, Before
<1>6. Before(S, before, m) = F
  <2>1. ASSUME NEW b \in Before(S, before, m) PROVE b \in F
    BY <1>3 DEF Before, StrictOrder
  <2>2. ASSUME NEW x \in F PROVE x \in Before(S, before, m)
    <3>1. SUFFICES ASSUME << m, x >> \in before PROVE FALSE
      BY <1>1, <1>3 DEF Before, StrictOrder
    <3>2. Before(S, before, m) \subseteq Before(S, before, x)
      BY <1>1, <1>3, <3>1 DEF Before, StrictOrder
    <3>3. Cardinality(Before(S, before, m)) <= Cardinality(Before(S, before, x))
      BY <3>2, BeforeIsFinite, FS_Subset
    <3>4. Cardinality(Before(S, before, x)) < n
      BY <1>1, <1>4
    <3>5. ~ (Cardinality(Before(S, before, m)) < n)
      BY <1>3, <1>4
    <3> QED
      BY <3>3, <3>4, <3>5, BeforeIsFinite
  <2> QED
    BY <2>1, <2>2
<1>7. FirstOf(n + 1, S, before) = F \cup {m}
  <2>1. F \cup {m} \subseteq FirstOf(n + 1, S, before)
    BY <1>1, <1>3, <1>4, <1>5, <1>6, BeforeIsFinite
  <2>2. ASSUME NEW y \in FirstOf(n + 1, S, before), y \notin F, y # m PROVE FALSE
    <3>1. y \in rest /\ << m, y >> \in before
      BY <1>3, <2>2 DEF FirstOf
    <3>2. F \cup {m} \subseteq Before(S, before, y)
      BY <1>3, <1>6, <3>1 DEF Before, StrictOrder
    <3>3. Cardinality(F \cup {m}) = n + 1
      BY <1>1, <1>3, FS_AddElement
    <3>4. n + 1 <= Cardinality(Before(S, before, y))
      BY <3>2, <3>3, BeforeIsFinite, FS_Subset
    <3>5. Cardinality(Before(S, before, y)) < n + 1
      BY <1>5, <3>1
    <3> QED
      BY <3>4, <3>5, BeforeIsFinite
  <2> QED
    BY <2>1, <2>2
<1> QED
  BY <1>1, <1>3, <1>7, FS_AddElement

\* There are as many as are asked for, or all of them.
LEMMA FirstOfSize ==
  ASSUME NEW S, IsFiniteSet(S), NEW before, StrictOrder(S, before), NEW n \in Nat
  PROVE  /\ FirstOf(n, S, before) \subseteq S
         /\ Cardinality(FirstOf(n, S, before)) =
              IF n < Cardinality(S) THEN n ELSE Cardinality(S)
<1> DEFINE size == Cardinality(S)
           sized == { k \in Nat : Cardinality(FirstOf(k, S, before)) = k }
<1>1. size \in Nat
  BY FS_CardinalityType
<1>2. \A k : FirstOf(k, S, before) \subseteq S
  BY DEF FirstOf
<1>3. FirstOf(0, S, before) = {}
  <2>1. \A a \in S : Cardinality(Before(S, before, a)) \in Nat
    BY BeforeIsFinite
  <2>2. \A a : a \in FirstOf(0, S, before) => a \in S /\ Cardinality(Before(S, before, a)) < 0
    BY DEF FirstOf, Before
  <2> QED
    BY <2>1, <2>2
<1>4. 0 \in sized
  BY <1>3, FS_EmptySet
<1>5. ASSUME NEW k \in 0 .. size, k \in sized, k + 1 <= size PROVE k + 1 \in sized
  <2>1. k \in Nat /\ k < size /\ Cardinality(FirstOf(k, S, before)) = k
    BY <1>1, <1>5
  <2> QED
    BY <2>1, FirstOfNext
<1>6. 0 .. size \subseteq sized
  <2> HIDE DEF size, sized
  <2> QED
    BY <1>1, <1>4, <1>5, BoundedInduction
<1>7. CASE n < size
  BY <1>1, <1>2, <1>6, <1>7
<1>8. CASE ~ (n < size)
  <2>1. Cardinality(FirstOf(size, S, before)) = size
    BY <1>1, <1>6
  <2>2. FirstOf(size, S, before) = S
    BY <1>2, <2>1, FS_Subset
  <2>3. FirstOf(size, S, before) \subseteq FirstOf(n, S, before)
    <3>1. ASSUME NEW a \in FirstOf(size, S, before) PROVE a \in FirstOf(n, S, before)
      <4>1. a \in S /\ Cardinality(Before(S, before, a)) < size
        BY DEF FirstOf, Before
      <4>2. Cardinality(Before(S, before, a)) < n
        BY <1>1, <1>8, <4>1, BeforeIsFinite
      <4> QED
        BY <4>1, <4>2 DEF FirstOf, Before
    <3> QED
      BY <3>1
  <2> QED
    BY <1>2, <1>8, <2>2, <2>3
<1> QED
  BY <1>7, <1>8

-----------------------------------------------------------------------------
(* Fields of records *)

LEMMA PutFields ==
  ASSUME NEW r, NEW field, NEW value
  PROVE  /\ \A f : Has(Put(r, field, value), f) <=> f = field \/ Has(r, f)
         /\ Put(r, field, value)[field] = value
         /\ \A f : f # field /\ Has(r, f) => Put(r, field, value)[f] = r[f]
BY DEF Put, Merged, Has

LEMMA DefaultFields ==
  ASSUME NEW r, NEW field, NEW value
  PROVE  /\ \A f : Has(Default(r, field, value), f) <=> f = field \/ Has(r, f)
         /\ ~ Has(r, field) => Default(r, field, value)[field] = value
         /\ \A f : Has(r, f) => Default(r, field, value)[f] = r[f]
BY DEF Default, Merged, Has

LEMMA DefaultValue ==
  ASSUME NEW r, NEW field, NEW value
  PROVE  FieldOr(Default(r, field, value), field, value) = FieldOr(r, field, value)
<1>1. /\ Has(Default(r, field, value), field)
      /\ ~ Has(r, field) => Default(r, field, value)[field] = value
      /\ Has(r, field) => Default(r, field, value)[field] = r[field]
  BY DefaultFields
<1> QED
  BY <1>1 DEF FieldOr

LEMMA WithoutFields ==
  ASSUME NEW r, NEW fields
  PROVE  /\ \A f : Has(Without(r, fields), f) <=> Has(r, f) /\ f \notin fields
         /\ \A f : Has(r, f) /\ f \notin fields => Without(r, fields)[f] = r[f]
BY DEF Without, Restrict, Has

\* A field that both have, and alike, or neither has.
SameField(c, d, f) == (Has(c, f) <=> Has(d, f)) /\ (Has(d, f) => c[f] = d[f])

LEMMA SameValue ==
  ASSUME NEW c, NEW d, NEW f, SameField(c, d, f), NEW value
  PROVE  FieldOr(c, f, value) = FieldOr(d, f, value)
BY DEF SameField, FieldOr

-----------------------------------------------------------------------------
(* What the upgrade of a card leaves alone *)

LEMMA EndpointsKept ==
  ASSUME NEW raw, NEW f,
         f \notin {"preferredTransport", "additionalInterfaces", "supportedInterfaces", "url"}
  PROVE  SameField(upgradeEndpoints(raw), raw, f)
<1> DEFINE card == Without(raw, {"preferredTransport", "additionalInterfaces"})
           interfaces == Interfaces(raw)
           listed_ == Put(card, "supportedInterfaces", interfaces)
<1>1. SameField(card, raw, f)
  BY WithoutFields DEF SameField
<1>2. SameField(listed_, raw, f)
  <2> HIDE DEF card, interfaces
  <2> QED
    BY <1>1, PutFields DEF SameField
<1>3. SameField(Put(listed_, "url", interfaces[1].url), raw, f)
  <2> HIDE DEF listed_, interfaces
  <2> QED
    BY <1>2, PutFields DEF SameField
<1>4. upgradeEndpoints(raw) \in {card, listed_, Put(listed_, "url", interfaces[1].url)}
  BY DEF upgradeEndpoints
<1> HIDE DEF card, interfaces, listed_
<1> QED
  BY <1>1, <1>2, <1>3, <1>4

LEMMA ProviderKept ==
  ASSUME NEW card, NEW f, f # "provider"
  PROVE  SameField(upgradeProvider(card), card, f)
<1> DEFINE p == card.provider
           named == IF Has(p, "name") THEN Default(p, "organization", p.name) ELSE p
           provider == Without(named, {"name"})
<1>1. upgradeProvider(card) = card \/ upgradeProvider(card) = Put(card, "provider", provider)
  BY DEF upgradeProvider
<1> HIDE DEF provider
<1> QED
  BY <1>1, PutFields DEF SameField

LEMMA CapabilitiesKept ==
  ASSUME NEW card, NEW f, f \notin {"capabilities", "supportsAuthenticatedExtendedCard"}
  PROVE  SameField(upgradeCapabilities(card), card, f)
<1> DEFINE legacy == "supportsAuthenticatedExtendedCard"
           extended == Default(FieldOr(card, "capabilities", << >>), "extendedAgentCard",
                               card[legacy])
           put == Put(card, "capabilities", extended)
<1>1. upgradeCapabilities(card) = card \/ upgradeCapabilities(card) = Without(put, {legacy})
  BY DEF upgradeCapabilities
<1>2. SameField(put, card, f)
  <2> HIDE DEF extended
  <2> QED
    BY PutFields DEF SameField
<1>3. SameField(Without(put, {legacy}), card, f)
  <2> HIDE DEF put
  <2> QED
    BY <1>2, WithoutFields DEF SameField
<1> HIDE DEF put
<1> QED
  BY <1>1, <1>3 DEF SameField

LEMMA SecurityKept ==
  ASSUME NEW card, NEW f, f \notin {"security", "securityRequirements"}
  PROVE  SameField(upgradeSecurity(card), card, f)
<1> DEFINE requirements == [i \in DOMAIN card.security |-> upgradeRequirement(card.security[i])]
           filled == Default(card, "securityRequirements", requirements)
<1>1. upgradeSecurity(card) = card \/ upgradeSecurity(card) = Without(filled, {"security"})
  BY DEF upgradeSecurity
<1>2. SameField(filled, card, f)
  <2> HIDE DEF requirements
  <2> QED
    BY DefaultFields DEF SameField
<1>3. SameField(Without(filled, {"security"}), card, f)
  <2> HIDE DEF filled
  <2> QED
    BY <1>2, WithoutFields DEF SameField
<1> HIDE DEF filled
<1> QED
  BY <1>1, <1>3 DEF SameField

LEMMA SameFieldTrans ==
  ASSUME NEW a, NEW b, NEW c, NEW f, SameField(a, b, f), SameField(b, c, f)
  PROVE  SameField(a, c, f)
BY DEF SameField

\* The endpoints are what upgradeEndpoints makes them.
LEMMA RestKept ==
  ASSUME NEW raw, NEW f,
         f \notin {"provider", "capabilities", "supportsAuthenticatedExtendedCard", "security",
                   "securityRequirements"}
  PROVE  SameField(normalizeAgentCard(raw), upgradeEndpoints(raw), f)
<1> DEFINE a == upgradeEndpoints(raw)
           b == upgradeProvider(a)
           c == upgradeCapabilities(b)
<1>1. normalizeAgentCard(raw) = upgradeSecurity(c)
  BY DEF normalizeAgentCard
<1>2. SameField(b, a, f) /\ SameField(c, b, f) /\ SameField(upgradeSecurity(c), c, f)
  BY ProviderKept, CapabilitiesKept, SecurityKept
<1> HIDE DEF a, b, c
<1>3. SameField(c, a, f)
  BY <1>2, SameFieldTrans
<1>4. SameField(upgradeSecurity(c), a, f)
  BY <1>2, <1>3, SameFieldTrans
<1> QED
  BY <1>1, <1>4 DEF a

\* Names, skills and the extensions of ours pass through the upgrade.
LEMMA UpgradeKeeps ==
  ASSUME NEW raw, NEW f \in {"name", "skills", "youagent", "protocolVersion"}
  PROVE  SameField(normalizeAgentCard(raw), raw, f)
<1>1. SameField(normalizeAgentCard(raw), upgradeEndpoints(raw), f)
  BY RestKept
<1>2. SameField(upgradeEndpoints(raw), raw, f)
  BY EndpointsKept
<1> QED
  BY <1>1, <1>2, SameFieldTrans

-----------------------------------------------------------------------------
(* The interfaces of a card and its address *)

Supported(card) == FieldOr(card, "supportedInterfaces", << >>)
Additional(card) == FieldOr(card, "additionalInterfaces", << >>)

LEMMA CardParts ==
  ASSUME NEW raw, IsCard(raw)
  PROVE  /\ Has(raw, "name")
         /\ Supported(raw) \in Seq(Range(Supported(raw)))
         /\ Additional(raw) \in Seq(Range(Additional(raw)))
         /\ \A i \in DOMAIN Supported(raw) : Has(Supported(raw)[i], "url")
         /\ \A i \in DOMAIN Additional(raw) : Has(Additional(raw)[i], "url")
         /\ HasUrl(raw) \/ Supported(raw) # << >> \/ Additional(raw) = << >>
BY DEF IsCard, Supported, Additional, Range

LEMMA CardOf ==
  ASSUME NEW c, Has(c, "name"),
         NEW E, Supported(c) \in Seq(E), \A i \in DOMAIN Supported(c) : Has(Supported(c)[i], "url"),
         ~ Has(c, "additionalInterfaces")
  PROVE  IsCard(c)
<1>1. Additional(c) = << >>
  BY DEF Additional, FieldOr
<1>2. Additional(c) \in Seq(Range(Additional(c)))
  BY <1>1
<1>3. Supported(c) \in Seq(Range(Supported(c)))
  <2>1. Len(Supported(c)) \in Nat /\ Supported(c) = [i \in 1 .. Len(Supported(c)) |-> Supported(c)[i]]
    OBVIOUS
  <2>2. \A i \in 1 .. Len(Supported(c)) : Supported(c)[i] \in Range(Supported(c))
    BY DEF Range
  <2> QED
    BY <2>1, <2>2
<1>4. \A e \in Range(Supported(c)) : Has(e, "url")
  BY DEF Range
<1>5. \A e \in Range(Additional(c)) : Has(e, "url")
  BY <1>1 DEF Range
<1> QED
  BY <1>1, <1>2, <1>3, <1>4, <1>5 DEF IsCard, Supported, Additional

\* The preferred interface has the address, or else the card itself.
LEMMA Address ==
  ASSUME NEW c, IsCard(c)
  PROVE  getAgentUrl(c) = IF Supported(c) # << >> THEN Supported(c)[1].url
                          ELSE FieldOr(c, "url", NoUrl)
<1>1. CASE Supported(c) # << >>
  <2>1. Supported(c) = c.supportedInterfaces
    BY <1>1 DEF Supported, FieldOr
  <2>2. getPrimaryInterface(c) = Head(Supported(c))
    BY <1>1, <2>1 DEF getPrimaryInterface, Supported
  <2>3. Supported(c) \in Seq(Range(Supported(c)))
    BY CardParts
  <2>4. Head(Supported(c)) = Supported(c)[1] /\ 1 \in DOMAIN Supported(c)
    BY <1>1, <2>3
  <2>5. Has(Head(Supported(c)), "url")
    BY <2>4, CardParts
  <2> QED
    BY <1>1, <2>2, <2>4, <2>5 DEF getAgentUrl, FieldOr
<1>2. CASE Supported(c) = << >>
  <2> DEFINE i == [url |-> FieldOr(c, "url", NoUrl), protocolBinding |-> JsonRpc,
                   protocolVersion |-> FieldOr(c, "protocolVersion", JsonRpcVersion)]
  <2>1. getPrimaryInterface(c) = i
    BY <1>2 DEF getPrimaryInterface, Supported
  <2>2. Has(i, "url") /\ i.url = FieldOr(c, "url", NoUrl)
    BY DEF Has
  <2>3. getAgentUrl(c) = FieldOr(i, "url", FieldOr(c, "url", NoUrl))
    BY <2>1 DEF getAgentUrl
  <2> HIDE DEF i
  <2> QED
    BY <1>2, <2>2, <2>3 DEF FieldOr
<1> QED
  BY <1>1, <1>2

LEMMA InterfaceFields ==
  ASSUME NEW e, NEW v
  PROVE  /\ Has(normalizeInterface(e, v), "url") <=> Has(e, "url")
         /\ Has(e, "url") => normalizeInterface(e, v).url = e.url
         /\ Has(normalizeInterface(e, v), "protocolVersion")
         /\ ~ Has(normalizeInterface(e, v), "transport")
         /\ Has(normalizeInterface(e, v), "protocolBinding")
              <=> Has(e, "protocolBinding") \/ Has(e, "transport")
<1> DEFINE bound == IF Has(e, "transport")
                      THEN Default(e, "protocolBinding", toProtocolBinding(e.transport))
                      ELSE e
           bare == Without(bound, {"transport"})
<1>1. /\ Has(bound, "url") <=> Has(e, "url")
      /\ Has(e, "url") => bound.url = e.url
      /\ Has(bound, "protocolBinding") <=> Has(e, "protocolBinding") \/ Has(e, "transport")
  BY DefaultFields
<1>2. /\ Has(bare, "url") <=> Has(e, "url")
      /\ Has(e, "url") => bare.url = e.url
      /\ Has(bare, "protocolBinding") <=> Has(e, "protocolBinding") \/ Has(e, "transport")
      /\ ~ Has(bare, "transport")
  <2> HIDE DEF bound
  <2> QED
    BY <1>1, WithoutFields
<1>3. normalizeInterface(e, v) = Default(bare, "protocolVersion", v)
  BY DEF normalizeInterface
<1> HIDE DEF bare
<1> QED
  BY <1>2, <1>3, DefaultFields

Upgrades(s, v) == [i \in DOMAIN s |-> normalizeInterface(s[i], v)]

\* An interface of an upgraded card.
IsInterface(e) == Has(e, "url") /\ Has(e, "protocolVersion") /\ ~ Has(e, "transport")

LEMMA UpgradesAre ==
  ASSUME NEW E, NEW s \in Seq(E), NEW v, \A i \in DOMAIN s : Has(s[i], "url")
  PROVE  /\ Upgrades(s, v) \in Seq(Range(Upgrades(s, v)))
         /\ Len(Upgrades(s, v)) = Len(s)
         /\ DOMAIN Upgrades(s, v) = DOMAIN s
         /\ \A i \in DOMAIN s : IsInterface(Upgrades(s, v)[i]) /\ Upgrades(s, v)[i].url = s[i].url
<1> DEFINE u == Upgrades(s, v)
<1>1. Len(s) \in Nat /\ DOMAIN s = 1 .. Len(s)
  OBVIOUS
<1>2. u = [i \in 1 .. Len(s) |-> u[i]] /\ DOMAIN u = 1 .. Len(s)
  BY <1>1 DEF Upgrades
<1>3. \A i \in 1 .. Len(s) : u[i] \in Range(u)
  BY <1>2 DEF Range
<1>4. u \in Seq(Range(u)) /\ Len(u) = Len(s)
  <2> HIDE DEF u
  <2> QED
    BY <1>1, <1>2, <1>3
<1>5. \A i \in DOMAIN s : u[i] = normalizeInterface(s[i], v)
  BY DEF Upgrades
<1>6. \A i \in DOMAIN s : IsInterface(u[i]) /\ u[i].url = s[i].url
  <2> HIDE DEF u
  <2> QED
    BY <1>5, InterfaceFields DEF IsInterface
<1> QED
  BY <1>1, <1>2, <1>4, <1>6

\* What the interfaces of a card are upgraded to: they have a version and their
\* binding's name, and the preferred one has the card's address.
LEMMA InterfacesMade ==
  ASSUME NEW raw, IsCard(raw)
  PROVE  /\ \E E : Interfaces(raw) \in Seq(E)
         /\ \A i \in DOMAIN Interfaces(raw) : IsInterface(Interfaces(raw)[i])
         /\ Interfaces(raw) # << >> <=> HasUrl(raw) \/ Supported(raw) # << >>
         /\ Interfaces(raw) # << >> => Interfaces(raw)[1].url = getAgentUrl(raw)
<1> DEFINE version == FieldOr(raw, "protocolVersion", JsonRpcVersion)
           sup == Upgrades(Supported(raw), version)
           add == Upgrades(Additional(raw), version)
           binding == IF Has(raw, "preferredTransport")
                        THEN toProtocolBinding(raw.preferredTransport) ELSE JsonRpc
           own == [url |-> raw.url, protocolBinding |-> binding, protocolVersion |-> version]
           main == IF sup # << >> \/ ~ HasUrl(raw) THEN sup ELSE << own >>
           E == Range(sup) \cup Range(add) \cup {own}
<1>1. Interfaces(raw) = main \o add
  <2>1. /\ DOMAIN Supported(raw) # {} => Supported(raw) = raw["supportedInterfaces"]
        /\ DOMAIN Additional(raw) # {} => Additional(raw) = raw["additionalInterfaces"]
    BY DEF Supported, Additional, FieldOr
  <2> DEFINE upgraded(field) == [i \in DOMAIN FieldOr(raw, field, << >>) |->
                                   normalizeInterface(raw[field][i], version)]
  <2>2. upgraded("supportedInterfaces") = sup
    BY <2>1 DEF Upgrades, Supported
  <2>3. upgraded("additionalInterfaces") = add
    BY <2>1 DEF Upgrades, Additional
  <2>4. Interfaces(raw) =
          (IF upgraded("supportedInterfaces") # << >> \/ ~ HasUrl(raw)
             THEN upgraded("supportedInterfaces") ELSE << own >>) \o upgraded("additionalInterfaces")
    BY DEF Interfaces
  <2> HIDE DEF upgraded, sup, add, own
  <2> QED
    BY <2>2, <2>3, <2>4
<1>2. Supported(raw) \in Seq(Range(Supported(raw))) /\ Additional(raw) \in Seq(Range(Additional(raw)))
  BY CardParts
<1>3. /\ sup \in Seq(Range(sup)) /\ Len(sup) = Len(Supported(raw))
      /\ \A i \in DOMAIN sup : IsInterface(sup[i]) /\ sup[i].url = Supported(raw)[i].url
  <2> HIDE DEF version
  <2>1. \A i \in DOMAIN Supported(raw) : Has(Supported(raw)[i], "url")
    BY CardParts
  <2> QED
    BY <1>2, <2>1, UpgradesAre
<1>4. /\ add \in Seq(Range(add)) /\ Len(add) = Len(Additional(raw))
      /\ \A i \in DOMAIN add : IsInterface(add[i])
  <2> HIDE DEF version
  <2>1. \A i \in DOMAIN Additional(raw) : Has(Additional(raw)[i], "url")
    BY CardParts
  <2> QED
    BY <1>2, <2>1, UpgradesAre
<1>5. IsInterface(own) /\ own.url = raw.url
  BY DEF IsInterface, Has
<1>6. sup # << >> <=> Supported(raw) # << >>
  <2> HIDE DEF sup
  <2> QED
    BY <1>2, <1>3
<1>7. add = << >> <=> Additional(raw) = << >>
  <2> HIDE DEF add
  <2> QED
    BY <1>2, <1>4
<1>8. /\ main \in Seq(E) /\ add \in Seq(E)
      /\ \A i \in DOMAIN main : IsInterface(main[i])
      /\ main # << >> <=> HasUrl(raw) \/ Supported(raw) # << >>
      /\ main = << >> => add = << >>
  <2>1. sup \in Seq(E) /\ add \in Seq(E) /\ << own >> \in Seq(E)
    <3> DEFINE A == Range(sup)
               B == Range(add)
    <3>1. sup \in Seq(A) /\ add \in Seq(B)
      BY <1>3, <1>4
    <3> HIDE DEF sup, add, own, A, B
    <3>2. sup \in Seq(A \cup B \cup {own}) /\ add \in Seq(A \cup B \cup {own})
          /\ << own >> \in Seq(A \cup B \cup {own})
      BY <3>1
    <3> QED
      BY <3>2 DEF A, B
  <2>2. main \in Seq(E)
    <3> HIDE DEF sup, own, E
    <3> QED
      BY <2>1
  <2>3. HasUrl(raw) \/ Supported(raw) # << >> \/ Additional(raw) = << >>
    BY CardParts
  <2> HIDE DEF sup, add, own, E
  <2>4. \A i \in DOMAIN << own >> : << own >>[i] = own
    OBVIOUS
  <2> QED
    BY <1>3, <1>5, <1>6, <1>7, <2>1, <2>2, <2>3, <2>4
<1>9. main # << >> => main[1].url = getAgentUrl(raw)
  <2>1. getAgentUrl(raw) = IF Supported(raw) # << >> THEN Supported(raw)[1].url
                           ELSE FieldOr(raw, "url", NoUrl)
    BY Address
  <2>2. CASE sup # << >>
    <3> HIDE DEF sup, own
    <3>1. 1 \in DOMAIN sup
      BY <1>3, <2>2
    <3> QED
      BY <1>3, <1>6, <2>1, <2>2, <3>1
  <2>3. CASE sup = << >> /\ HasUrl(raw)
    <3>1. FieldOr(raw, "url", NoUrl) = raw.url
      BY <2>3 DEF HasUrl, FieldOr
    <3> HIDE DEF sup, own
    <3> QED
      BY <1>5, <1>6, <2>1, <2>3, <3>1
  <2> QED
    BY <2>2, <2>3
<1> HIDE DEF main, add, E
<1>10. /\ main \o add \in Seq(E)
       /\ \A i \in DOMAIN (main \o add) : IsInterface((main \o add)[i])
       /\ main \o add # << >> <=> main # << >>
       /\ main # << >> => (main \o add)[1] = main[1]
  BY <1>4, <1>8
<1> QED
  BY <1>1, <1>8, <1>9, <1>10

LEMMA EndpointsMade ==
  ASSUME NEW raw, IsCard(raw)
  PROVE  LET c == upgradeEndpoints(raw) IN
         /\ Supported(c) = Interfaces(raw)
         /\ ~ Has(c, "additionalInterfaces")
         /\ Interfaces(raw) # << >> =>
              /\ Has(c, "url")
              /\ c.url = IF HasUrl(raw) THEN raw.url ELSE Interfaces(raw)[1].url
         /\ Interfaces(raw) = << >> => SameField(c, raw, "url")
<1> DEFINE card == Without(raw, {"preferredTransport", "additionalInterfaces"})
           interfaces == Interfaces(raw)
           listed_ == Put(card, "supportedInterfaces", interfaces)
           c == upgradeEndpoints(raw)
<1>1. /\ \A f : Has(card, f) <=> Has(raw, f) /\ f \notin {"preferredTransport", "additionalInterfaces"}
      /\ \A f : Has(raw, f) /\ f \notin {"preferredTransport", "additionalInterfaces"} =>
              card[f] = raw[f]
  BY WithoutFields
<1>2. CASE interfaces = << >>
  <2>1. c = card
    BY <1>2 DEF upgradeEndpoints
  <2>2. Supported(raw) = << >>
    BY <1>2, InterfacesMade
  <2>3. Supported(card) = << >>
    <3> HIDE DEF card
    <3> QED
      BY <1>1, <2>2 DEF Supported, FieldOr
  <2> HIDE DEF card, c, interfaces
  <2> QED
    BY <1>1, <1>2, <2>1, <2>3 DEF c, interfaces, SameField
<1>3. CASE interfaces # << >>
  <2>1. Has(interfaces[1], "url")
    <3>1. 1 \in DOMAIN interfaces
      <4>1. PICK E : interfaces \in Seq(E)
        BY InterfacesMade
      <4> HIDE DEF interfaces
      <4> QED
        BY <1>3, <4>1
    <3> QED
      BY <3>1, InterfacesMade DEF IsInterface
  <2>2. c = IF ~ HasUrl(raw) THEN Put(listed_, "url", interfaces[1].url) ELSE listed_
    BY <1>3, <2>1 DEF upgradeEndpoints
  <2>3. /\ Has(listed_, "supportedInterfaces")
        /\ listed_["supportedInterfaces"] = interfaces
        /\ ~ Has(listed_, "additionalInterfaces")
        /\ Has(listed_, "url") <=> Has(raw, "url")
        /\ Has(raw, "url") => listed_["url"] = raw["url"]
    <3> HIDE DEF card, interfaces
    <3> QED
      BY <1>1, PutFields
  <2>4. /\ Has(c, "supportedInterfaces")
        /\ c["supportedInterfaces"] = interfaces
        /\ ~ Has(c, "additionalInterfaces")
    <3> HIDE DEF listed_, interfaces, c
    <3> QED
      BY <2>2, <2>3, PutFields
  <2>5. CASE HasUrl(raw)
    <3>1. Has(raw, "url")
      BY <2>5 DEF HasUrl, FieldOr
    <3> HIDE DEF listed_, interfaces, c
    <3> QED
      BY <1>3, <2>2, <2>3, <2>4, <2>5, <3>1 DEF c, interfaces, Supported, FieldOr
  <2>6. CASE ~ HasUrl(raw)
    <3> HIDE DEF listed_, interfaces, c
    <3>1. Has(c, "url") /\ c["url"] = interfaces[1].url
      BY <2>2, <2>6, PutFields
    <3> QED
      BY <1>3, <2>4, <2>6, <3>1 DEF c, interfaces, Supported, FieldOr
  <2> QED
    BY <2>5, <2>6
<1> QED
  BY <1>2, <1>3

-----------------------------------------------------------------------------
(* The agent that a card is of *)

\* What a reader takes from the one it takes from the other, the address aside;
\* the interests of a card of others are its skills.
SameAgent(c, raw) ==
  /\ c.name = raw.name
  /\ PromisesPush(c) = PromisesPush(raw)
  /\ isYouAgent(c) <=> isYouAgent(raw)
  /\ isYouAgent(raw) =>
       /\ c.youagent.id = raw.youagent.id
       /\ c.youagent.handle = raw.youagent.handle
       /\ c.youagent.interests = raw.youagent.interests
  /\ ~ isYouAgent(raw) /\ Has(raw, "skills") =>
       Has(c, "skills") /\ UNION Range(c.skills) = UNION Range(raw.skills)

LEMMA SameAgentTrans ==
  ASSUME NEW a, NEW b, NEW c, SameAgent(a, b), SameAgent(b, c)
  PROVE  SameAgent(a, c)
BY DEF SameAgent

LEMMA SameFromFields ==
  ASSUME NEW c, NEW raw, Has(raw, "name"), PromisesPush(c) = PromisesPush(raw),
         SameField(c, raw, "name"), SameField(c, raw, "youagent"),
         Has(raw, "skills") => Has(c, "skills") /\ c.skills = raw.skills
  PROVE  SameAgent(c, raw)
BY DEF SameAgent, SameField, isYouAgent

\* What readers take from it.
LEMMA WhoItIs ==
  ASSUME NEW c, NEW raw, SameAgent(c, raw)
  PROVE  /\ isYouAgent(raw) \/ Has(raw, "skills") =>
              getEffectiveInterests(c) = getEffectiveInterests(raw)
         /\ getAgentIdentifier(c).handle = getAgentIdentifier(raw).handle
         /\ isYouAgent(raw) => getAgentIdentifier(c) = getAgentIdentifier(raw)
         /\ ~ isYouAgent(raw) => getAgentIdentifier(c).id = getAgentUrl(c)
         /\ getAgentUrl(c) = getAgentUrl(raw) => getAgentIdentifier(c) = getAgentIdentifier(raw)
<1>1. isYouAgent(raw) \/ Has(raw, "skills") => getEffectiveInterests(c) = getEffectiveInterests(raw)
  BY DEF SameAgent, getEffectiveInterests
<1>2. CASE isYouAgent(raw)
  BY <1>1, <1>2 DEF SameAgent, getAgentIdentifier
<1>3. CASE ~ isYouAgent(raw)
  <2>1. /\ getAgentIdentifier(c) = [id |-> getAgentUrl(c), handle |-> slugify(c.name)]
        /\ getAgentIdentifier(raw) = [id |-> getAgentUrl(raw), handle |-> slugify(raw.name)]
        /\ slugify(c.name) = slugify(raw.name)
    BY <1>3 DEF SameAgent, getAgentIdentifier
  <2> QED
    BY <1>1, <1>3, <2>1
<1> QED
  BY <1>2, <1>3

-----------------------------------------------------------------------------
(* The conversions *)

LEMMA SamePromises ==
  ASSUME NEW c, NEW d, SameField(c, d, "capabilities")
  PROVE  PromisesPush(c) = PromisesPush(d)
<1>1. FieldOr(c, "capabilities", << >>) = FieldOr(d, "capabilities", << >>)
  BY SameValue
<1> QED
  BY <1>1 DEF PromisesPush

LEMMA UpgradeKeepsPromises ==
  ASSUME NEW raw
  PROVE  PromisesPush(normalizeAgentCard(raw)) = PromisesPush(raw)
<1> DEFINE a == upgradeEndpoints(raw)
           b == upgradeProvider(a)
           c == upgradeCapabilities(b)
           legacy == "supportsAuthenticatedExtendedCard"
           capabilities == FieldOr(b, "capabilities", << >>)
           extended == Default(capabilities, "extendedAgentCard", b[legacy])
           put == Put(b, "capabilities", extended)
<1>1. normalizeAgentCard(raw) = upgradeSecurity(c)
  BY DEF normalizeAgentCard
<1>2. SameField(a, raw, "capabilities")
  BY EndpointsKept
<1>3. SameField(b, a, "capabilities")
  BY ProviderKept
<1>4. SameField(upgradeSecurity(c), c, "capabilities")
  BY SecurityKept
<1>5. PromisesPush(c) = PromisesPush(b)
  <2>1. c = IF Has(b, legacy) THEN Without(put, {legacy}) ELSE b
    BY DEF upgradeCapabilities
  <2>2. Has(put, "capabilities") /\ put["capabilities"] = extended
    <3> HIDE DEF extended
    <3> QED
      BY PutFields
  <2>3. /\ Has(Without(put, {legacy}), "capabilities")
        /\ Without(put, {legacy})["capabilities"] = extended
    <3> HIDE DEF put, extended
    <3> QED
      BY <2>2, WithoutFields
  <2>4. FieldOr(extended, "pushNotifications", FALSE) = FieldOr(capabilities, "pushNotifications", FALSE)
    <3> DEFINE v == b[legacy]
    <3> HIDE DEF capabilities, v
    <3>1. /\ Has(Default(capabilities, "extendedAgentCard", v), "pushNotifications")
               <=> Has(capabilities, "pushNotifications")
          /\ Has(capabilities, "pushNotifications") =>
               Default(capabilities, "extendedAgentCard", v)["pushNotifications"]
                 = capabilities["pushNotifications"]
      BY DefaultFields
    <3> QED
      BY <3>1 DEF FieldOr, v
  <2>5. CASE Has(b, legacy)
    <3>1. FieldOr(c, "capabilities", << >>) = extended
      <4> HIDE DEF put, extended, c
      <4> QED
        BY <2>1, <2>3, <2>5 DEF FieldOr
    <3> HIDE DEF extended, c
    <3> QED
      BY <2>4, <3>1 DEF PromisesPush
  <2>6. CASE ~ Has(b, legacy)
    BY <2>1, <2>6
  <2> QED
    BY <2>5, <2>6
<1> HIDE DEF a, b, c
<1>6. PromisesPush(b) = PromisesPush(raw)
  BY <1>2, <1>3, SameFieldTrans, SamePromises
<1>7. PromisesPush(upgradeSecurity(c)) = PromisesPush(c)
  BY <1>4, SamePromises
<1> QED
  BY <1>1, <1>5, <1>6, <1>7

\* What is left to upgrade of a card that has been.
IsUpgraded(c) ==
  /\ ~ Has(c, "additionalInterfaces")
  /\ \A i \in DOMAIN Supported(c) : IsInterface(Supported(c)[i])
  /\ HasUrl(c) => Supported(c) # << >>

\* normalizeAgentCard changes neither the agent nor its address.
LEMMA NormalizedCard ==
  ASSUME NEW raw, IsCard(raw)
  PROVE  LET n == normalizeAgentCard(raw) IN
         /\ IsCard(n) /\ IsUpgraded(n)
         /\ SameAgent(n, raw)
         /\ getAgentUrl(n) = getAgentUrl(raw)
         /\ Supported(n) = Interfaces(raw)
         /\ HasUrl(raw) => Has(n, "url") /\ n.url = raw.url
         /\ ~ HasUrl(raw) /\ Supported(n) # << >> => Has(n, "url") /\ n.url = getAgentUrl(raw)
<1> DEFINE n == normalizeAgentCard(raw)
           a == upgradeEndpoints(raw)
           interfaces == Interfaces(raw)
<1>1. /\ SameField(n, raw, "name") /\ SameField(n, raw, "youagent") /\ SameField(n, raw, "skills")
      /\ PromisesPush(n) = PromisesPush(raw)
  BY UpgradeKeeps, UpgradeKeepsPromises
<1>2. Has(raw, "name")
  BY CardParts
<1>3. SameAgent(n, raw)
  <2> HIDE DEF n
  <2>1. Has(raw, "skills") => Has(n, "skills") /\ n.skills = raw.skills
    BY <1>1 DEF SameField
  <2> QED
    BY <1>1, <1>2, <2>1, SameFromFields
<1>4. /\ SameField(n, a, "supportedInterfaces") /\ SameField(n, a, "url")
      /\ SameField(n, a, "additionalInterfaces")
  BY RestKept
<1>5. /\ Supported(a) = interfaces
      /\ ~ Has(a, "additionalInterfaces")
      /\ interfaces # << >> =>
           Has(a, "url") /\ a.url = IF HasUrl(raw) THEN raw.url ELSE interfaces[1].url
      /\ interfaces = << >> => SameField(a, raw, "url")
  BY EndpointsMade
<1>6. /\ \E E : interfaces \in Seq(E)
      /\ \A i \in DOMAIN interfaces : IsInterface(interfaces[i])
      /\ interfaces # << >> <=> HasUrl(raw) \/ Supported(raw) # << >>
      /\ interfaces # << >> => interfaces[1].url = getAgentUrl(raw)
  BY InterfacesMade
<1> HIDE DEF n, a, interfaces
<1>7. Supported(n) = interfaces /\ ~ Has(n, "additionalInterfaces")
  BY <1>4, <1>5, SameValue DEF Supported, SameField
<1>8. interfaces # << >> =>
        Has(n, "url") /\ n.url = IF HasUrl(raw) THEN raw.url ELSE getAgentUrl(raw)
  BY <1>4, <1>5, <1>6 DEF SameField
<1>9. interfaces = << >> => SameField(n, raw, "url")
  BY <1>4, <1>5, SameFieldTrans
<1>10. HasUrl(n) => interfaces # << >>
  BY <1>6, <1>9, SameValue DEF HasUrl
<1>11. IsCard(n)
  <2>1. Has(n, "name")
    BY <1>1, <1>2 DEF SameField
  <2>2. PICK E : interfaces \in Seq(E)
    BY <1>6
  <2>3. \A i \in DOMAIN Supported(n) : Has(Supported(n)[i], "url")
    BY <1>6, <1>7 DEF IsInterface
  <2> QED
    BY <1>7, <2>1, <2>2, <2>3, CardOf
<1>12. getAgentUrl(n) = getAgentUrl(raw)
  <2>1. /\ getAgentUrl(n) = IF Supported(n) # << >> THEN Supported(n)[1].url ELSE FieldOr(n, "url", NoUrl)
        /\ getAgentUrl(raw) = IF Supported(raw) # << >> THEN Supported(raw)[1].url
                              ELSE FieldOr(raw, "url", NoUrl)
    BY <1>11, Address
  <2>2. CASE interfaces # << >>
    BY <1>6, <1>7, <2>1, <2>2
  <2>3. CASE interfaces = << >>
    BY <1>6, <1>7, <1>9, <2>1, <2>3, SameValue
  <2> QED
    BY <2>2, <2>3
<1>13. IsUpgraded(n)
  BY <1>6, <1>7, <1>10 DEF IsUpgraded
<1>14. HasUrl(raw) => Has(n, "url") /\ n.url = raw.url
  BY <1>6, <1>8
<1> QED
  BY <1>3, <1>7, <1>8, <1>11, <1>12, <1>13, <1>14 DEF n, interfaces

\* toV1AgentCard, of a card that has been upgraded.
LEMMA StrictCard ==
  ASSUME NEW c, IsCard(c), IsUpgraded(c)
  PROVE  LET s == toV1AgentCard(c) IN
         /\ IsCard(s)
         /\ SameAgent(s, c)
         /\ getAgentUrl(s) = getAgentUrl(c)
         /\ Supported(s) = Supported(c)
         /\ ~ HasUrl(s)
         /\ \A f \in {"youagent", "provider"} : SameField(s, c, f)
<1> DEFINE bare == Without(c, {"url", "protocolVersion"})
           capabilities == FieldOr(c, "capabilities", << >>)
           kept == Without(capabilities, {"stateTransitionHistory"})
           s == toV1AgentCard(c)
<1>1. s = Put(bare, "capabilities", kept)
  BY DEF toV1AgentCard
<1>2. \A f : f \notin {"url", "protocolVersion", "capabilities"} => SameField(s, c, f)
  <2>1. \A f : f \notin {"url", "protocolVersion"} => SameField(bare, c, f)
    BY WithoutFields DEF SameField
  <2> HIDE DEF bare, s, kept
  <2> QED
    BY <1>1, <2>1, PutFields DEF SameField
<1>3. ~ Has(s, "url")
  <2>1. ~ Has(bare, "url")
    BY WithoutFields
  <2> HIDE DEF bare, s, kept
  <2> QED
    BY <1>1, <2>1, PutFields
<1>4. PromisesPush(s) = PromisesPush(c)
  <2>1. FieldOr(s, "capabilities", << >>) = kept
    <3> HIDE DEF bare, s, kept
    <3> QED
      BY <1>1, PutFields DEF FieldOr
  <2>2. FieldOr(kept, "pushNotifications", FALSE) = FieldOr(capabilities, "pushNotifications", FALSE)
    <3> HIDE DEF capabilities
    <3> QED
      BY WithoutFields DEF FieldOr
  <2> HIDE DEF s, kept
  <2> QED
    BY <2>1, <2>2 DEF PromisesPush
<1> HIDE DEF s
<1>5. Supported(s) = Supported(c)
  <2>1. SameField(s, c, "supportedInterfaces")
    BY <1>2
  <2> QED
    BY <2>1, SameValue DEF Supported
<1>6. IsCard(s)
  <2>1. Has(s, "name") /\ ~ Has(s, "additionalInterfaces")
    BY <1>2, CardParts DEF SameField, IsUpgraded
  <2>2. /\ Supported(c) \in Seq(Range(Supported(c)))
        /\ \A i \in DOMAIN Supported(c) : Has(Supported(c)[i], "url")
    BY CardParts
  <2> QED
    BY <1>5, <2>1, <2>2, CardOf
<1>7. SameAgent(s, c)
  <2>1. SameField(s, c, "name") /\ SameField(s, c, "youagent") /\ SameField(s, c, "skills")
    BY <1>2
  <2>2. Has(c, "skills") => Has(s, "skills") /\ s.skills = c.skills
    BY <2>1 DEF SameField
  <2>3. Has(c, "name")
    BY CardParts
  <2> QED
    BY <1>4, <2>1, <2>2, <2>3, SameFromFields
<1>8. getAgentUrl(s) = getAgentUrl(c)
  <2>1. /\ getAgentUrl(s) = IF Supported(s) # << >> THEN Supported(s)[1].url ELSE FieldOr(s, "url", NoUrl)
        /\ getAgentUrl(c) = IF Supported(c) # << >> THEN Supported(c)[1].url ELSE FieldOr(c, "url", NoUrl)
    BY <1>6, Address
  <2>2. FieldOr(s, "url", NoUrl) = NoUrl
    BY <1>3 DEF FieldOr
  <2>3. Supported(c) = << >> => FieldOr(c, "url", NoUrl) = NoUrl
    BY DEF IsUpgraded, HasUrl
  <2> QED
    BY <1>5, <2>1, <2>2, <2>3
<1>9. ~ HasUrl(s)
  BY <1>3 DEF HasUrl, FieldOr
<1> QED
  BY <1>2, <1>5, <1>6, <1>7, <1>8, <1>9 DEF s

\* What the schema's parse returns.
LEMMA ParsedCard ==
  ASSUME NEW raw, IsCard(raw)
  PROVE  LET p == Parsed(raw) IN
         /\ IsCard(p)
         /\ SameAgent(p, raw)
         /\ getAgentUrl(p) = getAgentUrl(raw)
         /\ Has(p, "skills") /\ Has(p, "capabilities")
         /\ SameField(p, raw, "youagent")
<1> DEFINE n == normalizeAgentCard(raw)
           cut == Restrict(n, DOMAIN n \cap CardFields)
           card == Default(cut, "skills", << >>)
           capabilities == FieldOr(card, "capabilities", << >>)
           filled == Default(capabilities, "pushNotifications", FALSE)
           p == Parsed(raw)
<1>1. p = Put(card, "capabilities", filled)
  BY DEF Parsed
<1>2. IsCard(n) /\ SameAgent(n, raw) /\ getAgentUrl(n) = getAgentUrl(raw) /\ IsUpgraded(n)
  BY NormalizedCard
<1>3. SameField(n, raw, "youagent")
  BY UpgradeKeeps
<1> HIDE DEF n
<1>4. \A f : f \in CardFields => SameField(cut, n, f)
  BY DEF SameField, Restrict, Has
<1>5. ~ Has(cut, "additionalInterfaces")
  BY DEF Restrict, Has, CardFields
<1> HIDE DEF cut
<1>6. \A f : f # "skills" => SameField(card, cut, f)
  BY DefaultFields DEF SameField
<1>7. Has(card, "skills") /\ (Has(cut, "skills") => card["skills"] = cut["skills"])
  BY DefaultFields
<1> HIDE DEF card
<1>8. \A f : f # "capabilities" => SameField(p, card, f)
  <2> HIDE DEF filled, p
  <2> QED
    BY <1>1, PutFields DEF SameField
<1>9. Has(p, "capabilities") /\ FieldOr(p, "capabilities", << >>) = filled
  <2> HIDE DEF filled, p
  <2> QED
    BY <1>1, PutFields DEF FieldOr
<1>10. FieldOr(filled, "pushNotifications", FALSE) = FieldOr(capabilities, "pushNotifications", FALSE)
  BY DefaultValue
<1>11. PromisesPush(p) = PromisesPush(card)
  <2> HIDE DEF filled, p
  <2> QED
    BY <1>9, <1>10 DEF PromisesPush
<1> HIDE DEF p
<1>12. PromisesPush(card) = PromisesPush(n)
  <2>1. SameField(card, cut, "capabilities") /\ SameField(cut, n, "capabilities")
    BY <1>4, <1>6 DEF CardFields
  <2> QED
    BY <2>1, SameFieldTrans, SamePromises
<1>13. \A f \in CardFields \ {"skills", "capabilities"} : SameField(p, n, f)
  <2>1. ASSUME NEW f \in CardFields \ {"skills", "capabilities"} PROVE SameField(p, n, f)
    <3>1. SameField(cut, n, f) /\ SameField(card, cut, f) /\ SameField(p, card, f)
      BY <1>4, <1>6, <1>8
    <3> QED
      BY <3>1 DEF SameField
  <2> QED
    BY <2>1
<1>14. SameField(p, n, "name") /\ SameField(p, n, "youagent") /\ SameField(p, n, "url")
       /\ SameField(p, n, "supportedInterfaces")
  BY <1>13 DEF CardFields
<1>15. Has(p, "skills") /\ (Has(n, "skills") => p.skills = n.skills)
  <2>1. SameField(cut, n, "skills") /\ SameField(p, card, "skills")
    BY <1>4, <1>8 DEF CardFields
  <2> QED
    BY <1>7, <2>1 DEF SameField
<1>16. ~ Has(p, "additionalInterfaces")
  BY <1>5, <1>6, <1>8 DEF SameField
<1>17. Supported(p) = Supported(n) /\ FieldOr(p, "url", NoUrl) = FieldOr(n, "url", NoUrl)
  BY <1>14, SameValue DEF Supported
<1>18. IsCard(p)
  <2>1. Has(p, "name")
    BY <1>2, <1>14, CardParts DEF SameField
  <2>2. /\ Supported(n) \in Seq(Range(Supported(n)))
        /\ \A i \in DOMAIN Supported(n) : Has(Supported(n)[i], "url")
    BY <1>2, CardParts
  <2> QED
    BY <1>16, <1>17, <2>1, <2>2, CardOf
<1>19. SameAgent(p, raw)
  <2>1. SameAgent(p, n)
    <3>1. Has(n, "name")
      BY <1>2, CardParts
    <3> QED
      BY <1>11, <1>12, <1>14, <1>15, <3>1, SameFromFields
  <2> QED
    BY <1>2, <2>1, SameAgentTrans
<1>20. getAgentUrl(p) = getAgentUrl(raw)
  <2>1. getAgentUrl(p) = getAgentUrl(n)
    BY <1>2, <1>17, <1>18, Address
  <2> QED
    BY <1>2, <2>1
<1>21. SameField(p, raw, "youagent")
  BY <1>3, <1>14, SameFieldTrans
<1> QED
  BY <1>9, <1>15, <1>18, <1>19, <1>20, <1>21 DEF p

\* What comes back from a repository has the local address.
LEMMA RestoredCard ==
  ASSUME NEW c, IsCard(c), Has(c, "skills"), Has(c, "capabilities")
  PROVE  LET r == rowToAgentCard(toRow(c)) IN
         /\ IsCard(r) /\ IsUpgraded(r)
         /\ SameAgent(r, c)
         /\ getAgentUrl(r) = LocalUrl
         /\ Has(r, "url") /\ r.url = LocalUrl
         /\ Supported(r) # << >>
         /\ \A i \in DOMAIN Supported(r) : Has(Supported(r)[i], "protocolBinding")
         /\ ~ Has(r, "provider")
         /\ isYouAgent(c) => r.youagent.cadence = c.youagent.cadence
<1> DEFINE row == toRow(c)
           tags == IF row.external /\ row.interests # {} THEN << row.interests >> ELSE << >>
           rest == [name |-> row.name, capabilities |-> row.capabilities, skills |-> tags]
           endpoint == jsonRpcEndpoint(LocalUrl)
           e == [url |-> LocalUrl, protocolBinding |-> JsonRpc, protocolVersion |-> JsonRpcVersion]
           card == Merged(rest, endpoint)
           extensions == [id |-> row.id, handle |-> row.handle, interests |-> row.interests,
                          cadence |-> row.cadence]
           r == rowToAgentCard(toRow(c))
<1>1. r = IF row.external THEN card ELSE Put(card, "youagent", extensions)
  BY DEF rowToAgentCard
<1>2. /\ row.external = ~ isYouAgent(c)
      /\ row.name = c.name
      /\ row.capabilities = c.capabilities
      /\ row.interests = getEffectiveInterests(c)
      /\ row.id = getAgentIdentifier(c).id
      /\ row.handle = getAgentIdentifier(c).handle
      /\ isYouAgent(c) => row.cadence = c.youagent.cadence
  BY DEF toRow
<1>3. /\ DOMAIN rest = {"name", "capabilities", "skills"}
      /\ rest["name"] = row.name /\ rest["capabilities"] = row.capabilities /\ rest["skills"] = tags
  <2> HIDE DEF row, tags
  <2> QED
    OBVIOUS
<1>4. /\ DOMAIN endpoint = {"supportedInterfaces", "url", "protocolVersion"}
      /\ endpoint["supportedInterfaces"] = << e >> /\ endpoint["url"] = LocalUrl
  BY DEF jsonRpcEndpoint
<1>5. /\ \A f : Has(card, f) <=> Has(rest, f) \/ Has(endpoint, f)
      /\ \A f : Has(rest, f) => card[f] = rest[f]
      /\ \A f : Has(endpoint, f) /\ ~ Has(rest, f) => card[f] = endpoint[f]
  <2> HIDE DEF rest, endpoint
  <2> QED
    BY DEF Merged, Has
<1>6. /\ DOMAIN card = {"name", "capabilities", "skills", "supportedInterfaces", "url",
                        "protocolVersion"}
      /\ card["name"] = c.name /\ card["capabilities"] = c.capabilities /\ card["skills"] = tags
      /\ card["supportedInterfaces"] = << e >> /\ card["url"] = LocalUrl
  <2> HIDE DEF rest, endpoint, card, tags, row, e
  <2> QED
    BY <1>2, <1>3, <1>4, <1>5 DEF Has
<1> HIDE DEF card
<1>7. \A f : f # "youagent" => SameField(r, card, f)
  <2> HIDE DEF extensions, r, row
  <2> QED
    BY <1>1, PutFields DEF SameField
<1>8. /\ isYouAgent(r) <=> isYouAgent(c)
      /\ isYouAgent(c) => r["youagent"] = extensions
  <2>1. CASE isYouAgent(c)
    <3>1. r = Put(card, "youagent", extensions)
      BY <1>1, <1>2, <2>1
    <3> HIDE DEF extensions, r
    <3> QED
      BY <2>1, <3>1, PutFields DEF isYouAgent
  <2>2. CASE ~ isYouAgent(c)
    <3>1. r = card
      BY <1>1, <1>2, <2>2
    <3> QED
      BY <1>6, <2>2, <3>1 DEF isYouAgent, Has
  <2> QED
    BY <2>1, <2>2
<1> HIDE DEF r
<1>9. /\ Has(r, "name") /\ r["name"] = c.name
      /\ Has(r, "capabilities") /\ r["capabilities"] = c.capabilities
      /\ Has(r, "skills") /\ r["skills"] = tags
      /\ Has(r, "supportedInterfaces") /\ r["supportedInterfaces"] = << e >>
      /\ Has(r, "url") /\ r["url"] = LocalUrl
      /\ ~ Has(r, "additionalInterfaces") /\ ~ Has(r, "provider")
  <2> HIDE DEF e, tags
  <2> QED
    BY <1>6, <1>7 DEF SameField, Has
<1>10. Supported(r) = << e >>
  BY <1>9 DEF Supported, FieldOr
<1>11. /\ \A i \in DOMAIN Supported(r) : Supported(r)[i] = e
       /\ Supported(r) # << >> /\ Supported(r)[1] = e /\ Supported(r) \in Seq({e})
  <2> HIDE DEF e
  <2> QED
    BY <1>10
<1>12. IsInterface(e) /\ Has(e, "protocolBinding") /\ e.url = LocalUrl
  BY DEF IsInterface, Has
<1> HIDE DEF e
<1>13. IsCard(r)
  <2>1. \A i \in DOMAIN Supported(r) : Has(Supported(r)[i], "url")
    BY <1>11, <1>12 DEF IsInterface
  <2> QED
    BY <1>9, <1>11, <2>1, CardOf
<1>14. IsUpgraded(r)
  BY <1>9, <1>11, <1>12 DEF IsUpgraded
<1>15. getAgentUrl(r) = LocalUrl
  BY <1>11, <1>12, <1>13, Address
<1>16. PromisesPush(r) = PromisesPush(c)
  <2>1. SameField(r, c, "capabilities")
    BY <1>9 DEF SameField
  <2> QED
    BY <2>1, SamePromises
<1>17. SameAgent(r, c)
  <2>1. CASE isYouAgent(c)
    <3>1. /\ row.id = c.youagent.id /\ row.handle = c.youagent.handle
          /\ row.interests = c.youagent.interests
      BY <1>2, <2>1 DEF getAgentIdentifier, getEffectiveInterests
    <3>2. /\ r["youagent"].id = c.youagent.id /\ r["youagent"].handle = c.youagent.handle
          /\ r["youagent"].interests = c.youagent.interests
      <4> HIDE DEF row
      <4> QED
        BY <1>8, <2>1, <3>1
    <3> QED
      BY <1>8, <1>9, <1>16, <2>1, <3>2 DEF SameAgent
  <2>2. CASE ~ isYouAgent(c)
    <3>1. row.interests = UNION Range(c.skills) /\ row.external
      BY <1>2, <2>2 DEF getEffectiveInterests
    <3>2. UNION Range(tags) = row.interests
      <4> DEFINE v == row.interests
      <4>1. tags = IF v # {} THEN << v >> ELSE << >>
        BY <3>1
      <4> HIDE DEF v, tags
      <4> QED
        BY <4>1 DEF Range, v
    <3> HIDE DEF tags, row
    <3> QED
      BY <1>8, <1>9, <1>16, <2>2, <3>1, <3>2 DEF SameAgent
  <2> QED
    BY <2>1, <2>2
<1>18. isYouAgent(c) => r["youagent"].cadence = c.youagent.cadence
  <2> HIDE DEF row
  <2> QED
    BY <1>2, <1>8
<1>19. \A i \in DOMAIN Supported(r) : Has(Supported(r)[i], "protocolBinding")
  BY <1>11, <1>12
<1> HIDE DEF tags
<1> QED
  BY <1>9, <1>11, <1>13, <1>14, <1>15, <1>17, <1>18, <1>19 DEF r

-----------------------------------------------------------------------------
(* What the schema accepts *)

Bound(c) == \A i \in DOMAIN Supported(c) : Has(Supported(c)[i], "protocolBinding")

Named(card) == Has(card, "provider") => Has(card.provider, "organization")

Extended(card) == isYouAgent(card) => AcceptsExtensions(card.youagent)

\* Of an upgraded card the schema may still refuse that it has no interface, one
\* without a binding, a url that is not absolute, a provider without a name, or the
\* extensions of ours.
LEMMA WhatIsAccepted ==
  ASSUME NEW c, IsCard(c), IsUpgraded(c)
  PROVE  AcceptsObject(c) <=>
           /\ Supported(c) # << >> /\ Bound(c)
           /\ Has(c, "url") => c.url \in AbsoluteUrls
           /\ Named(c) /\ Extended(c)
<1>1. Has(c, "name")
  BY CardParts
<1>2. (\A e \in Range(Supported(c)) : {"url", "protocolBinding", "protocolVersion"} \subseteq DOMAIN e)
        <=> Bound(c)
  <2>1. \A i \in DOMAIN Supported(c) :
          "url" \in DOMAIN Supported(c)[i] /\ "protocolVersion" \in DOMAIN Supported(c)[i]
    BY DEF IsUpgraded, IsInterface, Has
  <2> QED
    BY <2>1 DEF Bound, Range, Has
<1>3. AcceptsObject(c) <=>
        /\ Has(c, "name")
        /\ Supported(c) # << >>
        /\ \A e \in Range(Supported(c)) : {"url", "protocolBinding", "protocolVersion"} \subseteq DOMAIN e
        /\ Has(c, "url") => c.url \in AbsoluteUrls
        /\ Has(c, "provider") => Has(c.provider, "organization")
        /\ isYouAgent(c) => AcceptsExtensions(c.youagent)
  BY DEF AcceptsObject, Supported
<1> QED
  BY <1>1, <1>2, <1>3 DEF Named, Extended

\* To upgrade a card again binds no interface and takes no binding away.
LEMMA UpgradedAgain ==
  ASSUME NEW c, IsCard(c), IsUpgraded(c)
  PROVE  LET n == normalizeAgentCard(c) IN
         /\ Supported(n) # << >> <=> Supported(c) # << >>
         /\ Bound(n) <=> Bound(c)
<1> DEFINE version == FieldOr(c, "protocolVersion", JsonRpcVersion)
           up == Upgrades(Supported(c), version)
           n == normalizeAgentCard(c)
<1>1. Supported(n) = Interfaces(c)
  BY NormalizedCard
<1>2. /\ Supported(c) \in Seq(Range(Supported(c)))
      /\ \A i \in DOMAIN Supported(c) : Has(Supported(c)[i], "url")
  BY CardParts
<1>3. up \in Seq(Range(up)) /\ Len(up) = Len(Supported(c)) /\ DOMAIN up = DOMAIN Supported(c)
  <2> HIDE DEF version
  <2> QED
    BY <1>2, UpgradesAre
<1>4. \A i \in DOMAIN Supported(c) :
        Has(up[i], "protocolBinding") <=> Has(Supported(c)[i], "protocolBinding")
  <2>1. ASSUME NEW i \in DOMAIN Supported(c)
        PROVE  Has(up[i], "protocolBinding") <=> Has(Supported(c)[i], "protocolBinding")
    <3>1. up[i] = normalizeInterface(Supported(c)[i], version)
      BY DEF Upgrades
    <3>2. ~ Has(Supported(c)[i], "transport")
      BY DEF IsUpgraded, IsInterface
    <3> HIDE DEF up, version
    <3> QED
      BY <3>1, <3>2, InterfaceFields
  <2> QED
    BY <2>1
<1>5. up # << >> \/ ~ HasUrl(c)
  <2>1. up = << >> => Supported(c) = << >>
    <3> HIDE DEF up
    <3> QED
      BY <1>2, <1>3
  <2> QED
    BY <2>1 DEF IsUpgraded
<1>6. Interfaces(c) = up \o << >>
  <2> DEFINE upgraded(field) == [i \in DOMAIN FieldOr(c, field, << >>) |->
                                   normalizeInterface(c[field][i], version)]
             binding == IF Has(c, "preferredTransport")
                          THEN toProtocolBinding(c.preferredTransport) ELSE JsonRpc
             own == [url |-> c.url, protocolBinding |-> binding, protocolVersion |-> version]
  <2>1. DOMAIN Supported(c) # {} => Supported(c) = c["supportedInterfaces"]
    BY DEF Supported, FieldOr
  <2>2. upgraded("supportedInterfaces") = up
    BY <2>1 DEF Upgrades, Supported
  <2>3. FieldOr(c, "additionalInterfaces", << >>) = << >>
    BY DEF IsUpgraded, FieldOr
  <2>4. upgraded("additionalInterfaces") = << >>
    BY <2>3
  <2>5. Interfaces(c) =
          (IF upgraded("supportedInterfaces") # << >> \/ ~ HasUrl(c)
             THEN upgraded("supportedInterfaces") ELSE << own >>) \o upgraded("additionalInterfaces")
    BY DEF Interfaces
  <2> HIDE DEF upgraded, up, own
  <2> QED
    BY <1>5, <2>2, <2>4, <2>5
<1>7. Interfaces(c) = up
  <2> HIDE DEF up
  <2> QED
    BY <1>3, <1>6
<1> HIDE DEF up, n
<1>8. Supported(n) # << >> <=> Supported(c) # << >>
  BY <1>1, <1>2, <1>3, <1>7
<1>9. Bound(n) <=> Bound(c)
  BY <1>1, <1>3, <1>4, <1>7 DEF Bound
<1> QED
  BY <1>8, <1>9 DEF n

\* The provider of an upgraded card has no other name than its organization's.
LEMMA ProviderMade ==
  ASSUME NEW raw
  PROVE  LET n == normalizeAgentCard(raw) IN
         /\ Has(n, "provider") <=> Has(raw, "provider")
         /\ Has(raw, "provider") =>
              /\ ~ Has(n.provider, "name")
              /\ Has(n.provider, "organization") <=>
                   Has(raw.provider, "organization") \/ Has(raw.provider, "name")
<1> DEFINE a == upgradeEndpoints(raw)
           b == upgradeProvider(a)
           c == upgradeCapabilities(b)
           n == normalizeAgentCard(raw)
           p == a.provider
           named == IF Has(p, "name") THEN Default(p, "organization", p.name) ELSE p
           provider == Without(named, {"name"})
<1>1. n = upgradeSecurity(c)
  BY DEF normalizeAgentCard
<1>2. SameField(a, raw, "provider")
  BY EndpointsKept
<1>3. SameField(n, b, "provider")
  <2>1. SameField(c, b, "provider") /\ SameField(upgradeSecurity(c), c, "provider")
    BY CapabilitiesKept, SecurityKept
  <2> HIDE DEF a, b, c, n
  <2> QED
    BY <1>1, <2>1, SameFieldTrans
<1>4. b = IF Has(a, "provider") THEN Put(a, "provider", provider) ELSE a
  BY DEF upgradeProvider
<1>5. /\ ~ Has(provider, "name")
      /\ Has(provider, "organization") <=> Has(p, "organization") \/ Has(p, "name")
  <2>1. Has(named, "organization") <=> Has(p, "organization") \/ Has(p, "name")
    <3> HIDE DEF p
    <3> QED
      BY DefaultFields
  <2> HIDE DEF named, p
  <2> QED
    BY <2>1, WithoutFields
<1>6. /\ Has(b, "provider") <=> Has(a, "provider")
      /\ Has(a, "provider") => b["provider"] = provider
  <2> HIDE DEF a, b, provider
  <2> QED
    BY <1>4, PutFields
<1>7. Has(a, "provider") => p = raw.provider
  BY <1>2 DEF SameField
<1> HIDE DEF a, b, c, n, provider, p, named
<1> QED
  BY <1>2, <1>3, <1>5, <1>6, <1>7 DEF SameField, n

\* The strict form, upgraded again, has the provider of the card it was made of.
LEMMA ProviderMadeAgain ==
  ASSUME NEW raw, NEW s, SameField(s, normalizeAgentCard(raw), "provider")
  PROVE  Named(normalizeAgentCard(s)) <=> Named(normalizeAgentCard(raw))
<1> DEFINE n == normalizeAgentCard(raw)
           m == normalizeAgentCard(s)
<1>1. /\ Has(n, "provider") <=> Has(raw, "provider")
      /\ Has(raw, "provider") => ~ Has(n.provider, "name")
  BY ProviderMade
<1>2. /\ Has(m, "provider") <=> Has(s, "provider")
      /\ Has(s, "provider") =>
           (Has(m.provider, "organization") <=>
              Has(s.provider, "organization") \/ Has(s.provider, "name"))
  BY ProviderMade
<1> HIDE DEF n, m
<1>3. (Has(s, "provider") <=> Has(n, "provider")) /\ (Has(n, "provider") => s.provider = n.provider)
  BY DEF SameField, n
<1>4. Has(m, "provider") <=> Has(n, "provider")
  BY <1>2, <1>3
<1>5. Has(n, "provider") =>
        (Has(m.provider, "organization") <=> Has(n.provider, "organization"))
  BY <1>1, <1>2, <1>3
<1>6. Named(m) <=> Named(n)
  BY <1>4, <1>5 DEF Named
<1> QED
  BY <1>6 DEF n, m

LEMMA SameExtensions ==
  ASSUME NEW c, NEW d, SameField(c, d, "youagent")
  PROVE  Extended(c) <=> Extended(d)
BY DEF Extended, SameField, isYouAgent

\* To make a card strict and to upgrade it again changes nothing for the schema, if
\* the card has no url that is not absolute.
LEMMA StrictIsAccepted ==
  ASSUME NEW raw, IsCard(raw), getAgentUrl(raw) \in AbsoluteUrls,
         HasUrl(raw) => raw.url \in AbsoluteUrls
  PROVE  LET n == normalizeAgentCard(raw) IN
         AcceptsObject(normalizeAgentCard(toV1AgentCard(n))) <=> AcceptsObject(n)
<1> DEFINE n == normalizeAgentCard(raw)
           s == toV1AgentCard(n)
           m == normalizeAgentCard(s)
<1>1. /\ IsCard(n) /\ IsUpgraded(n) /\ getAgentUrl(n) = getAgentUrl(raw)
      /\ HasUrl(raw) => Has(n, "url") /\ n.url = raw.url
      /\ ~ HasUrl(raw) /\ Supported(n) # << >> => Has(n, "url") /\ n.url = getAgentUrl(raw)
  BY NormalizedCard
<1>2. /\ IsCard(s) /\ getAgentUrl(s) = getAgentUrl(n) /\ Supported(s) = Supported(n) /\ ~ HasUrl(s)
      /\ SameField(s, n, "youagent") /\ SameField(s, n, "provider")
  <2> HIDE DEF n
  <2> QED
    BY <1>1, StrictCard
<1>3. IsUpgraded(s)
  <2>1. ~ Has(n, "additionalInterfaces")
    BY <1>1 DEF IsUpgraded
  <2>2. ~ Has(s, "additionalInterfaces")
    <3> DEFINE bare == Without(n, {"url", "protocolVersion"})
               kept == Without(FieldOr(n, "capabilities", << >>), {"stateTransitionHistory"})
    <3>1. s = Put(bare, "capabilities", kept)
      BY DEF toV1AgentCard
    <3>2. ~ Has(bare, "additionalInterfaces")
      <4> HIDE DEF n
      <4> QED
        BY <2>1, WithoutFields
    <3> HIDE DEF bare, kept, s
    <3> QED
      BY <3>1, <3>2, PutFields
  <2> HIDE DEF n, s
  <2> QED
    BY <1>1, <1>2, <2>2 DEF IsUpgraded
<1>4. Named(m) <=> Named(n)
  <2> HIDE DEF s
  <2> QED
    BY <1>2, ProviderMadeAgain
<1> HIDE DEF n, s
<1>5. /\ IsCard(m) /\ IsUpgraded(m)
      /\ ~ HasUrl(s) /\ Supported(m) # << >> => Has(m, "url") /\ m.url = getAgentUrl(s)
      /\ Supported(m) # << >> <=> Supported(s) # << >>
      /\ Bound(m) <=> Bound(s)
      /\ SameField(m, s, "youagent")
  BY <1>2, <1>3, NormalizedCard, UpgradedAgain, UpgradeKeeps
<1> HIDE DEF m
<1>6. Bound(s) <=> Bound(n)
  BY <1>2 DEF Bound
<1>7. Supported(n) # << >> =>
        Has(n, "url") /\ n.url \in AbsoluteUrls /\ Has(m, "url") /\ m.url \in AbsoluteUrls
  BY <1>1, <1>2, <1>5
<1>8. Extended(m) <=> Extended(n)
  BY <1>2, <1>5, SameExtensions
<1>9. AcceptsObject(m) <=> AcceptsObject(n)
  <2>1. /\ AcceptsObject(n) <=>
             /\ Supported(n) # << >> /\ Bound(n) /\ (Has(n, "url") => n.url \in AbsoluteUrls)
             /\ Named(n) /\ Extended(n)
        /\ AcceptsObject(m) <=>
             /\ Supported(m) # << >> /\ Bound(m) /\ (Has(m, "url") => m.url \in AbsoluteUrls)
             /\ Named(m) /\ Extended(m)
    BY <1>1, <1>5, WhatIsAccepted
  <2> QED
    BY <1>2, <1>4, <1>5, <1>6, <1>7, <1>8, <2>1
<1> QED
  BY <1>9 DEF n, s, m

\* What was accepted is, as it comes back from a repository.
LEMMA RestoredIsAccepted ==
  ASSUME NEW raw, IsCard(raw), LocalUrl \in AbsoluteUrls \ {NoUrl},
         AcceptsObject(normalizeAgentCard(raw))
  PROVE  AcceptsObject(normalizeAgentCard(rowToAgentCard(toRow(Parsed(raw)))))
<1> DEFINE n == normalizeAgentCard(raw)
           p == Parsed(raw)
           r == rowToAgentCard(toRow(p))
           m == normalizeAgentCard(r)
<1>1. IsCard(n) /\ IsUpgraded(n) /\ SameField(n, raw, "youagent")
  BY NormalizedCard, UpgradeKeeps
<1>2. /\ IsCard(p) /\ SameAgent(p, raw) /\ Has(p, "skills") /\ Has(p, "capabilities")
      /\ SameField(p, raw, "youagent")
  BY ParsedCard
<1>3. Extended(raw)
  <2>1. Extended(n)
    <3> HIDE DEF n
    <3> QED
      BY <1>1, WhatIsAccepted DEF n
  <2> HIDE DEF n
  <2> QED
    BY <1>1, <2>1, SameExtensions
<1> HIDE DEF n, p
<1>4. /\ IsCard(r) /\ IsUpgraded(r) /\ SameAgent(r, p) /\ Has(r, "url") /\ r.url = LocalUrl
      /\ Supported(r) # << >> /\ Bound(r)
      /\ ~ Has(r, "provider")
      /\ isYouAgent(p) => r.youagent.cadence = p.youagent.cadence
  BY <1>2, RestoredCard DEF Bound
<1> HIDE DEF r
<1>5. HasUrl(r)
  BY <1>4 DEF HasUrl, FieldOr
<1>6. /\ IsCard(m) /\ IsUpgraded(m) /\ Has(m, "url") /\ m.url = r.url
      /\ Supported(m) # << >> /\ Bound(m)
      /\ SameField(m, r, "youagent")
      /\ Has(m, "provider") <=> Has(r, "provider")
  BY <1>4, <1>5, NormalizedCard, UpgradedAgain, UpgradeKeeps, ProviderMade
<1> HIDE DEF m
<1>7. Extended(r)
  <2>1. Extended(p)
    BY <1>2, <1>3, SameExtensions
  <2>2. SUFFICES ASSUME isYouAgent(r) PROVE AcceptsExtensions(r.youagent)
    BY DEF Extended
  <2>3. /\ isYouAgent(p)
        /\ r.youagent.handle = p.youagent.handle /\ r.youagent.interests = p.youagent.interests
        /\ r.youagent.cadence = p.youagent.cadence
    BY <1>4, <2>2 DEF SameAgent
  <2> QED
    BY <2>1, <2>3 DEF Extended, AcceptsExtensions
<1>8. Extended(m)
  BY <1>6, <1>7, SameExtensions
<1>9. Named(m)
  BY <1>4, <1>6 DEF Named
<1>10. AcceptsObject(m)
  BY <1>4, <1>6, <1>8, <1>9, WhatIsAccepted
<1> QED
  BY <1>10 DEF m, r, p

-----------------------------------------------------------------------------
(* The cards of an agent of Discover *)

\* As its agent's first card says, the address aside if it was restored.
CardIsOf(a, form, card) ==
  /\ IsCard(card)
  /\ SameAgent(card, FirstEntry[a])
  /\ getAgentUrl(card) = IF form = "restored" THEN LocalUrl ELSE getAgentUrl(FirstEntry[a])

LEMMA FirstCard ==
  ASSUME NEW a \in Serving
  PROVE  /\ a \in Listed /\ IsCard(FirstEntry[a]) /\ ~ isAgentRecord(FirstEntry[a])
         /\ toAgentCard(FirstEntry[a], UrlOf) = normalizeAgentCard(FirstEntry[a])
BY DiscoverAssumption DEF Serving, toAgentCard

LEMMA ServedCard ==
  ASSUME NEW a \in Serving, NEW form \in Forms
  PROVE  CardIsOf(a, form, CardServed[a][form])
<1> DEFINE first == FirstEntry[a]
<1>1. IsCard(first)
  BY FirstCard
<1> HIDE DEF first
<1>2. CardServed[a][form] =
        CASE form = "first" -> first
          [] form = "strict" -> toV1AgentCard(normalizeAgentCard(first))
          [] form = "restored" -> rowToAgentCard(toRow(Parsed(first)))
  BY DEF CardServed, first
<1>3. CASE form = "first"
  <2>1. CardServed[a][form] = first
    BY <1>2, <1>3
  <2>2. SameAgent(first, first)
    BY DEF SameAgent
  <2> QED
    BY <1>1, <1>3, <2>1, <2>2 DEF CardIsOf, first
<1>4. CASE form = "strict"
  <2> DEFINE n == normalizeAgentCard(first)
  <2>1. CardServed[a][form] = toV1AgentCard(n)
    BY <1>2, <1>4
  <2>2. IsCard(n) /\ IsUpgraded(n) /\ SameAgent(n, first) /\ getAgentUrl(n) = getAgentUrl(first)
    BY <1>1, NormalizedCard
  <2> HIDE DEF n
  <2>3. LET s == toV1AgentCard(n) IN IsCard(s) /\ SameAgent(s, n) /\ getAgentUrl(s) = getAgentUrl(n)
    BY <2>2, StrictCard
  <2>4. SameAgent(toV1AgentCard(n), first)
    BY <2>2, <2>3, SameAgentTrans
  <2> QED
    BY <1>4, <2>1, <2>2, <2>3, <2>4 DEF CardIsOf, first
<1>5. CASE form = "restored"
  <2> DEFINE p == Parsed(first)
  <2>1. CardServed[a][form] = rowToAgentCard(toRow(p))
    BY <1>2, <1>5
  <2>2. IsCard(p) /\ SameAgent(p, first) /\ Has(p, "skills") /\ Has(p, "capabilities")
    BY <1>1, ParsedCard
  <2> HIDE DEF p
  <2>3. LET r == rowToAgentCard(toRow(p)) IN
        IsCard(r) /\ SameAgent(r, p) /\ getAgentUrl(r) = LocalUrl
    BY <2>2, RestoredCard
  <2>4. SameAgent(rowToAgentCard(toRow(p)), first)
    BY <2>2, <2>3, SameAgentTrans
  <2> QED
    BY <1>5, <2>1, <2>3, <2>4 DEF CardIsOf, first
<1> QED
  BY <1>3, <1>4, <1>5 DEF Forms

LEMMA UpgradedCard ==
  ASSUME NEW a, NEW form, NEW card, CardIsOf(a, form, card)
  PROVE  /\ CardIsOf(a, form, normalizeAgentCard(card))
         /\ CardIsOf(a, form, Parsed(card))
<1>1. IsCard(card) /\ SameAgent(card, FirstEntry[a])
  BY DEF CardIsOf
<1>2. LET n == normalizeAgentCard(card) IN
      IsCard(n) /\ SameAgent(n, card) /\ getAgentUrl(n) = getAgentUrl(card)
  BY <1>1, NormalizedCard
<1>3. LET p == Parsed(card) IN IsCard(p) /\ SameAgent(p, card) /\ getAgentUrl(p) = getAgentUrl(card)
  BY <1>1, ParsedCard
<1>4. SameAgent(normalizeAgentCard(card), FirstEntry[a]) /\ SameAgent(Parsed(card), FirstEntry[a])
  BY <1>1, <1>2, <1>3, SameAgentTrans
<1> QED
  BY <1>2, <1>3, <1>4 DEF CardIsOf

LEMMA ReadCards ==
  ASSUME NEW a \in Serving, NEW form \in Forms
  PROVE  /\ CardIsOf(a, form, CardRead[a][form])
         /\ CardIsOf(a, form, CardPosted[a][form])
<1>1. CardRead[a][form] = normalizeAgentCard(CardServed[a][form])
  BY DEF CardRead
<1>2. CardIsOf(a, form, CardRead[a][form])
  BY <1>1, ServedCard, UpgradedCard
<1>3. CardIsOf(a, form, Parsed(CardRead[a][form]))
  BY <1>2, UpgradedCard
<1>4. CardPosted[a][form] = toAgentCard(Parsed(CardRead[a][form]), UrlOf)
  BY DEF CardPosted
<1>5. toAgentCard(Parsed(CardRead[a][form]), UrlOf) = normalizeAgentCard(Parsed(CardRead[a][form]))
  <2> DEFINE p == Parsed(CardRead[a][form])
  <2>1. Has(p, "name")
    BY <1>3, CardParts DEF CardIsOf
  <2> HIDE DEF p
  <2>2. toAgentCard(p, UrlOf) = normalizeAgentCard(p)
    BY <2>1 DEF toAgentCard, isAgentRecord
  <2> QED
    BY <2>2 DEF p
<1>6. CardIsOf(a, form, CardPosted[a][form])
  BY <1>3, <1>4, <1>5, UpgradedCard
<1> QED
  BY <1>2, <1>6

LEMMA FirstIsOf ==
  ASSUME NEW a \in Serving
  PROVE  CardIsOf(a, "first", toAgentCard(FirstEntry[a], UrlOf))
<1>1. SameAgent(FirstEntry[a], FirstEntry[a])
  BY DEF SameAgent
<1>2. CardIsOf(a, "first", FirstEntry[a])
  BY <1>1, FirstCard DEF CardIsOf
<1> QED
  BY <1>2, FirstCard, UpgradedCard

\* Who it takes the agent for.
LEMMA IdentityOfCard ==
  ASSUME NEW a \in Serving, NEW form, NEW card, CardIsOf(a, form, card)
  PROVE  /\ form # "restored" => getAgentIdentifier(card) = FirstIdentity(a)
         /\ getAgentIdentifier(card).id \in {FirstIdentity(a).id, LocalUrl}
<1> DEFINE first == FirstEntry[a]
           listed_ == toAgentCard(first, UrlOf)
<1>1. FirstIdentity(a) = getAgentIdentifier(listed_)
  BY DEF FirstIdentity
<1>2. /\ SameAgent(card, first)
      /\ getAgentUrl(card) = IF form = "restored" THEN LocalUrl ELSE getAgentUrl(first)
  BY DEF CardIsOf
<1>3. SameAgent(listed_, first) /\ getAgentUrl(listed_) = getAgentUrl(first)
  BY FirstIsOf DEF CardIsOf
<1> HIDE DEF first, listed_
<1>4. getAgentIdentifier(listed_) = getAgentIdentifier(first)
  BY <1>3, WhoItIs
<1>5. form # "restored" => getAgentIdentifier(card) = getAgentIdentifier(first)
  BY <1>2, WhoItIs
<1>6. CASE isYouAgent(first)
  <2>1. getAgentIdentifier(card) = getAgentIdentifier(first)
    BY <1>2, <1>6, WhoItIs
  <2> QED
    BY <1>1, <1>4, <2>1
<1>7. CASE ~ isYouAgent(first)
  <2>1. getAgentIdentifier(card).id = getAgentUrl(card)
    BY <1>2, <1>7, WhoItIs
  <2>2. form = "restored" => getAgentIdentifier(card).id = LocalUrl
    BY <1>2, <2>1
  <2> QED
    BY <1>1, <1>4, <1>5, <2>2
<1> QED
  BY <1>6, <1>7

-----------------------------------------------------------------------------
(* The cards that are about *)

\* A card listed is one that its agent has served and the schema accepts, as it was
\* posted, or the one it began with.
ListedAsServed(a) ==
  \/ listed[a] = toAgentCard(FirstEntry[a], UrlOf)
  \/ a \in Serving /\ \E form \in served[a] : listed[a] = CardPosted[a][form]

CardsInv ==
  /\ served \in [Serving -> SUBSET Forms]
  /\ \A a \in Serving : "first" \in served[a]
  /\ \A a \in Serving : WasRestored(a) => SchemaAccepts[a]["first"]
  /\ DOMAIN listed = Listed
  /\ \A a \in Listed : ListedAsServed(a)

LEMMA CardsInitially == DiscoverInit => CardsInv
BY DEF DiscoverInit, CardsInv, ListedAsServed, WasRestored, Forms

LEMMA CardsStep == CardsInv /\ [DiscoverNext]_discoverVars => CardsInv'
<1> SUFFICES ASSUME CardsInv, [DiscoverNext]_discoverVars PROVE CardsInv'
  OBVIOUS
<1>1. CASE UNCHANGED registryVars
  BY <1>1 DEF CardsInv, ListedAsServed, WasRestored, registryVars
<1>2. ASSUME NEW a \in Serving, RegisterExternal(a) PROVE CardsInv'
  <2>1. PICK form \in served[a] :
          listed' = [listed EXCEPT ![a] = CardPosted[a][form]] /\ served' = served
    BY <1>2 DEF RegisterExternal
  <2>2. \A b \in Listed : b # a => listed'[b] = listed[b]
    BY <2>1 DEF CardsInv
  <2>3. a \in Listed /\ listed'[a] = CardPosted[a][form] /\ DOMAIN listed' = Listed
    BY <2>1 DEF CardsInv, Serving
  <2>4. ASSUME NEW b \in Listed PROVE ListedAsServed(b)'
    BY <2>1, <2>2, <2>3 DEF CardsInv, ListedAsServed
  <2> QED
    BY <2>1, <2>3, <2>4 DEF CardsInv, WasRestored
<1>3. ASSUME NEW a \in Serving, NEW form \in Forms, Serve(a, form) PROVE CardsInv'
  <2>1. /\ served' = [served EXCEPT ![a] = @ \cup {form}]
        /\ listed' = listed
        /\ form = "restored" => SchemaAccepts[a]["first"]
    BY <1>3 DEF Serve
  <2>2. /\ served' \in [Serving -> SUBSET Forms]
        /\ \A b \in Serving : served[b] \subseteq served'[b]
        /\ \A b \in Serving : b # a => served'[b] = served[b]
        /\ served'[a] = served[a] \cup {form}
    BY <2>1 DEF CardsInv
  <2>3. ASSUME NEW b \in Listed PROVE ListedAsServed(b)'
    BY <2>1, <2>2 DEF CardsInv, ListedAsServed
  <2>4. ASSUME NEW b \in Serving, WasRestored(b)' PROVE SchemaAccepts[b]["first"]
    BY <2>1, <2>2, <2>4 DEF CardsInv, WasRestored
  <2>5. \A b \in Serving : "first" \in served'[b]
    BY <2>2 DEF CardsInv
  <2>6. DOMAIN listed' = Listed
    BY <2>1 DEF CardsInv
  <2> QED
    BY <2>2, <2>3, <2>4, <2>5, <2>6 DEF CardsInv
<1>4. CASE ~ UNCHANGED registryVars
  BY <1>2, <1>3, <1>4 DEF DiscoverNext, discoverVars, registryVars, BeginInit, EndInit, InitDies,
     FollowAgent, UnfollowAgent, BeginDiscover, EndDiscover
<1> QED
  BY <1>1, <1>4

LEMMA CardsAlways == DiscoverSpec => []CardsInv
BY CardsInitially, CardsStep, PTL DEF DiscoverSpec

\* The form it has come in.
LEMMA AboutIsOf ==
  ASSUME CardsInv, NEW a \in Serving, NEW card \in CardsAbout(a)
  PROVE  \E form \in Forms : (form = "restored" => WasRestored(a)) /\ CardIsOf(a, form, card)
<1>1. CASE \E form \in served[a] : card = CardRead[a][form]
  <2>1. PICK form \in served[a] : card = CardRead[a][form]
    BY <1>1
  <2>2. form \in Forms /\ (form = "restored" => WasRestored(a))
    BY DEF CardsInv, WasRestored
  <2> QED
    BY <2>1, <2>2, ReadCards
<1>2. CASE card = listed[a]
  <2>1. a \in Listed
    BY FirstCard
  <2>2. CASE listed[a] = toAgentCard(FirstEntry[a], UrlOf)
    BY <1>2, <2>2, FirstIsOf DEF Forms
  <2>3. CASE \E form \in served[a] : listed[a] = CardPosted[a][form]
    <3>1. PICK form \in served[a] : listed[a] = CardPosted[a][form]
      BY <2>3
    <3>2. form \in Forms /\ (form = "restored" => WasRestored(a))
      BY DEF CardsInv, WasRestored
    <3> QED
      BY <1>2, <3>1, <3>2, ReadCards
  <2> QED
    BY <2>1, <2>2, <2>3 DEF CardsInv, ListedAsServed
<1> QED
  BY <1>1, <1>2 DEF CardsAbout

\* By whatever conversions of normalizeAgentCard, toV1AgentCard, parse and the rows
\* of AgentCardRepo a card has come, it says of its agent what the first card did;
\* only its address, and the identity of an agent of others, is lost by a row.
THEOREM EveryRouteAgreesAlways == DiscoverSpec => []EveryRouteAgrees
<1>1. ASSUME CardsInv PROVE EveryRouteAgrees
  <2>1. SUFFICES ASSUME NEW a \in Serving, NEW card \in CardsAbout(a)
        PROVE  LET first == FirstEntry[a] IN
               /\ PromisesPush(card) = PromisesPush(first)
               /\ Has(first, "skills") => getEffectiveInterests(card) = getEffectiveInterests(first)
               /\ WasRestored(a) \/ getAgentUrl(card) = getAgentUrl(first)
               /\ \/ WasRestored(a) /\ ~ isYouAgent(first)
                  \/ getAgentIdentifier(card) = getAgentIdentifier(first)
    BY DEF EveryRouteAgrees
  <2>2. PICK form \in Forms :
          (form = "restored" => WasRestored(a)) /\ CardIsOf(a, form, card)
    BY <1>1, AboutIsOf
  <2> DEFINE first == FirstEntry[a]
  <2>3. /\ SameAgent(card, first)
        /\ WasRestored(a) \/ getAgentUrl(card) = getAgentUrl(first)
    BY <2>2 DEF CardIsOf
  <2>4. PromisesPush(card) = PromisesPush(first)
    BY <2>3 DEF SameAgent
  <2> HIDE DEF first
  <2>5. Has(first, "skills") => getEffectiveInterests(card) = getEffectiveInterests(first)
    BY <2>3, WhoItIs
  <2>6. /\ isYouAgent(first) => getAgentIdentifier(card) = getAgentIdentifier(first)
        /\ getAgentUrl(card) = getAgentUrl(first) =>
             getAgentIdentifier(card) = getAgentIdentifier(first)
    BY <2>3, WhoItIs
  <2> QED
    BY <2>3, <2>4, <2>5, <2>6 DEF first
<1> QED
  BY <1>1, CardsAlways, PTL

\* A card that agentCardSchema accepts is accepted in its strict form and as it comes
\* back from a row of AgentCardRepo; one that is refused stays refused, if its urls
\* are absolute.
THEOREM AcceptedAlways == DiscoverSpec => []AcceptedStaysAccepted
<1>1. ASSUME CardsInv PROVE AcceptedStaysAccepted
  <2> SUFFICES ASSUME NEW a \in Serving,
                      getAgentUrl(FirstEntry[a]) \in AbsoluteUrls,
                      HasUrl(FirstEntry[a]) => FirstEntry[a].url \in AbsoluteUrls,
                      NEW form \in served[a]
               PROVE  SchemaAccepts[a][form] = SchemaAccepts[a]["first"]
    BY DEF AcceptedStaysAccepted
  <2> DEFINE first == FirstEntry[a]
             n == normalizeAgentCard(first)
  <2>1. form \in Forms
    BY <1>1 DEF CardsInv
  <2>2. \A f \in Forms : SchemaAccepts[a][f] = AcceptsObject(normalizeAgentCard(CardServed[a][f]))
    BY DEF SchemaAccepts, CardRead
  <2>3. /\ CardServed[a]["first"] = first
        /\ CardServed[a]["strict"] = toV1AgentCard(n)
        /\ CardServed[a]["restored"] = rowToAgentCard(toRow(Parsed(first)))
    BY DEF CardServed, Forms
  <2>4. IsCard(first)
    BY FirstCard
  <2>5. SchemaAccepts[a]["first"] = AcceptsObject(n)
    <3>1. "first" \in Forms
      BY DEF Forms
    <3> HIDE DEF first
    <3> QED
      BY <2>2, <2>3, <3>1 DEF n
  <2>6. CASE form = "first"
    BY <2>6
  <2>7. CASE form = "strict"
    <3>1. AcceptsObject(normalizeAgentCard(toV1AgentCard(n))) <=> AcceptsObject(n)
      BY <2>4, StrictIsAccepted
    <3>2. SchemaAccepts[a]["strict"] = AcceptsObject(normalizeAgentCard(toV1AgentCard(n)))
      <4> HIDE DEF first, n
      <4> QED
        BY <2>1, <2>2, <2>3, <2>7
    <3>3. AcceptsObject(normalizeAgentCard(toV1AgentCard(n))) = AcceptsObject(n)
      <4> HIDE DEF n
      <4>1. AcceptsObject(n) \in BOOLEAN /\ AcceptsObject(normalizeAgentCard(toV1AgentCard(n))) \in BOOLEAN
        BY DEF AcceptsObject
      <4> QED
        BY <3>1, <4>1
    <3> HIDE DEF n
    <3> QED
      BY <2>5, <2>7, <3>2, <3>3
  <2>8. CASE form = "restored"
    <3>1. SchemaAccepts[a]["first"]
      BY <1>1, <2>8 DEF CardsInv, WasRestored
    <3>2. AcceptsObject(n)
      BY <2>5, <3>1
    <3>3. AcceptsObject(normalizeAgentCard(rowToAgentCard(toRow(Parsed(first)))))
      BY <2>4, <3>2, RestoredIsAccepted, DiscoverAssumption
    <3>4. SchemaAccepts[a]["restored"] =
            AcceptsObject(normalizeAgentCard(rowToAgentCard(toRow(Parsed(first)))))
      <4> HIDE DEF first, n
      <4> QED
        BY <2>1, <2>2, <2>3, <2>8
    <3> HIDE DEF first, n
    <3> QED
      BY <2>5, <2>8, <3>2, <3>3, <3>4
  <2> QED
    BY <2>1, <2>6, <2>7, <2>8 DEF Forms
<1> QED
  BY <1>1, CardsAlways, PTL

-----------------------------------------------------------------------------
(* The follows *)

\* A row is kept for every follow that is wanted, under the identity that the agent
\* is still known by or under its name, unless the agent came back from a repository.
FollowsInv ==
  \A wish \in wishes :
    /\ wish = << wish[1], wish[2] >> /\ wish[2] \in Listed
    /\ \/ wish[2] \in Serving /\ WasRestored(wish[2])
       \/ << wish[1], IdentityOf(wish[2]).id >> \in follows
       \/ << wish[1], NameOf[wish[2]] >> \in follows

Lost(a) == a \in Serving /\ WasRestored(a)

\* The identity of an agent is that of its first card, or the local address.
LEMMA IdentityKept ==
  ASSUME CardsInv, NEW a \in Listed
  PROVE  /\ ~ Lost(a) => IdentityOf(a) = FirstIdentity(a)
         /\ IdentityOf(a).id \in {FirstIdentity(a).id, LocalUrl}
<1>1. CASE listed[a] = toAgentCard(FirstEntry[a], UrlOf)
  BY <1>1 DEF IdentityOf, FirstIdentity
<1>2. CASE a \in Serving /\ \E form \in served[a] : listed[a] = CardPosted[a][form]
  <2>1. PICK form \in served[a] : listed[a] = CardPosted[a][form]
    BY <1>2
  <2>2. form \in Forms /\ (form = "restored" => Lost(a))
    BY <1>2 DEF CardsInv, WasRestored, Lost
  <2>3. CardIsOf(a, form, listed[a])
    BY <1>2, <2>1, <2>2, ReadCards
  <2>4. /\ form # "restored" => getAgentIdentifier(listed[a]) = FirstIdentity(a)
        /\ getAgentIdentifier(listed[a]).id \in {FirstIdentity(a).id, LocalUrl}
    BY <1>2, <2>3, IdentityOfCard
  <2> QED
    BY <2>2, <2>4 DEF IdentityOf
<1> QED
  BY <1>1, <1>2 DEF CardsInv, ListedAsServed

\* No other agent takes the identity of one that was never restored.
LEMMA IdentitiesDiffer ==
  ASSUME CardsInv, NEW a \in Listed, NEW b \in Listed, a # b, ~ Lost(b)
  PROVE  IdentityOf(a).id # IdentityOf(b).id
<1>1. IdentityOf(b) = FirstIdentity(b) /\ IdentityOf(a).id \in {FirstIdentity(a).id, LocalUrl}
  BY IdentityKept
<1>2. FirstIdentity(a).id # FirstIdentity(b).id /\ FirstIdentity(b).id # LocalUrl
  BY DiscoverAssumption
<1> QED
  BY <1>1, <1>2

LEMMA FollowsStep ==
  CardsInv /\ CardsInv' /\ FollowsInv /\ [DiscoverNext]_discoverVars => FollowsInv'
<1> SUFFICES ASSUME CardsInv, CardsInv', FollowsInv, [DiscoverNext]_discoverVars PROVE FollowsInv'
  OBVIOUS
<1>1. CASE UNCHANGED << registryVars, followVars >>
  BY <1>1 DEF FollowsInv, IdentityOf, WasRestored, registryVars, followVars
<1>2. ASSUME NEW a \in Serving, RegisterExternal(a) PROVE FollowsInv'
  <2>1. PICK form \in served[a] :
          /\ listed' = [listed EXCEPT ![a] = CardPosted[a][form]]
          /\ served' = served /\ follows' = follows /\ wishes' = wishes
    BY <1>2 DEF RegisterExternal, followVars
  <2>2. SUFFICES ASSUME NEW wish \in wishes, ~ (wish[2] \in Serving /\ WasRestored(wish[2]))
                 PROVE  \/ << wish[1], IdentityOf(wish[2])'.id >> \in follows
                        \/ << wish[1], NameOf[wish[2]] >> \in follows
    BY <2>1 DEF FollowsInv, WasRestored
  <2>3. /\ wish[2] \in Listed
        /\ \/ << wish[1], IdentityOf(wish[2]).id >> \in follows
           \/ << wish[1], NameOf[wish[2]] >> \in follows
    BY <2>2 DEF FollowsInv
  <2>4. CASE wish[2] # a
    BY <2>1, <2>3, <2>4 DEF CardsInv, IdentityOf
  <2>5. CASE wish[2] = a
    <3>1. form \in Forms /\ form # "restored"
      BY <2>1, <2>2, <2>5 DEF CardsInv, WasRestored
    <3>2. CardIsOf(a, form, CardPosted[a][form])
      BY <3>1, ReadCards
    <3>3. getAgentIdentifier(CardPosted[a][form]) = FirstIdentity(a)
      BY <3>1, <3>2, IdentityOfCard
    <3>4. listed'[a] = CardPosted[a][form]
      BY <2>1, <2>3, <2>5 DEF CardsInv
    <3>5. IdentityOf(a)' = FirstIdentity(a)
      BY <3>3, <3>4 DEF IdentityOf
    <3>6. IdentityOf(a) = FirstIdentity(a)
      BY <2>2, <2>3, <2>5, IdentityKept DEF Lost
    <3> QED
      BY <2>3, <2>5, <3>5, <3>6
  <2> QED
    BY <2>4, <2>5
<1>3. ASSUME NEW a \in Serving, NEW form \in Forms, Serve(a, form) PROVE FollowsInv'
  <2>1. /\ served' = [served EXCEPT ![a] = @ \cup {form}]
        /\ listed' = listed /\ follows' = follows /\ wishes' = wishes
    BY <1>3 DEF Serve, followVars
  <2>2. \A b \in Serving : served[b] \subseteq served'[b]
    BY <2>1 DEF CardsInv
  <2> QED
    BY <2>1, <2>2 DEF FollowsInv, IdentityOf, WasRestored
<1>4. ASSUME NEW a \in Listed, FollowAgent(a) PROVE FollowsInv'
  <2>1. PICK i \in 1 .. drawn :
          /\ \E row \in {IdRow(i, a), NameRow(i, a)} : follows' = follows \cup {row}
          /\ wishes' = wishes \cup {<< Ids[i], a >>}
    BY <1>4 DEF FollowAgent
  <2>2. served' = served /\ listed' = listed
    BY <1>4 DEF FollowAgent, registryVars
  <2>3. ASSUME NEW wish \in wishes, wish \in wishes'
        PROVE  /\ wish = << wish[1], wish[2] >> /\ wish[2] \in Listed
               /\ \/ wish[2] \in Serving /\ WasRestored(wish[2])
                  \/ << wish[1], IdentityOf(wish[2]).id >> \in follows'
                  \/ << wish[1], NameOf[wish[2]] >> \in follows'
    BY <2>1 DEF FollowsInv
  <2>4. \/ << Ids[i], IdentityOf(a).id >> \in follows'
        \/ << Ids[i], NameOf[a] >> \in follows'
    BY <2>1 DEF IdRow, NameRow
  <2> QED
    BY <2>1, <2>2, <2>3, <2>4 DEF FollowsInv, IdentityOf, WasRestored
<1>5. ASSUME NEW a \in Listed, UnfollowAgent(a) PROVE FollowsInv'
  <2>1. PICK i \in 1 .. drawn :
          /\ \E rows \in (SUBSET {IdRow(i, a), NameRow(i, a)}) \ {{}} : follows' = follows \ rows
          /\ wishes' = wishes \ {<< Ids[i], a >>}
    BY <1>5 DEF UnfollowAgent
  <2>2. served' = served /\ listed' = listed
    BY <1>5 DEF UnfollowAgent, registryVars
  <2>3. \A row \in follows : row \notin {IdRow(i, a), NameRow(i, a)} => row \in follows'
    BY <2>1
  <2>4. ASSUME NEW wish \in wishes', ~ Lost(wish[2])
        PROVE  \/ << wish[1], IdentityOf(wish[2]).id >> \in follows'
               \/ << wish[1], NameOf[wish[2]] >> \in follows'
    <3> DEFINE b == wish[2]
    <3>1. /\ wish \in wishes /\ wish # << Ids[i], a >>
          /\ wish = << wish[1], b >> /\ b \in Listed
          /\ \/ << wish[1], IdentityOf(b).id >> \in follows
             \/ << wish[1], NameOf[b] >> \in follows
      BY <2>1, <2>4 DEF FollowsInv, Lost
    <3> HIDE DEF b
    <3>2. CASE wish[1] # Ids[i]
      BY <2>3, <3>1, <3>2 DEF IdRow, NameRow, b
    <3>3. CASE wish[1] = Ids[i]
      <4>1. a # b
        BY <3>1, <3>3
      <4>2. IdentityOf(a).id # IdentityOf(b).id /\ ~ Lost(b)
        BY <2>4, <3>1, <4>1, IdentitiesDiffer DEF b
      <4>3. /\ IdentityOf(a).id \in {FirstIdentity(a).id, LocalUrl}
            /\ IdentityOf(b).id = FirstIdentity(b).id
        BY <3>1, <4>2, IdentityKept
      <4>4. /\ NameOf[a] # NameOf[b]
            /\ NameOf[a] # IdentityOf(b).id
            /\ NameOf[b] # IdentityOf(a).id
        BY <3>1, <4>1, <4>3, DiscoverAssumption
      <4>5. /\ << wish[1], IdentityOf(b).id >> \notin {IdRow(i, a), NameRow(i, a)}
            /\ << wish[1], NameOf[b] >> \notin {IdRow(i, a), NameRow(i, a)}
        BY <4>2, <4>4 DEF IdRow, NameRow
      <4> QED
        BY <2>3, <3>1, <4>5 DEF b
    <3> QED
      BY <3>2, <3>3
  <2>5. \A wish \in wishes' : wish = << wish[1], wish[2] >> /\ wish[2] \in Listed
    BY <2>1 DEF FollowsInv
  <2> QED
    BY <2>2, <2>4, <2>5 DEF FollowsInv, IdentityOf, WasRestored, Lost
<1>6. CASE ~ UNCHANGED << registryVars, followVars >>
  <2>1. \/ \E a \in Serving : RegisterExternal(a) \/ \E form \in Forms : Serve(a, form)
        \/ \E a \in Listed : FollowAgent(a) \/ UnfollowAgent(a)
    BY <1>6 DEF DiscoverNext, discoverVars, registryVars, followVars, BeginInit, EndInit, InitDies,
       BeginDiscover, EndDiscover
  <2> QED
    BY <1>2, <1>3, <1>4, <1>5, <2>1
<1> QED
  BY <1>1, <1>6

LEMMA FollowsAlways == DiscoverSpec => []FollowsInv
<1>1. DiscoverInit => FollowsInv
  BY DEF DiscoverInit, FollowsInv
<1> QED
  BY <1>1, CardsAlways, FollowsStep, PTL DEF DiscoverSpec

\* Whenever the answer comes, and whatever init, follow, unfollow and new cards have
\* changed since discover began: its list shows none whose follow is wanted under the
\* id of ours that the run has read, unless the row is for the bare name that was
\* typed or the agent lost its identity in a repository.
THEOREM SuggestionsAreNewAlways == DiscoverSpec => []SuggestionsAreNew
<1>1. ASSUME FollowsInv PROVE SuggestionsAreNew
  <2> SUFFICES ASSUME call # Idle, NEW limit \in Limits, NEW order \in Ranked(limit),
                      NEW a \in Suggestions(order, limit),
                      << call.self.id, a >> \in wishes
               PROVE  \/ << call.self.id, NameOf[a] >> \in follows
                      \/ a \in Serving /\ WasRestored(a)
    BY DEF SuggestionsAreNew
  <2>1. ~ IsFollowed(a, call.self)
    BY DEF Suggestions, FirstOf, New
  <2> DEFINE wish == << call.self.id, a >>
  <2>2. wish[1] = call.self.id /\ wish[2] = a /\ wish \in wishes
    OBVIOUS
  <2> HIDE DEF wish
  <2> QED
    BY <1>1, <2>1, <2>2 DEF FollowsInv, IsFollowed
<1> QED
  BY <1>1, FollowsAlways, PTL

-----------------------------------------------------------------------------
(* How long the list is *)

\* What init makes of a description has as many interests as it has topics.
LEMMA NewInterests ==
  ASSUME NEW id, NEW handle, NEW name, NEW interests
  PROVE  getEffectiveInterests(createAgentCard(id, handle, name, interests)) = interests
<1> DEFINE extensions == [id |-> id, handle |-> handle, interests |-> interests, cadence |-> "6h"]
           rest == [name |-> name, skills |-> << interests, {"investigation", "deep-dive"} >>,
                    capabilities |-> [pushNotifications |-> FALSE], youagent |-> extensions]
           endpoint == jsonRpcEndpoint(LocalUrl)
           e == [url |-> LocalUrl, protocolBinding |-> JsonRpc, protocolVersion |-> JsonRpcVersion]
           raw == Merged(rest, endpoint)
<1>1. createAgentCard(id, handle, name, interests) = Parsed(raw)
  BY DEF createAgentCard
<1>2. /\ DOMAIN rest = {"name", "skills", "capabilities", "youagent"}
      /\ rest["youagent"] = extensions
  <2> HIDE DEF extensions
  <2> QED
    OBVIOUS
<1>3. DOMAIN endpoint = {"supportedInterfaces", "url", "protocolVersion"}
      /\ endpoint["supportedInterfaces"] = << e >>
  BY DEF jsonRpcEndpoint
<1>4. /\ DOMAIN raw = DOMAIN rest \cup DOMAIN endpoint
      /\ raw["youagent"] = extensions /\ raw["supportedInterfaces"] = << e >>
  <2> HIDE DEF rest, endpoint, extensions, e
  <2> QED
    BY <1>2, <1>3 DEF Merged, Has
<1>5. Has(raw, "name") /\ Has(raw, "youagent") /\ ~ Has(raw, "additionalInterfaces")
      /\ Has(raw, "supportedInterfaces")
  <2> HIDE DEF rest, endpoint, raw
  <2> QED
    BY <1>2, <1>3, <1>4 DEF Has
<1> HIDE DEF raw, rest, endpoint
<1>6. IsCard(raw)
  <2>1. Supported(raw) = << e >>
    BY <1>4, <1>5 DEF Supported, FieldOr
  <2>2. Has(e, "url")
    BY DEF Has
  <2>3. Supported(raw) \in Seq({e}) /\ \A i \in DOMAIN Supported(raw) : Supported(raw)[i] = e
    <3> HIDE DEF e
    <3> QED
      BY <2>1
  <2> HIDE DEF e
  <2> QED
    BY <1>5, <2>2, <2>3, CardOf
<1>7. LET p == Parsed(raw) IN SameField(p, raw, "youagent")
  BY <1>6, ParsedCard
<1>8. isYouAgent(Parsed(raw)) /\ Parsed(raw).youagent = extensions
  BY <1>4, <1>5, <1>7 DEF SameField, isYouAgent
<1>9. getEffectiveInterests(Parsed(raw)) = extensions.interests
  BY <1>8 DEF getEffectiveInterests
<1> QED
  BY <1>1, <1>9

CardOrNone(card) == card \in {NoCard, Torn} \/ IsFiniteSet(getEffectiveInterests(card))

LEMMA CardsMadeAreFinite ==
  ASSUME NEW i \in DOMAIN Ids, NEW card \in CardsMade[i]
  PROVE  IsFiniteSet(getEffectiveInterests(card))
<1>1. PICK topics \in Descriptions : card = NewCard(Ids[i], topics)
  BY DEF CardsMade
<1>2. getEffectiveInterests(card) = { topic.word : topic \in Range(topics) }
  BY <1>1, NewInterests DEF NewCard
<1>3. topics \in Seq(Range(topics))
  BY DiscoverAssumption
<1>4. IsFiniteSet({ topics[k].word : k \in 1 .. Len(topics) })
  <2> DEFINE n == Len(topics)
             words == { topics[k].word : k \in 1 .. n }
             f == [k \in 1 .. n |-> topics[k].word]
  <2>1. n \in Nat
    BY <1>3
  <2> HIDE DEF n
  <2>2. IsFiniteSet(1 .. n)
    BY <2>1, FS_Interval
  <2>3. f \in Surjection(1 .. n, words)
    BY DEF Surjection
  <2> HIDE DEF f, words
  <2>4. IsFiniteSet(words)
    BY <2>2, <2>3, FS_Surjection
  <2> QED
    BY <2>4 DEF words, n
<1>5. { topic.word : topic \in Range(topics) } = { topics[k].word : k \in 1 .. Len(topics) }
  <2>1. DOMAIN topics = 1 .. Len(topics)
    BY <1>3
  <2> QED
    BY <2>1 DEF Range
<1> QED
  BY <1>2, <1>4, <1>5

RunInv ==
  /\ drawn \in Nat /\ drawn >= 1
  /\ CardOrNone(file) /\ CardOrNone(writing)
  /\ call # Idle => IsFiniteSet(call.interests)

LEMMA RunAlways == DiscoverSpec => []RunInv
<1>1. DiscoverInit => RunInv
  BY DiscoverAssumption DEF DiscoverInit, RunInv, CardOrNone
<1>2. RunInv /\ [DiscoverNext]_discoverVars => RunInv'
  <2> SUFFICES ASSUME RunInv, [DiscoverNext]_discoverVars PROVE RunInv'
    OBVIOUS
  <2>1. CASE UNCHANGED << ownerVars, call >>
    BY <2>1 DEF RunInv, ownerVars
  <2>2. CASE BeginInit
    <3>1. /\ drawn < Len(Ids) /\ drawn' = drawn + 1 /\ file' = Torn
          /\ writing' \in CardsMade[drawn + 1] /\ call' = call
      BY <2>2 DEF BeginInit
    <3>2. Ids \in Seq(Range(Ids))
      BY DiscoverAssumption
    <3>3. drawn + 1 \in DOMAIN Ids
      BY <3>1, <3>2 DEF RunInv
    <3>4. PICK card \in CardsMade[drawn + 1] : writing' = card
      BY <3>1
    <3>5. IsFiniteSet(getEffectiveInterests(card))
      BY <3>3, CardsMadeAreFinite
    <3>6. CardOrNone(writing')
      BY <3>4, <3>5 DEF CardOrNone
    <3> QED
      BY <3>1, <3>6 DEF RunInv, CardOrNone
  <2>3. CASE EndInit \/ InitDies
    BY <2>3 DEF EndInit, InitDies, RunInv, CardOrNone
  <2>4. CASE BeginDiscover
    <3>1. /\ call' = [self |-> getAgentIdentifier(file), interests |-> getEffectiveInterests(file)]
          /\ HasFile /\ UNCHANGED ownerVars
      BY <2>4 DEF BeginDiscover
    <3>2. IsFiniteSet(getEffectiveInterests(file))
      BY <3>1 DEF HasFile, RunInv, CardOrNone
    <3> QED
      BY <3>1, <3>2 DEF RunInv, ownerVars
  <2>5. CASE EndDiscover
    BY <2>5 DEF EndDiscover, RunInv, ownerVars
  <2> QED
    BY <2>1, <2>2, <2>3, <2>4, <2>5 DEF DiscoverNext, discoverVars, RegisterExternal, Serve,
       FollowAgent, UnfollowAgent
<1> QED
  BY <1>1, <1>2, PTL DEF DiscoverSpec

LEMMA RelevanceIsNat ==
  ASSUME NEW a, NEW interests, IsFiniteSet(interests)
  PROVE  Relevance(a, interests) \in Nat
<1>1. InterestsOf(a) \cap interests \in SUBSET interests
  OBVIOUS
<1> HIDE DEF InterestsOf
<1> QED
  BY <1>1, FS_Subset, FS_CardinalityType DEF Relevance

\* Both orders are: as they were listed, and by what they share with the owner.
LEMMA OrdersAreStrict ==
  ASSUME NEW order \in Orders, NEW interests, IsFiniteSet(interests)
  PROVE  /\ StrictOrder(Listed, AsListed(order))
         /\ StrictOrder(Listed, rankByRelevance(order, interests))
<1>1. /\ \A a \in Listed : order[a] \in Nat
      /\ \A a, b \in Listed : order[a] = order[b] => a = b
  BY DiscoverAssumption
<1>2. \A a \in Listed : Relevance(a, interests) \in Nat
  BY RelevanceIsNat
<1>3. StrictOrder(Listed, AsListed(order))
  BY <1>1 DEF StrictOrder, AsListed
<1> DEFINE R == [a \in Listed |-> Relevance(a, interests)]
<1>4. /\ \A a \in Listed : R[a] \in Nat
      /\ rankByRelevance(order, interests) =
           { p \in Listed \X Listed :
               R[p[1]] > R[p[2]] \/ (R[p[1]] = R[p[2]] /\ order[p[1]] < order[p[2]]) }
  BY <1>2 DEF rankByRelevance
<1> HIDE DEF R
<1>5. \A a, b \in Listed : << a, b >> \in rankByRelevance(order, interests) <=>
                             R[a] > R[b] \/ (R[a] = R[b] /\ order[a] < order[b])
  BY <1>4
<1>6. StrictOrder(Listed, rankByRelevance(order, interests))
  BY <1>1, <1>4, <1>5 DEF StrictOrder
<1> QED
  BY <1>3, <1>6

\* With ourselves and those we follow no more than are asked for in excess, the list
\* is as long as the limit, or holds every agent of the registry that is new and
\* matches: nobody is cut off by one that is left out afterwards.
THEOREM ListIsFullAlways == DiscoverSpec => []ListIsFull
<1>1. ASSUME RunInv PROVE ListIsFull
  <2> SUFFICES ASSUME call # Idle,
                      Cardinality(Matching \ New(Matching)) <= Extra,
                      NEW limit \in Limits, NEW order \in Ranked(limit)
               PROVE  Cardinality(Suggestions(order, limit)) =
                        IF limit < Cardinality(New(Matching)) THEN limit
                        ELSE Cardinality(New(Matching))
    BY DEF ListIsFull
  <2> DEFINE M == Matching
             new == New(Matching)
             known == M \ new
             A == Answer(order, limit)
             shown == New(A)
             interests == call.interests
  <2>1. /\ limit \in Nat /\ Extra \in Nat /\ limit + Extra \in Nat
        /\ order \in Orders /\ IsFiniteSet(interests) /\ IsFiniteSet(Listed)
    BY <1>1, DiscoverAssumption DEF Ranked, RunInv
  <2>2. M \subseteq Listed /\ new \subseteq M /\ IsFiniteSet(M) /\ IsFiniteSet(new) /\ IsFiniteSet(known)
    <3>1. M \in SUBSET Listed /\ new \in SUBSET M /\ known \in SUBSET M
      BY DEF Matching, New
    <3> HIDE DEF M, new
    <3> QED
      BY <2>1, <3>1, FS_Subset
  <2>3. StrictOrder(M, AsListed(order))
    <3> HIDE DEF M, interests
    <3> QED
      BY <2>1, <2>2, OrdersAreStrict, OrderOfSubset
  <2>4. /\ A \subseteq M
        /\ Cardinality(A) = IF limit + Extra < Cardinality(M) THEN limit + Extra ELSE Cardinality(M)
    <3>1. A = FirstOf(limit + Extra, M, AsListed(order))
      BY DEF Answer
    <3> HIDE DEF A, M
    <3> QED
      BY <2>1, <2>2, <2>3, <3>1, FirstOfSize
  <2>5. shown = A \cap new
    BY <2>4 DEF New
  <2> HIDE DEF M, new, A, shown
  <2>6. IsFiniteSet(A) /\ IsFiniteSet(shown) /\ shown \subseteq Listed /\ shown \subseteq new
    <3>1. A \in SUBSET M /\ shown \in SUBSET new
      BY <2>4, <2>5
    <3> QED
      BY <2>2, <3>1, FS_Subset
  <2>7. StrictOrder(shown, rankByRelevance(order, interests))
    <3> HIDE DEF interests
    <3> QED
      BY <2>1, <2>6, OrdersAreStrict, OrderOfSubset
  <2>8. Cardinality(Suggestions(order, limit)) =
          IF limit < Cardinality(shown) THEN limit ELSE Cardinality(shown)
    <3>1. Suggestions(order, limit) = FirstOf(limit, shown, rankByRelevance(order, interests))
      BY DEF Suggestions, shown, A
    <3> HIDE DEF interests
    <3> QED
      BY <2>1, <2>6, <2>7, <3>1, FirstOfSize
  <2>9. /\ Cardinality(M) \in Nat /\ Cardinality(A) \in Nat /\ Cardinality(new) \in Nat
        /\ Cardinality(shown) \in Nat /\ Cardinality(known) \in Nat
    <3> HIDE DEF known
    <3> QED
      BY <2>2, <2>6, FS_CardinalityType
  <2>10. Cardinality(shown) <= Cardinality(new)
    BY <2>2, <2>6, FS_Subset
  <2>11. Cardinality(known) <= Extra
    BY DEF M, new
  <2>12. CASE limit + Extra < Cardinality(M)
    <3>1. Cardinality(A) = limit + Extra
      BY <2>4, <2>12
    <3>2. A \ shown \subseteq known /\ A = shown \cup (A \ shown)
      BY <2>4, <2>5
    <3>3. IsFiniteSet(A \ shown) /\ Cardinality(A \ shown) <= Cardinality(known)
      <4> HIDE DEF known
      <4> QED
        BY <2>2, <3>2, FS_Subset
    <3>4. Cardinality(A) = Cardinality(shown) + Cardinality(A \ shown)
      <4> DEFINE out == A \ shown
      <4>1. A = shown \cup out /\ shown \cap out = {}
        BY <3>2
      <4>2. IsFiniteSet(out)
        BY <3>3
      <4> HIDE DEF out
      <4>3. Cardinality(shown \cup out) =
              Cardinality(shown) + Cardinality(out) - Cardinality(shown \cap out)
        BY <2>6, <4>2, FS_Union
      <4>4. Cardinality(shown \cap out) = 0
        BY <4>1, FS_EmptySet
      <4>5. Cardinality(out) \in Nat
        BY <4>2, FS_CardinalityType
      <4>6. Cardinality(A) = Cardinality(shown) + Cardinality(out)
        BY <2>9, <4>1, <4>3, <4>4, <4>5
      <4> QED
        BY <4>6 DEF out
    <3>5. Cardinality(A \ shown) \in Nat
      BY <3>3, FS_CardinalityType
    <3>6. limit <= Cardinality(shown)
      <4> DEFINE k == Cardinality(known)
                 o == Cardinality(A \ shown)
      <4>1. k \in Nat /\ o \in Nat /\ o <= k /\ k <= Extra
            /\ limit + Extra = Cardinality(shown) + o
        BY <2>9, <2>11, <3>1, <3>3, <3>4, <3>5
      <4> HIDE DEF k, o
      <4> QED
        BY <2>1, <2>9, <4>1
    <3>7. Cardinality(Suggestions(order, limit)) = limit /\ limit <= Cardinality(new)
      BY <2>1, <2>8, <2>9, <2>10, <3>6
    <3> QED
      BY <2>1, <2>9, <3>7 DEF new
  <2>13. CASE ~ (limit + Extra < Cardinality(M))
    <3>1. Cardinality(A) = Cardinality(M)
      BY <2>4, <2>13
    <3>2. A = M
      BY <2>2, <2>4, <3>1, FS_Subset
    <3>3. shown = new
      BY <2>2, <2>5, <3>2
    <3> QED
      BY <2>8, <3>3 DEF new
  <2> QED
    BY <2>12, <2>13
<1> QED
  BY <1>1, RunAlways, PTL
=============================================================================
