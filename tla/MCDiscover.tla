----------------------------- MODULE MCDiscover -----------------------------
\* Cards and small numbers for the run of Discover.
EXTENDS Discover

CONSTANTS alpha, beta, delta, rho, own

Text(word, length) == [word |-> word, length |-> length, cut |-> FALSE]
Topic(word) == Text(word, 4)

WebUrls ==
  {"https://alpha", "https://beta", "https://beta/v1", "https://delta", "https://you/rho",
   "https://you/own", LocalUrl}

Handle(word) == [word |-> word, length |-> 4, hyphen |-> FALSE]

\* A card of ours from before v1.0, with everything that has been renamed since.
Alpha ==
  [name |-> Text("alpha", 5), url |-> "https://alpha", protocolVersion |-> "0.2.1",
   preferredTransport |-> "http+json",
   additionalInterfaces |-> << [url |-> "10.0.0.1:50051", transport |-> "grpc"] >>,
   provider |-> [name |-> "alpha inc", url |-> "https://alpha"],
   supportsAuthenticatedExtendedCard |-> TRUE,
   security |-> << [oauth |-> {"read"}] >>,
   capabilities |-> [pushNotifications |-> TRUE, stateTransitionHistory |-> TRUE],
   skills |-> << {"rust"}, {"wasm"} >>,
   youagent |-> [id |-> "id-alpha", handle |-> Handle("alpha"), interests |-> {"rust"},
                 cadence |-> "6h"]]

\* A card of others on its way to v1.0, whose url is not the one it prefers.
Beta ==
  [name |-> Text("beta", 4), url |-> "https://beta",
   supportedInterfaces |->
     << [url |-> "https://beta/v1", protocolBinding |-> "HTTP+JSON", protocolVersion |-> "1.0"],
        [url |-> "https://beta", protocolBinding |-> JsonRpc] >>,
   skills |-> << {"go"} >>]

\* One that prefers gRPC, at a host and port, and says nothing of its skills.
Delta ==
  [name |-> Text("delta", 5), url |-> "https://delta",
   supportedInterfaces |->
     << [url |-> "10.0.0.2:443", protocolBinding |-> "GRPC", protocolVersion |-> "1.0"] >>]

Record(word, topics) ==
  [id |-> "external-" \o word, handle |-> Handle(word), displayName |-> Text(word, 4),
   interests |-> topics]

TheEntries ==
  (alpha :> Alpha) @@ (beta :> Beta) @@ (delta :> Delta) @@
  (rho :> Record("rho", {"go", "rust"})) @@ (own :> Record("rust", {"rust"}))

Urls == (Handle("rho") :> "https://you/rho") @@ (Handle("rust") :> "https://you/own")

Names == [a \in {alpha, beta, delta, rho, own} |->
  CASE a = alpha -> "alpha" [] a = beta -> "beta" [] a = delta -> "delta" [] a = rho -> "rho"
    [] OTHER -> "rust"]

TheIds == << "id1", "id2" >>

\* The card of the registration, or one from before v1.0.
FirstCards ==
  { NewCard("id1", << Topic("rust"), Topic("go") >>),
    [name |-> Text("rust", 4), url |-> LocalUrl,
     youagent |-> [id |-> "id1", handle |-> Handle("rust"), interests |-> {"rust"},
                   cadence |-> "6h"]] }

\* Each agent is cut off in some order, and comes before the cut in another.
TheOrders ==
  LET order == << alpha, own, beta, rho, delta >> IN
  { [a \in Range(order) |-> (CHOOSE i \in 0 .. 4 : order[((i + k) % 5) + 1] = a)] :
      k \in {0, 2, 3} }

TheDescriptions == { << Topic("go"), Topic("rust") >>, << Text("ai", 2) >> }
=============================================================================
