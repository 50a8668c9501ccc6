------------------------ MODULE NetworkSearchClient ------------------------
(***************************************************************************)
(* NetworkSearchClient (src/client/network-search-client.ts) beside        *)
(* YouSearchClient: an agent without a key of its own searches through the *)
(* network's proxy, with the same loop of attempts and no limiter, and a   *)
(* 429 of the proxy, whose caps are daily, is final.                       *)
(***************************************************************************)
EXTENDS SearchClient

VARIABLES
  provider,     \* the client that the process makes its searches with
  exited        \* the process is gone

providerVars == << clientVars, provider, exited >>

\* A You.com key goes first, then the key of the agent's registration; with
\* neither there is no search.
resolveSearchProvider(hasKey, hasCredentials) ==
  IF hasKey THEN {"direct"} ELSE IF hasCredentials THEN {"network"} ELSE {}

ProviderInit ==
  /\ ClientInit
  /\ \E hasKey, hasCredentials \in BOOLEAN :
       provider \in resolveSearchProvider(hasKey, hasCredentials)
  /\ exited = FALSE

-----------------------------------------------------------------------------
(* request() at the proxy *)

\* An attempt is sent as soon as the call, or the delay before it, is over.
SendToProxy(c) ==
  /\ stage[c] = "idle"
  /\ Go(c, "fetching")
  /\ UNCHANGED << attempt, status >>
  /\ UNCHANGED limiterVars

RetryAtProxy(c) ==
  /\ stage[c] = "retrying"
  /\ attempt' = [attempt EXCEPT ![c] = @ + 1]
  /\ Go(c, "fetching")
  /\ UNCHANGED status
  /\ UNCHANGED limiterVars

ProxyRespondsOk(c) ==
  /\ stage[c] = "fetching"
  /\ Go(c, "body")
  /\ UNCHANGED << attempt, status >>
  /\ UNCHANGED limiterVars

\* A 429 says that the cap of the day is reached: a refusal like any other.
ProxyFailure(http) == IF http = "429" THEN "4xx" ELSE http

ProxyRespondsError(c) ==
  \E http \in {"429", "5xx", "4xx"} : RespondError(c, ProxyFailure(http))

ProxyErrorBodyRead(c) ==
  /\ stage[c] = "errorBody"
  /\ FailAttempt(c, status[c])
  /\ UNCHANGED attempt
  /\ UNCHANGED limiterVars

\* The fetch rejects or is aborted after timeoutMs.
ProxyFetchFails(c) ==
  /\ stage[c] = "fetching"
  /\ FailAttempt(c, "network")
  /\ UNCHANGED attempt
  /\ UNCHANGED limiterVars

ProxyStep(c) ==
  \/ ProxyRespondsOk(c)
  \/ BodyParsed(c)
  \/ BodyFails(c)
  \/ ProxyRespondsError(c)
  \/ ProxyErrorBodyRead(c)
  \/ ProxyFetchFails(c)
  \/ RetryAtProxy(c)

WithProvider(which) ==
  /\ provider = which
  /\ ~ exited
  /\ UNCHANGED << provider, exited >>

DirectStep(c) == WithProvider("direct") /\ RequestStep(c)

NetworkStep(c) == WithProvider("network") /\ ProxyStep(c)

\* A fetch, a read of a body and a sleep keep the process up; a place in the
\* queue does not, for the refill timer is unref'ed.  With nothing else to keep
\* it up (a server, a scheduled job) it exits.
HoldsProcess(c) ==
  stage[c] \notin {"idle", "done", "failed"} /\ waiting[c] # "queued"

Exit ==
  /\ ~ exited
  /\ \A c \in Callers : ~ HoldsProcess(c)
  /\ exited' = TRUE
  /\ UNCHANGED << clientVars, provider >>

ProviderNext ==
  \/ \E c \in Callers : WithProvider("direct") /\ StartRequest(c)
  \/ \E c \in Callers : DirectStep(c)
  \/ WithProvider("direct") /\ LimiterStep
  \/ \E c \in Callers : WithProvider("network") /\ SendToProxy(c)
  \/ \E c \in Callers : NetworkStep(c)
  \/ Exit

ProviderSpec == ProviderInit /\ [][ProviderNext]_providerVars

\* While the process is up the timeout ends every fetch and every read of a
\* body, timers fire, time passes.  Nobody has to start a search or dispose
\* the client, and a process need not exit: something may keep it up.
ProviderFairness ==
  /\ \A c \in Callers : WF_providerVars(DirectStep(c))
  /\ \A c \in Callers : WF_providerVars(NetworkStep(c))
  /\ \A c \in Callers :
       WF_providerVars(WithProvider("direct") /\ Wake(c) /\ UNCHANGED requestVars)
  /\ WF_providerVars(WithProvider("direct") /\ Refill /\ UNCHANGED requestVars)
  /\ WF_providerVars(WithProvider("direct") /\ Tick /\ UNCHANGED requestVars)

ProviderFairSpec == ProviderSpec /\ ProviderFairness

-----------------------------------------------------------------------------
(* Properties *)

\* Every search ends: request() returns or throws, however the server answers
\* and however other calls drain the bucket and extend the windows it waits
\* for.  Only one that queues can wait for ever: after dispose(), which has
\* rejected those queued before it and stopped the refills, or because the
\* process exits when nothing but queued calls is left of it.
CallsEnd ==
  []<>( \A c \in Callers :
          \/ stage[c] \in {"idle", "done", "failed"}
          \/ waiting[c] = "queued" /\ (disposed \/ exited) )
=============================================================================
