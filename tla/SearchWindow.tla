---------------------------- MODULE SearchWindow ----------------------------
(***************************************************************************)
(* The search clients of NetworkSearchClient with the history of RateWindow *)
(* beside them: the limiter as the requests of one process really drive it. *)
(***************************************************************************)
EXTENDS NetworkSearchClient, RateWindow

searchVars == << providerVars, issued >>

SearchInit == ProviderInit /\ NothingIssued

\* Time passes for the limiter, and nothing else happens.
TimePasses == WithProvider("direct") /\ Tick /\ UNCHANGED requestVars

SearchNext ==
  \/ TimePasses /\ Older
  \/ ProviderNext /\ ~ TimePasses /\ Counted

SearchSpec == SearchInit /\ [][SearchNext]_searchVars /\ ProviderFairness
=============================================================================
