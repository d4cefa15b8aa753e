--------------------------- MODULE MCRefreshQueue ---------------------------
(* The OAuth credentials of the proxy in one run: the refresh queue          *)
(* ("queue"), the tokens of one credential ("tokens") and the choice of the  *)
(* credentials that rotate ("start").  Each part abstracts the other two: the *)
(* queue's refreshes are tasks of the tokens that may be stopped, and the     *)
(* start of one credential is the Starter of the tokens.                      *)
EXTENDS RefreshQueue, OAuthCredentials, CredentialStartup, TLC

CONSTANTS p1, p2, u1, u2, a1, a2

TwoPaths == {p1, p2}
TwoUsers == {u1, u2}
TwoAccounts == {a1, a2}

VARIABLE part

AnyTokens ==
  /\ TokInit /\ ~file.project /\ ~issuer.expiring /\ ~issuer.rotates
AnyStart ==
  /\ StartInit
  /\ \A f \in Files : /\ kind[f] = "env" /\ stored[f] = NoAccount
                       /\ owner[f] = NoAccount /\ works[f]

PartsInit ==
  \/ part = "queue" /\ Init /\ AnyTokens /\ AnyStart
  \/ part = "tokens" /\ Init /\ TokInit /\ AnyStart
  \/ part = "start" /\ Init /\ AnyTokens /\ StartInit
PartsNext ==
  /\ UNCHANGED part
  /\ \/ part = "queue" /\ Next /\ UNCHANGED <<tokVars, startVars>>
     \/ part = "tokens" /\ TokNext /\ UNCHANGED <<vars, startVars>>
     \/ part = "start" /\ StartNext /\ UNCHANGED <<vars, tokVars>>
PartsSpec ==
  /\ PartsInit /\ [][PartsNext]_<<part, vars, tokVars, startVars>>
  /\ (part = "queue" => WF_vars(Process))
  /\ (part = "tokens" => TokFairness)

\* What is queued for a refresh is refreshed or given up, and a request that needs
\* a header gets one or is refused (RefreshQueue's Drained, OAuthCredentials'
\* HeaderAnswered).
RefreshesEnd ==
  /\ part = "queue" => Drained
  /\ part = "tokens" => HeaderAnswered
=============================================================================
