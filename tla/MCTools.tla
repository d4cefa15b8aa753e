------------------------------- MODULE MCTools -------------------------------
(* The programs around the proxy, one at a time: the tools that share .env,    *)
(* the rules of the model filter window, how it fetches models, the quota      *)
(* viewer and the credential files.  Each is checked with the others at rest.  *)
EXTENDS EnvTools, ModelFilter, QuotaViewer, CredentialFiles, TLC

TwoSlots == <<"key1", "key2">>
ThreeFetched == <<"f1", "f2", "f3">>
ModelNames == {<<"a">>, <<"a", "b">>}
Ignores == {<<"*">>, <<"a", "*">>, <<"?", "b">>}
Whites == {<<"*", "b">>}

VARIABLE part

\* Initial states of the parts that do not move.
EnvRests == EnvInit /\ ~exists
RulesRest == FilterInit /\ \A p \in FilterProviders : stored[p] = NoRules
FetchRests == FetchInit
ViewRests == ViewInit /\ kept.remotes[1].host = "h1"

ToolsInit ==
  FilesInit /\
  \/ part = "files" /\ EnvRests /\ RulesRest /\ FetchRests /\ ViewRests
  \/ part = "env" /\ EnvInit /\ RulesRest /\ FetchRests /\ ViewRests
  \/ part = "rules" /\ EnvRests /\ FilterInit /\ FetchRests /\ ViewRests
       /\ \A p \in FilterProviders \ {FirstProvider} : stored[p] = NoRules
  \/ part = "fetch" /\ EnvRests /\ RulesRest /\ FetchInit /\ ViewRests
  \/ part = "view" /\ EnvRests /\ RulesRest /\ FetchRests /\ ViewInit
ToolsNext ==
  /\ UNCHANGED part
  /\ \/ part = "env" /\ EnvNext /\ UNCHANGED <<filterVars, fetchVars, viewVars, fileVars>>
     \/ part = "rules" /\ FilterNext /\ UNCHANGED <<envVars, fetchVars, viewVars, fileVars>>
     \/ part = "fetch" /\ FetchStep /\ UNCHANGED <<envVars, filterVars, viewVars, fileVars>>
     \/ part = "view" /\ ViewNext /\ UNCHANGED <<envVars, filterVars, fetchVars, fileVars>>
     \/ part = "files" /\ FilesNext
          /\ UNCHANGED <<envVars, filterVars, fetchVars, viewVars>>
ToolsSpec ==
  /\ ToolsInit /\ [][ToolsNext]_<<part, envVars, filterVars, fetchVars, viewVars, fileVars>>
  /\ (part = "fetch" => FetchFairness)

\* The rules of the filter window: what the window shows is what the proxy does,
\* a merge never loses a model, a list is wrong only while a late answer is, and
\* fetches and redraws come to their end.
FiltersSound ==
  /\ [](WindowTellsProxy /\ WrongOnlyIfLate) /\ [][MergeOnlyAdds]_filterVars
  /\ (part = "fetch" => PrefetchEnds /\ DisplayFollows)
==============================================================================
