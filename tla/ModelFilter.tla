----------------------------- MODULE ModelFilter -----------------------------
(***************************************************************************)
(* The model filter window (model_filter_gui.py).  Its rules: which models *)
(* of a provider are ignored or whitelisted, how rules are merged, loaded   *)
(* from the environment of the process and saved to .env, and how the proxy *)
(* reads what was saved (client/models.py).  Its models: threads that fetch *)
(* them, their cache, the chain of timers that fetches every provider ahead, *)
(* and the timer that repaints after the rules changed.  The callbacks of a  *)
(* fetch run in its thread and do not look whether the provider they belong  *)
(* to is still the one shown.                                               *)
(***************************************************************************)
EXTENDS Integers, Sequences
LOCAL INSTANCE SequencesExt

-----------------------------------------------------------------------------
(* The rules.                                                               *)

CONSTANTS
  FilterProviders, \* providers with credentials
  FirstProvider,   \* the one shown first
  Names,           \* names of models, as sequences of characters
  IgnorePatterns,  \* patterns a user may enter, as sequences of characters
  WhitePatterns,
  MaxEdits         \* bound: changes of the rules

ASSUME FilterConstants ==
  /\ FirstProvider \in FilterProviders /\ MaxEdits \in Nat
  /\ \A p \in IgnorePatterns \cup WhitePatterns : p # <<>>

VARIABLES
  current,   \* current_provider
  rules,     \* FilterEngine's rules: [ignore, white]
  saved,     \* _original_ignore_patterns, _original_whitelist_patterns
  stored,    \* .env: the rules of each provider, {} when there is no key
  inProcess, \* os.environ, likewise
  open,      \* is the window open
  edits,
  edit,      \* what last changed the rules
  gone,      \* keys <<provider, list>> this process took out of the file
  broken     \* providers whose last save failed half-way

filterVars == <<current, rules, saved, stored, inProcess, open, edits, edit,
                gone, broken>>

Lists == {"ignore", "white"}
NoRules == [l \in Lists |-> {}]
Unsaved == rules # saved

----------------------------------------------------------------------------
\* fnmatch, without character sets.
RECURSIVE Matches(_, _)
Matches(name, pattern) ==
  IF pattern = <<>> THEN name = <<>>
  ELSE IF Head(pattern) = "*"
       THEN \/ Matches(name, Tail(pattern))
            \/ name # <<>> /\ Matches(Tail(name), pattern)
       ELSE /\ name # <<>> /\ Head(pattern) \in {"?", Head(name)}
            /\ Matches(Tail(name), Tail(pattern))

\* The name alone or behind the provider.
Hits(p, name, pattern) ==
  Matches(name, pattern) \/ Matches(<<p, "/">> \o name, pattern)
HitBy(p, patterns) == {n \in Names : \E q \in patterns : Hits(p, n, q)}

\* _compute_status: the whitelist goes first.
Ignored(p, r) == HitBy(p, r["ignore"]) \ HitBy(p, r["white"])

\* Mutant: every pattern is taken for a prefix.
CoveredByPrefix(new, old) == new = old \/ IsPrefix(Front(old), new)
\* pattern_is_covered_by compares the texts of the patterns.
CoveredBy(new, old) ==
  \/ new = old
  \/ old = <<"*">>
  \/ /\ Last(old) = "*"
     /\ IsPrefix(Front(old), IF Last(new) = "*" THEN Front(new) ELSE new)

\* is_model_allowed of the proxy, over the lists it read from the file.
ProxyBlocks(p, f) ==
  {n \in Names :
     /\ \A q \in f["white"] : ~Hits(p, n, q)
     /\ f["ignore"] = {<<"*">>} \/ \E q \in f["ignore"] : Hits(p, n, q)}

----------------------------------------------------------------------------
FilterInit ==
  /\ current = FirstProvider
  /\ stored \in [FilterProviders -> {NoRules} \cup
                   {[ignore |-> {q}, white |-> {}] : q \in IgnorePatterns}]
  /\ inProcess = stored /\ rules = stored[FirstProvider] /\ saved = rules
  /\ open = TRUE /\ edits = 0 /\ edit = "load" /\ gone = {} /\ broken = {}

\* load_from_env: load_dotenv does not forget a key the file no longer has.
LoadRules(p, file) ==
  /\ inProcess' = [o \in FilterProviders |-> [l \in Lists |->
                     IF file[o][l] = {} THEN inProcess[o][l] ELSE file[o][l]]]
  /\ rules' = inProcess'[p] /\ saved' = inProcess'[p] /\ edit' = "load"

Edit(l, new, how) ==
  /\ open /\ edits < MaxEdits /\ edits' = edits + 1
  /\ rules' = [rules EXCEPT ![l] = new] /\ edit' = how
  /\ UNCHANGED <<current, saved, stored, inProcess, open, gone, broken>>

\* _add_ignore_pattern, _add_whitelist_pattern: nothing when a rule covers the
\* new one; the rules the new one covers are removed.
AddRule(l, new) ==
  /\ \A old \in rules[l] : ~CoveredBy(new, old)
  /\ Edit(l, {old \in rules[l] : ~CoveredBy(old, new)} \cup {new}, "merge")

\* The context menu of a model enters its name.
AddModel(l, name) == AddRule(l, name)

RemoveRule(l, pattern) ==
  pattern \in rules[l] /\ Edit(l, rules[l] \ {pattern}, "remove")

\* The import replaces all rules of a list, without merging.
Import(l, patterns) ==
  patterns # {} /\ rules[l] # patterns /\ Edit(l, patterns, "replace")

\* save_to_env writes one key and then the other; an error ends it and leaves
\* the rules unsaved.
Written(l) == [stored EXCEPT ![current][l] = rules[l]]
Save(outcome) ==
  \/ /\ outcome = "saved"
     /\ stored' = [stored EXCEPT ![current] = rules]
     /\ gone' = gone \cup {<<current, l>> : l \in
                             {k \in Lists : rules[k] = {} /\ stored[current][k] # {}}}
     /\ broken' = broken \ {current}
  \/ /\ outcome = "half"
     /\ stored' = Written("ignore")
     /\ gone' = gone \cup (IF rules["ignore"] = {} /\ stored[current]["ignore"] # {}
                            THEN {<<current, "ignore">>} ELSE {})
     /\ broken' = broken \cup {current}

SaveChanges(outcome) ==
  /\ open /\ Save(outcome)
  /\ saved' = IF outcome = "saved" THEN rules ELSE saved
  /\ UNCHANGED <<current, rules, inProcess, open, edits, edit>>

DiscardChanges ==
  /\ open /\ Unsaved /\ LoadRules(current, stored)
  /\ UNCHANGED <<current, stored, open, edits, gone, broken>>

\* With unsaved changes the user is asked, and a save that fails does not keep
\* the window where it is.
Leave(choice) ==
  \/ /\ choice \in {"saved", "half"} /\ Unsaved /\ Save(choice)
  \/ /\ choice = "discard" /\ UNCHANGED <<stored, gone, broken>>

SwitchProvider(p, choice) ==
  /\ open /\ p # current
  /\ Leave(choice) /\ current' = p /\ LoadRules(p, stored')
  /\ UNCHANGED <<open, edits>>

Close(choice) ==
  /\ open /\ Leave(choice) /\ open' = FALSE
  /\ UNCHANGED <<current, rules, saved, inProcess, edits, edit>>

\* The settings tool opens the window again, in the same process.
Reopen ==
  /\ ~open /\ open' = TRUE
  /\ current' = FirstProvider /\ LoadRules(FirstProvider, stored)
  /\ UNCHANGED <<stored, edits, gone, broken>>

FilterNext ==
  \/ \E q \in IgnorePatterns : AddRule("ignore", q) \/ RemoveRule("ignore", q)
  \/ \E q \in WhitePatterns : AddRule("white", q) \/ RemoveRule("white", q)
  \/ \E l \in Lists, n \in Names : AddModel(l, n)
  \/ \E s \in SUBSET IgnorePatterns : Import("ignore", s)
  \/ \E s \in SUBSET WhitePatterns : Import("white", s)
  \/ \E o \in {"saved", "half"} : SaveChanges(o)
  \/ \E p \in FilterProviders, c \in {"saved", "half", "discard"} :
       SwitchProvider(p, c)
  \/ \E c \in {"saved", "half", "discard"} : Close(c)
  \/ DiscardChanges \/ Reopen

FilterSpec == FilterInit /\ [][FilterNext]_filterVars

----------------------------------------------------------------------------
\* A rule entered by hand adds to what is hit and takes nothing away, although
\* it removes the rules whose text it covers (the "smart merge" of
\* _add_ignore_pattern and _add_whitelist_pattern).
MergeOnlyAdds ==
  edit' = "merge" =>
    \A l \in Lists :
      HitBy(current', rules'[l]) =
        HitBy(current', rules[l]) \cup HitBy(current', rules'[l] \ rules[l])

\* Without unsaved changes the window shows as ignored exactly the models that
\* a proxy started afresh will not offer, unless this process has taken one of
\* the two keys out of the file or a save broke in the middle.
WindowTellsProxy ==
  open /\ ~Unsaved /\ current \notin broken
    /\ (\A l \in Lists : <<current, l>> \notin gone)
  => Ignored(current, rules) = ProxyBlocks(current, stored[current])

-----------------------------------------------------------------------------
(* The models shown.                                                        *)

CONSTANTS
  FetchProviders, \* the providers, in the order of the list
  NoProvider,     \* nothing shown
  MaxUserFetches, \* bound: fetches asked for by the user at a time
  MaxChanges      \* bound: changes of the rules

ASSUME FetchConstants ==
  MaxUserFetches \in Nat \ {0} /\ MaxChanges \in Nat /\ FetchProviders # <<>>

VARIABLES
  selected,   \* current_provider
  cached,     \* _model_cache, by provider
  shown,      \* whose models are in self.models
  ahead,      \* _pending_providers_to_fetch
  busy,       \* _fetch_in_progress
  timers,     \* scheduled calls of _fetch_next_provider
  prefetch,   \* the provider the running prefetch fetches
  fetches,    \* running fetches for the user, by provider
  late,       \* providers left while they were being fetched
  rule,       \* changes of the rules so far
  scheduled,  \* _update_scheduled
  painted     \* the change the window shows

fetchVars == <<selected, cached, shown, ahead, busy, timers, prefetch, fetches,
               late, rule, scheduled, painted>>

All == {FetchProviders[i] : i \in DOMAIN FetchProviders}
First == FetchProviders[1]
UserFetches == MapThenSumSet(LAMBDA p : fetches[p], All)
Running(p) == prefetch = p \/ fetches[p] > 0

\* _load_providers starts the chain and selects the first provider, which is
\* then fetched twice.
FetchInit ==
  /\ selected = First /\ cached = {} /\ shown = NoProvider
  /\ ahead = Tail(FetchProviders) /\ busy = TRUE /\ timers = 0
  /\ prefetch = First
  /\ fetches = [p \in All |-> IF p = First THEN 1 ELSE 0]
  /\ late = {} /\ rule = 0 /\ scheduled = FALSE /\ painted = 0

display == <<rule, scheduled, painted>>

\* _fetch_next_provider
FetchNext ==
  /\ timers > 0
  /\ \/ /\ ahead = <<>> \/ busy
        /\ timers' = timers - 1
        /\ UNCHANGED <<ahead, busy, prefetch>>
     \/ /\ ahead # <<>> /\ ~busy /\ Head(ahead) \in cached
        /\ ahead' = Tail(ahead)
        /\ UNCHANGED <<timers, busy, prefetch>>
     \/ /\ ahead # <<>> /\ ~busy /\ Head(ahead) \notin cached
        /\ ahead' = Tail(ahead) /\ busy' = TRUE /\ prefetch' = Head(ahead)
        /\ timers' = timers - 1
  /\ UNCHANGED <<selected, cached, shown, fetches, late, display>>

\* on_done and on_error of a prefetch
PrefetchDone(p) ==
  /\ prefetch = p
  /\ cached' = cached \cup {p} /\ prefetch' = NoProvider
  /\ busy' = FALSE /\ timers' = timers + 1
  /\ shown' = IF p = selected THEN p ELSE shown
  /\ UNCHANGED <<selected, ahead, fetches, late, display>>
PrefetchFails(p) ==
  /\ prefetch = p
  /\ prefetch' = NoProvider /\ busy' = FALSE /\ timers' = timers + 1
  /\ UNCHANGED <<selected, cached, shown, ahead, fetches, late, display>>

\* _on_models_loaded takes the models of whatever provider was fetched.
FetchDone(p) ==
  /\ fetches[p] > 0
  /\ cached' = cached \cup {p} /\ fetches' = [fetches EXCEPT ![p] = @ - 1]
  /\ shown' = p
  /\ UNCHANGED <<selected, ahead, busy, timers, prefetch, late, display>>
FetchFails(p) ==
  /\ fetches[p] > 0 /\ fetches' = [fetches EXCEPT ![p] = @ - 1]
  /\ UNCHANGED <<selected, cached, shown, ahead, busy, timers, prefetch, late,
                 display>>

Select(p) ==
  /\ p # selected /\ UserFetches < MaxUserFetches
  /\ selected' = p
  /\ late' = late \cup (IF Running(selected) THEN {selected} ELSE {})
  /\ IF p \in cached THEN shown' = p /\ UNCHANGED fetches
     ELSE shown' = NoProvider /\ fetches' = [fetches EXCEPT ![p] = @ + 1]
  /\ UNCHANGED <<cached, ahead, busy, timers, prefetch, display>>

Refresh ==
  /\ UserFetches < MaxUserFetches
  /\ cached' = cached \ {selected}
  /\ fetches' = [fetches EXCEPT ![selected] = @ + 1]
  /\ UNCHANGED <<selected, shown, ahead, busy, timers, prefetch, late, display>>

\* _on_rules_changed: one repaint for the changes of 50 ms.
RulesChange ==
  /\ rule < MaxChanges /\ rule' = rule + 1
  /\ scheduled' = TRUE
  /\ UNCHANGED <<selected, cached, shown, ahead, busy, timers, prefetch,
                 fetches, late, painted>>
\* _perform_rules_update
Repaint ==
  /\ scheduled /\ scheduled' = FALSE /\ painted' = rule
  /\ UNCHANGED <<selected, cached, shown, ahead, busy, timers, prefetch,
                 fetches, late, rule>>

FetchStep ==
  \/ FetchNext \/ Refresh \/ RulesChange \/ Repaint
  \/ \E p \in All : \/ PrefetchDone(p) \/ PrefetchFails(p)
                    \/ FetchDone(p) \/ FetchFails(p) \/ Select(p)

\* The window runs its timers, and a fetch ends by its timeout at the latest.
FetchFairness ==
  /\ WF_fetchVars(FetchNext) /\ WF_fetchVars(Repaint)
  /\ WF_fetchVars(\E p \in All : PrefetchDone(p) \/ PrefetchFails(p))

FetchSpec == FetchInit /\ [][FetchStep]_fetchVars /\ FetchFairness

----------------------------------------------------------------------------
\* Every provider is fetched ahead in the end, failures of the ones before it
\* and whatever the user fetches notwithstanding (_fetch_next_provider).
PrefetchEnds == <>(ahead = <<>> /\ ~busy)

\* The window shows the last change of the rules in the end, however close the
\* changes are (_on_rules_changed).
DisplayFollows == <>[](painted = rule)

\* Models of another provider than the selected one are shown only when that
\* one was left while its fetch was running (_on_provider_changed).
WrongOnlyIfLate == shown \in {NoProvider, selected} \cup late
=============================================================================
