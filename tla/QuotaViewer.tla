----------------------------- MODULE QuotaViewer -----------------------------
(***************************************************************************)
(* The quota viewer (quota_viewer.py, quota_viewer_config.py): the remotes   *)
(* it knows, in memory and in a file, and the statistics it holds of the one *)
(* it looks at, which it replaces or merges with what the proxy answers.     *)
(* Keys of the remotes only make requests fail and are left out.             *)
(***************************************************************************)
EXTENDS Integers, Sequences, SequencesExt, FiniteSetsExt

CONSTANTS
  Hosts,         \* where proxies run
  ViewProviders, \* providers of each proxy
  RemoteNames, Local, \* names of remotes; the one of the launcher's proxy
  NoView,        \* no statistics; no viewer
  MaxConfig,     \* bound: changes of the configuration
  MaxUse         \* bound: requests of a proxy

ASSUME ViewConstants ==
  /\ Local \in RemoteNames /\ NoView \notin RemoteNames
  /\ MaxConfig \in Nat /\ MaxUse \in Nat

VARIABLES
  remotes,   \* config["remotes"], each [name, host, default]
  lastUsed,  \* config["last_used"]
  kept,      \* the configuration in the file
  looking,   \* name of current_remote, which is an object of the list
  stats,     \* cached_stats: [of (host), counts, total]
  usage,     \* what the proxies count: requests by host and provider
  configured,
  edited     \* the remote was given another host after its answer came

viewVars == <<remotes, lastUsed, kept, looking, stats, usage, configured, edited>>

NamesOf(rs) == {rs[i].name : i \in DOMAIN rs}
HostOf(rs, n) == rs[CHOOSE i \in DOMAIN rs : rs[i].name = n].host
Undefaulted(rs) == [i \in DOMAIN rs |-> [rs[i] EXCEPT !.default = FALSE]]
\* get_default_remote, get_last_used_remote
DefaultOf(rs) ==
  LET ds == {i \in DOMAIN rs : rs[i].default}
  IN rs[IF ds = {} THEN 1 ELSE Min(ds)].name
LastOf(rs, last) == IF last \in NamesOf(rs) THEN last ELSE DefaultOf(rs)

\* _recalculate_summary
Sum(counts) == MapThenSumSet(LAMBDA p : counts[p], DOMAIN counts)
\* get_quota_stats leaves out the providers without requests.
Answer(h, ps) ==
  LET counts == [p \in {q \in ps : usage[h][q] > 0} |-> usage[h][p]]
  IN [of |-> h, counts |-> counts, total |-> Sum(counts)]

----------------------------------------------------------------------------
ViewInit ==
  /\ remotes = <<>> /\ lastUsed = Local /\ looking = NoView
  /\ \E h \in Hosts :
       kept = [remotes |-> <<[name |-> Local, host |-> h, default |-> TRUE]>>,
               last |-> Local]
  /\ usage = [h \in Hosts |-> [p \in ViewProviders |-> 0]]
  /\ stats = NoView /\ configured = 0 /\ edited = FALSE

\* The proxies go on, or start again without their usage.
Serve(h, p) ==
  /\ Sum(usage[h]) < MaxUse /\ usage' = [usage EXCEPT ![h][p] = @ + 1]
  /\ UNCHANGED <<remotes, lastUsed, kept, looking, stats, configured, edited>>
ProxyRestarts(h) ==
  /\ usage' = [usage EXCEPT ![h] = [p \in ViewProviders |-> 0]]
  /\ UNCHANGED <<remotes, lastUsed, kept, looking, stats, configured, edited>>

\* sync_with_launcher_config
Synced(rs, h) ==
  IF Local \in NamesOf(rs)
  THEN [i \in DOMAIN rs |->
          IF rs[i].name = Local THEN [rs[i] EXCEPT !.host = h] ELSE rs[i]]
  ELSE Append(Undefaulted(rs), [name |-> Local, host |-> h, default |-> TRUE])

\* _save: what cannot be written stays in memory.
SaveConfig ==
  kept' \in {kept, [remotes |-> remotes', last |-> lastUsed']}

\* The viewer loads its file and takes the address of the launcher's proxy.
OpenViewer(h) ==
  /\ looking = NoView
  /\ remotes' = Synced(kept.remotes, h) /\ lastUsed' = kept.last
  /\ SaveConfig
  /\ looking' = LastOf(remotes', lastUsed') /\ stats' = NoView /\ edited' = FALSE
  /\ UNCHANGED <<usage, configured>>
CloseViewer ==
  /\ looking # NoView /\ looking' = NoView /\ stats' = NoView
  /\ remotes' = <<>> /\ lastUsed' = Local /\ edited' = FALSE
  /\ UNCHANGED <<kept, usage, configured>>

----------------------------------------------------------------------------
\* Requests to the proxy; one that fails leaves the statistics as they are.
Viewing == looking # NoView
Here == HostOf(remotes, looking)
NewStats(s) ==
  /\ Viewing /\ stats' = s
  /\ UNCHANGED <<remotes, lastUsed, kept, looking, usage, configured>>

FetchAll == NewStats(Answer(Here, ViewProviders)) /\ edited' = FALSE

\* Mutant: what the provider had before stays in the total.
MergedAdded(p, answer) ==
  LET counts == [q \in DOMAIN stats.counts \cup DOMAIN answer.counts |->
                   IF q = p /\ p \in DOMAIN answer.counts THEN answer.counts[p]
                   ELSE stats.counts[q]]
  IN [stats EXCEPT !.counts = counts, !.total = @ + answer.total]

\* _merge_provider_stats
Merged(p, answer) ==
  LET counts == [q \in DOMAIN stats.counts \cup DOMAIN answer.counts |->
                   IF q = p /\ p \in DOMAIN answer.counts THEN answer.counts[p]
                   ELSE stats.counts[q]]
  IN [stats EXCEPT !.counts = counts, !.total = Sum(counts)]
RefreshProvider(p) ==
  /\ stats # NoView /\ p \in DOMAIN stats.counts
  /\ NewStats(Merged(p, Answer(Here, {p}))) /\ UNCHANGED edited
\* The answer for one credential is that of its provider, and replaces all.
RefreshCredential(p) ==
  /\ stats # NoView /\ p \in DOMAIN stats.counts
  /\ NewStats(Answer(Here, {p})) /\ edited' = FALSE

Switch(n, reached) ==
  /\ Viewing /\ n \in NamesOf(remotes)
  /\ looking' = n /\ lastUsed' = n /\ remotes' = remotes /\ SaveConfig
  /\ stats' = IF reached THEN Answer(HostOf(remotes, n), ViewProviders) ELSE NoView
  /\ edited' = FALSE
  /\ UNCHANGED <<usage, configured>>

----------------------------------------------------------------------------
\* Management of the remotes.
Configure == Viewing /\ configured < MaxConfig /\ configured' = configured + 1
                /\ UNCHANGED usage

AddRemote(n, h) ==
  /\ Configure /\ n \notin NamesOf(remotes)
  /\ remotes' = Append(remotes, [name |-> n, host |-> h, default |-> FALSE])
  /\ lastUsed' = lastUsed /\ SaveConfig
  /\ UNCHANGED <<looking, stats, edited>>

\* update_remote refuses a name that is taken.
RenameRemote(n, m) ==
  /\ Configure /\ n \in NamesOf(remotes) /\ m \notin NamesOf(remotes)
  /\ remotes' = [i \in DOMAIN remotes |->
                   IF remotes[i].name = n THEN [remotes[i] EXCEPT !.name = m]
                   ELSE remotes[i]]
  /\ lastUsed' = (IF lastUsed = n THEN m ELSE lastUsed) /\ SaveConfig
  /\ looking' = IF looking = n THEN m ELSE looking
  /\ UNCHANGED <<stats, edited>>

MoveRemote(n, h) ==
  /\ Configure /\ n \in NamesOf(remotes)
  /\ remotes' = [i \in DOMAIN remotes |->
                   IF remotes[i].name = n THEN [remotes[i] EXCEPT !.host = h]
                   ELSE remotes[i]]
  /\ lastUsed' = lastUsed /\ SaveConfig
  /\ edited' = (edited \/ looking = n) /\ UNCHANGED <<looking, stats>>

DeleteRemote(n) ==
  /\ Configure /\ n \in NamesOf(remotes) /\ Len(remotes) > 1
  /\ \E i \in DOMAIN remotes :
       remotes[i].name = n /\ remotes' = RemoveAt(remotes, i)
  /\ lastUsed' = (IF lastUsed = n THEN remotes'[1].name ELSE lastUsed)
  /\ SaveConfig
  /\ IF looking = n
     THEN looking' = DefaultOf(remotes') /\ stats' = NoView /\ edited' = FALSE
     ELSE UNCHANGED <<looking, stats, edited>>

SetDefault(n) ==
  /\ Configure /\ n \in NamesOf(remotes)
  /\ remotes' = [i \in DOMAIN remotes |->
                   [remotes[i] EXCEPT !.default = (remotes[i].name = n)]]
  /\ lastUsed' = lastUsed /\ SaveConfig
  /\ UNCHANGED <<looking, stats, edited>>

ViewNext ==
  \/ \E h \in Hosts : OpenViewer(h) \/ ProxyRestarts(h)
  \/ \E h \in Hosts, p \in ViewProviders : Serve(h, p)
  \/ CloseViewer \/ FetchAll
  \/ \E p \in ViewProviders : RefreshProvider(p) \/ RefreshCredential(p)
  \/ \E n \in RemoteNames, reached \in BOOLEAN : Switch(n, reached)
  \/ \E n \in RemoteNames, h \in Hosts : AddRemote(n, h) \/ MoveRemote(n, h)
  \/ \E n, m \in RemoteNames : RenameRemote(n, m)
  \/ \E n \in RemoteNames : DeleteRemote(n) \/ SetDefault(n)

ViewSpec == ViewInit /\ [][ViewNext]_viewVars

----------------------------------------------------------------------------
\* Under whatever additions, renames, deletions, failed saves and restarts of
\* the launcher's proxy: the file and the viewer hold at least one remote, no
\* two of one name, at most one default, and what the viewer looks at is one
\* of them (QuotaViewerConfig).
ConfigSound ==
  \A rs \in {kept.remotes} \cup (IF Viewing THEN {remotes} ELSE {}) :
    /\ rs # <<>>
    /\ \A i, j \in DOMAIN rs :
         i # j => rs[i].name # rs[j].name /\ ~(rs[i].default /\ rs[j].default)
    /\ rs = remotes => {looking, lastUsed} \subseteq NamesOf(rs)

\* The statistics under the name of a remote are those of its proxy, whatever
\* failed while remotes were switched, renamed or deleted; only a remote whose
\* address was edited keeps those of the old one (show_switch_remote_screen,
\* _delete_remote_dialog).
StatsOfRemote == stats # NoView /\ ~edited => stats.of = Here

\* The totals add up what is shown, also after one provider was refreshed
\* alone (_merge_provider_stats).
TotalsAddUp == stats # NoView => stats.total = Sum(stats.counts)

\* The quota viewer shows what belongs together, of a remote it knows.
ViewsSound == ConfigSound /\ StatsOfRemote /\ TotalsAddUp
=============================================================================
