------------------------------ MODULE EnvTools ------------------------------
(***************************************************************************)
(* The .env file and the programs of one process that share it: the        *)
(* launcher, the settings tool, the model filter window, the credential    *)
(* tool and, after them and in the same process, the proxy.  Each reads     *)
(* settings from the environment of the process (os.environ), which         *)
(* load_dotenv(override=True) fills from the file but never empties.        *)
(***************************************************************************)
EXTENDS Integers, Sequences, FiniteSets

CONSTANTS
  BaseKeys,    \* <PROVIDER>_API_BASE
  ModeKeys,    \* ROTATION_MODE_<PROVIDER>
  LimitKeys,   \* concurrency limits of the provider: the mode is set with them
  ModelKeys,   \* <PROVIDER>_MODELS, a set of models
  SettingKeys, \* settings of a provider plugin
  FilterKeys,  \* IGNORE_MODELS_<PROVIDER>
  SlotKeys,    \* <PROVIDER>_API_KEY_<n>, in the order of their numbers
  ProxyKey,    \* PROXY_API_KEY
  Values,      \* values of the keys that hold no models
  NewKeys,     \* API keys the credential tool is given
  Absent,      \* no such key
  Empty,       \* the key with nothing behind it
  Generated,   \* the key ensure_env_defaults makes up
  Nothing,     \* no change staged
  Removed,     \* None in pending_changes
  Models,      \* models of a provider
  MaxPending,  \* bound: changes staged at a time
  MaxVisits    \* bound: tools opened and keys of the proxy changed

SlotNumbers == DOMAIN SlotKeys
Slots == {SlotKeys[n] : n \in SlotNumbers}
Keys == BaseKeys \cup ModeKeys \cup LimitKeys \cup ModelKeys \cup SettingKeys
          \cup FilterKeys \cup Slots \cup {ProxyKey}

\* The names of API keys are those of nothing else.
ASSUME EnvConstants ==
  /\ MaxPending \in Nat /\ MaxVisits \in Nat
  /\ Slots \cap (BaseKeys \cup ModeKeys \cup LimitKeys \cup ModelKeys
                   \cup SettingKeys \cup FilterKeys \cup {ProxyKey}) = {}

VARIABLES
  exists,   \* is there a .env
  file,     \* what it holds
  environ,  \* os.environ
  screen,   \* "menu": the launcher's; "settings", "saving", "filters",
            \* "credentials"; "onboarding": credentials asked for by a start;
            \* "proxy"; "stopped": no process
  pending,  \* AdvancedSettings.pending_changes
  toWrite,  \* of a save: the keys still to be written
  before,   \* of a save: the file when it began
  proxy,    \* the environment the running proxy read
  visits,   \* tools opened
  direct    \* main.py was given arguments, so that there was no launcher

envVars == <<exists, file, environ, screen, pending, toWrite, before, proxy,
             visits, direct>>

NoChanges == [k \in Keys |-> Nothing]
NoEnviron == [k \in Keys |-> Absent]
Unset(e) == e[ProxyKey] \in {Absent, Empty}

\* load_dotenv(override=True): what the file lost stays in the environment.
Load(f) == environ' = [k \in Keys |-> IF f[k] = Absent THEN environ[k] ELSE f[k]]

\* set_key and unset_key of python-dotenv, which replace the file as a whole.
SetKey(f, k, v) == [f EXCEPT ![k] = v]

EnvTypeOK ==
  /\ DOMAIN file = Keys /\ DOMAIN environ = Keys /\ DOMAIN pending = Keys
  /\ toWrite \subseteq Keys
  /\ (\E k \in Keys : file[k] # Absent) => exists
  /\ screen \in {"menu", "settings", "saving", "filters", "credentials",
                 "onboarding", "proxy", "stopped"}
  /\ visits \in 0..MaxVisits

\* Either nothing is there yet or one of everything.
EnvInit ==
  /\ exists \in BOOLEAN
  /\ \E v \in Values :
       file = [k \in Keys |->
                 IF ~exists \/ k \in FilterKeys THEN Absent
                 ELSE IF k \in ModelKeys THEN Models ELSE v]
  /\ environ = NoEnviron /\ screen = "stopped"
  /\ pending = NoChanges /\ toWrite = {} /\ before = NoEnviron
  /\ proxy = NoEnviron /\ visits = 0 /\ direct = FALSE

----------------------------------------------------------------------------
\* The launcher.

\* main.py without arguments: the launcher loads the file.
Launch ==
  /\ screen = "stopped"
  /\ environ' = file /\ screen' = "menu" /\ direct' = FALSE
  /\ UNCHANGED <<exists, file, pending, toWrite, before, proxy, visits>>

Visit == visits < MaxVisits /\ visits' = visits + 1

OpenSettings ==
  /\ screen = "menu" /\ Visit
  /\ Load(file) /\ screen' = "settings" /\ pending' = NoChanges
  /\ UNCHANGED <<exists, file, toWrite, before, proxy, direct>>

\* Option 6, "Configuration reloaded!".
Reload ==
  /\ screen = "menu" /\ Load(file)
  /\ UNCHANGED <<exists, file, screen, pending, toWrite, before, proxy, visits,
                 direct>>

\* A new key for the proxy, or DISABLE, which stores an empty one.
ChangeProxyKey(v) ==
  /\ screen = "menu" /\ Visit
  /\ v # (IF environ[ProxyKey] = Absent THEN Empty ELSE environ[ProxyKey])
  /\ exists' = TRUE /\ file' = SetKey(file, ProxyKey, v)
  /\ Load(file')
  /\ UNCHANGED <<screen, pending, toWrite, before, proxy, direct>>

\* ensure_env_defaults
EnsureDefaults ==
  /\ exists' = TRUE
  /\ file' = IF file[ProxyKey] = Absent
             THEN SetKey(file, ProxyKey, Generated) ELSE file

NeedsOnboarding == ~exists \/ Unset(environ)

\* The launcher ends and main.py goes on in its process; its load_dotenv does
\* not override, and there is nothing left to load.
StartProxy == screen' = "proxy" /\ proxy' = environ'

RunProxy ==
  /\ screen = "menu"
  /\ \/ /\ ~NeedsOnboarding
        /\ UNCHANGED <<exists, file, environ>> /\ StartProxy
     \/ /\ NeedsOnboarding
        /\ EnsureDefaults /\ Load(file') /\ screen' = "onboarding"
        /\ UNCHANGED proxy
  /\ UNCHANGED <<pending, toWrite, before, visits, direct>>

\* main.py with arguments: the API keys are taken from the environment before
\* the key of the proxy is asked for, that is, before the onboarding.
RunDirectly ==
  /\ screen = "stopped" /\ direct' = TRUE /\ proxy' = file
  /\ \/ /\ ~Unset(file) \/ exists
        /\ screen' = "proxy" /\ environ' = file
        /\ UNCHANGED <<exists, file>>
     \/ /\ Unset(file) /\ ~exists
        /\ EnsureDefaults /\ environ' = file' /\ screen' = "onboarding"
  /\ UNCHANGED <<pending, toWrite, before, visits>>

ProxyStops ==
  /\ screen = "proxy"
  /\ screen' = "stopped" /\ proxy' = NoEnviron /\ environ' = NoEnviron
  /\ UNCHANGED <<exists, file, pending, toWrite, before, visits, direct>>

----------------------------------------------------------------------------
\* The settings tool.

Type(k) ==  \* get_change_type
  CASE pending[k] = Nothing -> "none"
    [] pending[k] = Removed -> "remove"
    [] OTHER -> IF environ[k] = Absent THEN "add" ELSE "edit"
Effective(k) == IF pending[k] = Nothing THEN environ[k] ELSE pending[k]
Shown(k) == environ[k] # Absent \/ Type(k) = "add"

\* Staging works on any number of keys of a menu.
Stage(f) ==
  /\ screen = "settings"
  /\ pending' = [k \in Keys |-> IF k \in DOMAIN f THEN f[k] ELSE pending[k]]
  /\ Cardinality({k \in Keys : pending'[k] # Nothing}) <= MaxPending
  /\ UNCHANGED <<exists, file, environ, screen, toWrite, before, proxy,
                 visits, direct>>
StageOne(k, v) == Stage([l \in {k} |-> v])

AddProvider(k, v) == k \in BaseKeys /\ StageOne(k, v)
EditProvider(k, v) ==
  /\ k \in BaseKeys /\ Shown(k) /\ Type(k) # "remove" /\ v # Effective(k)
  /\ StageOne(k, v)
\* A staged addition is taken back, anything else is staged for removal.
RemoveProvider(k) ==
  /\ k \in BaseKeys /\ Shown(k) /\ Type(k) # "remove"
  /\ StageOne(k, IF Type(k) = "add" THEN Nothing ELSE Removed)

AddModels(k, ms) == k \in ModelKeys /\ StageOne(k, ms)
\* The menu starts from the environment and not from a staged change.
EditModels(k, m) ==
  LET now == environ[k]
      new == IF m \in now THEN now \ {m} ELSE now \cup {m}
  IN /\ k \in ModelKeys /\ environ[k] # Absent /\ Type(k) # "remove"
     /\ StageOne(k, IF new = {} THEN Removed ELSE new)
RemoveModels(k) ==
  /\ k \in ModelKeys /\ Shown(k) /\ Type(k) # "remove"
  /\ StageOne(k, IF Type(k) = "add" THEN Nothing ELSE Removed)

SetMode(k, v) == k \in ModeKeys /\ StageOne(k, v)
ResetMode(k) ==
  /\ k \in ModeKeys /\ Shown(k) /\ Type(k) # "remove"
  /\ StageOne(k, IF Type(k) = "add" THEN Nothing ELSE Removed)

EditSetting(k, v) == k \in SettingKeys /\ StageOne(k, v)
ResetSettings(ks) == ks \subseteq SettingKeys /\ Stage([k \in ks |-> Removed])

\* The mode is staged before the limits are asked for, and stays staged when
\* one of them is no number.
SetLimits(mode, v, valid) ==
  Stage([k \in ModeKeys \cup (IF valid THEN LimitKeys ELSE {}) |->
           IF k \in ModeKeys THEN mode ELSE v])
RemoveLimits == Stage([k \in LimitKeys |-> Removed])

SaveAndExit ==
  /\ screen = "settings"
  /\ toWrite' = {k \in Keys : pending[k] # Nothing}
  /\ IF toWrite' = {} THEN screen' = "menu" /\ Load(file) /\ UNCHANGED before
     ELSE screen' = "saving" /\ before' = file /\ UNCHANGED environ
  /\ UNCHANGED <<exists, file, pending, proxy, visits, direct>>

\* Mutant: nothing is taken out of the file.
SaveKeyOnly(k) ==
  /\ k \in toWrite
  /\ file' = IF pending[k] = Removed THEN file ELSE SetKey(file, k, pending[k])
  /\ exists' = TRUE /\ toWrite' = toWrite \ {k}
  /\ UNCHANGED <<environ, screen, pending, before, proxy, visits, direct>>

SaveKey(k) ==
  /\ k \in toWrite
  /\ file' = SetKey(file, k, IF pending[k] = Removed THEN Absent ELSE pending[k])
  /\ exists' = TRUE /\ toWrite' = toWrite \ {k}
  /\ UNCHANGED <<environ, screen, pending, before, proxy, visits, direct>>

\* The tool reloads the file and then the launcher does.
Saved ==
  /\ screen = "saving" /\ toWrite = {}
  /\ pending' = NoChanges /\ Load(file) /\ screen' = "menu"
  /\ before' = NoEnviron
  /\ UNCHANGED <<exists, file, toWrite, proxy, visits, direct>>

\* Nobody catches an error of set_key: the launcher ends with it.
SaveBreaks ==
  /\ screen = "saving" /\ toWrite # {}
  /\ screen' = "stopped" /\ environ' = NoEnviron
  /\ pending' = NoChanges /\ toWrite' = {} /\ before' = NoEnviron
  /\ UNCHANGED <<exists, file, proxy, visits, direct>>

ExitWithoutSaving ==
  /\ screen = "settings"
  /\ pending' = NoChanges /\ Load(file) /\ screen' = "menu"
  /\ UNCHANGED <<exists, file, toWrite, before, proxy, visits, direct>>

\* The window of the model filters writes the file and leaves the environment
\* as it loaded it.
OpenFilters ==
  /\ screen = "settings" /\ Load(file) /\ screen' = "filters"
  /\ UNCHANGED <<exists, file, pending, toWrite, before, proxy, visits, direct>>
SaveFilters(k, v) ==
  /\ screen = "filters" /\ k \in FilterKeys
  /\ file' = SetKey(file, k, v) /\ exists' = TRUE
  /\ UNCHANGED <<environ, screen, pending, toWrite, before, proxy, visits,
                 direct>>
CloseFilters ==
  /\ screen = "filters" /\ screen' = "settings"
  /\ UNCHANGED <<exists, file, environ, pending, toWrite, before, proxy,
                 visits, direct>>

----------------------------------------------------------------------------
\* The credential tool.

AtCredentials == screen \in {"credentials", "onboarding"}

OpenCredentials ==
  /\ screen = "menu" /\ Visit
  /\ EnsureDefaults /\ screen' = "credentials"
  /\ UNCHANGED <<environ, pending, toWrite, before, proxy, direct>>

\* The first number that no line of the file uses.
FreeSlot(n) == file[SlotKeys[n]] = Absent
                 /\ \A o \in 1..n-1 : file[SlotKeys[o]] # Absent

AddKey(n, v) ==
  /\ AtCredentials /\ FreeSlot(n)
  /\ file' = SetKey(file, SlotKeys[n], v) /\ exists' = TRUE
  /\ UNCHANGED <<environ, screen, pending, toWrite, before, proxy, visits,
                 direct>>

\* The base URL is replaced, the key takes a number of its own.
AddCustomProvider(k, n, v) ==
  /\ AtCredentials /\ k \in BaseKeys /\ FreeSlot(n)
  /\ file' = SetKey(SetKey(file, k, v), SlotKeys[n], v) /\ exists' = TRUE
  /\ UNCHANGED <<environ, screen, pending, toWrite, before, proxy, visits,
                 direct>>

DeleteKey(s) ==
  /\ AtCredentials /\ s \in Slots /\ file[s] # Absent
  /\ file' = SetKey(file, s, Absent)
  /\ UNCHANGED <<exists, environ, screen, pending, toWrite, before, proxy,
                 visits, direct>>

\* The deletion rewrites the file in place.  When it fails after the file was
\* opened nothing is restored, and nothing of it may be left.
DeletionBreaks ==
  /\ AtCredentials /\ \E s \in Slots : file[s] # Absent
  /\ file' = NoEnviron
  /\ UNCHANGED <<exists, environ, screen, pending, toWrite, before, proxy,
                 visits, direct>>

QuitCredentials ==
  /\ AtCredentials
  /\ Load(file)
  /\ \/ /\ screen = "credentials" \/ (~direct /\ Unset(environ'))
        /\ screen' = "menu" /\ UNCHANGED proxy
     \/ /\ screen = "onboarding" /\ ~direct /\ ~Unset(environ')
        /\ StartProxy
     \/ \* The API keys and the filters were read before.
        /\ screen = "onboarding" /\ direct
        /\ screen' = "proxy"
        /\ proxy' = [k \in Keys |-> IF k \in Slots \cup FilterKeys
                                   THEN proxy[k] ELSE environ'[k]]
  /\ UNCHANGED <<exists, file, pending, toWrite, before, visits, direct>>
EnvNext ==
  \/ Launch \/ OpenSettings \/ Reload \/ RunProxy \/ RunDirectly \/ ProxyStops
  \/ \E v \in Values \cup {Empty} : ChangeProxyKey(v)
  \/ \E k \in BaseKeys, v \in Values : AddProvider(k, v) \/ EditProvider(k, v)
  \/ \E k \in BaseKeys : RemoveProvider(k)
  \/ \E k \in ModelKeys, ms \in SUBSET Models \ {{}} : AddModels(k, ms)
  \/ \E k \in ModelKeys, m \in Models : EditModels(k, m)
  \/ \E k \in ModelKeys : RemoveModels(k)
  \/ \E k \in ModeKeys, v \in Values : SetMode(k, v)
  \/ \E k \in ModeKeys : ResetMode(k)
  \/ \E k \in SettingKeys, v \in Values : EditSetting(k, v)
  \/ \E ks \in SUBSET SettingKeys \ {{}} : ResetSettings(ks)
  \/ \E mode, v \in Values, valid \in BOOLEAN : SetLimits(mode, v, valid)
  \/ RemoveLimits \/ SaveAndExit \/ Saved \/ SaveBreaks \/ ExitWithoutSaving
  \/ \E k \in toWrite : SaveKey(k)
  \/ OpenFilters \/ CloseFilters
  \/ \E k \in FilterKeys, v \in Values \cup {Absent} : SaveFilters(k, v)
  \/ OpenCredentials \/ DeletionBreaks \/ QuitCredentials
  \/ \E s \in Slots : DeleteKey(s)
  \/ \E n \in SlotNumbers, v \in NewKeys : AddKey(n, v)
  \/ \E k \in BaseKeys, n \in SlotNumbers, v \in Values :
       AddCustomProvider(k, n, v)

EnvSpec == EnvInit /\ [][EnvNext]_envVars

----------------------------------------------------------------------------
\* Whenever the launcher's menu is shown, after whatever tool and however it
\* ended, the environment holds every key of the file with the value it has
\* there (the calls of load_dotenv at the end of each tool).
EnvHoldsFile ==
  screen = "menu" =>
    \A k \in Keys : file[k] # Absent => environ[k] = file[k]

\* While a save writes one key after the other, and when it is done, every key
\* that was not staged is as before, every staged one is as before or as it
\* was staged, and in the end all of them are (AdvancedSettings.save).
SaveIsExact ==
  screen = "saving" =>
    \A k \in Keys :
      file[k] = IF pending[k] = Nothing \/ k \in toWrite THEN before[k]
                ELSE IF pending[k] = Removed THEN Absent ELSE pending[k]

\* A stored API key is never replaced by another one: tools add under numbers
\* that are free, or delete (setup_api_key, setup_custom_openai_provider).
SlotsKept == \A s \in Slots : file[s] # Absent => file'[s] \in {file[s], Absent}
KeysKept == [][SlotsKept]_envVars

\* A proxy started from the launcher asks its clients for a key, and has read
\* what the file holds: onboarding, changes of the key and the tools in
\* between notwithstanding (run_proxy).
ProxyUsesFile ==
  screen = "proxy" /\ ~direct =>
    /\ ~Unset(proxy)
    /\ \A k \in Keys : file[k] # Absent => proxy[k] = file[k]

\* The launcher, the tools and the proxy agree on .env, and no save loses a key.
EnvSound ==
  [](EnvTypeOK /\ EnvHoldsFile /\ SaveIsExact /\ ProxyUsesFile) /\ KeysKept
=============================================================================
