---------------------------- MODULE QuotaPolling ----------------------------
(***************************************************************************)
(* The background refresher: it starts and stops, and the job of a          *)
(* provider that asks how much quota its credentials have left and tells     *)
(* the usage manager (background_refresher.py, run_background_job of the      *)
(* providers, and the quota trackers).                                        *)
(*                                                                         *)
(* Gemini CLI asks for all credentials first, later one after the other for  *)
(* those in use, and stores all answers at the end; Firmware, Chutes and       *)
(* NanoGPT have a coroutine per credential that asks and stores.               *)
(* Time is left out: a quota period ends at any moment, and the answers and   *)
(* cooldowns of that period with it, as they carry its reset time.            *)
(***************************************************************************)
EXTENDS Naturals, FiniteSets

CONSTANTS Creds, Concurrency  \* QUOTA_FETCH_CONCURRENCY

ASSUME PollConstants == "none" \notin Creds /\ Concurrency \in Nat

VARIABLES
  kind,     \* the provider
  main,     \* the refresher's task: "none", "init", "loop", "ended"
  job,      \* the job's task: "none", "sleeping", "fetching", "storing", "ended"
  first,    \* ~_initial_quota_fetch_done
  child,    \* of the job, per credential: "idle", "queued", "fetching", "fetched"
  answer,   \* what was fetched: "none", "left" (or spent without a reset time),
            \* "spent", "past" (spent in a period that is over), "failed"
  manual,   \* the credential force_refresh_quota is asked to refresh, or "none"
  told,     \* its answer
  inUse,    \* credentials used within the last interval (Gemini's job asks)
  spent,    \* at the provider: no quota is left
  resting,  \* credentials on cooldown for quota
  aside,    \* credentials with a cooldown under a key that no request checks
  unsaved,  \* the usage manager has something the file has not
  phase,    \* of the proxy: "up", "stopJob", "stopMain", "closing", "exited"
  cancelled \* tasks that were cancelled and have not ended: of {"job", "main"}

pollVars == <<kind, main, job, first, child, answer, manual, told, inUse, spent,
              resting, aside, unsaved, phase, cancelled>>
provider == <<inUse, spent>>
refresher == <<main, job, first, child, answer, cancelled>>

Each(x) == [c \in Creds |-> x]
PollInit ==
  /\ kind \in {"gemini", "firmware", "chutes", "nanogpt"}
  /\ main = "none" /\ job = "none" /\ first = TRUE
  /\ child = Each("idle") /\ answer = Each("none")
  /\ manual = "none" /\ told = "none"
  /\ inUse = {} /\ spent = {} /\ resting = {} /\ aside = {} /\ unsaved = FALSE
  /\ phase = "up" /\ cancelled = {}

----------------------------------------------------------------------------
\* Requests and the provider.

\* A request that gets the credential: it is counted, or refused for quota,
\* which the usage manager turns into a cooldown until the period's end.
Use(c) ==
  /\ phase = "up" /\ c \notin resting
  /\ inUse' = IF kind = "gemini" THEN inUse \cup {c} ELSE inUse
  /\ \/ spent' = spent /\ c \notin spent /\ UNCHANGED resting
     \/ spent' = spent \cup {c} /\ c \notin spent /\ UNCHANGED resting
     \/ c \in spent /\ resting' = resting \cup {c} /\ UNCHANGED spent
  /\ unsaved' = TRUE
  /\ UNCHANGED <<kind, refresher, manual, told, aside, phase>>

\* More than an interval passes without a request.
Unused(c) ==
  /\ c \in inUse /\ inUse' = inUse \ {c}
  /\ UNCHANGED <<kind, refresher, manual, told, spent, resting, aside, unsaved, phase>>

\* The period ends.
PastPeriod(a) == IF a = "spent" THEN "past" ELSE a
Renew(c) ==
  /\ c \in spent /\ spent' = spent \ {c} /\ resting' = resting \ {c}
  /\ aside' = aside \ {c}
  /\ answer' = [answer EXCEPT ![c] = PastPeriod(@)]
  /\ told' = IF manual = c THEN PastPeriod(told) ELSE told
  /\ UNCHANGED <<kind, main, job, first, child, manual, inUse, unsaved, phase,
                 cancelled>>

\* What a fetch can return.  Any error, and an answer without what is needed,
\* becomes a failed answer or an exception while it is stored.
\* Gemini: no fraction means that nothing is left; a rest needs a reset time.
GeminiAnswers(c) ==
  {IF fraction \in {"null", "zero"} /\ timed THEN "spent" ELSE "left" :
     fraction \in (IF c \in spent THEN {"null", "zero"} ELSE {"some", "all"}),
     timed \in BOOLEAN}
\* Firmware: a share that is no number counts as none used.
FirmwareAnswers(c) ==
  {IF used = "all" /\ timed THEN "spent" ELSE "left" :
     used \in (IF c \in spent THEN {"all", "unknown"} ELSE {"some", "unknown"}),
     timed \in BOOLEAN}
\* Chutes: no quota counts as nothing left; the reset is the next midnight.
ChutesAnswers(c) == IF c \in spent THEN {"spent"} ELSE {"left", "spent"}
\* NanoGPT: a limit of zero counts as no limit.
NanoGptAnswers(c) == IF c \in spent THEN {"spent", "left"} ELSE {"left"}
Answers(c) ==
  {"failed"} \cup
    CASE kind = "gemini" -> GeminiAnswers(c) [] kind = "firmware" -> FirmwareAnswers(c)
      [] kind = "chutes" -> ChutesAnswers(c) [] kind = "nanogpt" -> NanoGptAnswers(c)

\* Mutant: the cooldown lasts as long as the answer said when it was fetched.
GeminiRestsFromNow(c, a) ==
  /\ kind = "gemini"
  /\ resting' = IF a \in {"spent", "past"} THEN resting \cup {c} ELSE resting
  /\ UNCHANGED aside
\* update_quota_baseline applies the cooldown of an answer to the quota group.
GeminiRests(c, a) ==
  /\ kind = "gemini"
  /\ resting' = IF a = "spent" THEN resting \cup {c} ELSE resting
  /\ UNCHANGED aside
\* The cooldown is for the virtual model; requests check theirs and its group.
FirmwareRests(c, a) ==
  /\ kind = "firmware" /\ aside' = IF a = "spent" THEN aside \cup {c} ELSE aside
  /\ UNCHANGED resting
\* Only the windows that are shown are updated.
ChutesCounts(c, a) == kind = "chutes" /\ UNCHANGED <<resting, aside>>
NanoGptCounts(c, a) == kind = "nanogpt" /\ UNCHANGED <<resting, aside>>
StoreAnswer(c, a) ==
  /\ GeminiRests(c, a) \/ FirmwareRests(c, a) \/ ChutesCounts(c, a)
       \/ NanoGptCounts(c, a)
  /\ unsaved' = (unsaved \/ a # "failed")

----------------------------------------------------------------------------
\* The refresher's own task.
StartRefresher ==
  /\ main = "none" /\ phase = "up" /\ main' = "init"
  /\ UNCHANGED <<kind, job, first, child, answer, manual, told, provider, resting, aside,
                 unsaved, phase, cancelled>>

Stopped(task) == task \in cancelled
\* _initialize_credentials ends, whatever a provider raised in it, and the job
\* is started.
BeginPoll ==
  /\ child' = [c \in Creds |-> IF (kind = "gemini" /\ ~first) => c \in inUse
                                THEN "queued" ELSE "idle"]
  /\ answer' = Each("none") /\ job' = "fetching"
\* Then it refreshes tokens in a loop (RefreshQueue), which changes nothing here.
StartJobs ==
  /\ main = "init" /\ ~Stopped("main") /\ main' = "loop" /\ BeginPoll
  /\ UNCHANGED <<kind, first, manual, told, provider, resting, aside, unsaved, phase,
                 cancelled>>
----------------------------------------------------------------------------
\* The job.
JobWakes ==
  /\ job = "sleeping" /\ ~Stopped("job") /\ BeginPoll
  /\ UNCHANGED <<kind, main, first, manual, told, provider, resting, aside, unsaved, phase,
                 cancelled>>

AtOnce == IF kind = "gemini" /\ ~first THEN 1 ELSE Concurrency
Ask(c) ==
  /\ job = "fetching" /\ ~Stopped("job") /\ child[c] = "queued"
  /\ Cardinality({d \in Creds : child[d] = "fetching"}) < AtOnce
  /\ child' = [child EXCEPT ![c] = "fetching"]
  /\ UNCHANGED <<kind, main, job, first, answer, manual, told, provider, resting, aside,
                 unsaved, phase, cancelled>>
Fetched(c) ==
  /\ job = "fetching" /\ ~Stopped("job") /\ child[c] = "fetching"
  /\ \E a \in Answers(c) : answer' = [answer EXCEPT ![c] = a]
  /\ child' = [child EXCEPT ![c] = "fetched"]
  /\ UNCHANGED <<kind, main, job, first, manual, told, provider, resting, aside, unsaved,
                 phase, cancelled>>
\* All of a gathering job's answers are there.
Gathered ==
  /\ kind = "gemini" /\ job = "fetching" /\ ~Stopped("job")
  /\ \A c \in Creds : child[c] \in {"idle", "fetched"}
  /\ job' = "storing" /\ first' = FALSE
  /\ UNCHANGED <<kind, main, child, answer, manual, told, provider, resting, aside, unsaved,
                 phase, cancelled>>
\* An answer is stored: after the last fetch, or right after its own.
Store(c) ==
  /\ job = (IF kind = "gemini" THEN "storing" ELSE "fetching") /\ ~Stopped("job")
  /\ child[c] = "fetched" /\ child' = [child EXCEPT ![c] = "idle"]
  /\ StoreAnswer(c, answer[c])
  /\ UNCHANGED <<kind, main, job, first, answer, manual, told, provider, phase,
                 cancelled>>

\* Mutant: an error of the first run ends the job.
PollEndsOrDies ==
  /\ job \in {"fetching", "storing"} /\ ~Stopped("job")
  /\ kind = "gemini" => job = "storing"
  /\ \A c \in Creds : child[c] = "idle"
  /\ job' = IF \E c \in Creds : answer[c] = "failed" THEN "ended" ELSE "sleeping"
  /\ UNCHANGED <<kind, main, first, child, answer, manual, told, provider, resting, aside,
                 unsaved, phase, cancelled>>
PollEnds ==
  /\ job \in {"fetching", "storing"} /\ ~Stopped("job")
  /\ kind = "gemini" => job = "storing"
  /\ \A c \in Creds : child[c] = "idle"
  /\ job' = "sleeping"
  /\ UNCHANGED <<kind, main, first, child, answer, manual, told, provider, resting, aside,
                 unsaved, phase, cancelled>>
\* Storing raises (the usage manager, its file): the rest of the answers is lost
\* in a gathering job; a coroutine of the others ends alone.
StoreFails(c) ==
  /\ job = (IF kind = "gemini" THEN "storing" ELSE "fetching") /\ ~Stopped("job")
  /\ child[c] = "fetched" /\ StoreAnswer(c, answer[c])
  /\ IF kind = "gemini" THEN child' = Each("idle") /\ job' = "sleeping"
     ELSE child' = [child EXCEPT ![c] = "idle"] /\ UNCHANGED job
  /\ UNCHANGED <<kind, main, first, answer, manual, told, provider, phase, cancelled>>

\* force_refresh_quota: an operator asks for a credential meanwhile.  Only
\* gathering providers have fetch_initial_baselines.
ManualStart(c) ==
  /\ kind = "gemini" /\ phase = "up" /\ manual = "none" /\ manual' = c
  /\ UNCHANGED <<kind, refresher, told, provider, resting, aside, unsaved, phase>>
ManualAnswered(c) ==
  /\ manual = c /\ told = "none" /\ told' \in Answers(c)
  /\ UNCHANGED <<kind, refresher, manual, provider, resting, aside, unsaved, phase>>
ManualStore(c) ==
  /\ manual = c /\ told # "none" /\ StoreAnswer(c, told)
  /\ manual' = "none" /\ told' = "none"
  /\ UNCHANGED <<kind, refresher, provider, phase>>

----------------------------------------------------------------------------
\* Saving and leaving.  The server ends its requests before the lifespan does.
Saves ==
  /\ unsaved /\ phase # "exited" /\ unsaved' = FALSE
  /\ UNCHANGED <<kind, refresher, manual, told, provider, resting, aside, phase>>

Shutdown ==
  /\ phase = "up" /\ main # "none" /\ manual = "none"
  /\ IF job \in {"none", "ended"}
     THEN phase' = "stopMain" /\ cancelled' = {"main"}
     ELSE phase' = "stopJob" /\ cancelled' = {"job"}
  /\ UNCHANGED <<kind, main, job, first, child, answer, manual, told, provider,
                 resting, aside, unsaved>>
\* A cancelled task ends at its next step, and its coroutines with it.
JobCancelled ==
  /\ Stopped("job") /\ job' = "ended" /\ child' = Each("idle")
  /\ cancelled' = cancelled \ {"job"}
  /\ UNCHANGED <<kind, main, first, answer, manual, told, provider, resting, aside, unsaved,
                 phase>>
StopMain ==
  /\ phase = "stopJob" /\ ~Stopped("job")
  /\ phase' = "stopMain" /\ cancelled' = {"main"}
  /\ UNCHANGED <<kind, main, job, first, child, answer, manual, told, provider,
                 resting, aside, unsaved>>
MainCancelled ==
  /\ Stopped("main") /\ main' = "ended" /\ cancelled' = cancelled \ {"main"}
  /\ UNCHANGED <<kind, job, first, child, answer, manual, told, provider, resting, aside,
                 unsaved, phase>>
Close ==
  /\ phase = "stopMain" /\ main = "ended" /\ phase' = "closing"
  /\ UNCHANGED <<kind, refresher, manual, told, provider, resting, aside, unsaved>>
\* UsageManager.shutdown writes the file.
Exit ==
  /\ phase = "closing" /\ phase' = "exited" /\ unsaved' = FALSE
  /\ UNCHANGED <<kind, refresher, manual, told, provider, resting, aside>>

LeavingStep == JobCancelled \/ StopMain \/ MainCancelled \/ Close \/ Exit
RefresherStep == StartRefresher \/ StartJobs
JobStep ==
  \/ JobWakes \/ Gathered \/ PollEnds
  \/ \E c \in Creds : Ask(c) \/ Fetched(c) \/ Store(c)
PollNext ==
  \/ Shutdown \/ LeavingStep \/ RefresherStep \/ JobStep \/ Saves
  \/ \E c \in Creds :
       Use(c) \/ Unused(c) \/ Renew(c) \/ StoreFails(c) \/ ManualStart(c)
         \/ ManualAnswered(c) \/ ManualStore(c)

\* Sleeps end, fetches time out, and the event loop runs what is ready.
PollFairness ==
  /\ WF_pollVars(RefresherStep) /\ WF_pollVars(JobStep) /\ WF_pollVars(LeavingStep)
PollSpec == PollInit /\ [][PollNext]_pollVars /\ PollFairness

----------------------------------------------------------------------------
\* When the usage managers are closed nothing of the refresher runs any more:
\* not the job, none of its coroutines, not the refresher, also when the proxy
\* leaves while credentials are initialised or in the middle of a poll (stop).
NothingAfterStop ==
  phase \in {"closing", "exited"} =>
    main = "ended" /\ job \in {"none", "ended"} /\ child = Each("idle")

\* What polls and requests changed is in the file when the process ends.
UsageSavedAtExit == phase = "exited" => ~unsaved

\* No credential is kept from requests when its quota is back: an answer of the
\* period before that is stored late keeps none.
RestOnlySpent == resting \subseteq spent

\* The quota job does nothing after it was stopped, usage is saved when the proxy
\* ends, and only a credential whose quota is spent is kept from requests.
PollingSound == NothingAfterStop /\ UsageSavedAtExit /\ RestOnlySpent

\* Whatever fails, the job polls again and again while the proxy is up, and
\* leaving ends.
PollingGoesOn ==
  \A s \in {"fetching", "sleeping"} :
    (phase = "up" /\ main # "none") ~> (job = s \/ phase # "up")
LeavingEnds == (phase \in {"stopJob", "stopMain"}) ~> (phase = "exited")
=============================================================================
