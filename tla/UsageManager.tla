---------------------------- MODULE UsageManager ----------------------------
(***************************************************************************)
(* The credential pool of one provider: UsageManager, the limit checkers   *)
(* it consults (concurrency, cooldown, fair cycle), the selection engine   *)
(* and the tracking engine that records the outcome of a request.          *)
(*                                                                         *)
(* A task is one `async with await acquire_credential(...)` block of a     *)
(* request.  asyncio switches tasks only at awaits, so everything between  *)
(* two awaits is one action:                                               *)
(*   - one pass of the acquisition loop, from the acquire lock to the next *)
(*     await (the condition of a busy credential, or a sleep);             *)
(*   - the release of the slot, with the notification of its waiters;      *)
(*   - the recording of the outcome, which is the same step as the release *)
(*     unless a provider hook is a coroutine (HookSuspends).               *)
(* Time is counted in ticks.  Custom caps and window limits are disabled   *)
(* in the configurations modelled here.                                    *)
(***************************************************************************)
EXTENDS Integers, FiniteSets

CONSTANTS
  Creds,            \* stable ids of the active credentials
  Tasks,            \* concurrent requests
  Models,           \* normalized model names
  Sessions,         \* session ids a request may carry
  GroupOf,          \* quota group of a model, or None
  None,             \* Python's None
  Global,           \* the "_global_" cooldown key and the credential-wide
                    \* fair-cycle key
  MaxConcurrent,    \* hard slots of a credential, <= 0 for unlimited
  OptimalConcurrent,\* soft slots of a credential, <= 0 for no preference
  Priority,         \* tier of a credential, lower first
  Sequential,       \* RotationMode.SEQUENTIAL
  FairCycle,        \* fair_cycle.enabled
  CrossTier,        \* fair_cycle.cross_tier
  PerCredential,    \* TrackingMode.CREDENTIAL
  CycleDuration,    \* fair_cycle.duration
  ResetCooldownThreshold, \* fair_cycle.reset_cooldown_threshold
  ExhaustionThreshold,    \* exhaustion_cooldown_threshold
  QuotaThreshold,   \* int(window limit * quota_threshold), < 0 if unknown
  HookSuspends,     \* on_request_complete of the provider is a coroutine
  WaitSlice,        \* the 1 s bound of a wait for a busy credential
  SleepMargin,      \* the 0.1 s added to a sleep for a cooldown
  Outcomes,         \* how a request may end, see OutcomeType
  CandidateSets,    \* the `candidates` a request may carry (the untried ones)
  Exclusions,       \* the `exclude` sets a request may carry
  Budgets,          \* deadline minus start time
  AdminCooldowns,   \* durations an operator may apply
  MaxTime,          \* bound on the clock
  MaxRequests       \* bound on the number of requests

GroupKey(m) == IF GroupOf[m] = None THEN m ELSE GroupOf[m]
Keys == Models \cup {GroupKey(m) : m \in Models}
CooldownKeys == Keys \cup {Global}
FairKey(k) == IF PerCredential THEN Global ELSE k

\* What the provider's on_request_complete returned; count may be negative.
HookType == [count : Int, cooldown : Nat, exhaust : BOOLEAN]
OutcomeType == [result : {"success", "failure", "unmarked"},
                kind : {"quota_exceeded", "server_error", "other"},
                retry_after : Nat, quota_reset : Nat,
                hooked : BOOLEAN, hook : HookType]

ASSUME ConstantTypes ==
  /\ IsFiniteSet(Creds) /\ IsFiniteSet(Tasks)
  /\ Models # {}
  /\ None \notin Creds \cup Models \cup Sessions \cup {Global}
  /\ Global \notin Keys
  /\ MaxConcurrent \in [Creds -> Int] /\ OptimalConcurrent \in [Creds -> Int]
  /\ Priority \in [Creds -> Nat] /\ QuotaThreshold \in [Creds -> Int]
  /\ {Sequential, FairCycle, CrossTier, PerCredential, HookSuspends}
       \subseteq BOOLEAN
  /\ CycleDuration \in Nat \ {0} /\ ResetCooldownThreshold \in Nat
  /\ ExhaustionThreshold \in Nat
  /\ WaitSlice \in Nat \ {0} /\ SleepMargin \in Nat
  /\ Outcomes \subseteq OutcomeType
  /\ CandidateSets \subseteq SUBSET Creds /\ Exclusions \subseteq SUBSET Creds
  /\ Budgets \subseteq Nat /\ AdminCooldowns \subseteq Nat
  /\ MaxTime \in Nat /\ MaxRequests \in Nat

VARIABLES
  now,         \* time.time()
  active,      \* CredentialState.active_requests
  state,       \* the rest of CredentialState: cooldowns, fair_cycle, totals
  cycle_start, \* GlobalFairCycleState.cycle_start by key, -1 when absent
  current,     \* SequentialStrategy._current by (scope, session)
  pc,          \* where a task is suspended
  req,         \* the arguments of the task's acquire_credential
  held,        \* CredentialContext.stable_id
  wait_on,     \* credential whose condition the task waits on
  wake,        \* end of the task's timed wait or sleep
  outcome,     \* outcome still to be recorded by a suspended completion
  started      \* number of requests so far (bound only)

credVars == <<active, state, cycle_start, current>>
taskVars == <<pc, req, held, wait_on, wake, outcome>>
vars == <<now, credVars, taskVars, started>>

FairState == [known : BOOLEAN, exhausted : BOOLEAN, count : Nat]
CredState == [cooldown : [CooldownKeys -> Nat],
              fair : [CooldownKeys -> FairState],
              request_count : Nat]
Scopes == Keys \X (Sessions \cup {None})
Request == [model : Models, session : Sessions \cup {None},
            candidates : SUBSET Creds, exclude : SUBSET Creds, deadline : Nat]

TypeOK ==
  /\ now \in Nat
  /\ active \in [Creds -> Nat]
  /\ state \in [Creds -> CredState]
  /\ cycle_start \in [CooldownKeys -> Int]
  /\ current \in [Scopes -> Creds \cup {None}]
  /\ pc \in [Tasks -> {"idle", "acquire", "waiting", "sleeping", "using",
                       "completing", "done", "unavailable", "recursion"}]
  /\ req \in [Tasks -> Request]
  /\ held \in [Tasks -> Creds \cup {None}]
  /\ wait_on \in [Tasks -> Creds \cup {None}]
  /\ wake \in [Tasks -> Nat]
  /\ outcome \in [Tasks -> Outcomes \cup {None}]
  /\ started \in Nat

NoRequest == [model |-> CHOOSE m \in Models : TRUE, session |-> None,
              candidates |-> {}, exclude |-> {}, deadline |-> 0]
FreshFair == [known |-> FALSE, exhausted |-> FALSE, count |-> 0]

Init ==
  /\ now = 1
  /\ active = [c \in Creds |-> 0]
  /\ state = [c \in Creds |-> [cooldown |-> [k \in CooldownKeys |-> 0],
                               fair |-> [k \in CooldownKeys |-> FreshFair],
                               request_count |-> 0]]
  /\ cycle_start = [k \in CooldownKeys |-> -1]
  /\ current = [s \in Scopes |-> None]
  /\ pc = [t \in Tasks |-> "idle"]
  /\ req = [t \in Tasks |-> NoRequest]
  /\ held = [t \in Tasks |-> None]
  /\ wait_on = [t \in Tasks |-> None]
  /\ wake = [t \in Tasks |-> 0]
  /\ outcome = [t \in Tasks |-> None]
  /\ started = 0

-----------------------------------------------------------------------------
(* The limit checkers, in the order LimitEngine.check_all runs them.       *)

BelowHardLimit(c) == MaxConcurrent[c] <= 0 \/ active[c] < MaxConcurrent[c]

Cooling(s, m) == \E k \in {GroupKey(m), m, Global} : s.cooldown[k] > now

PassesFirstCheckers(c, m) == BelowHardLimit(c) /\ ~Cooling(state[c], m)

OverQuota(c, f) ==
  f.known /\ QuotaThreshold[c] >= 0 /\ f.count >= QuotaThreshold[c]

WithFair(s, f, r) == [s EXCEPT !.fair = [@ EXCEPT ![f] = r]]

\* A view is the part of the pool the fair-cycle code reads and writes.
FairOf(v, c, m) == v.state[c].fair[FairKey(GroupKey(m))]

\* Running the fair-cycle checker over the credentials of S marks those over
\* their quota threshold, and creates the global cycle state on first use.
Checked(v, S, m) ==
  LET key == FairKey(GroupKey(m))
      reached == {c \in S : FairCycle /\ PassesFirstCheckers(c, m)}
      marked == {c \in reached : OverQuota(c, FairOf(v, c, m))}
      blocked == {c \in reached : c \in marked \/ FairOf(v, c, m).exhausted}
  IN [state |-> [c \in Creds |->
                   IF c \in marked
                   THEN WithFair(v.state[c], key,
                                 [FairOf(v, c, m) EXCEPT !.exhausted = TRUE])
                   ELSE v.state[c]],
      start |-> IF blocked # {} /\ v.start[key] = -1
                THEN [v.start EXCEPT ![key] = now] ELSE v.start]

CycleExpired(v, m) ==
  now >= v.start[FairKey(GroupKey(m))] + CycleDuration

FairBlocked(v, c, m) ==
  FairCycle /\ FairOf(v, c, m).exhausted /\ ~CycleExpired(v, m)

Available(v, S, m) ==
  {c \in S : PassesFirstCheckers(c, m) /\ ~FairBlocked(v, c, m)}

\* A cooldown about to end: wait for it rather than reset the cycle.
HasShortCooldown(v, S, m) ==
  \E c \in S, k \in {GroupKey(m), Global} :
    /\ v.state[c].cooldown[k] > now
    /\ v.state[c].cooldown[k] - now < ResetCooldownThreshold

ToResetWhenAnyBlocked(v, S, m) ==
  LET blocked == {c \in S : PassesFirstCheckers(c, m) /\ FairBlocked(v, c, m)}
  IN IF Available(v, S, m) # {} THEN {} ELSE blocked

\* The candidates whose fair cycle _try_fair_cycle_reset resets.
ToReset(v, S, m) ==
  LET resettable(T) == /\ \A c \in T : FairOf(v, c, m).exhausted
                       /\ ~HasShortCooldown(v, T, m)
      tier(c) == {d \in S : Priority[d] = Priority[c]}
      blocked == {c \in S : PassesFirstCheckers(c, m) /\ FairBlocked(v, c, m)}
  IN IF ~FairCycle \/ Available(v, S, m) # {} \/ blocked = {} THEN {}
     ELSE {c \in S : resettable(IF CrossTier THEN S ELSE tier(c))}

WithReset(v, R, m) ==
  LET key == FairKey(GroupKey(m))
  IN [state |-> [c \in Creds |->
                   IF c \in R
                   THEN WithFair(v.state[c], key,
                                 [FairOf(v, c, m) EXCEPT !.exhausted = FALSE,
                                                         !.count = 0])
                   ELSE v.state[c]],
      start |-> IF R # {} THEN [v.start EXCEPT ![key] = now] ELSE v.start]

-----------------------------------------------------------------------------
(* SelectionEngine.select.  A reset re-enters select; a second reset in the *)
(* same pass finds exactly the state the first one left, so the recursion   *)
(* never ends (`looping`).                                                  *)

Scope(t) == <<IF req[t].session = None THEN GroupKey(req[t].model)
              ELSE req[t].model, req[t].session>>
Sticky(t) == IF Sequential THEN current[Scope(t)] ELSE None
CandidatesAll(t) == Creds
Candidates(t) == req[t].candidates \ req[t].exclude

Select(t) ==
  LET m == req[t].model
      S == Candidates(t)
      examined == S \cup ({Sticky(t)} \cap Creds)
      first == Checked([state |-> state, start |-> cycle_start], examined, m)
      reset == ToReset(first, S, m)
      final == IF reset = {} THEN first
               ELSE Checked(WithReset(first, reset, m), S, m)
  IN [view |-> final,
      looping |-> reset # {} /\ ToReset(final, S, m) # {},
      available |-> Available(final, S, m)]

\* Step 3 of select: below the soft limit first.
StrategyCandidates(A) ==
  LET below == {c \in A : /\ OptimalConcurrent[c] > 0
                          /\ active[c] < OptimalConcurrent[c]}
  IN IF below # {} THEN below ELSE A

\* What the rotation strategy may answer: the sticky credential in sequential
\* mode, otherwise some credential of the best tier (by weighted random
\* choice, usage order or latency).
StrategyChoice(t, S) ==
  LET best == {c \in S : \A d \in S : Priority[c] <= Priority[d]}
  IN IF Cardinality(S) = 1 THEN S
     ELSE IF Sticky(t) \in S THEN {Sticky(t)} ELSE best

BusyCandidates(t) == {c \in Candidates(t) : ~BelowHardLimit(c)}

CooldownEnds(t) ==
  {e \in {state[c].cooldown[k] : c \in req[t].candidates,
                                 k \in {GroupKey(req[t].model), Global}} :
     e > now}

\* A timed wait meant to end at e never outlives the budget of the request.
WakeAtUnbounded(t, e) == e
WakeAt(t, e) == IF e <= req[t].deadline THEN e ELSE req[t].deadline

-----------------------------------------------------------------------------
(* The acquisition loop.                                                    *)

StartRequest(t) ==
  /\ pc[t] \in {"idle", "done", "unavailable", "recursion"}
  /\ started < MaxRequests
  /\ \E m \in Models, s \in Sessions \cup {None}, S \in CandidateSets,
        x \in Exclusions, b \in Budgets :
       /\ now + b <= MaxTime
       /\ req' = [req EXCEPT ![t] = [model |-> m, session |-> s, candidates |-> S,
                                  exclude |-> x, deadline |-> now + b]]
  /\ pc' = [pc EXCEPT ![t] = "acquire"]
  /\ started' = started + 1
  /\ UNCHANGED <<now, credVars, held, wait_on, wake, outcome>>

\* The acquisition or the request ends in the way `how`; the locals of its
\* coroutine are gone.
Leave(t, how) ==
  /\ pc' = [pc EXCEPT ![t] = how]
  /\ req' = [req EXCEPT ![t] = NoRequest]
  /\ held' = [held EXCEPT ![t] = None]
  /\ wait_on' = [wait_on EXCEPT ![t] = None]
  /\ wake' = [wake EXCEPT ![t] = 0]
  /\ outcome' = [outcome EXCEPT ![t] = None]

\* One pass of the loop whose select left the view v of the pool.
LoopPass(t, v) ==
  /\ pc[t] = "acquire"
  /\ now < req[t].deadline
  /\ state' = v.state
  /\ cycle_start' = v.start
  /\ UNCHANGED <<now, started>>

AcquireGranted(t) ==
  LET sel == Select(t)
      pool == StrategyCandidates(sel.available)
  IN /\ LoopPass(t, sel.view)
     /\ ~sel.looping
     /\ \E c \in StrategyChoice(t, pool) :
          /\ active' = [active EXCEPT ![c] = @ + 1]
          /\ held' = [held EXCEPT ![t] = c]
          /\ current' = IF Sequential /\ Cardinality(pool) > 1
                        THEN [current EXCEPT ![Scope(t)] = c] ELSE current
     /\ pc' = [pc EXCEPT ![t] = "using"]
     /\ UNCHANGED <<req, wait_on, wake, outcome>>

\* Nothing available, something busy: wait on the condition of the least used
\* busy candidate, for at most WaitSlice.
AcquireWaitBusy(t) ==
  LET sel == Select(t)
  IN /\ LoopPass(t, sel.view)
     /\ ~sel.looping /\ sel.available = {}
     /\ \E c \in BusyCandidates(t) :
          /\ \A d \in BusyCandidates(t) :
               state[c].request_count <= state[d].request_count
          /\ wait_on' = [wait_on EXCEPT ![t] = c]
     /\ wake' = [wake EXCEPT ![t] = WakeAt(t, now + WaitSlice)]
     /\ pc' = [pc EXCEPT ![t] = "waiting"]
     /\ UNCHANGED <<active, current, req, held, outcome>>

\* Nothing busy either: sleep until the soonest cooldown ends, or fail at once
\* when it ends after the deadline or there is none.
AcquireSleep(t) ==
  LET sel == Select(t)
  IN /\ LoopPass(t, sel.view)
     /\ ~sel.looping /\ sel.available = {} /\ BusyCandidates(t) = {}
     /\ \E e \in CooldownEnds(t) :
          /\ \A d \in CooldownEnds(t) : e <= d
          /\ e <= req[t].deadline
          /\ wake' = [wake EXCEPT ![t] = WakeAt(t, e + SleepMargin)]
     /\ pc' = [pc EXCEPT ![t] = "sleeping"]
     /\ UNCHANGED <<active, current, req, held, wait_on, outcome>>

AcquireFailFast(t) ==
  LET sel == Select(t)
  IN /\ LoopPass(t, sel.view)
     /\ ~sel.looping /\ sel.available = {} /\ BusyCandidates(t) = {}
     /\ \A e \in CooldownEnds(t) : e > req[t].deadline
     /\ Leave(t, "unavailable")
     /\ UNCHANGED <<active, current>>

\* RecursionError out of select.
AcquireRecursion(t) ==
  LET sel == Select(t)
  IN /\ LoopPass(t, sel.view)
     /\ sel.looping
     /\ Leave(t, "recursion")
     /\ UNCHANGED <<active, current>>

AcquireDeadline(t) ==
  /\ pc[t] = "acquire"
  /\ now >= req[t].deadline
  /\ Leave(t, "unavailable")
  /\ UNCHANGED <<now, credVars, started>>

ResumeWaiters(t) ==
  /\ pc[t] = "waiting" /\ now >= wake[t]
  /\ pc' = [pc EXCEPT ![t] = "acquire"]
  /\ wait_on' = [wait_on EXCEPT ![t] = None]
  /\ UNCHANGED <<now, credVars, req, held, wake, outcome, started>>

\* The timed wait or the sleep ends.
Resume(t) ==
  /\ pc[t] \in {"waiting", "sleeping"}
  /\ now >= wake[t]
  /\ pc' = [pc EXCEPT ![t] = "acquire"]
  /\ wait_on' = [wait_on EXCEPT ![t] = None]
  /\ UNCHANGED <<now, credVars, req, held, wake, outcome, started>>

\* The request is cancelled while it waits for a credential.
CancelWait(t) ==
  /\ pc[t] \in {"waiting", "sleeping"}
  /\ Leave(t, "unavailable")
  /\ UNCHANGED <<now, credVars, started>>

-----------------------------------------------------------------------------
(* Recording an outcome: _handle_request_complete and the tracking engine.  *)

MarkExhausted(s, f) ==
  WithFair(s, f, [s.fair[f] EXCEPT !.known = TRUE, !.exhausted = TRUE])

\* The new end replaces the old one, later or earlier; a long cooldown that is
\* not credential-wide also marks the credential exhausted.
WithCooldown(s, k, until) ==
  LET cooled == [s EXCEPT !.cooldown = [@ EXCEPT ![k] = until]]
  IN IF until - now >= ExhaustionThreshold /\ FairCycle /\ k # Global
     THEN MarkExhausted(cooled, FairKey(k)) ELSE cooled

WithHook(s, m, o) ==
  LET cooled == IF o.hooked /\ o.hook.cooldown > 0
                THEN WithCooldown(s, IF GroupOf[m] = None THEN Global
                                     ELSE GroupOf[m],
                                  now + o.hook.cooldown)
                ELSE s
  IN IF o.hooked /\ o.hook.exhaust
     THEN MarkExhausted(cooled, FairKey(GroupKey(m))) ELSE cooled

RequestCountUnclamped(o) == IF o.hooked THEN o.hook.count ELSE 1
RequestCount(o) ==
  IF o.hooked THEN (IF o.hook.count > 0 THEN o.hook.count ELSE 0)
  ELSE IF o.result = "failure" /\ o.kind = "server_error" THEN 0 ELSE 1

WithUsage(s, m, n) ==
  LET f == FairKey(GroupKey(m))
      counted == [s EXCEPT !.request_count = @ + n]
  IN IF FairCycle
     THEN WithFair(counted, f, [s.fair[f] EXCEPT !.known = TRUE,
                                                 !.count = @ + n])
     ELSE counted

\* record_failure: retry_after first, then the quota reset the API reported
\* overrides it.
WithFailure(s, m, o) ==
  LET k == GroupKey(m)
      retried == IF o.retry_after > 0 THEN WithCooldown(s, k, now + o.retry_after)
                 ELSE s
      timed == IF o.quota_reset > 0
               THEN WithCooldown(retried, k, now + o.quota_reset) ELSE retried
  IN IF /\ o.kind = "quota_exceeded" /\ o.retry_after > 0
        /\ o.retry_after >= ExhaustionThreshold
     THEN MarkExhausted(timed, FairKey(k)) ELSE timed

Recorded(s, m, o) ==
  LET used == WithUsage(WithHook(s, m, o), m, RequestCount(o))
  IN IF o.result = "unmarked" THEN s
     ELSE IF o.result = "failure" THEN WithFailure(used, m, o) ELSE used

ReleaseNotifyOne(t) ==
  LET c == held[t]
      waiting == {u \in Tasks : pc[u] = "waiting" /\ wait_on[u] = c}
      woken == IF waiting = {} THEN {} ELSE {CHOOSE u \in waiting : TRUE}
  IN /\ active' = [active EXCEPT ![c] = IF @ > 0 THEN @ - 1 ELSE 0]
     /\ wait_on' = [u \in Tasks |-> IF u \in woken THEN None ELSE wait_on[u]]
     /\ pc' = [u \in Tasks |->
                 IF u \in woken THEN "acquire"
                 ELSE IF u # t THEN pc[u]
                 ELSE IF HookSuspends THEN "completing" ELSE "done"]
ReleaseOnlyNotifies(t) ==
  /\ wait_on' = [u \in Tasks |-> IF wait_on[u] = held[t] THEN None
                                 ELSE wait_on[u]]
  /\ pc' = [u \in Tasks |->
              IF pc[u] = "waiting" /\ wait_on[u] = held[t] THEN "acquire"
              ELSE IF u # t THEN pc[u]
              ELSE IF HookSuspends THEN "completing" ELSE "done"]
  /\ UNCHANGED active

\* _release_credential: free the slot and wake every task waiting on it.
Release(t) ==
  LET c == held[t]
      woken == {u \in Tasks : pc[u] = "waiting" /\ wait_on[u] = c}
  IN /\ active' = [active EXCEPT ![c] = IF @ > 0 THEN @ - 1 ELSE 0]
     /\ wait_on' = [u \in Tasks |-> IF u \in woken THEN None ELSE wait_on[u]]
     /\ pc' = [u \in Tasks |->
                 IF u \in woken THEN "acquire"
                 ELSE IF u # t THEN pc[u]
                 ELSE IF HookSuspends THEN "completing" ELSE "done"]

\* The request leaves its `async with` block: CredentialContext.__aexit__.
Finish(t) ==
  /\ pc[t] = "using"
  /\ Release(t)
  /\ \E o \in Outcomes :
       IF HookSuspends
       THEN /\ outcome' = [outcome EXCEPT ![t] = o]
            /\ UNCHANGED <<state, req, held, wake>>
       ELSE /\ state' = [state EXCEPT ![held[t]] =
                           Recorded(@, req[t].model, o)]
            /\ req' = [req EXCEPT ![t] = NoRequest]
            /\ held' = [held EXCEPT ![t] = None]
            /\ wake' = [wake EXCEPT ![t] = 0]
            /\ UNCHANGED outcome
  /\ UNCHANGED <<now, cycle_start, current, started>>

\* The provider's hook returns and the outcome is recorded.
Complete(t) ==
  /\ pc[t] = "completing"
  /\ state' = [state EXCEPT ![held[t]] = Recorded(@, req[t].model, outcome[t])]
  /\ Leave(t, "done")
  /\ UNCHANGED <<now, active, cycle_start, current, started>>

\* The request is cancelled inside the hook: nothing is recorded.
CancelComplete(t) ==
  /\ pc[t] = "completing"
  /\ Leave(t, "done")
  /\ UNCHANGED <<now, credVars, started>>

\* UsageManager.apply_cooldown and clear_cooldown_if_exists, called by an
\* operator or by a provider's quota refresh.
ApplyCooldown(c, k, d) ==
  /\ state' = [state EXCEPT ![c] = WithCooldown(@, k, now + d)]
  /\ UNCHANGED <<now, active, cycle_start, current, taskVars, started>>

WithoutCooldown(s, k) == [s EXCEPT !.cooldown = [@ EXCEPT ![k] = 0]]
ClearCooldown(c, k) ==
  /\ state[c].cooldown[k] > now
  /\ state' = [state EXCEPT ![c] = WithoutCooldown(@, k)]
  /\ UNCHANGED <<now, active, cycle_start, current, taskVars, started>>

Tick ==
  /\ now < MaxTime
  /\ now' = now + 1
  /\ UNCHANGED <<credVars, taskVars, started>>

LoopStep(t) ==
  \/ AcquireGranted(t) \/ AcquireWaitBusy(t) \/ AcquireSleep(t)
  \/ AcquireFailFast(t) \/ AcquireRecursion(t) \/ AcquireDeadline(t)

Admin ==
  \E c \in Creds, k \in CooldownKeys :
    \/ \E d \in AdminCooldowns : ApplyCooldown(c, k, d)
    \/ AdminCooldowns # {} /\ ClearCooldown(c, k)

Next ==
  \/ \E t \in Tasks :
       \/ StartRequest(t) \/ LoopStep(t) \/ Resume(t) \/ CancelWait(t)
       \/ Finish(t) \/ Complete(t) \/ CancelComplete(t)
  \/ Admin
  \/ Tick

Spec == Init /\ [][Next]_vars

\* The event loop runs every ready task and the clock advances; the upstream
\* call of a request always ends (the HTTP client has timeouts).  A pass of
\* the loop is possible whenever the task is in "acquire", so its weak
\* fairness is written without ENABLED.
Fairness ==
  /\ WF_vars(Tick)
  /\ \A t \in Tasks :
       /\ <>[](pc[t] = "acquire") => []<><<pc'[t] # "acquire">>_vars
       /\ WF_vars(Resume(t)) /\ WF_vars(Finish(t)) /\ WF_vars(Complete(t))

FairSpec == Spec /\ Fairness

-----------------------------------------------------------------------------
(* Properties.                                                              *)

Holders(c) == {t \in Tasks : pc[t] = "using" /\ held[t] = c}

\* active_requests is exactly the number of requests inside their `async with`
\* block: no path of acquire, release, cancellation leaks or frees a slot twice.
ActiveCountsHolders == \A c \in Creds : active[c] = Cardinality(Holders(c))

\* A credential never serves more requests than max_concurrent allows.
WithinHardLimit ==
  \A c \in Creds : MaxConcurrent[c] > 0 => active[c] <= MaxConcurrent[c]

\* No lost wakeup: a task suspended on a credential's condition always waits
\* for a credential that still is full; one free slot wakes every waiter.
WaitersOnlyOnFull ==
  \A t \in Tasks : pc[t] = "waiting" =>
    /\ wait_on[t] \in Creds
    /\ MaxConcurrent[wait_on[t]] > 0
    /\ active[wait_on[t]] >= MaxConcurrent[wait_on[t]]

\* The slots of a credential are neither leaked nor overbooked, and none is
\* free while somebody sleeps for it.
SlotsKept == ActiveCountsHolders /\ WithinHardLimit /\ WaitersOnlyOnFull

\* A task does not sleep past the deadline of its request.
InTime(t) == pc[t] \in {"waiting", "sleeping"} => wake[t] <= req[t].deadline

Spent(c, f) == state[c].fair[f].exhausted \/ OverQuota(c, state[c].fair[f])

\* DOCUMENTATION.md 2.18, as an action: a credential leaves the exhausted state
\* only by a pass of the loop of a request all of whose candidates of that tier
\* are spent: no record, release, cooldown or end of a cooldown resets a cycle.
ResetsOnlyWhenDue ==
  \A c \in Creds, f \in CooldownKeys :
    state[c].fair[f].exhausted /\ ~state'[c].fair[f].exhausted =>
      \E t \in Tasks :
        /\ pc[t] = "acquire" /\ c \in Candidates(t)
        /\ \A d \in Candidates(t) :
             CrossTier \/ Priority[d] = Priority[c] => Spent(d, f)

Acquires(t, c) == pc[t] = "acquire" /\ pc'[t] = "using" /\ held'[t] = c

\* An exhausted credential serves no new request before the cycle ends: it is
\* reset in the same step, or the cycle's duration is over (an action).
ReusesNoSpent ==
  \A t \in Tasks, c \in Creds : Acquires(t, c) /\ FairCycle =>
    LET f == FairKey(GroupKey(req[t].model))
    IN \/ ~state'[c].fair[f].exhausted
       \/ now >= cycle_start'[f] + CycleDuration

\* The fair cycle of DOCUMENTATION.md 2.18: it is reset when all are spent, and a
\* spent credential is not used again before, whatever requests, failures and
\* expiries come in between.
CycleKept == [][ResetsOnlyWhenDue /\ ReusesNoSpent]_vars

\* What keeps a credential out and is not waited for: a cooldown of the model
\* beside that of its group, and an exhaustion the cycle has not reset.
NotWaitedFor(c, m) ==
  \/ GroupKey(m) # m /\ state[c].cooldown[m] > now
  \/ FairCycle /\ state'[c].fair[FairKey(GroupKey(m))].exhausted

\* A request gives up before its deadline only if every credential it may use
\* has a free slot it may not take: a cooldown of the group or of the whole
\* credential outlasts the deadline, or something else keeps it out.
FailFastOnlyWhenHopeless ==
  [][\A t \in Tasks :
       pc[t] = "acquire" /\ pc'[t] = "unavailable" /\ now < req[t].deadline =>
         \A c \in Candidates(t) :
           /\ BelowHardLimit(c)
           /\ \/ \E k \in {GroupKey(req[t].model), Global} :
                   state[c].cooldown[k] > req[t].deadline
              \/ NotWaitedFor(c, req[t].model)]_vars

\* A request waits as long as its deadline lets it and as long as waiting may
\* help: it neither sleeps past the end nor gives up early.
WaitsSound == [](\A t \in Tasks : InTime(t)) /\ FailFastOnlyWhenHopeless

\* The pool keeps the contract the request executor relies on: a grant is one
\* of the credentials the request accepts and has a free slot, and the slot is
\* given back exactly once (CredentialPool).
Asking == {t \in Tasks : pc[t] \in {"acquire", "waiting", "sleeping"}}
Accepts ==
  [t \in Tasks |->
    IF t \in Asking THEN req[t].candidates \ req[t].exclude ELSE {}]
InUse == [t \in Tasks |-> IF pc[t] = "using" THEN held[t] ELSE None]
Pool == INSTANCE CredentialPool
        WITH asking <- Asking, allowed <- Accepts, using <- InUse
PoolContract == Pool!PoolSpec

\* Every request gets a credential or is refused; none waits forever.
Answered == \A t \in Tasks :
  pc[t] = "acquire" ~> pc[t] \in {"using", "unavailable", "recursion"}
=============================================================================
