-------------------------- MODULE UsageManagerProofs --------------------------
(***************************************************************************)
(* Proofs about the credential pool, for any number of credentials, tasks, *)
(* models and any configuration: type correctness, slots that are counted, *)
(* bounded and never free beside a waiter, waits that respect deadlines    *)
(* and are not given up early, fair cycles that are reset only when all    *)
(* are spent, and the refinement of CredentialPool.  And about the way of   *)
(* its usage to the file, for any debounce and retry interval: no update is *)
(* forgotten before the writer has got it.                                 *)
(***************************************************************************)
EXTENDS UsageManager, UsageStorage, FiniteSetTheorems, TLAPS

\* A task inside its `async with` block, or suspended in the provider's hook,
\* still has its credential and its outcome.
LocalsOK ==
  \A t \in Tasks :
    /\ pc[t] \in {"using", "completing"} => held[t] \in Creds
    /\ pc[t] = "completing" => outcome[t] \in Outcomes

View == [state : [Creds -> CredState], start : [CooldownKeys -> Int]]

-----------------------------------------------------------------------------
(* Types of the operators.                                                  *)

\* The keys a request derives from its model are keys of the tables.
LEMMA KeyTypes ==
  ASSUME NEW m \in Models
  PROVE  /\ GroupKey(m) \in Keys
         /\ GroupKey(m) \in CooldownKeys
         /\ FairKey(GroupKey(m)) \in CooldownKeys
BY DEF GroupKey, Keys, CooldownKeys, FairKey

\* Replacing one fair-cycle entry or one cooldown keeps the state well formed.
LEMMA UpdateTypes ==
  ASSUME NEW s \in CredState, NEW k \in CooldownKeys, NEW r \in FairState,
         NEW n \in Nat
  PROVE  /\ WithFair(s, k, r) \in CredState
         /\ [s EXCEPT !.cooldown = [@ EXCEPT ![k] = n]] \in CredState
         /\ [s EXCEPT !.request_count = n] \in CredState
<1>1. /\ [s.fair EXCEPT ![k] = r] \in [CooldownKeys -> FairState]
      /\ [s.cooldown EXCEPT ![k] = n] \in [CooldownKeys -> Nat]
  BY DEF CredState
<1> QED
  BY <1>1 DEF CredState, WithFair

\* Running the fair-cycle checker yields a well-formed view of the pool.
LEMMA CheckedType ==
  ASSUME NEW v \in View, NEW S, NEW m \in Models, now \in Nat
  PROVE  Checked(v, S, m) \in View
<1> DEFINE key == FairKey(GroupKey(m))
<1>1. key \in CooldownKeys
  BY KeyTypes
<1>2. ASSUME NEW c \in Creds
      PROVE  WithFair(v.state[c], key,
                      [FairOf(v, c, m) EXCEPT !.exhausted = TRUE]) \in CredState
  <2>1. v.state[c] \in CredState /\ FairOf(v, c, m) \in FairState
    BY <1>1 DEF View, CredState, FairOf
  <2>2. [FairOf(v, c, m) EXCEPT !.exhausted = TRUE] \in FairState
    BY <2>1 DEF FairState
  <2> QED
    BY <1>1, <2>1, <2>2, UpdateTypes
<1>3. [v.start EXCEPT ![key] = now] \in [CooldownKeys -> Int]
  BY <1>1 DEF View
<1> QED
  BY <1>2, <1>3 DEF Checked, View

\* So does a reset of the cycle.
LEMMA ResetType ==
  ASSUME NEW v \in View, NEW R, NEW m \in Models, now \in Nat
  PROVE  WithReset(v, R, m) \in View
<1> DEFINE key == FairKey(GroupKey(m))
<1>1. key \in CooldownKeys
  BY KeyTypes
<1>2. ASSUME NEW c \in Creds
      PROVE  WithFair(v.state[c], key,
                      [FairOf(v, c, m) EXCEPT !.exhausted = FALSE,
                                              !.count = 0]) \in CredState
  <2>1. v.state[c] \in CredState /\ FairOf(v, c, m) \in FairState
    BY <1>1 DEF View, CredState, FairOf
  <2>2. [FairOf(v, c, m) EXCEPT !.exhausted = FALSE, !.count = 0] \in FairState
    BY <2>1 DEF FairState
  <2> QED
    BY <1>1, <2>1, <2>2, UpdateTypes
<1>3. [v.start EXCEPT ![key] = now] \in [CooldownKeys -> Int]
  BY <1>1 DEF View
<1> QED
  BY <1>2, <1>3 DEF WithReset, View

\* The credentials a request accepts are credentials of the pool.
LEMMA CandidatesType ==
  ASSUME TypeOK, NEW t \in Tasks
  PROVE  req[t].candidates \subseteq Creds /\ Candidates(t) \subseteq Creds
BY DEF TypeOK, Request, Candidates

\* select leaves a well-formed pool, and answers candidates with a free slot.
LEMMA SelectType ==
  ASSUME TypeOK, NEW t \in Tasks
  PROVE  /\ Select(t).view \in View
         /\ Select(t).available \subseteq Candidates(t)
         /\ \A c \in Select(t).available : BelowHardLimit(c)
<1>1. [state |-> state, start |-> cycle_start] \in View
  BY DEF TypeOK, View
<1>2. req[t].model \in Models /\ now \in Nat
  BY DEF TypeOK, Request
<1>3. Select(t).view \in View
  BY <1>1, <1>2, CheckedType, ResetType DEF Select
<1>4. Select(t).available \subseteq {c \in Candidates(t) : BelowHardLimit(c)}
  BY DEF Select, Available, PassesFirstCheckers
<1> QED
  BY <1>3, <1>4

\* Recording an outcome keeps the state of a credential well formed.
LEMMA MarkExhaustedType ==
  ASSUME NEW s \in CredState, NEW f \in CooldownKeys
  PROVE  MarkExhausted(s, f) \in CredState
<1>1. [s.fair[f] EXCEPT !.known = TRUE, !.exhausted = TRUE] \in FairState
  BY DEF CredState, FairState
<1> QED
  BY <1>1, UpdateTypes DEF MarkExhausted

LEMMA WithCooldownType ==
  ASSUME NEW s \in CredState, NEW k \in CooldownKeys, NEW until \in Nat
  PROVE  WithCooldown(s, k, until) \in CredState
<1>1. [s EXCEPT !.cooldown = [@ EXCEPT ![k] = until]] \in CredState
  BY UpdateTypes DEF CredState, FairState
<1>2. FairKey(k) \in CooldownKeys
  BY DEF FairKey, CooldownKeys
<1> QED
  BY <1>1, <1>2, MarkExhaustedType DEF WithCooldown

LEMMA WithUsageType ==
  ASSUME NEW r \in CredState, NEW m \in Models, NEW n \in Nat
  PROVE  WithUsage(r, m, n) \in CredState
<1> DEFINE f == FairKey(GroupKey(m))
           counted == [r EXCEPT !.request_count = @ + n]
<1>0. f \in CooldownKeys
  BY KeyTypes
<1>1. r.request_count + n \in Nat /\ r.fair[f] \in FairState
  BY <1>0 DEF CredState
<1>2. [r.fair[f] EXCEPT !.known = TRUE, !.count = @ + n] \in FairState
  <2>1. \A q \in FairState, i \in Nat :
          [q EXCEPT !.known = TRUE, !.count = i] \in FairState
    BY DEF FairState
  <2>2. r.fair[f].count + n \in Nat
    BY <1>1 DEF FairState
  <2> QED
    BY <1>1, <2>1, <2>2
<1>3. counted \in CredState
  BY <1>1 DEF CredState
<1>4. WithFair(counted, f, [r.fair[f] EXCEPT !.known = TRUE, !.count = @ + n])
        \in CredState
  BY <1>0, <1>2, <1>3, UpdateTypes DEF FairState
<1> QED
  BY <1>3, <1>4 DEF WithUsage

LEMMA RecordedType ==
  ASSUME NEW s \in CredState, NEW m \in Models, NEW o \in OutcomeType,
         now \in Nat
  PROVE  Recorded(s, m, o) \in CredState
<1> DEFINE f == FairKey(GroupKey(m))
<1>1. /\ GroupKey(m) \in CooldownKeys /\ f \in CooldownKeys
      /\ Global \in CooldownKeys
      /\ GroupOf[m] # None => GroupOf[m] \in CooldownKeys
  BY KeyTypes DEF CooldownKeys, GroupKey
<1>2. /\ o.retry_after \in Nat /\ o.quota_reset \in Nat
      /\ o.hook.cooldown \in Nat /\ o.hook.count \in Int
  BY DEF OutcomeType, HookType
<1>3. RequestCount(o) \in Nat
  BY <1>2 DEF RequestCount
<1>4. WithHook(s, m, o) \in CredState
  <2> DEFINE k == IF GroupOf[m] = None THEN Global ELSE GroupOf[m]
             cooled == IF o.hooked /\ o.hook.cooldown > 0
                       THEN WithCooldown(s, k, now + o.hook.cooldown) ELSE s
  <2>1. k \in CooldownKeys /\ now + o.hook.cooldown \in Nat
    BY <1>1, <1>2
  <2>2. cooled \in CredState
    <3> HIDE DEF k
    <3> QED BY <2>1, WithCooldownType
  <2>3. MarkExhausted(cooled, f) \in CredState
    <3> HIDE DEF cooled
    <3> QED BY <1>1, <2>2, MarkExhaustedType
  <2> QED
    BY <2>2, <2>3 DEF WithHook
<1>5. \A r \in CredState, n \in Nat : WithUsage(r, m, n) \in CredState
  BY WithUsageType
<1>6. \A r \in CredState : WithFailure(r, m, o) \in CredState
  <2> TAKE r \in CredState
  <2> DEFINE k == GroupKey(m)
             retried == IF o.retry_after > 0
                        THEN WithCooldown(r, k, now + o.retry_after) ELSE r
             timed == IF o.quota_reset > 0
                      THEN WithCooldown(retried, k, now + o.quota_reset)
                      ELSE retried
  <2>1. retried \in CredState
    BY <1>1, <1>2, WithCooldownType
  <2>2. timed \in CredState
    <3> HIDE DEF retried
    <3> QED BY <1>1, <1>2, <2>1, WithCooldownType
  <2>3. MarkExhausted(timed, FairKey(k)) \in CredState
    <3> HIDE DEF timed
    <3> QED BY <1>1, <2>2, MarkExhaustedType
  <2> QED
    BY <2>2, <2>3 DEF WithFailure
<1> QED
  BY <1>3, <1>4, <1>5, <1>6 DEF Recorded

-----------------------------------------------------------------------------
(* Type correctness.                                                        *)

LEMMA FreshFairType == FreshFair \in FairState
BY DEF FreshFair, FairState

LEMMA InitType == Init => TypeOK
<1> SUFFICES ASSUME Init PROVE TypeOK
  OBVIOUS
<1>1. NoRequest \in Request
  BY ConstantTypes DEF NoRequest, Request
<1>3. state \in [Creds -> CredState]
  BY FreshFairType DEF Init, CredState
<1> QED
  BY <1>1, <1>3 DEF Init, TypeOK

\* The locals of a task that leaves are well typed.
LEMMA LeaveType ==
  ASSUME TypeOK, NEW t \in Tasks, NEW how \in {"done", "unavailable", "recursion"},
         Leave(t, how)
  PROVE  /\ pc' \in [Tasks -> {"idle", "acquire", "waiting", "sleeping", "using",
                       "completing", "done", "unavailable", "recursion"}]
         /\ req' \in [Tasks -> Request]
         /\ held' \in [Tasks -> Creds \cup {None}]
         /\ wait_on' \in [Tasks -> Creds \cup {None}]
         /\ wake' \in [Tasks -> Nat]
         /\ outcome' \in [Tasks -> Outcomes \cup {None}]
<1>1. NoRequest \in Request
  BY ConstantTypes DEF NoRequest, Request
<1> QED
  BY <1>1 DEF Leave, TypeOK

LEMMA NextType == TypeOK /\ LocalsOK /\ [Next]_vars => TypeOK'
<1> SUFFICES ASSUME TypeOK, LocalsOK, [Next]_vars PROVE TypeOK'
  OBVIOUS
<1>1. ASSUME NEW t \in Tasks, StartRequest(t) PROVE TypeOK'
  <2>1. PICK m \in Models, s \in Sessions \cup {None}, S \in CandidateSets,
             x \in Exclusions, b \in Budgets :
          req' = [req EXCEPT ![t] = [model |-> m, session |-> s,
                                     candidates |-> S, exclude |-> x,
                                     deadline |-> now + b]]
    BY <1>1 DEF StartRequest
  <2>2. [model |-> m, session |-> s, candidates |-> S, exclude |-> x,
         deadline |-> now + b] \in Request
    BY ConstantTypes DEF TypeOK, Request
  <2>3. req' \in [Tasks -> Request]
    BY <2>1, <2>2 DEF TypeOK
  <2> QED
    BY <1>1, <2>3 DEF StartRequest, TypeOK, credVars
<1>2. ASSUME NEW t \in Tasks, LoopPass(t, Select(t).view)
      PROVE  /\ state' \in [Creds -> CredState]
             /\ cycle_start' \in [CooldownKeys -> Int]
             /\ now' \in Nat /\ started' \in Nat
  BY <1>2, SelectType DEF LoopPass, View, TypeOK
<1>3. ASSUME NEW t \in Tasks, AcquireGranted(t) PROVE TypeOK'
  <2> DEFINE pool == StrategyCandidates(Select(t).available)
  <2>1. PICK c \in StrategyChoice(t, pool) :
          /\ active' = [active EXCEPT ![c] = @ + 1]
          /\ held' = [held EXCEPT ![t] = c]
          /\ current' = IF Sequential /\ Cardinality(pool) > 1
                        THEN [current EXCEPT ![Scope(t)] = c] ELSE current
    BY <1>3 DEF AcquireGranted
  <2>2. c \in Creds
    BY SelectType, CandidatesType DEF StrategyChoice, StrategyCandidates
  <2>3. current' \in [Scopes -> Creds \cup {None}]
    BY <2>1, <2>2 DEF TypeOK
  <2>4. active' \in [Creds -> Nat] /\ held' \in [Tasks -> Creds \cup {None}]
    BY <2>1, <2>2 DEF TypeOK
  <2>5. LoopPass(t, Select(t).view)
    BY <1>3 DEF AcquireGranted
  <2>6. /\ pc' = [pc EXCEPT ![t] = "using"]
        /\ UNCHANGED <<req, wait_on, wake, outcome>>
    BY <1>3 DEF AcquireGranted
  <2> QED
    BY <1>2, <2>3, <2>4, <2>5, <2>6 DEF TypeOK
<1>4. ASSUME NEW t \in Tasks, AcquireWaitBusy(t) PROVE TypeOK'
  <2>1. PICK c \in BusyCandidates(t) : wait_on' = [wait_on EXCEPT ![t] = c]
    BY <1>4 DEF AcquireWaitBusy
  <2>2. c \in Creds
    BY CandidatesType DEF BusyCandidates
  <2>3. req[t].deadline \in Nat /\ now + WaitSlice \in Nat
    BY ConstantTypes DEF TypeOK, Request
  <2>4. WakeAt(t, now + WaitSlice) \in Nat
    BY <2>3 DEF WakeAt
  <2>5. /\ LoopPass(t, Select(t).view)
        /\ wake' = [wake EXCEPT ![t] = WakeAt(t, now + WaitSlice)]
        /\ pc' = [pc EXCEPT ![t] = "waiting"]
        /\ UNCHANGED <<active, current, req, held, outcome>>
    BY <1>4 DEF AcquireWaitBusy
  <2> QED
    BY <1>2, <2>1, <2>2, <2>4, <2>5 DEF TypeOK
<1>5. ASSUME NEW t \in Tasks, AcquireSleep(t) PROVE TypeOK'
  <2>1. PICK e \in CooldownEnds(t) :
          wake' = [wake EXCEPT ![t] = WakeAt(t, e + SleepMargin)]
    BY <1>5 DEF AcquireSleep
  <2>2. \A m \in Models, c \in Creds :
          state[c].cooldown[GroupKey(m)] \in Nat
          /\ state[c].cooldown[Global] \in Nat
    BY KeyTypes DEF TypeOK, CredState, CooldownKeys
  <2>3. req[t].model \in Models /\ req[t].deadline \in Nat
    BY DEF TypeOK, Request
  <2>4. e \in Nat
    BY <2>2, <2>3, CandidatesType DEF CooldownEnds
  <2>5. WakeAt(t, e + SleepMargin) \in Nat
    BY <2>3, <2>4, ConstantTypes DEF WakeAt
  <2>6. /\ LoopPass(t, Select(t).view)
        /\ pc' = [pc EXCEPT ![t] = "sleeping"]
        /\ UNCHANGED <<active, current, req, held, wait_on, outcome>>
    BY <1>5 DEF AcquireSleep
  <2> QED
    BY <1>2, <2>1, <2>5, <2>6 DEF TypeOK
<1>6. ASSUME NEW t \in Tasks, AcquireFailFast(t) \/ AcquireRecursion(t)
      PROVE TypeOK'
  <2>1. /\ LoopPass(t, Select(t).view)
        /\ Leave(t, "unavailable") \/ Leave(t, "recursion")
        /\ UNCHANGED <<active, current>>
    BY <1>6 DEF AcquireFailFast, AcquireRecursion
  <2> QED
    BY <1>2, <2>1, LeaveType DEF TypeOK
<1>7. ASSUME NEW t \in Tasks,
             AcquireDeadline(t) \/ CancelWait(t) \/ CancelComplete(t)
      PROVE TypeOK'
  <2>1. /\ Leave(t, "unavailable") \/ Leave(t, "done")
        /\ UNCHANGED <<now, credVars, started>>
    BY <1>7 DEF AcquireDeadline, CancelWait, CancelComplete
  <2> QED
    BY <2>1, LeaveType DEF TypeOK, credVars
<1>8. ASSUME NEW t \in Tasks, Resume(t) PROVE TypeOK'
  BY <1>8 DEF Resume, TypeOK, credVars
<1>9. ASSUME NEW t \in Tasks, Finish(t) PROVE TypeOK'
  <2> DEFINE woken == {u \in Tasks : pc[u] = "waiting" /\ wait_on[u] = held[t]}
  <2>1. PICK o \in Outcomes :
          IF HookSuspends
          THEN /\ outcome' = [outcome EXCEPT ![t] = o]
               /\ UNCHANGED <<state, req, held, wake>>
          ELSE /\ state' = [state EXCEPT ![held[t]] =
                              Recorded(@, req[t].model, o)]
               /\ req' = [req EXCEPT ![t] = NoRequest]
               /\ held' = [held EXCEPT ![t] = None]
               /\ wake' = [wake EXCEPT ![t] = 0]
               /\ UNCHANGED outcome
    BY <1>9 DEF Finish
  <2>a. held[t] \in Creds
    BY <1>9 DEF Finish, LocalsOK
  <2>b. active' \in [Creds -> Nat]
    BY <1>9, <2>a DEF Finish, Release, TypeOK
  <2>c. wait_on' \in [Tasks -> Creds \cup {None}]
    BY <1>9 DEF Finish, Release, TypeOK
  <2>d. pc' \in [Tasks -> {"idle", "acquire", "waiting", "sleeping", "using",
                       "completing", "done", "unavailable", "recursion"}]
    BY <1>9 DEF Finish, Release, TypeOK
  <2>3. Recorded(state[held[t]], req[t].model, o) \in CredState
    <3>1. state[held[t]] \in CredState /\ req[t].model \in Models
      BY <2>a DEF TypeOK, Request
    <3>2. o \in OutcomeType /\ now \in Nat
      BY ConstantTypes DEF TypeOK
    <3> QED
      BY <3>1, <3>2, RecordedType
  <2>4. state' \in [Creds -> CredState]
    BY <2>1, <2>3 DEF TypeOK
  <2>5. NoRequest \in Request
    BY ConstantTypes DEF NoRequest, Request
  <2>6. /\ req' \in [Tasks -> Request] /\ wake' \in [Tasks -> Nat]
        /\ held' \in [Tasks -> Creds \cup {None}]
        /\ outcome' \in [Tasks -> Outcomes \cup {None}]
    BY <2>1, <2>5 DEF TypeOK
  <2> QED
    BY <1>9, <2>b, <2>c, <2>d, <2>4, <2>6 DEF Finish, TypeOK
<1>10. ASSUME NEW t \in Tasks, Complete(t) PROVE TypeOK'
  <2>1. Recorded(state[held[t]], req[t].model, outcome[t]) \in CredState
    <3>1. held[t] \in Creds /\ outcome[t] \in Outcomes
      BY <1>10 DEF Complete, LocalsOK
    <3>2. state[held[t]] \in CredState /\ req[t].model \in Models
      BY <3>1 DEF TypeOK, Request
    <3>3. outcome[t] \in OutcomeType /\ now \in Nat
      BY <3>1, ConstantTypes DEF TypeOK
    <3> QED
      BY <3>2, <3>3, RecordedType
  <2>2. state' \in [Creds -> CredState]
    BY <1>10, <2>1 DEF Complete, TypeOK
  <2>3. Leave(t, "done")
    BY <1>10 DEF Complete
  <2> QED
    BY <1>10, <2>2, <2>3, LeaveType DEF Complete, TypeOK
<1>11. ASSUME Admin PROVE TypeOK'
  <2>1. PICK c \in Creds, k \in CooldownKeys :
          \/ \E d \in AdminCooldowns : ApplyCooldown(c, k, d)
          \/ ClearCooldown(c, k)
    BY <1>11 DEF Admin
  <2>2. ASSUME NEW d \in AdminCooldowns, ApplyCooldown(c, k, d) PROVE TypeOK'
    <3>1. WithCooldown(state[c], k, now + d) \in CredState
      BY ConstantTypes, WithCooldownType DEF TypeOK
    <3> QED
      BY <2>2, <3>1 DEF ApplyCooldown, TypeOK, taskVars
  <2>3. ASSUME ClearCooldown(c, k) PROVE TypeOK'
    <3>1. WithoutCooldown(state[c], k) \in CredState
      BY UpdateTypes, FreshFairType DEF TypeOK, WithoutCooldown
    <3> QED
      BY <2>3, <3>1 DEF ClearCooldown, TypeOK, taskVars
  <2> QED
    BY <2>1, <2>2, <2>3
<1>12. ASSUME Tick PROVE TypeOK'
  BY <1>12 DEF Tick, TypeOK, credVars, taskVars
<1>13. ASSUME UNCHANGED vars PROVE TypeOK'
  BY <1>13 DEF vars, TypeOK, credVars, taskVars
<1> QED
  BY <1>1, <1>3, <1>4, <1>5, <1>6, <1>7, <1>8, <1>9, <1>10, <1>11, <1>12, <1>13
     DEF Next, LoopStep

-----------------------------------------------------------------------------
(* The locals of the tasks, and type correctness of the specification.      *)

LEMMA NextLocals == TypeOK /\ LocalsOK /\ [Next]_vars => LocalsOK'
<1> SUFFICES ASSUME TypeOK, LocalsOK, [Next]_vars PROVE LocalsOK'
  OBVIOUS
<1>1. ASSUME NEW t \in Tasks, StartRequest(t) PROVE LocalsOK'
  BY <1>1 DEF StartRequest, LocalsOK, TypeOK
<1>2. ASSUME NEW t \in Tasks, LoopStep(t) \/ CancelWait(t) \/ Complete(t)
                              \/ CancelComplete(t)
      PROVE LocalsOK'
  <2>1. ASSUME AcquireGranted(t) PROVE LocalsOK'
    <3>1. \A c \in StrategyChoice(t, StrategyCandidates(Select(t).available)) :
            c \in Creds
      BY SelectType, CandidatesType DEF StrategyChoice, StrategyCandidates
    <3> QED
      BY <2>1, <3>1 DEF AcquireGranted, LocalsOK, TypeOK
  <2>2. ASSUME AcquireWaitBusy(t) \/ AcquireSleep(t) PROVE LocalsOK'
    BY <2>2 DEF AcquireWaitBusy, AcquireSleep, LocalsOK, TypeOK
  <2>3. ASSUME NEW how \in {"done", "unavailable", "recursion"}, Leave(t, how)
        PROVE LocalsOK'
    BY <2>3 DEF Leave, LocalsOK, TypeOK
  <2> QED
    BY <1>2, <2>1, <2>2, <2>3 DEF LoopStep, AcquireFailFast, AcquireRecursion,
       AcquireDeadline, CancelWait, Complete, CancelComplete
<1>3. ASSUME NEW t \in Tasks, Resume(t) PROVE LocalsOK'
  BY <1>3 DEF Resume, LocalsOK, TypeOK
<1>4. ASSUME NEW t \in Tasks, Finish(t) PROVE LocalsOK'
  <2>1. PICK o \in Outcomes :
          IF HookSuspends
          THEN /\ outcome' = [outcome EXCEPT ![t] = o]
               /\ UNCHANGED held
          ELSE /\ held' = [held EXCEPT ![t] = None]
               /\ UNCHANGED outcome
    BY <1>4 DEF Finish
  <2>2. /\ pc[t] = "using"
        /\ pc'[t] = IF HookSuspends THEN "completing" ELSE "done"
        /\ \A u \in Tasks \ {t} : pc'[u] \in {pc[u], "acquire"}
    BY <1>4 DEF Finish, Release
  <2> QED
    BY <2>1, <2>2 DEF LocalsOK, TypeOK
<1>5. ASSUME Admin \/ Tick \/ UNCHANGED vars PROVE LocalsOK'
  BY <1>5 DEF Admin, ApplyCooldown, ClearCooldown, Tick, vars, taskVars, LocalsOK
<1> QED
  BY <1>1, <1>2, <1>3, <1>4, <1>5 DEF Next

\* Every reachable state of the pool is well typed: no handler leaves a
\* negative counter, an entry under an unknown key or a task without the
\* locals its coroutine needs.
THEOREM TypeCorrect == Spec => [](TypeOK /\ LocalsOK)
<1>1. Init => TypeOK /\ LocalsOK
  BY InitType DEF Init, LocalsOK
<1>2. (TypeOK /\ LocalsOK) /\ [Next]_vars => (TypeOK /\ LocalsOK)'
  BY NextType, NextLocals
<1> QED
  BY <1>1, <1>2, PTL DEF Spec

-----------------------------------------------------------------------------
(* The slots of a credential.                                               *)

\* A pass of the loop that ends in anything but a grant, and every step that
\* is not a release, leaves the holders and the counters alone.
LEMMA HoldersKept ==
  ASSUME NEW t \in Tasks, pc[t] # "using",
         \A u \in Tasks \ {t} : pc'[u] = pc[u] /\ held'[u] = held[u],
         pc'[t] # "using"
  PROVE  \A c \in Creds : Holders(c)' = Holders(c)
BY DEF Holders

\* The grant adds the task to the holders of the credential.
LEMMA HoldersGrant ==
  ASSUME TypeOK, NEW t \in Tasks, NEW c \in Creds, pc[t] # "using",
         pc' = [pc EXCEPT ![t] = "using"], held' = [held EXCEPT ![t] = c]
  PROVE  \A d \in Creds :
           Holders(d)' = IF d = c THEN Holders(d) \cup {t} ELSE Holders(d)
BY DEF Holders, TypeOK

\* The release removes it.
LEMMA HoldersRelease ==
  ASSUME TypeOK, NEW t \in Tasks, pc[t] = "using", held[t] \in Creds,
         Release(t), \A u \in Tasks \ {t} : held'[u] = held[u]
  PROVE  \A d \in Creds :
           Holders(d)' = IF d = held[t] THEN Holders(d) \ {t} ELSE Holders(d)
BY DEF Holders, TypeOK, Release

LEMMA HoldersFinite ==
  ASSUME NEW c \in Creds
  PROVE  IsFiniteSet(Holders(c)) /\ Cardinality(Holders(c)) \in Nat
<1>1. Holders(c) \subseteq Tasks
  BY DEF Holders
<1> QED
  BY <1>1, ConstantTypes, FS_Subset, FS_CardinalityType

\* Every grant takes a slot below the hard limit.
LEMMA GrantFacts ==
  ASSUME TypeOK, NEW t \in Tasks, AcquireGranted(t)
  PROVE  \E c \in Creds :
           /\ BelowHardLimit(c) /\ pc[t] = "acquire"
           /\ active' = [active EXCEPT ![c] = @ + 1]
           /\ held' = [held EXCEPT ![t] = c]
           /\ pc' = [pc EXCEPT ![t] = "using"]
           /\ UNCHANGED wait_on
<1> DEFINE pool == StrategyCandidates(Select(t).available)
<1>1. PICK c \in StrategyChoice(t, pool) :
        /\ active' = [active EXCEPT ![c] = @ + 1]
        /\ held' = [held EXCEPT ![t] = c]
  BY DEF AcquireGranted
<1>2. c \in Creds /\ BelowHardLimit(c)
  <2>1. c \in Select(t).available
    BY DEF StrategyChoice, StrategyCandidates
  <2> QED
    BY <2>1, SelectType, CandidatesType
<1>3. pc[t] = "acquire" /\ pc' = [pc EXCEPT ![t] = "using"] /\ UNCHANGED wait_on
  BY DEF AcquireGranted, LoopPass
<1> QED
  BY <1>1, <1>2, <1>3

\* The steps that neither grant nor release: they leave the counters alone and
\* start or end no use of a credential.
LEMMA QuietSteps ==
  ASSUME TypeOK, NEW t \in Tasks,
         \/ StartRequest(t) \/ AcquireWaitBusy(t) \/ AcquireSleep(t)
         \/ AcquireFailFast(t) \/ AcquireRecursion(t) \/ AcquireDeadline(t)
         \/ Resume(t) \/ CancelWait(t) \/ Complete(t) \/ CancelComplete(t)
  PROVE  /\ UNCHANGED active
         /\ pc[t] # "using" /\ pc'[t] # "using"
         /\ \A u \in Tasks \ {t} :
              pc'[u] = pc[u] /\ held'[u] = held[u] /\ wait_on'[u] = wait_on[u]
         /\ pc'[t] = "waiting" =>
              wait_on'[t] \in Creds /\ ~BelowHardLimit(wait_on'[t])
<1>1. CASE StartRequest(t)
  BY <1>1 DEF StartRequest, TypeOK, credVars
<1>2. CASE AcquireWaitBusy(t)
  BY <1>2, CandidatesType DEF AcquireWaitBusy, LoopPass, BusyCandidates, TypeOK
<1>3. CASE AcquireSleep(t)
  BY <1>3 DEF AcquireSleep, LoopPass, TypeOK
<1>4. CASE AcquireFailFast(t) \/ AcquireRecursion(t)
  BY <1>4 DEF AcquireFailFast, AcquireRecursion, LoopPass, Leave, TypeOK
<1>5. CASE AcquireDeadline(t) \/ CancelWait(t) \/ CancelComplete(t) \/ Complete(t)
  BY <1>5 DEF AcquireDeadline, CancelWait, CancelComplete, Complete, Leave,
              TypeOK, credVars
<1>6. CASE Resume(t)
  BY <1>6 DEF Resume, TypeOK, credVars
<1> QED
  BY <1>1, <1>2, <1>3, <1>4, <1>5, <1>6

\* A release frees one slot and leaves nobody waiting for that credential.
LEMMA FinishFacts ==
  ASSUME TypeOK, LocalsOK, NEW t \in Tasks, Finish(t)
  PROVE  /\ pc[t] = "using" /\ held[t] \in Creds /\ Release(t)
         /\ \A u \in Tasks \ {t} : held'[u] = held[u]
<1>1. pc[t] = "using" /\ Release(t)
  BY DEF Finish
<1>2. UNCHANGED held \/ held' = [held EXCEPT ![t] = None]
  BY DEF Finish
<1> QED
  BY <1>1, <1>2 DEF LocalsOK, TypeOK

\* Everything the slots of the pool obey; inductive as a whole: the count
\* needs the locals, the limit needs the count's type, and a waiter's
\* credential stays full only because every grant keeps to the limit.
SlotInv == /\ TypeOK /\ LocalsOK
           /\ ActiveCountsHolders /\ WithinHardLimit /\ WaitersOnlyOnFull

LEMMA CountKept ==
  TypeOK /\ LocalsOK /\ ActiveCountsHolders /\ [Next]_vars
    => ActiveCountsHolders'
<1> SUFFICES ASSUME TypeOK, LocalsOK, ActiveCountsHolders, [Next]_vars,
                    NEW d \in Creds
             PROVE  active'[d] = Cardinality(Holders(d)')
  BY DEF ActiveCountsHolders
<1>0. active[d] = Cardinality(Holders(d)) /\ active \in [Creds -> Nat]
  BY DEF ActiveCountsHolders, TypeOK
<1>1. ASSUME NEW t \in Tasks, AcquireGranted(t)
      PROVE  active'[d] = Cardinality(Holders(d)')
  <2>1. PICK c \in Creds :
          /\ pc[t] = "acquire"
          /\ active' = [active EXCEPT ![c] = @ + 1]
          /\ held' = [held EXCEPT ![t] = c]
          /\ pc' = [pc EXCEPT ![t] = "using"]
    BY <1>1, GrantFacts
  <2>2. Holders(d)' = IF d = c THEN Holders(d) \cup {t} ELSE Holders(d)
    BY <2>1, HoldersGrant
  <2>3. t \notin Holders(d)
    BY <2>1 DEF Holders
  <2>4. Cardinality(Holders(d) \cup {t}) = Cardinality(Holders(d)) + 1
    BY <2>3, HoldersFinite, FS_AddElement
  <2> QED
    BY <1>0, <2>1, <2>2, <2>4
<1>2. ASSUME NEW t \in Tasks, Finish(t)
      PROVE  active'[d] = Cardinality(Holders(d)')
  <2>1. /\ pc[t] = "using" /\ held[t] \in Creds /\ Release(t)
        /\ \A u \in Tasks \ {t} : held'[u] = held[u]
    BY <1>2, FinishFacts
  <2>2. Holders(d)' = IF d = held[t] THEN Holders(d) \ {t} ELSE Holders(d)
    BY <2>1, HoldersRelease
  <2>3. active'[d] = IF d = held[t] THEN (IF active[d] > 0 THEN active[d] - 1
                                         ELSE 0)
                     ELSE active[d]
    BY <1>0, <2>1 DEF Release
  <2>4. CASE d = held[t]
    <3>1. t \in Holders(d)
      BY <2>1, <2>4 DEF Holders
    <3>2. Cardinality(Holders(d) \ {t}) = Cardinality(Holders(d)) - 1
      BY <3>1, HoldersFinite, FS_RemoveElement
    <3>3. Cardinality(Holders(d)) > 0
      BY <3>1, HoldersFinite, FS_EmptySet
    <3> QED
      BY <1>0, <2>2, <2>3, <2>4, <3>2, <3>3
  <2> QED
    BY <1>0, <2>2, <2>3, <2>4
<1>3. ASSUME NEW t \in Tasks,
             \/ StartRequest(t) \/ AcquireWaitBusy(t) \/ AcquireSleep(t)
             \/ AcquireFailFast(t) \/ AcquireRecursion(t) \/ AcquireDeadline(t)
             \/ Resume(t) \/ CancelWait(t) \/ Complete(t) \/ CancelComplete(t)
      PROVE  active'[d] = Cardinality(Holders(d)')
  <2>1. Holders(d)' = Holders(d)
    BY <1>3, QuietSteps, HoldersKept
  <2>2. UNCHANGED active
    BY <1>3, QuietSteps
  <2> QED
    BY <1>0, <2>1, <2>2
<1>4. ASSUME Admin \/ Tick \/ UNCHANGED vars
      PROVE  active'[d] = Cardinality(Holders(d)')
  <2>1. UNCHANGED <<active, pc, held>>
    BY <1>4 DEF Admin, ApplyCooldown, ClearCooldown, Tick, vars, credVars,
                taskVars
  <2>2. Holders(d)' = Holders(d)
    BY <2>1 DEF Holders
  <2> QED
    BY <1>0, <2>1, <2>2
<1> QED
  BY <1>1, <1>2, <1>3, <1>4 DEF Next, LoopStep

LEMMA LimitKept ==
  TypeOK /\ LocalsOK /\ WithinHardLimit /\ [Next]_vars => WithinHardLimit'
<1> SUFFICES ASSUME TypeOK, LocalsOK, WithinHardLimit, [Next]_vars
             PROVE  WithinHardLimit'
  OBVIOUS
<1>0. active \in [Creds -> Nat] /\ MaxConcurrent \in [Creds -> Int]
  BY ConstantTypes DEF TypeOK
<1>1. ASSUME NEW t \in Tasks, AcquireGranted(t) PROVE WithinHardLimit'
  <2>1. PICK c \in Creds :
          BelowHardLimit(c) /\ active' = [active EXCEPT ![c] = @ + 1]
    BY <1>1, GrantFacts
  <2> QED
    BY <1>0, <2>1 DEF WithinHardLimit, BelowHardLimit
<1>2. ASSUME NEW t \in Tasks, Finish(t) PROVE WithinHardLimit'
  <2>1. held[t] \in Creds /\ Release(t)
    BY <1>2, FinishFacts
  <2> QED
    BY <1>0, <2>1 DEF Release, WithinHardLimit
<1>3. ASSUME UNCHANGED active PROVE WithinHardLimit'
  BY <1>3 DEF WithinHardLimit
<1>4. ASSUME Admin \/ Tick \/ UNCHANGED vars PROVE UNCHANGED active
  BY <1>4 DEF Admin, ApplyCooldown, ClearCooldown, Tick, vars, credVars
<1> QED
  BY <1>1, <1>2, <1>3, <1>4, QuietSteps DEF Next, LoopStep

LEMMA WaitersKept ==
  SlotInv /\ [Next]_vars => WaitersOnlyOnFull'
<1> SUFFICES ASSUME SlotInv, [Next]_vars, NEW u \in Tasks, pc'[u] = "waiting"
             PROVE  /\ wait_on'[u] \in Creds
                    /\ MaxConcurrent[wait_on'[u]] > 0
                    /\ active'[wait_on'[u]] >= MaxConcurrent[wait_on'[u]]
  BY DEF WaitersOnlyOnFull
<1>0. /\ active \in [Creds -> Nat] /\ MaxConcurrent \in [Creds -> Int]
      /\ pc[u] = "waiting" =>
           /\ wait_on[u] \in Creds
           /\ MaxConcurrent[wait_on[u]] > 0
           /\ active[wait_on[u]] >= MaxConcurrent[wait_on[u]]
      /\ TypeOK /\ LocalsOK
  BY ConstantTypes DEF TypeOK, SlotInv, WaitersOnlyOnFull
<1>1. ASSUME NEW t \in Tasks, AcquireGranted(t)
      PROVE  /\ wait_on'[u] \in Creds
             /\ MaxConcurrent[wait_on'[u]] > 0
             /\ active'[wait_on'[u]] >= MaxConcurrent[wait_on'[u]]
  <2>1. PICK c \in Creds :
          /\ active' = [active EXCEPT ![c] = @ + 1]
          /\ pc' = [pc EXCEPT ![t] = "using"]
          /\ UNCHANGED wait_on
    BY <1>0, <1>1, GrantFacts
  <2>2. pc[u] = "waiting"
    BY <1>0, <2>1 DEF TypeOK
  <2> QED
    BY <1>0, <2>1, <2>2
<1>2. ASSUME NEW t \in Tasks, Finish(t)
      PROVE  /\ wait_on'[u] \in Creds
             /\ MaxConcurrent[wait_on'[u]] > 0
             /\ active'[wait_on'[u]] >= MaxConcurrent[wait_on'[u]]
  <2>1. held[t] \in Creds /\ Release(t) /\ pc[t] = "using"
    BY <1>0, <1>2, FinishFacts
  <2>2. pc[u] = "waiting" /\ wait_on[u] # held[t] /\ wait_on'[u] = wait_on[u]
    BY <2>1 DEF Release
  <2>3. active'[wait_on[u]] = active[wait_on[u]]
    BY <1>0, <2>1, <2>2 DEF Release
  <2> QED
    BY <1>0, <2>2, <2>3
<1>3. ASSUME NEW t \in Tasks,
             \/ StartRequest(t) \/ AcquireWaitBusy(t) \/ AcquireSleep(t)
             \/ AcquireFailFast(t) \/ AcquireRecursion(t) \/ AcquireDeadline(t)
             \/ Resume(t) \/ CancelWait(t) \/ Complete(t) \/ CancelComplete(t)
      PROVE  /\ wait_on'[u] \in Creds
             /\ MaxConcurrent[wait_on'[u]] > 0
             /\ active'[wait_on'[u]] >= MaxConcurrent[wait_on'[u]]
  <2>1. UNCHANGED active
    BY <1>0, <1>3, QuietSteps
  <2>2. CASE u = t
    <3>1. wait_on'[u] \in Creds /\ ~BelowHardLimit(wait_on'[u])
      BY <1>0, <1>3, <2>2, QuietSteps
    <3> QED
      BY <1>0, <2>1, <3>1 DEF BelowHardLimit
  <2>3. CASE u # t
    BY <1>0, <1>3, <2>1, <2>3, QuietSteps
  <2> QED
    BY <2>2, <2>3
<1>4. ASSUME Admin \/ Tick \/ UNCHANGED vars
      PROVE  UNCHANGED <<active, pc, wait_on>>
  BY <1>4 DEF Admin, ApplyCooldown, ClearCooldown, Tick, vars, credVars,
              taskVars
<1> QED
  BY <1>0, <1>1, <1>2, <1>3, <1>4 DEF Next, LoopStep

LEMMA SlotInvInductive ==
  /\ Init => SlotInv
  /\ SlotInv /\ [Next]_vars => SlotInv'
<1>1. ASSUME Init PROVE SlotInv
  <2>1. TypeOK /\ LocalsOK
    BY <1>1, InitType DEF Init, LocalsOK
  <2>2. \A c \in Creds : Holders(c) = {}
    BY <1>1 DEF Init, Holders
  <2>3. ActiveCountsHolders
    BY <1>1, <2>2, FS_EmptySet DEF Init, ActiveCountsHolders
  <2>4. WithinHardLimit /\ WaitersOnlyOnFull
    BY <1>1, ConstantTypes DEF Init, WithinHardLimit, WaitersOnlyOnFull
  <2> QED
    BY <2>1, <2>3, <2>4 DEF SlotInv
<1>2. ASSUME SlotInv, [Next]_vars PROVE SlotInv'
  BY <1>2, NextType, NextLocals, CountKept, LimitKept, WaitersKept DEF SlotInv
<1> QED
  BY <1>1, <1>2

\* The concurrency counter of a credential always equals the number of
\* requests inside their `async with` block: no interleaving of grants,
\* releases, cancellations and suspended hooks leaks a slot or frees it twice.
THEOREM SlotAccounting == Spec => []ActiveCountsHolders
<1>1. SlotInv => ActiveCountsHolders
  BY DEF SlotInv
<1> QED
  BY <1>1, SlotInvInductive, PTL DEF Spec

\* No credential ever serves more requests than its max_concurrent.
THEOREM HardLimit == Spec => []WithinHardLimit
<1>1. SlotInv => WithinHardLimit
  BY DEF SlotInv
<1> QED
  BY <1>1, SlotInvInductive, PTL DEF Spec

\* No lost wakeup: no request stays suspended on the condition of a credential
\* that has a free slot.
THEOREM NoLostWakeup == Spec => []WaitersOnlyOnFull
<1>1. SlotInv => WaitersOnlyOnFull
  BY DEF SlotInv
<1> QED
  BY <1>1, SlotInvInductive, PTL DEF Spec

\* All of it at once: slots are neither leaked nor overbooked, and nobody sleeps
\* for a free one.
THEOREM SlotsAreKept == Spec => []SlotsKept
<1>1. SlotInv => SlotsKept
  BY DEF SlotInv, SlotsKept
<1> QED
  BY <1>1, SlotInvInductive, PTL DEF Spec

-----------------------------------------------------------------------------
(* How long a request waits.                                                *)

\* A step that starts a wait sets its end within the deadline; every other one
\* leaves the waits of the tasks that go on waiting alone.
LEMMA WaitFacts ==
  ASSUME TypeOK, LocalsOK, [Next]_vars, NEW u \in Tasks,
         pc'[u] \in {"waiting", "sleeping"}
  PROVE  \/ wake'[u] <= req'[u].deadline
         \/ /\ pc[u] \in {"waiting", "sleeping"}
            /\ wake'[u] = wake[u] /\ req'[u] = req[u]
<1> DEFINE Kept == /\ pc[u] \in {"waiting", "sleeping"}
                   /\ wake'[u] = wake[u] /\ req'[u] = req[u]
<1>1. ASSUME NEW t \in Tasks, StartRequest(t) PROVE Kept
  BY <1>1 DEF StartRequest, TypeOK
<1>2. ASSUME NEW t \in Tasks, AcquireGranted(t) PROVE Kept
  <2>1. /\ UNCHANGED <<req, wake>> /\ pc' = [pc EXCEPT ![t] = "using"]
    BY <1>2 DEF AcquireGranted
  <2> QED
    BY <2>1 DEF TypeOK
<1>3. ASSUME NEW t \in Tasks, AcquireWaitBusy(t) \/ AcquireSleep(t)
      PROVE  wake'[u] <= req'[u].deadline \/ Kept
  <2>1. /\ UNCHANGED req
        /\ pc' = [pc EXCEPT ![t] = "waiting"] \/ pc' = [pc EXCEPT ![t] = "sleeping"]
        /\ \E e : wake' = [wake EXCEPT ![t] = WakeAt(t, e)]
    BY <1>3 DEF AcquireWaitBusy, AcquireSleep
  <2>2. PICK e : wake' = [wake EXCEPT ![t] = WakeAt(t, e)]
    BY <2>1
  <2>3. req[t].deadline \in Nat
    BY DEF TypeOK, Request
  <2>4. WakeAt(t, e) <= req[t].deadline
    BY <2>3 DEF WakeAt
  <2> QED
    BY <2>1, <2>2, <2>4 DEF TypeOK
<1>4. ASSUME NEW t \in Tasks, NEW how \in {"done", "unavailable", "recursion"},
             Leave(t, how)
      PROVE  Kept
  BY <1>4 DEF Leave, TypeOK
<1>5. ASSUME NEW t \in Tasks, Resume(t) PROVE Kept
  BY <1>5 DEF Resume, TypeOK
<1>6. ASSUME NEW t \in Tasks, Finish(t) PROVE Kept
  <2>1. u # t /\ pc[u] = pc'[u]
    BY <1>6 DEF Finish, Release
  <2>2. \/ UNCHANGED <<req, wake>>
        \/ /\ req' = [req EXCEPT ![t] = NoRequest]
           /\ wake' = [wake EXCEPT ![t] = 0]
    BY <1>6 DEF Finish
  <2> QED
    BY <2>1, <2>2 DEF TypeOK
<1>7. ASSUME Admin \/ Tick \/ UNCHANGED vars PROVE Kept
  BY <1>7 DEF Admin, ApplyCooldown, ClearCooldown, Tick, vars, taskVars
<1> QED
  BY <1>1, <1>2, <1>3, <1>4, <1>5, <1>6, <1>7 DEF Next, LoopStep,
     AcquireFailFast, AcquireRecursion, AcquireDeadline, CancelWait, Complete,
     CancelComplete

NoWaitPastDeadline == \A t \in Tasks : InTime(t)

LEMMA WaitsStayShort ==
  /\ Init => NoWaitPastDeadline
  /\ TypeOK /\ LocalsOK /\ NoWaitPastDeadline /\ [Next]_vars
       => NoWaitPastDeadline'
BY WaitFacts DEF Init, NoWaitPastDeadline, InTime

\* A candidate select does not offer is full, on a cooldown or exhausted.
LEMMA NotOffered ==
  ASSUME NEW t \in Tasks, NEW c \in Candidates(t), c \notin Select(t).available,
         BelowHardLimit(c)
  PROVE  \/ Cooling(state[c], req[t].model)
         \/ FairCycle /\ FairOf(Select(t).view, c, req[t].model).exhausted
BY DEF Select, Available, PassesFirstCheckers, FairBlocked

\* The steps that end an acquisition before its deadline.
LEMMA GivesUpEarly ==
  ASSUME TypeOK, LocalsOK, [Next]_vars, NEW t \in Tasks,
         pc[t] = "acquire", pc'[t] = "unavailable", now < req[t].deadline
  PROVE  AcquireFailFast(t)
<1>1. ASSUME NEW u \in Tasks,
             \/ StartRequest(u) \/ AcquireWaitBusy(u) \/ AcquireSleep(u)
             \/ AcquireRecursion(u) \/ Resume(u) \/ CancelWait(u)
             \/ Complete(u) \/ CancelComplete(u) \/ AcquireDeadline(u)
      PROVE FALSE
  <2>1. CASE u # t
    BY <1>1, <2>1, QuietSteps
  <2>2. CASE u = t
    BY <1>1, <2>2 DEF StartRequest, AcquireWaitBusy, AcquireSleep,
       AcquireRecursion, Resume, CancelWait, Complete, CancelComplete,
       AcquireDeadline, Leave, TypeOK, Request
  <2> QED
    BY <2>1, <2>2
<1>2. ASSUME NEW u \in Tasks, AcquireGranted(u) PROVE FALSE
  BY <1>2 DEF AcquireGranted, TypeOK
<1>3. ASSUME NEW u \in Tasks, Finish(u) PROVE FALSE
  BY <1>3 DEF Finish, Release
<1>4. ASSUME NEW u \in Tasks, AcquireFailFast(u), u # t PROVE FALSE
  BY <1>4, QuietSteps
<1>5. ASSUME Admin \/ Tick \/ UNCHANGED vars PROVE FALSE
  BY <1>5 DEF Admin, ApplyCooldown, ClearCooldown, Tick, vars, taskVars
<1> QED
  BY <1>1, <1>2, <1>3, <1>4, <1>5 DEF Next, LoopStep

LEMMA EarlyMeansHopeless ==
  ASSUME TypeOK, NEW t \in Tasks, AcquireFailFast(t), NEW c \in Candidates(t)
  PROVE  /\ BelowHardLimit(c)
         /\ \/ \E k \in {GroupKey(req[t].model), Global} :
                  state[c].cooldown[k] > req[t].deadline
            \/ NotWaitedFor(c, req[t].model)
<1> DEFINE m == req[t].model
<1>1. /\ Select(t).available = {} /\ BusyCandidates(t) = {}
      /\ \A e \in CooldownEnds(t) : e > req[t].deadline
      /\ state' = Select(t).view.state
  BY DEF AcquireFailFast, LoopPass
<1>2. BelowHardLimit(c)
  BY <1>1 DEF BusyCandidates
<1>3. CASE Cooling(state[c], m)
  <2>1. PICK k \in {GroupKey(m), m, Global} : state[c].cooldown[k] > now
    BY <1>3 DEF Cooling
  <2>2. CASE k \in {GroupKey(m), Global}
    <3>1. c \in req[t].candidates
      BY DEF Candidates
    <3>2. state[c].cooldown[k] \in CooldownEnds(t)
      BY <2>1, <2>2, <3>1 DEF CooldownEnds
    <3> QED
      BY <1>1, <1>2, <2>2, <3>2
  <2>3. CASE k \notin {GroupKey(m), Global}
    BY <1>2, <2>1, <2>3 DEF NotWaitedFor
  <2> QED
    BY <2>2, <2>3
<1>4. CASE FairCycle /\ FairOf(Select(t).view, c, m).exhausted
  BY <1>1, <1>2, <1>4 DEF FairOf, NotWaitedFor
<1> QED
  BY <1>1, <1>2, <1>3, <1>4, NotOffered

\* No request sleeps past its deadline, and none is refused before it while a
\* credential it may use could still be waited for.
THEOREM WaitsAreSound == Spec => WaitsSound
<1>1. Init => TypeOK /\ LocalsOK /\ NoWaitPastDeadline
  BY InitType, WaitsStayShort DEF Init, LocalsOK
<1>2. TypeOK /\ LocalsOK /\ NoWaitPastDeadline /\ [Next]_vars
        => (TypeOK /\ LocalsOK /\ NoWaitPastDeadline)'
  BY NextType, NextLocals, WaitsStayShort
<1> DEFINE Hopeless ==
      \A t \in Tasks :
        pc[t] = "acquire" /\ pc'[t] = "unavailable" /\ now < req[t].deadline =>
          \A c \in Candidates(t) :
            /\ BelowHardLimit(c)
            /\ \/ \E k \in {GroupKey(req[t].model), Global} :
                    state[c].cooldown[k] > req[t].deadline
               \/ NotWaitedFor(c, req[t].model)
<1>3. TypeOK /\ LocalsOK /\ [Next]_vars => [Hopeless]_vars
  BY GivesUpEarly, EarlyMeansHopeless
<1> QED
  BY <1>1, <1>2, <1>3, PTL DEF Spec, WaitsSound, NoWaitPastDeadline, FailFastOnlyWhenHopeless

-----------------------------------------------------------------------------
(* The fair cycle.                                                          *)

\* Every exhaustion of one credential state is also one of the other.
StaysSpent(s, r) ==
  \A f \in CooldownKeys : s.fair[f].exhausted => r.fair[f].exhausted

\* Cooling a credential, marking it and counting its use end no exhaustion.
LEMMA MarkingKeepsSpent ==
  ASSUME NEW s \in CredState, NEW f \in CooldownKeys
  PROVE  StaysSpent(s, MarkExhausted(s, f))
BY DEF StaysSpent, MarkExhausted, WithFair, CredState, FairState

LEMMA CoolingKeepsSpent ==
  ASSUME NEW s \in CredState, NEW k \in CooldownKeys, NEW until \in Nat
  PROVE  StaysSpent(s, WithCooldown(s, k, until))
<1> DEFINE cooled == [s EXCEPT !.cooldown = [@ EXCEPT ![k] = until]]
<1>1. cooled \in CredState /\ cooled.fair = s.fair
  BY UpdateTypes DEF CredState, FairState
<1>2. FairKey(k) \in CooldownKeys
  BY DEF FairKey, CooldownKeys
<1>3. StaysSpent(cooled, MarkExhausted(cooled, FairKey(k)))
  BY <1>1, <1>2, MarkingKeepsSpent
<1> QED
  BY <1>1, <1>3 DEF StaysSpent, WithCooldown

LEMMA RecordingKeepsSpent ==
  ASSUME NEW s \in CredState, NEW m \in Models, NEW o \in OutcomeType,
         now \in Nat
  PROVE  StaysSpent(s, Recorded(s, m, o))
<1> DEFINE f == FairKey(GroupKey(m))
           k == GroupKey(m)
<1>1. /\ k \in CooldownKeys /\ f \in CooldownKeys /\ Global \in CooldownKeys
      /\ GroupOf[m] # None => GroupOf[m] \in CooldownKeys
  BY KeyTypes DEF CooldownKeys, GroupKey
<1>2. /\ o.retry_after \in Nat /\ o.quota_reset \in Nat
      /\ o.hook.cooldown \in Nat /\ o.hook.count \in Int
  BY DEF OutcomeType, HookType
<1>3. \A until \in Nat, key \in CooldownKeys, r \in CredState :
        /\ WithCooldown(r, key, until) \in CredState
        /\ StaysSpent(r, WithCooldown(r, key, until))
        /\ MarkExhausted(r, key) \in CredState
        /\ StaysSpent(r, MarkExhausted(r, key))
  BY WithCooldownType, CoolingKeepsSpent, MarkExhaustedType, MarkingKeepsSpent
<1>4. StaysSpent(s, WithHook(s, m, o)) /\ WithHook(s, m, o) \in CredState
  <2> DEFINE h == IF GroupOf[m] = None THEN Global ELSE GroupOf[m]
             cooled == IF o.hooked /\ o.hook.cooldown > 0
                       THEN WithCooldown(s, h, now + o.hook.cooldown) ELSE s
  <2>1. h \in CooldownKeys
    BY <1>1
  <2>2. cooled \in CredState /\ StaysSpent(s, cooled)
    BY <1>2, <1>3, <2>1 DEF StaysSpent
  <2>3. MarkExhausted(cooled, f) \in CredState
        /\ StaysSpent(cooled, MarkExhausted(cooled, f))
    <3> HIDE DEF cooled
    <3> QED BY <1>1, <1>3, <2>2
  <2>4. WithHook(s, m, o) \in {cooled, MarkExhausted(cooled, f)}
    BY DEF WithHook
  <2> QED
    <3> HIDE DEF cooled
    <3> QED BY <2>2, <2>3, <2>4 DEF StaysSpent
<1>5. \A r \in CredState, n \in Nat :
        StaysSpent(r, WithUsage(r, m, n))
  BY <1>1 DEF StaysSpent, WithUsage, WithFair, CredState, FairState
<1>6. \A r \in CredState : StaysSpent(r, WithFailure(r, m, o))
  <2> TAKE r \in CredState
  <2> DEFINE retried == IF o.retry_after > 0
                        THEN WithCooldown(r, k, now + o.retry_after) ELSE r
             timed == IF o.quota_reset > 0
                      THEN WithCooldown(retried, k, now + o.quota_reset)
                      ELSE retried
  <2>1. retried \in CredState /\ StaysSpent(r, retried)
    BY <1>1, <1>2, <1>3 DEF StaysSpent
  <2>2. timed \in CredState /\ StaysSpent(retried, timed)
    <3> HIDE DEF retried
    <3> QED BY <1>1, <1>2, <1>3, <2>1 DEF StaysSpent
  <2>3. StaysSpent(timed, MarkExhausted(timed, f))
    <3> HIDE DEF timed
    <3> QED BY <1>1, <1>3, <2>2
  <2>4. WithFailure(r, m, o) \in {timed, MarkExhausted(timed, f)}
    BY DEF WithFailure
  <2> QED
    <3> HIDE DEF retried, timed
    <3> QED BY <2>1, <2>2, <2>3, <2>4 DEF StaysSpent
<1>7. RequestCount(o) \in Nat
  BY <1>2 DEF RequestCount
<1> DEFINE used == WithUsage(WithHook(s, m, o), m, RequestCount(o))
<1>8. StaysSpent(s, used) /\ used \in CredState
  <2>1. StaysSpent(s, used)
    BY <1>4, <1>5, <1>7 DEF StaysSpent
  <2> QED
    BY <1>4, <1>7, <2>1, WithUsageType
<1>9. StaysSpent(used, WithFailure(used, m, o))
  BY <1>6, <1>8
<1>10. Recorded(s, m, o) \in {s, used, WithFailure(used, m, o)}
  BY DEF Recorded
<1> QED
  <2> HIDE DEF used
  <2> QED BY <1>8, <1>9, <1>10 DEF StaysSpent

\* The fair-cycle checker ends no exhaustion and marks only who is over quota.
LEMMA CheckingMarks ==
  ASSUME NEW v \in View, NEW T, NEW m \in Models, NEW d \in Creds,
         NEW g \in CooldownKeys
  PROVE  /\ v.state[d].fair[g].exhausted => Checked(v, T, m).state[d].fair[g].exhausted
         /\ Checked(v, T, m).state[d].fair[g].exhausted =>
              \/ v.state[d].fair[g].exhausted
              \/ OverQuota(d, v.state[d].fair[g])
<1> DEFINE key == FairKey(GroupKey(m))
           marked == WithFair(v.state[d], key,
                              [FairOf(v, d, m) EXCEPT !.exhausted = TRUE])
<1>1. key \in CooldownKeys
  BY KeyTypes
<1>2. v.state[d] \in CredState /\ FairOf(v, d, m) = v.state[d].fair[key]
  BY DEF View, FairOf
<1>3. /\ g = key => marked.fair[g].exhausted
      /\ g # key => marked.fair[g] = v.state[d].fair[g]
  BY <1>1, <1>2 DEF WithFair, CredState, FairState
<1>4. \/ Checked(v, T, m).state[d] = v.state[d]
      \/ Checked(v, T, m).state[d] = marked /\ OverQuota(d, FairOf(v, d, m))
  BY DEF Checked
<1> QED
  <2> HIDE DEF marked
  <2> QED BY <1>2, <1>3, <1>4

\* A pass of the loop ends the exhaustion of a credential only by a reset of the
\* cycle, for which every candidate of the same tier has to be spent.
LEMMA ResetIsDue ==
  ASSUME TypeOK, NEW t \in Tasks, NEW c \in Creds, NEW f \in CooldownKeys,
         state[c].fair[f].exhausted,
         ~Select(t).view.state[c].fair[f].exhausted
  PROVE  /\ c \in Candidates(t)
         /\ \A d \in Candidates(t) :
              CrossTier \/ Priority[d] = Priority[c] => Spent(d, f)
<1> DEFINE m == req[t].model
           S == Candidates(t)
           key == FairKey(GroupKey(m))
           examined == S \cup ({Sticky(t)} \cap Creds)
           before == [state |-> state, start |-> cycle_start]
           first == Checked(before, examined, m)
           reset == ToReset(first, S, m)
           again == WithReset(first, reset, m)
<1>1. m \in Models /\ key \in CooldownKeys /\ now \in Nat /\ before \in View
  BY KeyTypes DEF TypeOK, Request, View
<1>2. first \in View /\ again \in View
  BY <1>1, CheckedType, ResetType
<1>4. first.state[c].fair[f].exhausted
  <2>1. before.state[c].fair[f].exhausted
    OBVIOUS
  <2> HIDE DEF before
  <2> QED BY <1>1, <2>1, CheckingMarks
<1>5. reset # {} /\ Select(t).view = Checked(again, S, m)
  <2>1. Select(t).view = IF reset = {} THEN first ELSE Checked(again, S, m)
    BY DEF Select
  <2> QED
    <3> HIDE DEF first, reset, again
    <3> QED BY <1>4, <2>1
<1>6. ~again.state[c].fair[f].exhausted
  <2>1. ~Checked(again, S, m).state[c].fair[f].exhausted
    <3> HIDE DEF again, S, m
    <3> QED BY <1>5
  <2> HIDE DEF again
  <2> QED BY <1>1, <1>2, <2>1, CheckingMarks
<1>7. c \in reset /\ f = key
  <2> HIDE DEF first, reset
  <2>1. first.state[c] \in CredState
    BY <1>2 DEF View
  <2>2. c \in reset
    BY <1>4, <1>6 DEF WithReset
  <2>3. again.state[c] = WithFair(first.state[c], key,
                           [FairOf(first, c, m) EXCEPT !.exhausted = FALSE,
                                                       !.count = 0])
    BY <2>2 DEF WithReset
  <2>4. f # key => again.state[c].fair[f] = first.state[c].fair[f]
    BY <1>1, <2>1, <2>3 DEF WithFair, CredState
  <2> QED
    BY <1>4, <1>6, <2>2, <2>4
<1>8. /\ c \in S
      /\ \A d \in S : CrossTier \/ Priority[d] = Priority[c] =>
                        first.state[d].fair[key].exhausted
  <2> HIDE DEF first
  <2> QED BY <1>7 DEF ToReset, FairOf
<1>9. ASSUME NEW d \in S, CrossTier \/ Priority[d] = Priority[c]
      PROVE  Spent(d, f)
  <2>1. d \in Creds /\ before.state = state
    BY CandidatesType
  <2>2. first.state[d].fair[key].exhausted
    BY <1>8, <1>9
  <2>3. \/ before.state[d].fair[key].exhausted
        \/ OverQuota(d, before.state[d].fair[key])
    <3> HIDE DEF before
    <3> QED BY <1>1, <2>1, <2>2, CheckingMarks
  <2> QED
    BY <1>7, <2>1, <2>3 DEF Spent
<1> QED
  BY <1>8, <1>9

\* A cycle ends only in the step of a request all of whose candidates of the tier
\* are spent.
THEOREM CyclesEndWhenDue == Spec => [][ResetsOnlyWhenDue]_vars
<1>1. TypeOK /\ LocalsOK /\ [Next]_vars => [ResetsOnlyWhenDue]_vars
  <2> SUFFICES ASSUME TypeOK, LocalsOK, [Next]_vars,
                      NEW c \in Creds, NEW f \in CooldownKeys,
                      state[c].fair[f].exhausted, ~state'[c].fair[f].exhausted
               PROVE  \E t \in Tasks :
                        /\ pc[t] = "acquire" /\ c \in Candidates(t)
                        /\ \A d \in Candidates(t) :
                             CrossTier \/ Priority[d] = Priority[c] => Spent(d, f)
    BY DEF ResetsOnlyWhenDue
  <2>0. state[c] \in CredState /\ now \in Nat
    BY DEF TypeOK
  <2>1. ASSUME NEW t \in Tasks, LoopPass(t, Select(t).view)
        PROVE  /\ pc[t] = "acquire" /\ c \in Candidates(t)
               /\ \A d \in Candidates(t) :
                    CrossTier \/ Priority[d] = Priority[c] => Spent(d, f)
    BY <2>1, ResetIsDue DEF LoopPass
  <2>2. ASSUME UNCHANGED state PROVE FALSE
    BY <2>2
  <2>3. ASSUME NEW r \in CredState, StaysSpent(state[c], r), state'[c] = r
        PROVE  FALSE
    BY <2>3 DEF StaysSpent
  <2>4. ASSUME NEW t \in Tasks, Finish(t) \/ Complete(t) PROVE FALSE
    <3>1. \/ UNCHANGED state
          \/ \E o \in Outcomes : state' = [state EXCEPT ![held[t]] =
                                           Recorded(@, req[t].model, o)]
      BY <2>4 DEF Finish, Complete, LocalsOK
    <3>2. ASSUME NEW o \in Outcomes,
                 state' = [state EXCEPT ![held[t]] = Recorded(@, req[t].model, o)]
          PROVE  FALSE
      <4>1. o \in OutcomeType /\ req[t].model \in Models
        BY ConstantTypes DEF TypeOK, Request
      <4>2. StaysSpent(state[c], Recorded(state[c], req[t].model, o))
        BY <2>0, <4>1, RecordingKeepsSpent
      <4>3. state'[c] \in {state[c], Recorded(state[c], req[t].model, o)}
        BY <3>2 DEF TypeOK
      <4> QED
        BY <4>2, <4>3 DEF StaysSpent
    <3> QED
      BY <3>1, <3>2
  <2>5. ASSUME Admin PROVE FALSE
    <3>1. PICK x \in Creds, k \in CooldownKeys :
            \/ \E d \in AdminCooldowns : ApplyCooldown(x, k, d)
            \/ ClearCooldown(x, k)
      BY <2>5 DEF Admin
    <3>2. ASSUME NEW d \in AdminCooldowns, ApplyCooldown(x, k, d) PROVE FALSE
      <4>1. StaysSpent(state[c], WithCooldown(state[c], k, now + d))
        BY <2>0, ConstantTypes, CoolingKeepsSpent
      <4>2. state'[c] \in {state[c], WithCooldown(state[c], k, now + d)}
        BY <3>2 DEF ApplyCooldown, TypeOK
      <4> QED
        BY <4>1, <4>2 DEF StaysSpent
    <3>3. ASSUME ClearCooldown(x, k) PROVE FALSE
      <4>1. state'[c].fair = state[c].fair
        BY <2>0, <3>3 DEF ClearCooldown, WithoutCooldown, TypeOK, CredState
      <4> QED
        BY <4>1
    <3> QED
      BY <3>1, <3>2, <3>3
  <2>6. ASSUME NEW t \in Tasks,
               \/ StartRequest(t) \/ AcquireDeadline(t) \/ Resume(t)
               \/ CancelWait(t) \/ CancelComplete(t)
        PROVE  FALSE
    BY <2>6 DEF StartRequest, AcquireDeadline, Resume, CancelWait,
       CancelComplete, credVars
  <2>7. ASSUME Tick \/ UNCHANGED vars PROVE FALSE
    BY <2>7 DEF Tick, vars, credVars
  <2> QED
    BY <2>1, <2>4, <2>5, <2>6, <2>7 DEF Next, LoopStep, AcquireGranted,
       AcquireWaitBusy, AcquireSleep, AcquireFailFast, AcquireRecursion
<1> QED
  BY <1>1, TypeCorrect, PTL DEF Spec

\* An exhausted credential serves no new request in its cycle, in whichever mode
\* and tiers it is used.
THEOREM SpentNotReused == Spec => [][ReusesNoSpent]_vars
<1>1. TypeOK /\ LocalsOK /\ [Next]_vars => [ReusesNoSpent]_vars
  <2> SUFFICES ASSUME TypeOK, LocalsOK, [Next]_vars, FairCycle,
                      NEW t \in Tasks, NEW c \in Creds, Acquires(t, c)
               PROVE  LET f == FairKey(GroupKey(req[t].model))
                      IN \/ ~state'[c].fair[f].exhausted
                         \/ now >= cycle_start'[f] + CycleDuration
    BY DEF ReusesNoSpent
  <2>1. AcquireGranted(t)
    <3>1. ASSUME NEW u \in Tasks,
                 \/ StartRequest(u) \/ AcquireWaitBusy(u) \/ AcquireSleep(u)
                 \/ AcquireFailFast(u) \/ AcquireRecursion(u)
                 \/ AcquireDeadline(u) \/ Resume(u) \/ CancelWait(u)
                 \/ Complete(u) \/ CancelComplete(u)
          PROVE  FALSE
      <4>1. CASE u = t
        BY <3>1, <4>1, QuietSteps DEF Acquires
      <4>2. CASE u # t
        BY <3>1, <4>2, QuietSteps DEF Acquires
      <4> QED
        BY <4>1, <4>2
    <3>2. ASSUME NEW u \in Tasks, Finish(u) PROVE FALSE
      BY <3>2 DEF Finish, Release, Acquires
    <3>3. ASSUME NEW u \in Tasks, AcquireGranted(u), u # t PROVE FALSE
      BY <3>3 DEF AcquireGranted, Acquires, TypeOK
    <3>4. ASSUME Admin \/ Tick \/ UNCHANGED vars PROVE FALSE
      BY <3>4 DEF Admin, ApplyCooldown, ClearCooldown, Tick, vars, taskVars,
         Acquires
    <3> QED
      BY <3>1, <3>2, <3>3, <3>4 DEF Next, LoopStep
  <2>2. c \in Select(t).available
    <3>1. PICK d \in StrategyChoice(t, StrategyCandidates(Select(t).available)) :
            held' = [held EXCEPT ![t] = d]
      BY <2>1 DEF AcquireGranted
    <3> QED
      BY <3>1 DEF Acquires, TypeOK, StrategyChoice, StrategyCandidates
  <2>3. ~FairBlocked(Select(t).view, c, req[t].model)
    BY <2>2 DEF Select, Available
  <2>4. state' = Select(t).view.state /\ cycle_start' = Select(t).view.start
    BY <2>1 DEF AcquireGranted, LoopPass
  <2> QED
    BY <2>3, <2>4 DEF FairBlocked, FairOf, CycleExpired
<1> QED
  BY <1>1, TypeCorrect, PTL DEF Spec

\* For any credentials, tiers, modes, requests and clocks the fair cycle is kept: it
\* ends when all are spent, and spent credentials rest until then.
THEOREM CyclesAreKept == Spec => CycleKept
BY CyclesEndWhenDue, SpentNotReused, PTL DEF CycleKept

-----------------------------------------------------------------------------
(* The pool implements CredentialPool.                                      *)

\* The abstract slot count of a credential is its active_requests.
LEMMA SlotFree ==
  ASSUME SlotInv, NEW c \in Creds, BelowHardLimit(c)
  PROVE  Pool!HasSlot(c)
<1>1. Pool!Users(c) = Holders(c)
  BY ConstantTypes DEF Pool!Users, Holders, InUse
<1>2. active[c] = Cardinality(Holders(c))
  BY DEF SlotInv, ActiveCountsHolders
<1> QED
  BY <1>1, <1>2 DEF Pool!HasSlot, BelowHardLimit, Pool!Cardinality,
     Cardinality, InUse

\* A step that changes the locals of one task only maps to a step of that task.
LEMMA OthersMap ==
  ASSUME NEW t \in Tasks,
         \A u \in Tasks \ {t} :
           pc'[u] = pc[u] /\ held'[u] = held[u] /\ req'[u] = req[u]
  PROVE  \A u \in Tasks \ {t} : /\ u \in Asking' <=> u \in Asking
                                /\ Accepts'[u] = Accepts[u]
                                /\ InUse'[u] = InUse[u]
BY DEF Asking, Accepts, InUse

LEMMA MapsToAsk ==
  ASSUME NEW t \in Tasks, TypeOK, StartRequest(t)
  PROVE  \E S \in SUBSET Creds : Pool!Ask(t, S)
<1>1. /\ pc[t] \in {"idle", "done", "unavailable", "recursion"}
      /\ pc' = [pc EXCEPT ![t] = "acquire"] /\ UNCHANGED held
      /\ \A u \in Tasks \ {t} : req'[u] = req[u]
  BY DEF StartRequest, TypeOK
<1>2. /\ \A u \in Tasks \ {t} : /\ u \in Asking' <=> u \in Asking
                                /\ Accepts'[u] = Accepts[u]
                                /\ InUse'[u] = InUse[u]
  BY <1>1, OthersMap DEF TypeOK
<1>3. t \notin Asking /\ t \in Asking' /\ InUse[t] = None /\ InUse'[t] = None
      /\ Accepts'[t] \subseteq Creds
  <2>1. req'[t].candidates \in SUBSET Creds
    BY ConstantTypes DEF StartRequest, TypeOK
  <2> QED
    BY <1>1, <2>1 DEF Asking, InUse, Accepts, TypeOK
<1>4. Asking' = Asking \cup {t} /\ InUse' = InUse
      /\ Accepts' = [Accepts EXCEPT ![t] = Accepts'[t]]
  BY <1>2, <1>3 DEF Asking, InUse, Accepts
<1>5. PICK S \in SUBSET Creds : S = Accepts'[t]
  BY <1>3
<1>6. Accepts' = [Accepts EXCEPT ![t] = S]
  BY <1>3, <1>4, <1>5 DEF Accepts
<1>7. Pool!Ask(t, S)
  BY <1>3, <1>4, <1>6 DEF Pool!Ask, Accepts, InUse
<1> QED
  BY <1>7

\* A granted, refused or cancelled acquisition answers the request.
LEMMA MapsToAnswer ==
  ASSUME NEW t \in Tasks, TypeOK, pc[t] \in {"acquire", "waiting", "sleeping"},
         pc'[t] \notin {"acquire", "waiting", "sleeping"},
         \A u \in Tasks \ {t} :
           pc'[u] = pc[u] /\ held'[u] = held[u] /\ req'[u] = req[u]
  PROVE  Pool!Answer(t)
<1>1. \A u \in Tasks \ {t} : /\ u \in Asking' <=> u \in Asking
                             /\ Accepts'[u] = Accepts[u]
  BY OthersMap
<1>2. t \in Asking /\ t \notin Asking' /\ Accepts'[t] = {}
  BY DEF Asking, Accepts
<1>3. Asking' = Asking \ {t} /\ Accepts' = [Accepts EXCEPT ![t] = {}]
  BY <1>1, <1>2 DEF Asking, Accepts
<1> QED
  BY <1>2, <1>3 DEF Pool!Answer, Accepts

LEMMA MapsToRefuse ==
  ASSUME NEW t \in Tasks, TypeOK,
         \/ AcquireFailFast(t) \/ AcquireRecursion(t) \/ AcquireDeadline(t)
         \/ CancelWait(t)
  PROVE  Pool!Refuse(t)
<1>1. /\ pc[t] \in {"acquire", "waiting", "sleeping"}
      /\ Leave(t, "unavailable") \/ Leave(t, "recursion")
  BY DEF AcquireFailFast, AcquireRecursion, AcquireDeadline, CancelWait, LoopPass
<1>2. /\ pc'[t] \in {"unavailable", "recursion"}
      /\ \A u \in Tasks \ {t} :
           pc'[u] = pc[u] /\ held'[u] = held[u] /\ req'[u] = req[u]
  BY <1>1 DEF Leave, TypeOK
<1>3. InUse' = InUse
  BY <1>1, <1>2 DEF InUse
<1>4. Pool!Answer(t)
  BY <1>1, <1>2, MapsToAnswer
<1> QED
  BY <1>3, <1>4 DEF Pool!Refuse, InUse

LEMMA MapsToGrant ==
  ASSUME NEW t \in Tasks, SlotInv, AcquireGranted(t)
  PROVE  \E c \in Creds : Pool!Grant(t, c)
<1> DEFINE pool == StrategyCandidates(Select(t).available)
<1>0. TypeOK
  BY DEF SlotInv
<1>1. PICK c \in StrategyChoice(t, pool) : held' = [held EXCEPT ![t] = c]
  BY DEF AcquireGranted
<1>2. c \in Creds /\ c \in Candidates(t) /\ BelowHardLimit(c)
  <2>1. c \in Select(t).available
    BY DEF StrategyChoice, StrategyCandidates
  <2> QED
    BY <1>0, <2>1, SelectType, CandidatesType
<1>3. pc[t] = "acquire" /\ pc' = [pc EXCEPT ![t] = "using"] /\ UNCHANGED req
  BY DEF AcquireGranted, LoopPass
<1>4. Pool!Answer(t)
  BY <1>0, <1>1, <1>3, MapsToAnswer DEF TypeOK
<1>5. InUse' = [InUse EXCEPT ![t] = c]
  BY <1>0, <1>1, <1>3 DEF InUse, TypeOK
<1>6. c \in Accepts[t]
  BY <1>2, <1>3 DEF Accepts, Asking, Candidates
<1>7. Pool!HasSlot(c)
  BY <1>2, SlotFree
<1> QED
  BY <1>2, <1>4, <1>5, <1>6, <1>7 DEF Pool!Grant, InUse, Accepts

\* The end of the block gives the slot back; the tasks it wakes keep asking.
LEMMA MapsToGiveBack ==
  ASSUME NEW t \in Tasks, TypeOK, LocalsOK, Finish(t)
  PROVE  Pool!GiveBack(t)
<1>1. /\ pc[t] = "using" /\ held[t] \in Creds /\ Release(t)
      /\ \A u \in Tasks \ {t} : held'[u] = held[u]
  BY FinishFacts
<1>2. /\ pc'[t] \in {"completing", "done"}
      /\ \A u \in Tasks \ {t} :
           pc'[u] = pc[u] \/ (pc[u] = "waiting" /\ pc'[u] = "acquire")
  BY <1>1 DEF Release
<1>3. \A u \in Tasks \ {t} : req'[u] = req[u]
  <2>1. UNCHANGED req \/ req' = [req EXCEPT ![t] = NoRequest]
    BY DEF Finish
  <2> QED
    BY <2>1 DEF TypeOK
<1>4. Asking' = Asking /\ t \notin Asking
  BY <1>1, <1>2 DEF Asking
<1>5. Accepts' = Accepts
  BY <1>3, <1>4 DEF Accepts
<1>6. InUse[t] # None /\ InUse' = [InUse EXCEPT ![t] = None]
  BY <1>1, <1>2, ConstantTypes DEF InUse
<1> QED
  BY <1>4, <1>5, <1>6 DEF Pool!GiveBack, Accepts, InUse

\* Everything else is invisible to the requests.
LEMMA MapsToStutter ==
  ASSUME TypeOK,
         \/ \E t \in Tasks : \/ AcquireWaitBusy(t) \/ AcquireSleep(t) \/ Resume(t)
                             \/ Complete(t) \/ CancelComplete(t)
         \/ Admin \/ Tick \/ UNCHANGED vars
  PROVE  UNCHANGED <<Asking, Accepts, InUse>>
<1>1. ASSUME NEW t \in Tasks,
             \/ AcquireWaitBusy(t) \/ AcquireSleep(t) \/ Resume(t)
             \/ Complete(t) \/ CancelComplete(t)
      PROVE  UNCHANGED <<Asking, Accepts, InUse>>
  <2>1. CASE AcquireWaitBusy(t) \/ AcquireSleep(t) \/ Resume(t)
    <3>1. /\ pc[t] \in {"acquire", "waiting", "sleeping"}
          /\ pc'[t] \in {"acquire", "waiting", "sleeping"}
          /\ \A u \in Tasks \ {t} : pc'[u] = pc[u]
          /\ UNCHANGED <<req, held>>
      BY <2>1 DEF AcquireWaitBusy, AcquireSleep, Resume, LoopPass, TypeOK
    <3> QED
      BY <3>1 DEF Asking, Accepts, InUse
  <2>2. CASE Complete(t) \/ CancelComplete(t)
    <3>1. /\ pc[t] = "completing" /\ pc'[t] = "done"
          /\ \A u \in Tasks \ {t} :
               pc'[u] = pc[u] /\ req'[u] = req[u] /\ held'[u] = held[u]
      BY <2>2 DEF Complete, CancelComplete, Leave, TypeOK
    <3> QED
      BY <3>1 DEF Asking, Accepts, InUse
  <2> QED
    BY <1>1, <2>1, <2>2
<1>2. ASSUME Admin \/ Tick \/ UNCHANGED vars
      PROVE  UNCHANGED <<Asking, Accepts, InUse>>
  <2>1. UNCHANGED <<pc, req, held>>
    BY <1>2 DEF Admin, ApplyCooldown, ClearCooldown, Tick, vars, taskVars
  <2> QED
    BY <2>1 DEF Asking, Accepts, InUse
<1> QED
  BY <1>1, <1>2

\* The usage manager implements the contract the executor is written against:
\* every behaviour of the pool is, seen through the requests that ask, are
\* granted, refused and give back, a behaviour of CredentialPool.
THEOREM ImplementsPool == Spec => PoolContract
<1>1. Init => Pool!PoolInit
  BY DEF Init, Pool!PoolInit, Asking, Accepts, InUse
<1>2. SlotInv /\ [Next]_vars => [Pool!PoolNext]_(Pool!poolVars)
  <2> SUFFICES ASSUME SlotInv, [Next]_vars
               PROVE  Pool!PoolNext \/ UNCHANGED <<Asking, Accepts, InUse>>
    BY DEF Pool!poolVars, Accepts, InUse
  <2>0. TypeOK /\ LocalsOK
    BY DEF SlotInv
  <2>1. ASSUME NEW t \in Tasks, StartRequest(t) PROVE Pool!PoolNext
    BY <2>0, <2>1, MapsToAsk DEF Pool!PoolNext
  <2>2. ASSUME NEW t \in Tasks, AcquireGranted(t) PROVE Pool!PoolNext
    BY <2>2, MapsToGrant DEF Pool!PoolNext
  <2>3. ASSUME NEW t \in Tasks,
               \/ AcquireFailFast(t) \/ AcquireRecursion(t)
               \/ AcquireDeadline(t) \/ CancelWait(t)
        PROVE  Pool!PoolNext
    BY <2>0, <2>3, MapsToRefuse DEF Pool!PoolNext
  <2>4. ASSUME NEW t \in Tasks, Finish(t) PROVE Pool!PoolNext
    BY <2>0, <2>4, MapsToGiveBack DEF Pool!PoolNext
  <2> QED
    BY <2>0, <2>1, <2>2, <2>3, <2>4, MapsToStutter DEF Next, LoopStep
<1> QED
  BY <1>1, <1>2, SlotInvInductive, PTL DEF Spec, PoolContract, Pool!PoolSpec

-----------------------------------------------------------------------------
(* The usage on its way to the file.                                        *)

\* Every variable keeps its type through a save.
LEMMA SaveTypes ==
  ASSUME StorageConstants, StorageTypeOK, NEW v \in Version, Save(v)
  PROVE  /\ unsaved' \in Nat \cup {Nil}
         /\ dirty' \in BOOLEAN /\ last_save' \in Int
         /\ current_state' \in Version \cup {Nil}
         /\ healthy' \in BOOLEAN /\ last_attempt' \in Int
         /\ pending' \in Version \cup {Nil}
         /\ disk' \in Version
BY DEF StorageConstants, StorageTypeOK, Save, Write, Saves, TooSoon, Version

LEMMA StorageTypes ==
  ASSUME StorageConstants, StorageTypeOK, [StorageNext]_stateVars
  PROVE  StorageTypeOK'
<1>1. CASE Record
  <2>1. newest + 1 \in Version  BY DEF StorageTypeOK, Version
  <2>2. CASE time - last_save < Debounce
    BY <1>1, <2>2 DEF Record, StorageTypeOK, StorageConstants, ScheduleFlush,
                      writerVars, Version
  <2>3. CASE ~(time - last_save < Debounce)
    <3>1. Save(newest + 1) /\ (IF Saves THEN UNCHANGED flush ELSE ScheduleFlush)
      BY <1>1, <2>3 DEF Record
    <3>2. flush' \in Nat \cup {Nil}
      BY <3>1 DEF ScheduleFlush, StorageTypeOK, StorageConstants
    <3> QED BY <1>1, <2>1, <3>1, <3>2, SaveTypes DEF Record, StorageTypeOK, Version
  <2> QED BY <2>2, <2>3
<1>2. CASE Flush
  <2>1. CASE dirty
    <3>1. Save(memory)  BY <1>2, <2>1 DEF Flush
    <3> QED BY <1>2, <3>1, SaveTypes DEF Flush, StorageTypeOK
  <2>2. CASE ~dirty
    BY <1>2, <2>2 DEF Flush, StorageTypeOK, writerVars
  <2> QED BY <2>1, <2>2
<1>3. CASE Close
  BY <1>3, SaveTypes DEF Close, StorageTypeOK
<1>4. CASE Touch
  BY <1>4 DEF Touch, StorageTypeOK, storageVars, writerVars, Version
<1>5. CASE Reload
  BY <1>5 DEF Reload, StorageTypeOK, storageVars, writerVars
<1>6. CASE RetryThread
  <2>1. CASE RetryCopies
    <3>1. retrying' \in Retrying
      <4>1. pending \in Version  BY <2>1 DEF RetryCopies, StorageTypeOK
      <4> QED BY <2>1, <4>1 DEF RetryCopies, Retrying
    <3> QED BY <2>1, <3>1 DEF RetryCopies, StorageTypeOK, usageVars, storageVars, writerVars
  <2>2. CASE RetryWrites
    <3>1. retrying \in [pc : {"copied", "written"}, data : Version]
      BY <2>2 DEF RetryWrites, StorageTypeOK, Retrying, Asleep
    <3>2. retrying' \in Retrying
      BY <2>2, <3>1 DEF RetryWrites, Retrying
    <3>3. disk' \in Version
      BY <2>2, <3>1 DEF RetryWrites, StorageTypeOK
    <3> QED
      BY <2>2, <3>2, <3>3 DEF RetryWrites, StorageTypeOK, usageVars, storageVars, writerVars
  <2>3. CASE RetryDrops
    BY <2>3 DEF RetryDrops, StorageTypeOK, usageVars, storageVars, writerVars, Retrying
  <2> QED BY <1>6, <2>1, <2>2, <2>3 DEF RetryThread
<1>7. CASE Exit
  BY <1>7 DEF Exit, StorageTypeOK, usageVars, storageVars, writerVars, Retrying, Asleep,
              Version, StorageConstants
<1>8. CASE Crash
  BY <1>8 DEF Crash, StorageTypeOK, usageVars, storageVars, writerVars, Retrying, Asleep
<1>9. CASE Start
  <2>1. -Debounce \in Int  BY DEF StorageConstants
  <2>2. memory' \in Version /\ newest' \in Version /\ disk' \in Version
    BY <1>9 DEF Start, StorageTypeOK
  <2>3. dirty' \in BOOLEAN /\ healthy' \in BOOLEAN /\ disk_up' \in BOOLEAN
    BY <1>9 DEF Start, StorageTypeOK
  <2> QED BY <1>9, <2>1, <2>2, <2>3 DEF Start, StorageTypeOK
<1>10. CASE DiskChanges \/ TimePasses
  <2>1. disk_up' \in BOOLEAN
    BY <1>10 DEF DiskChanges, TimePasses, StorageTypeOK
  <2>2. time' \in Nat
    BY <1>10 DEF DiskChanges, TimePasses, StorageTypeOK
  <2> QED
    BY <1>10, <2>1, <2>2 DEF DiskChanges, TimePasses, StorageTypeOK, usageVars, storageVars, writerVars
<1>11. CASE UNCHANGED stateVars
  BY <1>11 DEF stateVars, StorageTypeOK, usageVars, storageVars, writerVars
<1> QED
  BY <1>1, <1>2, <1>3, <1>4, <1>5, <1>6, <1>7, <1>8, <1>9, <1>10, <1>11 DEF StorageNext

LEMMA InitTypes ==
  ASSUME StorageConstants, StorageInit
  PROVE  StorageTypeOK
<1>1. -Debounce \in Int  BY DEF StorageConstants
<1>2. retrying \in Retrying  BY DEF StorageInit, Retrying
<1>3. memory \in Version /\ newest \in Version /\ disk \in Version
  BY DEF StorageInit, Version
<1>4. dirty \in BOOLEAN /\ healthy \in BOOLEAN /\ disk_up \in BOOLEAN
  BY DEF StorageInit
<1> QED BY <1>1, <1>2, <1>3, <1>4 DEF StorageInit, StorageTypeOK

\* Every reachable state is well typed.
THEOREM StorageTypeCorrect ==
  ASSUME StorageConstants
  PROVE  StorageSpec => []StorageTypeOK
<1>1. StorageInit => StorageTypeOK
  BY InitTypes
<1>2. StorageTypeOK /\ [StorageNext]_stateVars => StorageTypeOK'
  BY StorageTypes
<1> QED BY <1>1, <1>2, PTL DEF StorageSpec
-----------------------------------------------------------------------------
(* A flush that is asleep ends within Debounce of now: with it, the bound   *)
(* of UpdatesReachWriter is inductive.                                      *)

FlushSoon == phase = "running" /\ flush # Nil => flush <= time + Debounce
WriterInv == StorageTypeOK /\ FlushSoon /\ UpdatesReachWriter

LEMMA FlushStaysSoon ==
  ASSUME StorageConstants, StorageTypeOK, FlushSoon, [StorageNext]_stateVars
  PROVE  FlushSoon'
<1>1. ScheduleFlush => (flush' = flush \/ flush' = time + Debounce)
  BY DEF ScheduleFlush
<1>2. CASE Record
  <2>1. flush' = flush \/ flush' = time + Debounce
    BY <1>1, <1>2 DEF Record
  <2> QED BY <1>2, <2>1 DEF Record, FlushSoon, StorageTypeOK, StorageConstants
<1>3. CASE Flush \/ Close \/ Start
  BY <1>3 DEF Flush, Close, Start, FlushSoon
<1>4. CASE TimePasses
  BY <1>4 DEF TimePasses, FlushSoon, StorageTypeOK, StorageConstants, storageVars
<1>5. CASE Exit \/ Crash
  BY <1>5 DEF Exit, Crash, FlushSoon
<1>6. CASE Touch \/ Reload \/ RetryThread \/ DiskChanges \/ UNCHANGED stateVars
  BY <1>6 DEF Touch, Reload, RetryThread, RetryCopies, RetryWrites, RetryDrops,
              DiskChanges, stateVars, storageVars, FlushSoon
<1> QED BY <1>2, <1>3, <1>4, <1>5, <1>6 DEF StorageNext

LEMMA WriterInvInductive ==
  ASSUME StorageConstants, WriterInv, [StorageNext]_stateVars
  PROVE  WriterInv'
<1>1. StorageTypeOK'
  BY StorageTypes DEF WriterInv
<1>2. FlushSoon'
  BY FlushStaysSoon DEF WriterInv
<1>3. UpdatesReachWriter'
  <2>1. \A v : Save(v) => unsaved' = Nil
    BY DEF Save, Write
  <2>2. CASE Record
    <3>1. CASE time - last_save < Debounce
      <4>1. /\ dirty'
            /\ flush' = IF flush = Nil THEN time + Debounce ELSE flush
            /\ unsaved' = IF unsaved = Nil THEN time ELSE unsaved
        BY <2>2, <3>1 DEF Record, ScheduleFlush
      <4>2. time + Debounce # Nil  BY DEF StorageConstants, WriterInv, StorageTypeOK
      <4>3. CASE unsaved = Nil
        BY <2>2, <4>1, <4>2, <4>3 DEF WriterInv, StorageTypeOK, FlushSoon, StorageConstants,
                                 UpdatesReachWriter, Record
      <4>4. CASE unsaved # Nil
        BY <2>2, <4>1, <4>2, <4>4 DEF WriterInv, UpdatesReachWriter, Record
      <4> QED BY <4>3, <4>4
    <3>2. CASE ~(time - last_save < Debounce)
      BY <2>1, <2>2, <3>2 DEF Record, UpdatesReachWriter
    <3> QED BY <3>1, <3>2
  <2>3. CASE Flush
    <3>1. CASE dirty
      BY <2>1, <2>3, <3>1 DEF Flush, UpdatesReachWriter
    <3>2. CASE ~dirty
      <4>1. unsaved = Nil
        BY <2>3, <3>2 DEF Flush, WriterInv, UpdatesReachWriter
      <4> QED BY <2>3, <3>2, <4>1 DEF Flush, UpdatesReachWriter
    <3> QED BY <3>1, <3>2
  <2>4. CASE Start \/ Close \/ Exit \/ Crash
    BY <2>4 DEF Start, Close, Exit, Crash, UpdatesReachWriter
  <2>5. CASE Touch \/ Reload \/ RetryThread \/ DiskChanges \/ TimePasses
             \/ UNCHANGED stateVars
    BY <2>5 DEF Touch, Reload, RetryThread, RetryCopies, RetryWrites, RetryDrops,
                DiskChanges, TimePasses, stateVars, storageVars, usageVars, WriterInv,
                UpdatesReachWriter
  <2> QED BY <2>2, <2>3, <2>4, <2>5 DEF StorageNext
<1> QED BY <1>1, <1>2, <1>3 DEF WriterInv

\* For any debounce and whatever the disk does, a recorded update has reached
\* the writer or a flush that will hand it over ends within Debounce of it.
THEOREM UpdatesNotForgotten ==
  ASSUME StorageConstants
  PROVE  StorageSpec => []UpdatesReachWriter
<1>1. StorageInit => WriterInv
  <2>1. StorageInit => StorageTypeOK
    BY InitTypes
  <2> QED BY <2>1 DEF StorageInit, WriterInv, FlushSoon, UpdatesReachWriter
<1>2. WriterInv /\ [StorageNext]_stateVars => WriterInv'
  BY WriterInvInductive
<1>3. WriterInv => UpdatesReachWriter
  BY DEF WriterInv
<1> QED BY <1>1, <1>2, <1>3, PTL DEF StorageSpec
=============================================================================
