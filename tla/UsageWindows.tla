----------------------------- MODULE UsageWindows -----------------------------
(***************************************************************************)
(* The usage windows of one credential: how requests and what the provider  *)
(* reports are counted in the windows of models and of their quota group     *)
(* (WindowManager, TrackingEngine, update_quota_baseline), and how the       *)
(* window limits and custom caps stop the next request.                      *)
(*                                                                         *)
(* The provider counts a request when it is sent and the credential when it  *)
(* has ended; a quota fetch reads the provider's counter and is stored later.*)
(* The models share a quota group (grouped) or are scopes of their own.      *)
(***************************************************************************)
EXTENDS Integers, FiniteSets

CONSTANTS
  WinModels, Group,   \* the models and the name of their quota group
  NoTime,             \* a time or a limit that is None
  Duration,           \* of a rolling window
  Day, ResetHour, WeekDays,  \* the calendar of fixed windows
  CapOf,              \* the custom cap of a model or the group, or none
  CapCooldown,        \* cooldown_value of a FIXED cap cooldown
  ApiLimit,           \* what the provider allows in its window
  MaxInFlight, MaxSent, WinMaxTime  \* bounds of the model

Scopes == WinModels \cup {Group}
CapModes == {"none", "absolute", "offset", "percentage"}

ASSUME WindowConstants ==
  /\ Group \notin WinModels /\ NoTime = -1
  /\ {Duration, Day, WeekDays, ApiLimit} \subseteq Nat \ {0}
  /\ {ResetHour, CapCooldown, MaxInFlight, MaxSent, WinMaxTime} \subseteq Nat
  /\ ResetHour < Day
  /\ CapOf \in [Scopes -> [mode : CapModes, value : Int,
                           cooldown : {"reset", "offset", "fixed"}]]

VARIABLES
  clock,
  mode,      \* reset_mode of the window's definition
  grouped,   \* the models have a quota group
  window,    \* WindowStats of each scope
  cooldown,  \* end of the cooldown of each scope
  flight,    \* requests of each model that have been sent and not recorded
  api,       \* the provider's window: used and its end
  fetch,     \* a quota answer that is not stored yet, [is |-> "none"] without one
  sent,      \* requests of all users so far (for the bound)
  reports    \* how this provider tells its limits: in response headers or by quota answers

winVars == <<clock, mode, grouped, window, cooldown, flight, api, fetch, sent, reports>>

Modes == {"rolling", "daily", "weekly", "api"}
NoWindow == [known |-> FALSE, count |-> 0, success |-> 0, failure |-> 0,
             started |-> NoTime, reset |-> NoTime, limit |-> NoTime, max |-> 0]
NoFetch == [is |-> "none", used |-> 0, reset |-> NoTime, force |-> FALSE]

WindowsInit ==
  /\ clock = 0 /\ mode \in Modes /\ grouped \in BOOLEAN
  /\ window = [s \in Scopes |-> NoWindow]
  /\ cooldown = [s \in Scopes |-> 0] /\ flight = [m \in WinModels |-> 0]
  /\ api = [used |-> 0, reset |-> NoTime] /\ fetch = NoFetch /\ sent = 0
  /\ reports \in {"headers", "answers"}

Larger(a, b) == IF a >= b THEN a ELSE b
Smaller(a, b) == IF a <= b THEN a ELSE b

-----------------------------------------------------------------------------
(* When a window ends.                                                      *)

NextDaily(t) ==
  LET today == (t \div Day) * Day + ResetHour
  IN IF today <= t THEN today + Day ELSE today

\* The last day of the week, today only before its hour.
NextWeekly(t) ==
  LET left == (WeekDays - 1 - (t \div Day)) % WeekDays
      days == IF left = 0 /\ t % Day >= ResetHour THEN WeekDays ELSE left
  IN ((t \div Day) + days) * Day + ResetHour

\* _calculate_reset_time.
NextReset(t) ==
  CASE mode = "rolling" -> t + Duration
    [] mode = "daily" -> NextDaily(t)
    [] mode = "weekly" -> NextWeekly(t)
    [] mode = "api" -> NoTime

\* _should_reset: an explicit time first, then what the definition says.
Over(w) ==
  IF w.reset # NoTime THEN clock >= w.reset
  ELSE /\ w.started # NoTime /\ mode # "api"
       /\ clock >= NextReset(w.started)

Live(w) == w.known /\ ~Over(w)

\* The high-water mark that a new window takes over.
Carried(w) == Larger(w.count, w.max)

\* get_or_create_window.
Current(w) ==
  IF Live(w) THEN w
  ELSE [NoWindow EXCEPT !.known = TRUE, !.limit = w.limit, !.max = Carried(w)]

-----------------------------------------------------------------------------
(* The limits.                                                              *)

\* _resolve_max_requests.
CapMax(cap, limit) ==
  CASE cap.mode = "absolute" -> Larger(0, cap.value)
    [] cap.mode = "offset" /\ limit = NoTime -> Larger(cap.value, -cap.value)
    [] cap.mode = "offset" /\ limit # NoTime -> Larger(0, limit + cap.value)
    [] cap.mode = "percentage" /\ limit = NoTime -> 1000
    [] cap.mode = "percentage" /\ limit # NoTime -> Larger(0, (limit * cap.value) \div 100)

\* _check_single_cap.
CapReached(s, w) ==
  CapOf[s].mode # "none" /\ Live(w) /\ w.count >= CapMax(CapOf[s], w.limit)

\* _calculate_cooldown_until.
CapUntil(s, w) ==
  CASE CapOf[s].cooldown = "reset" -> w.reset
    [] CapOf[s].cooldown = "fixed" -> clock + CapCooldown
    [] CapOf[s].cooldown = "offset" ->
         IF w.reset # NoTime THEN w.reset + CapCooldown ELSE clock + CapCooldown

QuotaScope(m) == IF grouped THEN Group ELSE m
ScopesOf(m) == {m, QuotaScope(m)}

\* WindowLimitChecker, whose definition applies to the quota scope.
LimitReached(m) ==
  LET w == window[QuotaScope(m)]
  IN w.limit # NoTime /\ Live(w) /\ w.count >= w.limit

\* check_all, without the checkers of UsageManager.
Allowed(m) ==
  /\ \A s \in ScopesOf(m) : cooldown[s] <= clock /\ ~CapReached(s, window[s])
  /\ ~LimitReached(m)

-----------------------------------------------------------------------------
(* Requests.                                                                *)

\* The provider counts the request, in a window that it begins with its first.
ApiCounts(n) == [used |-> api.used + n,
                 reset |-> IF api.used = 0 THEN clock + Duration ELSE api.reset]

SendRequest(m) ==
  /\ flight[m] < MaxInFlight /\ sent < MaxSent /\ Allowed(m)
  /\ sent' = sent + 1
  /\ flight' = [flight EXCEPT ![m] = @ + 1]
  /\ api' = ApiCounts(1)
  /\ UNCHANGED <<clock, mode, grouped, window, cooldown, fetch, reports>>

\* Another user of the same account.
Foreign ==
  /\ sent < MaxSent /\ sent' = sent + 1 /\ api' = ApiCounts(1)
  /\ UNCHANGED <<clock, mode, grouped, window, cooldown, flight, fetch, reports>>

\* _apply_to_window for one request.
Counted(w, ok) ==
  LET n == w.count + 1
      started == IF w.started = NoTime THEN clock ELSE w.started
  IN [w EXCEPT !.count = n,
               !.success = IF ok THEN @ + 1 ELSE @,
               !.failure = IF ok THEN @ ELSE @ + 1,
               !.started = started,
               !.reset = IF w.started = NoTime /\ @ = NoTime THEN NextReset(clock) ELSE @,
               !.max = Larger(@, n)]

\* _sync_window_timing_from_group.
Timed(w, g) == IF grouped THEN [w EXCEPT !.started = g.started, !.reset = g.reset] ELSE w

\* record_usage for model m and its group.
Recorded(m, ok) ==
  LET g == Counted(Current(window[Group]), ok)
  IN [s \in Scopes |->
        IF s = m THEN Timed(Counted(Current(window[m]), ok), g)
        ELSE IF s = Group /\ grouped THEN g ELSE window[s]]

\* _update_from_headers: the limit and the end of the windows of m and its group.
WithHeaders(f, m, seconds) ==
  [s \in Scopes |-> IF s \in ScopesOf(m)
                    THEN [f[s] EXCEPT !.limit = ApiLimit, !.reset = clock + seconds]
                    ELSE f[s]]

\* The first cap of model and group that is reached, and when it ends.
CapEnd(f, m) ==
  IF CapReached(m, f[m]) THEN CapUntil(m, f[m])
  ELSE IF grouped /\ CapReached(Group, f[Group]) THEN CapUntil(Group, f[Group])
  ELSE NoTime

\* The request ends.  Only a success has headers, and only a success is followed
\* by the cooldown of a cap, on the quota scope.
RecordRequest(m, ok, headers) ==
  LET f == IF headers THEN WithHeaders(Recorded(m, ok), m, Duration) ELSE Recorded(m, ok)
      end == IF ok THEN CapEnd(f, m) ELSE NoTime
  IN /\ flight[m] > 0 /\ (headers => ok /\ reports = "headers")
     /\ window' = f
     /\ cooldown' = IF end = NoTime THEN cooldown ELSE [cooldown EXCEPT ![QuotaScope(m)] = end]
     /\ flight' = [flight EXCEPT ![m] = @ - 1]
     /\ UNCHANGED <<clock, mode, grouped, api, fetch, sent, reports>>

-----------------------------------------------------------------------------
(* What the provider reports.                                               *)

\* The end of a window is only reported when it is in use.
FetchQuota(force) ==
  /\ reports = "answers" /\ fetch.is = "none"
  /\ fetch' = [is |-> "answer", used |-> api.used,
               reset |-> IF api.used > 0 THEN api.reset ELSE NoTime, force |-> force]
  /\ UNCHANGED <<clock, mode, grouped, window, cooldown, flight, api, sent, reports>>

\* _reconcile_window_counts.
Reconciled(w, n) ==
  LET all == w.success + w.failure
      bad == Smaller(w.failure, n)
  IN IF all = 0 /\ n > 0 THEN [w EXCEPT !.count = n, !.success = n, !.failure = 0]
     ELSE IF n < all THEN [w EXCEPT !.count = n, !.success = n - bad, !.failure = bad]
     ELSE [w EXCEPT !.count = n, !.success = @ + (n - all)]

InUse(w, used) == used > 0 \/ w.count > 0

\* Mutant: what the provider reports is taken as it is.
SyncedAsReported(w, answer) == answer.used

\* The count after a sync: the provider's by force, otherwise the larger one.
Synced(w, answer) ==
  IF answer.force THEN answer.used
  ELSE Larger(w.count, Larger(answer.used, w.success + w.failure))

\* _apply_quota_update.
Updated(w, answer) ==
  LET used == InUse(w, answer.used)
      timed == [w EXCEPT !.limit = ApiLimit,
                         !.reset = IF used /\ answer.reset # NoTime THEN answer.reset ELSE @,
                         !.started = IF used /\ @ = NoTime THEN clock ELSE @]
  IN Reconciled(timed, Synced(w, answer))

\* update_quota_baseline for a model: its group's window, whose times all models
\* with a window take over, or its own.  The provider plugin may ask for a cooldown
\* of the quota scope when nothing is left.
StoreQuota(m, exhausted) ==
  LET scope == QuotaScope(m)
      w == Updated(Current(window[scope]), fetch)
  IN /\ fetch.is = "answer" /\ (exhausted => fetch.used >= ApiLimit)
     /\ cooldown' = IF exhausted /\ fetch.reset # NoTime
                    THEN [cooldown EXCEPT ![scope] = fetch.reset] ELSE cooldown
     /\ window' = [s \in Scopes |->
          IF s = scope THEN w
          ELSE IF grouped /\ window[s].known
            THEN [window[s] EXCEPT !.started = w.started, !.reset = w.reset,
                                   !.limit = IF w.limit # NoTime THEN w.limit ELSE @]
          ELSE window[s]]
     /\ fetch' = NoFetch
     /\ UNCHANGED <<clock, mode, grouped, flight, api, sent, reports>>

\* The provider's window ends by itself.
Pass ==
  /\ clock < WinMaxTime /\ clock' = clock + 1
  /\ api' = IF api.reset = clock + 1 THEN [used |-> 0, reset |-> NoTime] ELSE api
  /\ UNCHANGED <<mode, grouped, window, cooldown, flight, fetch, sent, reports>>

WindowsNext ==
  \/ Pass \/ Foreign
  \/ \E m \in WinModels :
       \/ SendRequest(m) \/ \E exhausted \in BOOLEAN : StoreQuota(m, exhausted)
       \/ \E ok, headers \in BOOLEAN : RecordRequest(m, ok, headers)
  \/ \E force \in BOOLEAN : FetchQuota(force)

WindowsSpec == WindowsInit /\ [][WindowsNext]_winVars

-----------------------------------------------------------------------------
(* Properties.                                                              *)

\* Types, and the requests of a window are its successes and its failures, after
\* any mix of records and syncs.
WindowsTypeOK ==
  /\ clock \in 0..WinMaxTime /\ mode \in Modes /\ grouped \in BOOLEAN
  /\ flight \in [WinModels -> 0..MaxInFlight]
  /\ \A s \in Scopes :
       /\ window[s].known => window[s].count = window[s].success + window[s].failure
       /\ {window[s].count, window[s].success, window[s].failure, window[s].max} \subseteq Nat

\* A background fetch never takes away what has been counted, however old its
\* answer is: only another period or a forced refresh lowers a count.
NeverLowered ==
  \A s \in Scopes :
    Live(window[s]) /\ window'[s].count < window[s].count => fetch.force

\* A model is stopped at its own cap: no more requests are counted in its window
\* than the cap and those already sent when it was reached, as long as no answer
\* of the provider has given the window of an earlier period new times.
CapOvershoot ==
  reports = "headers" => \A m \in WinModels : CapOf[m].mode = "absolute" =>
    window[m].count <= Larger(1, CapMax(CapOf[m], NoTime)) - 1 + MaxInFlight

\* The window of a quota scope will end when it is in use: nothing counted by
\* either side blocks the credential for ever, unless the provider alone knows the
\* end.  (The windows of grouped models can lose their times to an unused one.)
UsedWindowsEnd ==
  \A m \in WinModels :
    LET w == window[QuotaScope(m)]
    IN w.count > 0 /\ mode # "api" => w.reset # NoTime \/ w.started # NoTime

\* The end that a window computes is after its start, and at most a period away.
EndsAfterStart ==
  \A s \in Scopes :
    LET w == window[s]
    IN w.started # NoTime /\ mode # "api" =>
         /\ NextReset(w.started) > w.started
         /\ NextReset(w.started) <= w.started +
              (CASE mode = "rolling" -> Duration [] mode = "daily" -> Day
                 [] mode = "weekly" -> Day * WeekDays)

\* All models of a quota group that are in a running period share its times with
\* the group, in whatever order they were first used and the provider asked.
SharedTiming ==
  grouped /\ reports = "answers" =>
    \A m \in WinModels : Live(window[m]) /\ window[m].started # NoTime =>
      /\ window[m].started = window[Group].started
      /\ window[m].reset = window[Group].reset

\* The high-water mark survives every end of a period and every sync.
HighWater == \A s \in Scopes : window'[s].max >= window[s].max

\* What a window counts, when it ends and what the group shares, at any time and
\* from one step to the next.
WindowsSound ==
  /\ [](WindowsTypeOK /\ CapOvershoot /\ UsedWindowsEnd /\ EndsAfterStart /\ SharedTiming)
  /\ [][NeverLowered /\ HighWater]_winVars
=============================================================================
