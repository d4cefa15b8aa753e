------------------------------ MODULE Admission ------------------------------
(***************************************************************************)
(* What a verified request passes before its handler runs: the sliding      *)
(* window rate limit of its client (rate_limit.py), then the fair usage      *)
(* window, which under overload closes for the clients that have used most   *)
(* of their daily limit (usage_window.py, switched on).  A request runs both *)
(* checks without giving up the event loop, so each is one step.             *)
(***************************************************************************)
EXTENDS Integers, Sequences, FiniteSets

CONSTANTS
  Clients, Root,   \* client ids; the root key is not limited
  PerMinute,       \* PROXY_RATE_LIMIT_PER_MINUTE
  Burst,           \* PROXY_RATE_LIMIT_BURST
  Minute, Second,  \* the two spans of the limiter
  ActiveSpan,      \* USAGE_WINDOW_ACTIVE_SECONDS
  MaxActive,       \* USAGE_WINDOW_MAX_CLIENTS
  Pause,           \* USAGE_WINDOW_PAUSE_MINUTES
  MaxTime          \* bound of the model

ASSUME AdmissionConstants ==
  /\ {PerMinute, Burst, Minute, Pause} \subseteq Nat \ {0}
  /\ {Second, ActiveSpan, MaxActive, MaxTime} \subseteq Nat
  /\ Second <= Minute

VARIABLES
  now,
  stamps,   \* _window: the stamps the limiter still has of a client
  granted,  \* every stamp it ever took, in order
  seen,     \* _active: when a client was last seen, -1 if it was trimmed
  paused,   \* _paused_until, 0 if the client is not paused
  heavy,    \* the clients that have used the heavy share of their daily limit
  heavyAt   \* when a client last made a request as one of them, -1 if never

admission == <<now, stamps, granted, seen, paused, heavy, heavyAt>>

AdmissionInit ==
  /\ now = 0 /\ heavy = {}
  /\ stamps = [c \in Clients |-> <<>>] /\ granted = [c \in Clients |-> <<>>]
  /\ seen = [c \in Clients |-> -1] /\ paused = [c \in Clients |-> 0]
  /\ heavyAt = [c \in Clients |-> -1]

-----------------------------------------------------------------------------
(* The rate limiter.                                                        *)

\* Mutant: a stamp is dropped when it is as old as the window.
ExpiredEarly(s) ==
  {k \in 0..Len(s) : /\ \A i \in 1..k : s[i] <= now - Minute
                     /\ k < Len(s) => s[k + 1] > now - Minute}

\* How many stamps are dropped from the left: all up to the first recent one.
Expired(s) ==
  {k \in 0..Len(s) : /\ \A i \in 1..k : s[i] < now - Minute
                     /\ k < Len(s) => s[k + 1] >= now - Minute}

Recent(s) == {i \in DOMAIN s : s[i] >= now - Second}

\* The stamps that are left and the answer of _RateLimiter.check.
Limited(s) ==
  IF Len(s) >= PerMinute THEN "rate"
  ELSE IF Cardinality(Recent(s)) >= Burst THEN "burst"
  ELSE "granted"

\* A request of c is stamped, or refused, after the old stamps are dropped.
RateCheck(c, answer) ==
  IF c = Root THEN answer = "granted" /\ UNCHANGED <<stamps, granted>>
  ELSE \E k \in Expired(stamps[c]) :
         LET left == SubSeq(stamps[c], k + 1, Len(stamps[c]))
         IN /\ answer = Limited(left)
            /\ stamps' = [stamps EXCEPT ![c] =
                            IF answer = "granted" THEN Append(left, now) ELSE left]
            /\ granted' = [granted EXCEPT ![c] =
                             IF answer = "granted" THEN Append(@, now) ELSE @]

-----------------------------------------------------------------------------
(* The usage window.                                                        *)

\* The clients that are active when c is, with the stale ones trimmed.
SeenWith(c) ==
  [d \in Clients |-> IF d = c THEN now
                     ELSE IF now - seen[d] > ActiveSpan THEN -1 ELSE seen[d]]

Active(f) == {d \in Clients : f[d] # -1}

\* An open pause stays as it is, one that has passed is removed.
StillPaused(c) == IF now < paused[c] THEN paused[c] ELSE 0

\* _UsageWindow.check.  The active clients are only trimmed for a client that is
\* not paused.
WindowCheck(c, answer) ==
  IF now < paused[c]
    THEN /\ answer = "window"
         /\ paused' = [paused EXCEPT ![c] = StillPaused(c)]
         /\ seen' = [seen EXCEPT ![c] = now]
    ELSE /\ seen' = SeenWith(c)
         /\ IF Cardinality(Active(SeenWith(c))) > MaxActive /\ c \in heavy
              THEN answer = "window" /\ paused' = [paused EXCEPT ![c] = now + Pause]
              ELSE answer = "granted" /\ paused' = [paused EXCEPT ![c] = StillPaused(c)]

\* verify_api_key.  The window is passed over when the share of the limit cannot
\* be read (failing).
Check(c, answer, failing) ==
  /\ \E rate \in {"granted", "rate", "burst"} :
       /\ RateCheck(c, rate)
       /\ IF rate # "granted" \/ failing
            THEN answer = rate /\ UNCHANGED <<seen, paused>>
            ELSE WindowCheck(c, answer)
  /\ heavyAt' = [d \in Clients |-> IF d = c /\ c \in heavy THEN now ELSE heavyAt[d]]
  /\ UNCHANGED <<now, heavy>>

\* The requests a client has made come to the heavy share of its limit (again, as
\* a bound of the model, only if it has made none as a heavy one).
Uses(c) ==
  /\ c # Root /\ c \notin heavy /\ heavyAt[c] = -1 /\ heavy' = heavy \cup {c}
  /\ UNCHANGED <<now, stamps, granted, seen, paused, heavyAt>>

\* A new day, or a larger limit, makes it a small share again.
Renewed(c) ==
  /\ c \in heavy /\ heavy' = heavy \ {c}
  /\ UNCHANGED <<now, stamps, granted, seen, paused, heavyAt>>

Tick ==
  /\ now < MaxTime /\ now' = now + 1
  /\ UNCHANGED <<stamps, granted, seen, paused, heavy, heavyAt>>

-----------------------------------------------------------------------------
(* Properties.                                                              *)

Stamps == Seq(0..MaxTime)

\* Types, and the limiter never holds more stamps of a client than its limit.
AdmissionTypeOK ==
  /\ now \in 0..MaxTime /\ heavy \subseteq Clients
  /\ stamps \in [Clients -> Stamps] /\ granted \in [Clients -> Stamps]
  /\ seen \in [Clients -> -1..MaxTime] /\ heavyAt \in [Clients -> -1..MaxTime]
  /\ paused \in [Clients -> 0..MaxTime + Pause]
  /\ \A c \in Clients : Len(stamps[c]) <= PerMinute

\* More than PerMinute grants always span more than a minute, whichever minute
\* is looked at: the trimmed window of the limiter loses no grant that counts.
RateBound ==
  \A c \in Clients : \A i \in DOMAIN granted[c] :
    i > PerMinute => granted[c][i] - granted[c][i - PerMinute] > Minute

\* More than Burst grants always span more than the slice of the burst limit.
BurstBound ==
  \A c \in Clients : \A i \in DOMAIN granted[c] :
    i > Burst => granted[c][i] - granted[c][i - Burst] > Second

\* A window closes for a pause after a request its client made as a heavy one,
\* and no longer: neither its retries nor what the others do put the end off.
FairPause ==
  \A c \in Clients : paused[c] # 0 => paused[c] <= heavyAt[c] + Pause /\ heavyAt[c] # -1

\* Nobody is admitted too often, and nobody is kept out too long.
AdmissionSound == AdmissionTypeOK /\ RateBound /\ BurstBound /\ FairPause
=============================================================================
