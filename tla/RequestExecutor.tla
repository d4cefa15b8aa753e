--------------------------- MODULE RequestExecutor ---------------------------
(***************************************************************************)
(* RequestExecutor: the retry and rotation loop of a request, streaming    *)
(* and not, over the pool of one provider (CredentialPool).                *)
(*                                                                         *)
(* A request asks for an untried credential, calls the upstream with it at *)
(* most MaxRetries times, and reacts to each error: retry the same key     *)
(* after a pause, rotate to another key, or give up.  The pauses are taken *)
(* inside the `async with` block, with the credential still held.  An      *)
(* upstream call, a chunk and a pause last as long as they like; time is   *)
(* counted in ticks.  An `except` clause and all it does before its next   *)
(* await are one action.                                                   *)
(***************************************************************************)
EXTENDS CredentialPool

CONSTANTS
  Streaming,      \* Streaming[t]: the request is a stream
  MaxRetries,     \* calls with one credential
  Budget,         \* global_timeout
  Errors,         \* what an upstream call may raise, see ErrorType
  TransientDelay, \* _get_transient_retry_delay
  RetryThreshold, \* SMALL_COOLDOWN_RETRY_THRESHOLD
  MaxPause,       \* the 60 s cap of a pause (requests that do not stream)
  RetryReasoning, \* STREAM_RETRY_ON_REASONING_ONLY
  MaxTime         \* bound on the clock

NoRetryAfter == -1

\* `via` is the except clause of _execute_streaming that catches the error:
\* StreamedAPIError, RateLimitError and HTTPStatusError, APIConnectionError
\* and its likes, Exception.  A stream may raise it before or after output;
\* `marked`: wrap_stream has marked the failure when it wrapped the error.
ErrorType ==
  [via : {"streamed", "rate", "connection", "other"},
   type : {"rate_limit", "quota_exceeded", "forbidden", "authentication",
           "credential_reauth_needed", "server_error", "api_connection",
           "unknown", "invalid_request", "context_window_exceeded",
           "pre_request_callback_error"},
   retry_after : Nat \cup {NoRetryAfter},
   marked : BOOLEAN]

ASSUME ExecutorConstants ==
  /\ IsFiniteSet(Creds)
  /\ None \notin Creds /\ None \notin Errors
  /\ None \notin {"reasoning", "content", "success", "failure", "retry",
                "rotate", "response", "error", "raised", "quota_error",
                "broken", "gone"}
  /\ Streaming \in [Tasks -> BOOLEAN]
  /\ MaxRetries \in Nat \ {0}
  /\ Errors \subseteq ErrorType
  /\ {Budget, TransientDelay, RetryThreshold, MaxPause, MaxTime} \subseteq Nat
  /\ RetryReasoning \in BOOLEAN

VARIABLES
  now,
  run    \* the locals of each request's coroutine

execVars == <<now, run, poolVars>>

Chunks == {"reasoning", "content"}
Run ==
  [pc : {"idle", "loop", "acquire", "granted", "calling", "pausing", "ended"},
   deadline : Nat,
   tried : SUBSET Creds,        \* retry_state.tried_credentials
   attempt : Nat,               \* attempt, from 0
   quota_failures : Nat,        \* retry_state.consecutive_quota_failures
   has_errors : BOOLEAN,        \* error_accumulator.has_errors()
   last : Errors \cup {None},   \* last_exception
   mark : {"success", "failure", None},   \* CredentialContext._result
   last_chunk : Chunks \cup {None},       \* last_streamed_chunk
   wake : Nat,
   after : {"retry", "rotate", None},     \* what follows the pause
   answer : {"response", "error", "raised", "quota_error", "broken", "gone",
             None},
   calls : Nat,                 \* history: upstream calls made
   streak : Nat,                \* history: quota errors since the last error
                                \* of another type that was counted
   seen : Chunks \cup {None},   \* history: last chunk the client received
   policed : BOOLEAN]           \* history: the policy was asked about every error

TypeOK ==
  /\ now \in Nat
  /\ run \in [Tasks -> Run]
  /\ asking \subseteq Tasks
  /\ allowed \in [Tasks -> SUBSET Creds]
  /\ using \in [Tasks -> Creds \cup {None}]

NewRun == [pc |-> "idle", deadline |-> 0, tried |-> {}, attempt |-> 0,
           quota_failures |-> 0, has_errors |-> FALSE, last |-> None,
           mark |-> None, last_chunk |-> None, wake |-> 0, after |-> None,
           answer |-> None, calls |-> 0, streak |-> 0, seen |-> None,
           policed |-> TRUE]

Init ==
  /\ PoolInit
  /\ now = 0
  /\ run = [t \in Tasks |-> NewRun]

Becomes(t, r) == run' = [run EXCEPT ![t] = r] /\ UNCHANGED now

-----------------------------------------------------------------------------
(* Classification: error_handler.py.                                        *)

Rotatable(e) ==
  e.type \notin {"invalid_request", "context_window_exceeded",
                 "pre_request_callback_error"}
Transient(e) == e.type \in {"server_error", "api_connection", "rate_limit"}
SmallCooldown(e) == 0 < e.retry_after /\ e.retry_after < RetryThreshold
RetrySameKey(e) ==
  SmallCooldown(e) \/ e.type \in {"server_error", "api_connection"}

-----------------------------------------------------------------------------
(* The loop around the credentials.                                         *)

Begin(t) ==
  /\ run[t].pc = "idle"
  /\ now + Budget <= MaxTime
  /\ Becomes(t, [NewRun EXCEPT !.pc = "loop", !.deadline = now + Budget])
  /\ UNCHANGED poolVars

\* No usable credential, or validate_request rejects the request.
Reject(t) ==
  /\ run[t].pc = "idle"
  /\ \E how \in {"raised", "error"} :
       /\ how = "error" => Streaming[t]
       /\ Becomes(t, [NewRun EXCEPT !.pc = "ended", !.answer = how])
  /\ UNCHANGED poolVars

\* The error body built from what was recorded; without any record a request
\* that does not stream raises the last exception.
GivesUp(t) ==
  [run[t] EXCEPT !.pc = "ended",
                 !.answer = IF /\ ~Streaming[t] /\ ~run[t].has_errors
                               /\ run[t].last # None
                            THEN "raised" ELSE "error"]

Untried(t) == Creds \ run[t].tried

StopLooping(t) ==
  /\ run[t].pc = "loop"
  /\ now >= run[t].deadline \/ Untried(t) = {}
  /\ Becomes(t, GivesUp(t))
  /\ UNCHANGED poolVars

Acquire(t) ==
  /\ run[t].pc = "loop"
  /\ now < run[t].deadline /\ Untried(t) # {}
  /\ Ask(t, Untried(t))
  /\ Becomes(t, [run[t] EXCEPT !.pc = "acquire"])

Enter(t, c) == [run[t] EXCEPT !.pc = "granted", !.tried = @ \cup {c},
                              !.attempt = 0, !.mark = None,
                              !.last_chunk = None]
Acquired(t) ==
  /\ run[t].pc = "acquire"
  /\ \E c \in Creds : Grant(t, c) /\ Becomes(t, Enter(t, c))

NoKeys(t) ==
  /\ run[t].pc = "acquire"
  /\ Refuse(t)
  /\ Becomes(t, GivesUp(t))

\* The block ends and the request tries the next credential.
LeaveKeepingSlot(t, r) ==
  /\ Becomes(t, [r EXCEPT !.pc = "loop", !.after = None])
  /\ UNCHANGED poolVars
Leave(t, r) ==
  /\ GiveBack(t)
  /\ Becomes(t, [r EXCEPT !.pc = "loop", !.after = None])

\* The block ends and so does the request.
End(t, r, how) ==
  /\ GiveBack(t)
  /\ Becomes(t, [r EXCEPT !.pc = "ended", !.after = None, !.answer = how])

\* A transform of the request raises: swallowed, nothing is marked.
PrepareFails(t) ==
  /\ run[t].pc = "granted"
  /\ \E e \in {x \in Errors : x.type = "unknown"} :
       Leave(t, IF Streaming[t] THEN run[t] ELSE [run[t] EXCEPT !.last = e])

Calls(r) == [r EXCEPT !.pc = "calling", !.calls = @ + 1, !.last_chunk = None]

Call(t) ==
  /\ run[t].pc = "granted"
  /\ Becomes(t, Calls(run[t]))
  /\ UNCHANGED poolVars

-----------------------------------------------------------------------------
(* The upstream call.                                                       *)

Chunk(t) ==
  /\ run[t].pc = "calling" /\ Streaming[t]
  /\ \E k \in Chunks :
       Becomes(t, [run[t] EXCEPT !.last_chunk = k, !.seen = k])
  /\ UNCHANGED poolVars

Succeed(t) ==
  /\ run[t].pc = "calling"
  /\ End(t, [run[t] EXCEPT !.mark = "success"], "response")

\* wrap_stream notices that the client is gone: the stream ends unmarked.
Disconnect(t) ==
  /\ run[t].pc = "calling" /\ Streaming[t]
  /\ End(t, run[t], "gone")

\* The request's task is cancelled at an await: an exception leaves the block,
\* which records a failure unless an outcome was marked.
Cancel(t) ==
  \/ /\ run[t].pc = "acquire"
     /\ Refuse(t)
     /\ Becomes(t, [run[t] EXCEPT !.pc = "ended", !.answer = "gone"])
  \/ /\ run[t].pc \in {"granted", "calling", "pausing"}
     /\ End(t, [run[t] EXCEPT !.mark = IF @ = None THEN "failure" ELSE @], "gone")

-----------------------------------------------------------------------------
(* The except clauses.                                                      *)

Raised(t) ==
  {e \in Errors :
     /\ e.marked => Streaming[t] /\ e.via = "streamed"
     /\ e.type = "pre_request_callback_error" =>
          e.via = "other" /\ run[t].last_chunk = None}

\* Only these clauses count quota errors and reset the count.
CountsQuota(t, e) == ~Streaming[t] \/ e.via \in {"streamed", "rate"}
QuotaFailures(t, e) ==
  IF ~CountsQuota(t, e) THEN run[t].quota_failures
  ELSE IF e.type = "quota_exceeded" THEN run[t].quota_failures + 1 ELSE 0

\* Errors of a stream that stream_retry_policy is asked about.
Policed(e) == e.via = "streamed" /\ Rotatable(e)

Caught(t, e) ==
  [run[t] EXCEPT
     !.last = e,
     !.policed = @ /\ Policed(e),
     !.mark = IF e.marked THEN "failure" ELSE @,
     !.quota_failures = QuotaFailures(t, e),
     !.streak = IF e.type = "quota_exceeded" THEN @ + 1
                ELSE IF CountsQuota(t, e) THEN 0 ELSE @]
Recorded(r) == [r EXCEPT !.has_errors = TRUE]
MarkNothing(r) == Recorded(r)
MarkFailure(r) == [Recorded(r) EXCEPT !.mark = "failure"]

LastAttempt(t) == run[t].attempt >= MaxRetries - 1
IsConnection(t, e) == Streaming[t] /\ e.via = "connection"

QuotaAbort(t, e) ==
  /\ CountsQuota(t, e) /\ e.type = "quota_exceeded"
  /\ QuotaFailures(t, e) >= 3

\* The clause for connection errors rotates whatever the error is.
NotRotated(t, e) == ~Rotatable(e) /\ ~IsConnection(t, e)

\* stream_retry_policy.py; only the StreamedAPIError clause consults it.
CanRetryAlways(t) == TRUE
CanRetryStream(t) ==
  run[t].last_chunk = None \/ (RetryReasoning /\ run[t].last_chunk = "reasoning")
BrokenStream(t, e) ==
  Streaming[t] /\ e.via = "streamed" /\ ~CanRetryStream(t)

Fits(t, d) == d <= 0 \/ now + d <= run[t].deadline

RetryWait(t, e) ==
  LET d == IF e.retry_after = NoRetryAfter THEN TransientDelay ELSE e.retry_after
  IN IF Streaming[t] \/ d <= MaxPause THEN d ELSE MaxPause

RetryAllowed(t, e) ==
  IF ~Streaming[t] THEN RetrySameKey(e)
  ELSE /\ Fits(t, RetryWait(t, e))
       /\ \/ e.via = "connection"
          \/ e.via = "rate" /\ SmallCooldown(e)
          \/ e.via \in {"streamed", "other"} /\ RetrySameKey(e)

RetriesOffByOne(t, e) == run[t].attempt < MaxRetries /\ RetryAllowed(t, e)
Retries(t, e) == ~LastAttempt(t) /\ RetryAllowed(t, e)

\* Whether a retry is recorded by the error accumulator.
RecordedOnRetry(t, e) == Streaming[t] /\ e.via # "connection"

RotateWait(t, e) ==
  IF /\ Transient(e) \/ IsConnection(t, e)
     /\ ~Streaming[t] \/ Fits(t, TransientDelay)
  THEN TransientDelay ELSE 0

\* The third quota error in a row: a stream ends with an error event; the
\* `raise` of a request that does not stream is swallowed by the outer clause.
AbortOnQuota(t) ==
  /\ run[t].pc = "calling"
  /\ \E e \in Raised(t) :
       LET r == MarkFailure(Caught(t, e))
       IN /\ QuotaAbort(t, e)
          /\ IF Streaming[t] THEN End(t, r, "quota_error") ELSE Leave(t, r)

\* An error that must not rotate: re-raised, and swallowed by the outer clause
\* unless the request's own callback raised it.
FailNoRotate(t) ==
  /\ run[t].pc = "calling"
  /\ \E e \in Raised(t) :
       LET r == MarkFailure(Caught(t, e))
       IN /\ ~QuotaAbort(t, e) /\ NotRotated(t, e)
          /\ IF e.type # "pre_request_callback_error" THEN Leave(t, r)
             ELSE End(t, r, IF Streaming[t] THEN "error" ELSE "raised")

\* Output has begun: the stream ends with an error event.
BreakStream(t) ==
  /\ run[t].pc = "calling"
  /\ \E e \in Raised(t) :
       /\ ~QuotaAbort(t, e) /\ ~NotRotated(t, e) /\ BrokenStream(t, e)
       /\ End(t, MarkFailure(Caught(t, e)), "broken")

Pause(t, r, d, then) ==
  /\ Becomes(t, [r EXCEPT !.pc = "pausing", !.wake = now + d, !.after = then])
  /\ UNCHANGED poolVars

Survives(t, e) ==
  ~QuotaAbort(t, e) /\ ~NotRotated(t, e) /\ ~BrokenStream(t, e)

RetryAfterPause(t) ==
  /\ run[t].pc = "calling"
  /\ \E e \in Raised(t) :
       LET r == Caught(t, e)
       IN /\ Survives(t, e) /\ Retries(t, e)
          /\ Pause(t, IF RecordedOnRetry(t, e) THEN Recorded(r) ELSE r,
                   RetryWait(t, e), "retry")

\* A connection error of a stream with no time left to retry: neither recorded
\* nor marked.
DropUnmarked(t) ==
  /\ run[t].pc = "calling"
  /\ \E e \in Raised(t) :
       /\ Survives(t, e) /\ ~Retries(t, e)
       /\ IsConnection(t, e) /\ ~LastAttempt(t)
       /\ Leave(t, Caught(t, e))

Rotate(t) ==
  /\ run[t].pc = "calling"
  /\ \E e \in Raised(t) :
       LET r == MarkFailure(Caught(t, e))
       IN /\ Survives(t, e) /\ ~Retries(t, e)
          /\ ~IsConnection(t, e) \/ LastAttempt(t)
          /\ IF RotateWait(t, e) = 0 THEN Leave(t, r)
             ELSE Pause(t, r, RotateWait(t, e), "rotate")

PauseEndsRetryOnly(t) ==
  /\ run[t].pc = "pausing" /\ now >= run[t].wake /\ run[t].after = "retry"
  /\ Becomes(t, [Calls(run[t]) EXCEPT !.attempt = @ + 1, !.after = None])
  /\ UNCHANGED poolVars
PauseEnds(t) ==
  /\ run[t].pc = "pausing" /\ now >= run[t].wake
  /\ \/ /\ run[t].after = "rotate"
        /\ Leave(t, run[t])
     \/ /\ run[t].after = "retry"
        /\ Becomes(t, [Calls(run[t]) EXCEPT !.attempt = @ + 1, !.after = None])
        /\ UNCHANGED poolVars

CallEnds(t) ==
  \/ Succeed(t) \/ AbortOnQuota(t) \/ FailNoRotate(t) \/ BreakStream(t)
  \/ RetryAfterPause(t) \/ DropUnmarked(t) \/ Rotate(t)

Step(t) ==
  \/ StopLooping(t) \/ Acquire(t) \/ Acquired(t) \/ NoKeys(t)
  \/ PrepareFails(t) \/ Call(t) \/ CallEnds(t) \/ PauseEnds(t)

\* MaxTime bounds the clock, except that a pause always comes to its end.
Tick ==
  /\ now < MaxTime \/ \E t \in Tasks : run[t].pc = "pausing" /\ now < run[t].wake
  /\ now' = now + 1
  /\ UNCHANGED <<run, poolVars>>

Next ==
  \/ \E t \in Tasks : \/ Begin(t) \/ Reject(t) \/ Step(t)
                      \/ Chunk(t) \/ Disconnect(t) \/ Cancel(t)
  \/ Tick

Spec == Init /\ [][Next]_execVars

\* Time passes, a call ends (wrap_stream and the HTTP client have timeouts),
\* the pool answers (UsageManager!Answered), and the event loop runs every
\* ready task.
Fairness == WF_execVars(Tick) /\ \A t \in Tasks : WF_execVars(Step(t))

FairSpec == Spec /\ Fairness

-----------------------------------------------------------------------------
(* Properties.                                                              *)

\* A request has a credential exactly while it is inside the block: no except
\* clause, pause or cancellation leaves the slot taken or gives it back early.
HeldInsideBlock ==
  \A t \in Tasks :
    using[t] # None <=> run[t].pc \in {"granted", "calling", "pausing"}

\* A request costs at most MaxRetries upstream calls per credential: rotation
\* never returns to a credential it has tried and retries are counted.
BoundedCalls ==
  \A t \in Tasks : run[t].calls <= MaxRetries * Cardinality(run[t].tried)

\* DOCUMENTATION.md 2.1: a pause of a stream that would end after the deadline is
\* skipped.
NoPausePastDeadline ==
  \A t \in Tasks : run[t].pc = "pausing" /\ Streaming[t] =>
    run[t].wake <= run[t].deadline \/ run[t].wake <= now

StartsCall(t) == run[t].pc # "calling" /\ run'[t].pc = "calling"

\* A step that calls the upstream again after output, although the policy was asked
\* about every error, and the last chunk was not reasoning or it does not allow it.
Replays ==
  \E t \in Tasks :
    /\ StartsCall(t) /\ run[t].policed /\ run[t].seen # None
    /\ ~(RetryReasoning /\ run[t].seen = "reasoning")

\* DOCUMENTATION.md 2.1 and stream_retry_policy.py: no pause past the deadline and,
\* where the policy is asked, no second call after output, over retries of one
\* credential and rotations.
PolicyFollowed == []NoPausePastDeadline /\ [][~Replays]_execVars

\* RetryState: the quota abort means three quota errors in a row; in a stream a
\* connection error or an unexpected one may come between them, for only the
\* other two clauses reset the count.
AbortMeansStreak ==
  \A t \in Tasks : run[t].answer = "quota_error" => run[t].streak >= 3

\* The bookkeeping of the nested loops: types, calls and quota errors.
LoopSound == TypeOK /\ BoundedCalls /\ AbortMeansStreak

LeavesAfterCall(t) ==
  run[t].pc \in {"calling", "pausing"} /\ run'[t].pc \in {"loop", "ended"}

\* CredentialContext: a call whose client is still there is recorded, as a
\* success or as a failure, so that cooldowns and usage see it; the one case
\* left out is a stream's connection error with no time to retry (DropUnmarked).
OutcomeRecorded ==
  [][\A t \in Tasks : LeavesAfterCall(t) =>
       \/ run'[t].mark # None \/ run'[t].answer = "gone"
       \/ LET e == run'[t].last
          IN /\ IsConnection(t, e) /\ ~LastAttempt(t)
             /\ ~Fits(t, RetryWait(t, e))]_execVars

\* Every request is answered, even when it competes for the credentials.
Ends == \A t \in Tasks : run[t].pc = "loop" ~> run[t].pc = "ended"
=============================================================================
