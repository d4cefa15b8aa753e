------------------------ MODULE RequestExecutorProofs ------------------------
(***************************************************************************)
(* Proofs about the retry and rotation loop, for any number of requests    *)
(* and credentials, any errors and any limits: a request has a credential  *)
(* exactly while it is inside its block, its upstream calls are bounded,   *)
(* the quota abort is due, and every call is recorded.                     *)
(***************************************************************************)
EXTENDS RequestExecutor, FiniteSetTheorems, TLAPS

InBlock(r) == r.pc \in {"granted", "calling", "pausing"}

\* What the pool knows of a request agrees with where its coroutine is, and a
\* credential it has tried is not asked for again.
InPool(t) ==
  /\ t \in asking <=> run[t].pc = "acquire"
  /\ using[t] # None <=> InBlock(run[t])
  /\ run[t].pc = "acquire" => allowed[t] \cap run[t].tried = {}

Budgeted(r) == MaxRetries * Cardinality(r.tried)

\* Every credential left behind has cost at most MaxRetries calls, the one in
\* use one call for each attempt begun.
CallsOK(r) ==
  /\ ~InBlock(r) => r.calls <= Budgeted(r)
  /\ InBlock(r) => /\ r.attempt < MaxRetries
                   /\ r.calls + MaxRetries <= Budgeted(r) + r.attempt + 1
  /\ r.pc = "granted" => r.calls + MaxRetries <= Budgeted(r) + r.attempt
  /\ r.pc = "pausing" /\ r.after = "retry" => r.attempt + 1 < MaxRetries

\* The counter that aborts a request never runs ahead of its quota errors.
QuotaOK(r) ==
  /\ r.quota_failures <= r.streak
  /\ r.answer = "quota_error" => r.pc = "ended" /\ r.streak >= 3

\* A call is marked before the pause that leads away from its credential.
MarkOK(r) == r.pc = "pausing" /\ r.after = "rotate" => r.mark # None

LocalOK(r) == CallsOK(r) /\ QuotaOK(r) /\ MarkOK(r)

\* The inductive invariant of the loop.
ExecInv == TypeOK /\ \A t \in Tasks : InPool(t) /\ LocalOK(run[t])

LEMMA BudgetType ==
  ASSUME NEW r \in Run
  PROVE  Cardinality(r.tried) \in Nat /\ Budgeted(r) \in Nat
<1>1. r.tried \subseteq Creds
  BY DEF Run
<1>2. Cardinality(r.tried) \in Nat
  BY <1>1, ExecutorConstants, FS_Subset, FS_CardinalityType
<1> QED
  BY <1>2, ExecutorConstants DEF Budgeted

\* An untried credential adds MaxRetries calls to the budget of a request.
LEMMA BudgetGrows ==
  ASSUME NEW r \in Run, NEW c \in Creds \ r.tried
  PROVE  MaxRetries * Cardinality(r.tried \cup {c}) = Budgeted(r) + MaxRetries
<1>1. IsFiniteSet(r.tried)
  BY ExecutorConstants, FS_Subset DEF Run
<1>2. Cardinality(r.tried \cup {c}) = Cardinality(r.tried) + 1
  BY <1>1, FS_AddElement
<1>3. \A n, k \in Nat : n * (k + 1) = n * k + n
  OBVIOUS
<1> QED
  BY <1>2, <1>3, BudgetType, ExecutorConstants DEF Budgeted

-----------------------------------------------------------------------------
(* How the kinds of steps keep the invariant.                               *)

\* A step of one request that leaves the pool alone.
LEMMA QuietKeeps ==
  ASSUME ExecInv, NEW t \in Tasks, NEW r \in Run, Becomes(t, r), LocalOK(r),
         UNCHANGED poolVars,
         InBlock(r) <=> InBlock(run[t]),
         run[t].pc # "acquire", r.pc # "acquire"
  PROVE  ExecInv'
<1>1. TypeOK'
  BY DEF ExecInv, TypeOK, Becomes, poolVars
<1>2. ASSUME NEW u \in Tasks PROVE InPool(u)' /\ LocalOK(run[u])'
  <2>1. run'[u] = IF u = t THEN r ELSE run[u]
    BY DEF Becomes, ExecInv, TypeOK
  <2>2. InPool(u) /\ LocalOK(run[u])
    BY DEF ExecInv
  <2>3. LocalOK(run'[u])
    BY <2>1, <2>2
  <2>4. InPool(u)'
    BY <2>1, <2>2 DEF InPool, InBlock, poolVars
  <2> QED
    BY <2>3, <2>4 DEF LocalOK, MarkOK, CallsOK, QuotaOK, Budgeted, InBlock
<1> QED
  BY <1>1, <1>2 DEF ExecInv

\* A step of one request together with a step of the pool for that request.
LEMMA PoolStepKeeps ==
  ASSUME ExecInv, NEW t \in Tasks, NEW r \in Run, Becomes(t, r), LocalOK(r),
         asking' \subseteq Tasks, allowed' \in [Tasks -> SUBSET Creds],
         using' \in [Tasks -> Creds \cup {None}],
         \A u \in Tasks \ {t} : /\ u \in asking' <=> u \in asking
                                /\ allowed'[u] = allowed[u]
                                /\ using'[u] = using[u],
         t \in asking' <=> r.pc = "acquire",
         using'[t] # None <=> InBlock(r),
         r.pc = "acquire" => allowed'[t] \cap r.tried = {}
  PROVE  ExecInv'
<1>1. TypeOK'
  BY DEF ExecInv, TypeOK, Becomes
<1>2. ASSUME NEW u \in Tasks PROVE InPool(u)' /\ LocalOK(run[u])'
  <2>1. run'[u] = IF u = t THEN r ELSE run[u]
    BY DEF Becomes, ExecInv, TypeOK
  <2>2. InPool(u) /\ LocalOK(run[u])
    BY DEF ExecInv
  <2>3. LocalOK(run'[u])
    BY <2>1, <2>2
  <2>4. InPool(u)'
    BY <2>1, <2>2 DEF InPool, InBlock
  <2> QED
    BY <2>3, <2>4 DEF LocalOK, MarkOK, CallsOK, QuotaOK, Budgeted, InBlock
<1> QED
  BY <1>1, <1>2 DEF ExecInv

\* What a record needs for its request to leave the block with it.
MayLeave(r) ==
  r \in Run /\ r.pc # "ended" /\ r.calls <= Budgeted(r) /\ QuotaOK(r)

LEMMA LeavingKeeps ==
  ASSUME ExecInv, NEW t \in Tasks, NEW r, MayLeave(r),
         NEW how \in {"response", "error", "raised", "quota_error", "broken",
                      "gone"},
         how = "quota_error" => r.streak >= 3,
         Leave(t, r) \/ End(t, r, how)
  PROVE  ExecInv'
<1>1. PICK q \in {[r EXCEPT !.pc = "loop", !.after = None],
                  [r EXCEPT !.pc = "ended", !.after = None, !.answer = how]} :
        GiveBack(t) /\ Becomes(t, q)
  BY DEF Leave, End
<1>2. q \in Run /\ LocalOK(q) /\ q.pc \in {"loop", "ended"}
  <2>1. /\ q \in Run /\ q.pc \in {"loop", "ended"} /\ q.calls = r.calls
        /\ q.tried = r.tried /\ q.streak = r.streak
        /\ q.quota_failures = r.quota_failures
        /\ q.answer = r.answer \/ (q.pc = "ended" /\ q.answer = how)
    BY DEF MayLeave, Run
  <2>2. r.answer # "quota_error"
    BY DEF MayLeave, QuotaOK
  <2> QED
    BY <2>1, <2>2 DEF MayLeave, LocalOK, MarkOK, CallsOK, QuotaOK, InBlock, Budgeted
<1>3. run[t].pc # "acquire" /\ t \notin asking
  BY <1>1 DEF ExecInv, InPool, InBlock, GiveBack
<1> QED
  BY <1>1, <1>2, <1>3, PoolStepKeeps
     DEF GiveBack, ExecInv, TypeOK, InBlock

\* Inside the block a request has not used up the calls of its credentials.
LEMMA BlockBudget ==
  ASSUME NEW r \in Run, InBlock(r), CallsOK(r)
  PROVE  r.calls <= Budgeted(r)
<1>1. r.calls \in Nat /\ r.attempt \in Nat /\ Budgeted(r) \in Nat
  BY BudgetType DEF Run
<1> QED
  BY <1>1, ExecutorConstants DEF CallsOK

\* What an except clause does to the locals of its request.
LEMMA CaughtFacts ==
  ASSUME ExecInv, NEW t \in Tasks, run[t].pc = "calling", NEW e \in Raised(t)
  PROVE  /\ Caught(t, e) \in Run
         /\ MarkFailure(Caught(t, e)) \in Run
         /\ Recorded(Caught(t, e)) \in Run
         /\ \A r \in {Caught(t, e), MarkFailure(Caught(t, e)),
                      Recorded(Caught(t, e))} :
              /\ r.pc = "calling" /\ LocalOK(r) /\ MayLeave(r)
              /\ r.attempt = run[t].attempt
              /\ r.last = e /\ r.answer = run[t].answer
              /\ r.quota_failures = QuotaFailures(t, e)
         /\ MarkFailure(Caught(t, e)).mark = "failure"
<1>1. run[t] \in Run /\ LocalOK(run[t]) /\ e \in Errors
  BY DEF ExecInv, TypeOK, Raised
<1>2. run[t].quota_failures \in Nat /\ run[t].streak \in Nat
      /\ run[t].calls \in Nat /\ run[t].attempt \in Nat
  BY <1>1 DEF Run
<1>3. QuotaFailures(t, e) \in Nat
  BY <1>2 DEF QuotaFailures
<1> DEFINE streak == IF e.type = "quota_exceeded" THEN run[t].streak + 1
                     ELSE IF CountsQuota(t, e) THEN 0 ELSE run[t].streak
           caught == Caught(t, e)
<1>4. streak \in Nat /\ QuotaFailures(t, e) <= streak
  BY <1>1, <1>2, <1>3 DEF QuotaFailures, LocalOK, MarkOK, QuotaOK
<1> DEFINE policed == run[t].policed /\ Policed(e)
           mark == IF e.marked THEN "failure" ELSE run[t].mark
<1>a. policed \in BOOLEAN /\ mark \in {"success", "failure", None}
  BY <1>1 DEF Policed, Rotatable, Run
<1>b. caught = [run[t] EXCEPT !.last = e, !.policed = policed, !.mark = mark,
                              !.quota_failures = QuotaFailures(t, e),
                              !.streak = streak]
  BY DEF Caught
<1>5. /\ caught \in Run /\ caught.pc = "calling"
      /\ caught.attempt = run[t].attempt /\ caught.calls = run[t].calls
      /\ caught.tried = run[t].tried /\ caught.last = e
      /\ caught.answer = run[t].answer
      /\ caught.streak = streak /\ caught.quota_failures = QuotaFailures(t, e)
  <2> HIDE DEF policed, mark, streak, caught
  <2> QED BY <1>1, <1>3, <1>4, <1>a, <1>b DEF Run
<1>6. run[t].answer # "quota_error"
  BY <1>1 DEF LocalOK, MarkOK, QuotaOK
<1>7. \A r \in {caught, MarkFailure(caught), Recorded(caught)} :
        /\ r \in Run /\ r.pc = "calling"
        /\ r.attempt = run[t].attempt /\ r.calls = run[t].calls
        /\ r.tried = run[t].tried /\ r.last = e /\ r.answer = run[t].answer
        /\ r.streak = streak /\ r.quota_failures = QuotaFailures(t, e)
  <2> HIDE DEF caught, streak
  <2> QED BY <1>5 DEF MarkFailure, Recorded, Run
<1>8. MarkFailure(caught).mark = "failure"
  <2> HIDE DEF caught
  <2> QED BY <1>5 DEF MarkFailure, Recorded, Run
<1>9. ASSUME NEW r \in {caught, MarkFailure(caught), Recorded(caught)}
      PROVE  LocalOK(r) /\ MayLeave(r)
  <2> HIDE DEF caught, streak
  <2>1. QuotaOK(r) /\ MarkOK(r)
    BY <1>4, <1>6, <1>7 DEF QuotaOK, MarkOK
  <2>2. CallsOK(r)
    BY <1>1, <1>7 DEF LocalOK, MarkOK, CallsOK, InBlock, Budgeted
  <2>3. r.calls <= Budgeted(r)
    BY <1>7, <2>2, BlockBudget DEF InBlock
  <2> QED
    BY <1>7, <2>1, <2>2, <2>3 DEF LocalOK, MayLeave
<1> QED
  <2> HIDE DEF caught, streak
  <2>1. caught = Caught(t, e)
    BY DEF caught
  <2> QED
    BY <1>7, <1>8, <1>9, <2>1

-----------------------------------------------------------------------------
(* The steps.                                                               *)

\* A request that has not begun its loop, or has just begun it, owes nothing.
LEMMA NewRunOK ==
  /\ NewRun \in Run /\ LocalOK(NewRun)
  /\ \A r \in Run : /\ r.calls = 0 /\ r.streak = 0 /\ r.quota_failures = 0
                    /\ r.answer # "quota_error" /\ ~InBlock(r)
                    => LocalOK(r)
<1>1. NewRun \in Run
  BY DEF NewRun, Run
<1>2. ASSUME NEW r \in Run, r.calls = 0, r.streak = 0, r.quota_failures = 0,
             r.answer # "quota_error", ~InBlock(r)
      PROVE  LocalOK(r)
  BY <1>2, BudgetType DEF LocalOK, MarkOK, CallsOK, QuotaOK, InBlock
<1>3. /\ NewRun.calls = 0 /\ NewRun.streak = 0 /\ NewRun.quota_failures = 0
      /\ NewRun.answer = None /\ NewRun.pc = "idle"
  BY DEF NewRun
<1>4. None # "quota_error"
  BY ExecutorConstants
<1> QED
  BY <1>1, <1>2, <1>3, <1>4 DEF InBlock

LEMMA InitInv == Init => ExecInv
<1> SUFFICES ASSUME Init PROVE ExecInv
  OBVIOUS
<1>2. TypeOK
  BY NewRunOK DEF Init, PoolInit, TypeOK
<1> QED
  BY <1>2, NewRunOK DEF ExecInv, Init, PoolInit, InPool, InBlock, NewRun

LEMMA OutsideKeeps ==
  ASSUME ExecInv, NEW t \in Tasks, Begin(t) \/ Reject(t) \/ StopLooping(t)
  PROVE  ExecInv'
<1>0. run[t] \in Run /\ LocalOK(run[t]) /\ now \in Nat
  BY DEF ExecInv, TypeOK
<1>1. CASE Begin(t)
  <2> DEFINE r == [NewRun EXCEPT !.pc = "loop", !.deadline = now + Budget]
  <2>1. now + Budget \in Nat
    BY <1>0, ExecutorConstants
  <2>2. /\ r \in Run /\ r.pc = "loop" /\ r.answer = None
        /\ r.calls = 0 /\ r.streak = 0 /\ r.quota_failures = 0
    BY <2>1, NewRunOK DEF NewRun, Run
  <2>3. LocalOK(r)
    <3> HIDE DEF r
    <3> QED BY <2>2, NewRunOK, ExecutorConstants DEF InBlock
  <2> QED
    BY <1>1, <2>2, <2>3, QuietKeeps DEF Begin, InBlock
<1>2. CASE Reject(t)
  <2>1. PICK how \in {"raised", "error"} :
          Becomes(t, [NewRun EXCEPT !.pc = "ended", !.answer = how])
    BY <1>2 DEF Reject
  <2> DEFINE r == [NewRun EXCEPT !.pc = "ended", !.answer = how]
  <2>2. r \in Run /\ LocalOK(r) /\ r.pc = "ended"
    BY NewRunOK DEF NewRun, Run, InBlock
  <2> QED
    BY <1>2, <2>1, <2>2, QuietKeeps DEF Reject, InBlock
<1>3. CASE StopLooping(t)
  <2>1. /\ run[t].pc = "loop" /\ Becomes(t, GivesUp(t)) /\ UNCHANGED poolVars
    BY <1>3 DEF StopLooping
  <2>2. GivesUp(t) \in Run /\ GivesUp(t).pc = "ended"
    BY <1>0 DEF GivesUp, Run
  <2>3. LocalOK(GivesUp(t))
    BY <1>0, <2>1 DEF GivesUp, LocalOK, MarkOK, CallsOK, QuotaOK, InBlock, Budgeted, Run
  <2> QED
    BY <2>1, <2>2, <2>3, QuietKeeps DEF InBlock
<1> QED
  BY <1>1, <1>2, <1>3

\* The steps that ask the pool, and its answers.
LEMMA AskingKeeps ==
  ASSUME ExecInv, NEW t \in Tasks,
         \/ Acquire(t) \/ Acquired(t) \/ NoKeys(t)
         \/ run[t].pc = "acquire" /\ Cancel(t)
  PROVE  ExecInv'
<1>0. run[t] \in Run /\ LocalOK(run[t]) /\ InPool(t) /\ TypeOK
  BY DEF ExecInv, TypeOK
<1>1. CASE Acquire(t)
  <2> DEFINE r == [run[t] EXCEPT !.pc = "acquire"]
  <2>1. r \in Run /\ LocalOK(r)
    BY <1>0, <1>1 DEF Acquire, Run, LocalOK, MarkOK, CallsOK, QuotaOK, InBlock, Budgeted
  <2>2. Ask(t, Untried(t)) /\ Becomes(t, r)
    BY <1>1 DEF Acquire
  <2>3. allowed'[t] \cap r.tried = {}
    BY <1>0, <2>2 DEF Ask, Untried, TypeOK, Run
  <2> QED
    <3> HIDE DEF r
    <3>1. r.pc = "acquire"
      BY <1>0 DEF r, Run
    <3> QED
      BY <1>0, <2>1, <2>2, <2>3, <3>1, PoolStepKeeps DEF Ask, TypeOK, InBlock
<1>2. CASE Acquired(t)
  <2>1. PICK c \in Creds : Grant(t, c) /\ Becomes(t, Enter(t, c))
    BY <1>2 DEF Acquired
  <2>2. run[t].pc = "acquire" /\ c \notin run[t].tried
    BY <1>0, <1>2, <2>1 DEF Acquired, Grant, InPool
  <2>3. Enter(t, c) \in Run /\ Enter(t, c).pc = "granted"
        /\ Enter(t, c).tried = run[t].tried \cup {c}
        /\ Enter(t, c).calls = run[t].calls /\ Enter(t, c).attempt = 0
        /\ Enter(t, c).quota_failures = run[t].quota_failures
        /\ Enter(t, c).streak = run[t].streak
        /\ Enter(t, c).answer = run[t].answer
    BY <1>0 DEF Enter, Run
  <2>4. Budgeted(Enter(t, c)) = Budgeted(run[t]) + MaxRetries
    BY <1>0, <2>2, <2>3, BudgetGrows DEF Budgeted
  <2>5. run[t].calls \in Nat /\ Budgeted(run[t]) \in Nat
    BY <1>0, BudgetType DEF Run
  <2>6. CallsOK(Enter(t, c))
    BY <1>0, <2>2, <2>3, <2>4, <2>5, ExecutorConstants
       DEF LocalOK, MarkOK, CallsOK, InBlock
  <2>7. QuotaOK(Enter(t, c)) /\ MarkOK(Enter(t, c))
    BY <1>0, <2>2, <2>3 DEF LocalOK, MarkOK, QuotaOK
  <2>8. using'[t] # None
    BY <1>0, <2>1, ExecutorConstants DEF Grant, TypeOK
  <2> QED
    BY <1>0, <2>1, <2>3, <2>6, <2>7, <2>8, PoolStepKeeps
       DEF Grant, Answer, TypeOK, InBlock, LocalOK
<1>3. CASE NoKeys(t) \/ (run[t].pc = "acquire" /\ Cancel(t))
  <2>1. /\ run[t].pc = "acquire" /\ Refuse(t)
        /\ \/ Becomes(t, GivesUp(t))
           \/ Becomes(t, [run[t] EXCEPT !.pc = "ended", !.answer = "gone"])
    BY <1>3 DEF NoKeys, Cancel
  <2>2. \A r \in {GivesUp(t), [run[t] EXCEPT !.pc = "ended", !.answer = "gone"]} :
          r \in Run /\ r.pc = "ended" /\ LocalOK(r)
    <3> TAKE r \in {GivesUp(t), [run[t] EXCEPT !.pc = "ended", !.answer = "gone"]}
    <3>1. /\ r \in Run /\ r.pc = "ended" /\ r.answer # "quota_error"
          /\ r.calls = run[t].calls /\ r.tried = run[t].tried
          /\ r.streak = run[t].streak /\ r.quota_failures = run[t].quota_failures
      BY <1>0 DEF GivesUp, Run
    <3> QED
      BY <1>0, <2>1, <3>1 DEF LocalOK, MarkOK, CallsOK, QuotaOK, InBlock, Budgeted
  <2>3. PICK r \in Run : Becomes(t, r) /\ r.pc = "ended" /\ LocalOK(r)
    BY <2>1, <2>2
  <2>4. using[t] = None
    BY <1>0, <2>1 DEF InPool, InBlock
  <2> QED
    BY <1>0, <2>1, <2>3, <2>4, PoolStepKeeps
       DEF Refuse, Answer, TypeOK, InBlock
<1> QED
  BY <1>1, <1>2, <1>3

\* The steps inside the block that no error causes.
LEMMA CallingKeeps ==
  ASSUME ExecInv, NEW t \in Tasks,
         \/ PrepareFails(t) \/ Call(t) \/ Chunk(t) \/ Succeed(t) \/ Disconnect(t)
         \/ run[t].pc # "acquire" /\ Cancel(t)
         \/ PauseEnds(t)
  PROVE  ExecInv'
<1>0. run[t] \in Run /\ LocalOK(run[t]) /\ run[t].calls \in Nat
      /\ run[t].attempt \in Nat /\ Budgeted(run[t]) \in Nat
  BY BudgetType DEF ExecInv, TypeOK, Run
<1>1. ASSUME InBlock(run[t]), NEW r \in Run, r.pc = run[t].pc,
             r.calls = run[t].calls, r.tried = run[t].tried,
             r.streak = run[t].streak, r.answer = run[t].answer,
             r.quota_failures = run[t].quota_failures
      PROVE  MayLeave(r)
  <2>1. run[t].calls <= Budgeted(run[t])
    BY <1>0, <1>1, BlockBudget DEF LocalOK
  <2> QED
    BY <1>0, <1>1, <2>1 DEF MayLeave, LocalOK, MarkOK, QuotaOK, Budgeted, InBlock
<1>2. ASSUME InBlock(run[t])
      PROVE  /\ MayLeave(run[t])
             /\ \A e \in Errors : MayLeave([run[t] EXCEPT !.last = e])
             /\ \A m \in {"success", "failure", None} :
                  MayLeave([run[t] EXCEPT !.mark = m])
  <2>1. MayLeave(run[t])
    BY <1>0, <1>1, <1>2
  <2>2. ASSUME NEW e \in Errors PROVE MayLeave([run[t] EXCEPT !.last = e])
    <3> DEFINE r == [run[t] EXCEPT !.last = e]
    <3>1. /\ r \in Run /\ r.pc = run[t].pc
          /\ r.calls = run[t].calls /\ r.tried = run[t].tried
          /\ r.streak = run[t].streak /\ r.answer = run[t].answer
          /\ r.quota_failures = run[t].quota_failures
      BY <1>0 DEF Run
    <3> HIDE DEF r
    <3>2. MayLeave(r)
      BY <1>1, <1>2, <3>1
    <3> QED
      BY <3>2 DEF r
  <2>3. ASSUME NEW m \in {"success", "failure", None}
        PROVE  MayLeave([run[t] EXCEPT !.mark = m])
    <3> DEFINE r == [run[t] EXCEPT !.mark = m]
    <3>1. /\ r \in Run /\ r.pc = run[t].pc
          /\ r.calls = run[t].calls /\ r.tried = run[t].tried
          /\ r.streak = run[t].streak /\ r.answer = run[t].answer
          /\ r.quota_failures = run[t].quota_failures
      BY <1>0 DEF Run
    <3> HIDE DEF r
    <3>2. MayLeave(r)
      BY <1>1, <1>2, <3>1
    <3> QED
      BY <3>2 DEF r
  <2> QED
    BY <2>1, <2>2, <2>3
<1>3. CASE PrepareFails(t)
  BY <1>2, <1>3, LeavingKeeps DEF PrepareFails, InBlock
<1>4. CASE Call(t)
  <2>1. Calls(run[t]) \in Run /\ LocalOK(Calls(run[t])) /\ Calls(run[t]).pc = "calling"
    <3> DEFINE r == Calls(run[t])
    <3>1. run[t].calls + 1 \in Nat
      BY <1>0
    <3>2. /\ r \in Run /\ r.pc = "calling" /\ r.calls = run[t].calls + 1
          /\ r.tried = run[t].tried /\ r.attempt = run[t].attempt
          /\ r.streak = run[t].streak /\ r.quota_failures = run[t].quota_failures
          /\ r.answer = run[t].answer
      BY <1>0, <3>1 DEF Calls, Run
    <3> HIDE DEF r
    <3>3. LocalOK(r)
      BY <1>0, <1>4, <3>2, ExecutorConstants
         DEF Call, LocalOK, MarkOK, CallsOK, QuotaOK, InBlock, Budgeted
    <3> QED
      BY <3>2, <3>3 DEF r
  <2> QED
    BY <1>4, <2>1, QuietKeeps DEF Call, InBlock
<1>5. CASE Chunk(t)
  <2>1. PICK k \in Chunks :
          Becomes(t, [run[t] EXCEPT !.last_chunk = k, !.seen = k])
    BY <1>5 DEF Chunk
  <2> DEFINE r == [run[t] EXCEPT !.last_chunk = k, !.seen = k]
  <2>2. r \in Run /\ LocalOK(r) /\ r.pc = run[t].pc
    BY <1>0 DEF Run, LocalOK, MarkOK, CallsOK, QuotaOK, InBlock, Budgeted
  <2> QED
    BY <1>5, <2>1, <2>2, QuietKeeps DEF Chunk, InBlock
<1>6. CASE Succeed(t)
  BY <1>2, <1>6, LeavingKeeps DEF Succeed, InBlock
<1>7. CASE Disconnect(t)
  BY <1>2, <1>7, LeavingKeeps DEF Disconnect, InBlock
<1>8. CASE run[t].pc # "acquire" /\ Cancel(t)
  <2> DEFINE m == IF run[t].mark = None THEN "failure" ELSE run[t].mark
  <2>1. m \in {"success", "failure", None} /\ InBlock(run[t])
        /\ End(t, [run[t] EXCEPT !.mark = m], "gone")
    BY <1>0, <1>8 DEF Cancel, InBlock, Run
  <2> QED
    <3> HIDE DEF m
    <3> QED BY <1>2, <2>1, LeavingKeeps
<1>9. CASE PauseEnds(t)
  <2>1. CASE Leave(t, run[t])
    BY <1>2, <1>9, <2>1, LeavingKeeps DEF PauseEnds, InBlock
  <2>2. CASE /\ run[t].after = "retry"
             /\ Becomes(t, [Calls(run[t]) EXCEPT !.attempt = @ + 1, !.after = None])
             /\ UNCHANGED poolVars
    <3> DEFINE r == [Calls(run[t]) EXCEPT !.attempt = @ + 1, !.after = None]
    <3>0. run[t].calls + 1 \in Nat /\ run[t].attempt + 1 \in Nat
      BY <1>0
    <3>1. /\ r \in Run /\ r.pc = "calling" /\ r.calls = run[t].calls + 1
          /\ r.tried = run[t].tried /\ r.attempt = run[t].attempt + 1
          /\ r.streak = run[t].streak /\ r.quota_failures = run[t].quota_failures
          /\ r.answer = run[t].answer
      BY <1>0, <3>0 DEF Calls, Run
    <3>2. LocalOK(r)
      <4> HIDE DEF r
      <4> QED BY <1>0, <1>9, <2>2, <3>1, ExecutorConstants
              DEF PauseEnds, LocalOK, MarkOK, CallsOK, QuotaOK, InBlock, Budgeted
    <3> QED
      <4> HIDE DEF r
      <4>1. Becomes(t, r)
        BY <2>2 DEF r
      <4> QED BY <1>9, <2>2, <3>1, <3>2, <4>1, QuietKeeps DEF PauseEnds, InBlock
  <2> QED
    BY <1>9, <2>1, <2>2 DEF PauseEnds
<1> QED
  BY <1>3, <1>4, <1>5, <1>6, <1>7, <1>8, <1>9

\* A pause keeps the slot; before a retry it leaves an attempt to make.
LEMMA PausingKeeps ==
  ASSUME ExecInv, NEW t \in Tasks, run[t].pc = "calling",
         NEW r \in Run, LocalOK(r), r.pc = "calling", NEW d \in Nat,
         NEW then \in {"retry", "rotate"},
         then = "retry" => r.attempt + 1 < MaxRetries,
         then = "rotate" => r.mark # None,
         Pause(t, r, d, then)
  PROVE  ExecInv'
<1> DEFINE q == [r EXCEPT !.pc = "pausing", !.wake = now + d, !.after = then]
<1>1. now \in Nat
  BY DEF ExecInv, TypeOK
<1>2. now + d \in Nat
  BY <1>1
<1>3. /\ q \in Run /\ q.pc = "pausing" /\ q.after = then
      /\ q.calls = r.calls /\ q.tried = r.tried /\ q.attempt = r.attempt
      /\ q.streak = r.streak /\ q.quota_failures = r.quota_failures
      /\ q.answer = r.answer /\ q.mark = r.mark
  BY <1>2 DEF Run
<1>4. LocalOK(q)
  <2> HIDE DEF q
  <2> QED BY <1>3 DEF LocalOK, MarkOK, CallsOK, QuotaOK, InBlock, Budgeted
<1> QED
  <2> HIDE DEF q
  <2>1. Becomes(t, q) /\ UNCHANGED poolVars
    BY DEF Pause, q
  <2> QED BY <1>3, <1>4, <2>1, QuietKeeps DEF InBlock

LEMMA WaitTypes ==
  ASSUME NEW t \in Tasks, NEW e \in Errors, RetryAllowed(t, e)
  PROVE  RetryWait(t, e) \in Nat
<1>1. e.retry_after \in Nat \cup {NoRetryAfter}
  BY ExecutorConstants DEF ErrorType
<1> QED
  BY <1>1, ExecutorConstants DEF RetryWait, NoRetryAfter

\* The except clauses.
LEMMA RaisingKeeps ==
  ASSUME ExecInv, NEW t \in Tasks,
         \/ AbortOnQuota(t) \/ FailNoRotate(t) \/ BreakStream(t)
         \/ RetryAfterPause(t) \/ DropUnmarked(t) \/ Rotate(t)
  PROVE  ExecInv'
<1>0. run[t].pc = "calling" /\ run[t] \in Run
  BY DEF AbortOnQuota, FailNoRotate, BreakStream, RetryAfterPause, DropUnmarked,
         Rotate, ExecInv, TypeOK
<1>1. CASE AbortOnQuota(t)
  <2>1. PICK e \in Raised(t) :
          /\ QuotaAbort(t, e)
          /\ \/ End(t, MarkFailure(Caught(t, e)), "quota_error")
             \/ Leave(t, MarkFailure(Caught(t, e)))
    BY <1>1 DEF AbortOnQuota
  <2> DEFINE r == MarkFailure(Caught(t, e))
  <2>2. MayLeave(r) /\ r.quota_failures = QuotaFailures(t, e)
    BY <1>0, CaughtFacts
  <2> HIDE DEF r
  <2>3. r.streak >= 3
    BY <2>1, <2>2 DEF QuotaAbort, MayLeave, QuotaOK, Run
  <2>4. End(t, r, "quota_error") \/ Leave(t, r)
    BY <2>1 DEF r
  <2> QED
    BY <2>2, <2>3, <2>4, LeavingKeeps
<1>2. CASE FailNoRotate(t) \/ BreakStream(t) \/ DropUnmarked(t)
  <2>a. PICK e \in Raised(t) :
          \E r \in {Caught(t, e), MarkFailure(Caught(t, e))},
             how \in {"error", "raised", "broken"} :
            Leave(t, r) \/ End(t, r, how)
    BY <1>2 DEF FailNoRotate, BreakStream, DropUnmarked
  <2>1. PICK r \in {Caught(t, e), MarkFailure(Caught(t, e))},
             how \in {"error", "raised", "broken"} :
          Leave(t, r) \/ End(t, r, how)
    BY <2>a
  <2>2. MayLeave(r)
    BY <1>0, CaughtFacts
  <2> QED
    BY <2>1, <2>2, LeavingKeeps
<1>3. CASE RetryAfterPause(t)
  <2>a. PICK e \in Raised(t) :
          /\ Retries(t, e)
          /\ \E r \in {Caught(t, e), Recorded(Caught(t, e))} :
               Pause(t, r, RetryWait(t, e), "retry")
    BY <1>3 DEF RetryAfterPause
  <2>1. PICK r \in {Caught(t, e), Recorded(Caught(t, e))} :
          Pause(t, r, RetryWait(t, e), "retry")
    BY <2>a
  <2>2. r \in Run /\ LocalOK(r) /\ r.pc = "calling" /\ r.attempt = run[t].attempt
    BY <1>0, CaughtFacts
  <2>3. RetryWait(t, e) \in Nat
    BY <2>a, WaitTypes DEF Retries, Raised
  <2>4. r.attempt + 1 < MaxRetries
    BY <1>0, <2>a, <2>2, ExecutorConstants DEF Retries, LastAttempt, Run
  <2> QED
    BY <1>0, <2>1, <2>2, <2>3, <2>4, PausingKeeps
<1>4. CASE Rotate(t)
  <2>1. PICK e \in Raised(t) :
          LET r == MarkFailure(Caught(t, e))
          IN Leave(t, r) \/ Pause(t, r, RotateWait(t, e), "rotate")
    BY <1>4 DEF Rotate
  <2> DEFINE r == MarkFailure(Caught(t, e))
  <2>2. r \in Run /\ LocalOK(r) /\ MayLeave(r) /\ r.pc = "calling" /\ r.mark # None
    BY <1>0, CaughtFacts, ExecutorConstants
  <2>3. RotateWait(t, e) \in Nat
    BY ExecutorConstants DEF RotateWait
  <2>4. Leave(t, r) \/ Pause(t, r, RotateWait(t, e), "rotate")
    BY <2>1
  <2> HIDE DEF r
  <2> QED
    BY <1>0, <2>2, <2>3, <2>4, PausingKeeps, LeavingKeeps
<1> QED
  BY <1>1, <1>2, <1>3, <1>4

LEMMA ExecInvInductive == ExecInv /\ [Next]_execVars => ExecInv'
<1> SUFFICES ASSUME ExecInv, [Next]_execVars PROVE ExecInv'
  OBVIOUS
<1>1. ASSUME Tick \/ UNCHANGED execVars PROVE ExecInv'
  <2>1. UNCHANGED <<run, poolVars>> /\ now' \in Nat
    BY <1>1 DEF Tick, execVars, ExecInv, TypeOK
  <2> QED
    BY <2>1 DEF ExecInv, TypeOK, InPool, LocalOK, MarkOK, CallsOK, QuotaOK, InBlock,
       Budgeted, poolVars
<1> QED
  BY <1>1, OutsideKeeps, AskingKeeps, CallingKeeps, RaisingKeeps
     DEF Next, Step, CallEnds

-----------------------------------------------------------------------------
(* What follows.                                                            *)

\* A request holds a slot of the pool exactly while it is inside its block: no
\* error, pause, abort or cancellation keeps it or gives it back early.
THEOREM SlotsFollowBlocks == Spec => []HeldInsideBlock
<1>1. ExecInv => HeldInsideBlock
  BY DEF ExecInv, InPool, InBlock, HeldInsideBlock
<1> QED
  BY <1>1, InitInv, ExecInvInductive, PTL DEF Spec

\* For any number of credentials a request costs at most MaxRetries calls of
\* the upstream per credential, and the quota abort has three quota errors
\* behind it.
THEOREM LoopIsSound == Spec => []LoopSound
<1>1. ExecInv => LoopSound
  <2> SUFFICES ASSUME ExecInv, NEW t \in Tasks
               PROVE  /\ run[t].calls <= MaxRetries * Cardinality(run[t].tried)
                      /\ run[t].answer = "quota_error" => run[t].streak >= 3
    BY DEF ExecInv, LoopSound, BoundedCalls, AbortMeansStreak
  <2>1. run[t] \in Run /\ LocalOK(run[t])
    BY DEF ExecInv, TypeOK
  <2> QED
    BY <2>1, BlockBudget DEF LocalOK, MarkOK, CallsOK, QuotaOK, Budgeted
<1> QED
  BY <1>1, InitInv, ExecInvInductive, PTL DEF Spec

-----------------------------------------------------------------------------
(* The outcome of a call.                                                   *)

\* A step is that of one request.
LEMMA OthersStay ==
  ASSUME ExecInv, NEW t \in Tasks, NEW u \in Tasks,
         Begin(u) \/ Reject(u) \/ Step(u) \/ Chunk(u) \/ Disconnect(u) \/ Cancel(u)
  PROVE  u = t \/ run'[t] = run[t]
<1>0. run \in [Tasks -> Run]
  BY DEF ExecInv, TypeOK
<1>1. \A r : Becomes(u, r) => u = t \/ run'[t] = run[t]
  BY <1>0 DEF Becomes
<1>2. \A r, how : Leave(u, r) \/ End(u, r, how) => u = t \/ run'[t] = run[t]
  BY <1>1 DEF Leave, End
<1>3. \A r, d, then : Pause(u, r, d, then) => u = t \/ run'[t] = run[t]
  BY <1>1 DEF Pause
<1> QED
  BY <1>1, <1>2, <1>3 DEF Begin, Reject, Step, CallEnds, Chunk, Disconnect,
     Cancel, StopLooping, Acquire, Acquired, NoKeys, PrepareFails, Call,
     PauseEnds, Succeed, AbortOnQuota, FailNoRotate, BreakStream,
     RetryAfterPause, DropUnmarked, Rotate

\* A step leaves the call of a request in one of these ways.
LEMMA WaysToLeave ==
  ASSUME ExecInv, [Next]_execVars, NEW t \in Tasks, LeavesAfterCall(t)
  PROVE  \/ Succeed(t) \/ Disconnect(t) \/ Cancel(t) \/ PauseEnds(t)
         \/ AbortOnQuota(t) \/ FailNoRotate(t) \/ BreakStream(t)
         \/ DropUnmarked(t) \/ Rotate(t)
<1>0. run \in [Tasks -> Run]
  BY DEF ExecInv, TypeOK
<1>4. ASSUME NEW u \in Tasks, Begin(u) \/ Reject(u) \/ Step(u) \/ Chunk(u)
                               \/ Disconnect(u) \/ Cancel(u)
      PROVE  u = t \/ run'[t] = run[t]
  BY <1>4, OthersStay
<1>5. run'[t] # run[t]
  BY DEF LeavesAfterCall
<1>6. ~(\/ Begin(t) \/ Reject(t) \/ StopLooping(t) \/ Acquire(t) \/ Acquired(t)
        \/ NoKeys(t) \/ PrepareFails(t) \/ Call(t))
  BY DEF LeavesAfterCall, Begin, Reject, StopLooping, Acquire, Acquired, NoKeys,
         PrepareFails, Call
<1>7. ~Chunk(t)
  BY <1>0 DEF LeavesAfterCall, Chunk, Becomes, Run
<1>8. ASSUME RetryAfterPause(t) PROVE FALSE
  <2>1. PICK r, d : Pause(t, r, d, "retry")
    BY <1>8 DEF RetryAfterPause
  <2>2. run'[t] = [r EXCEPT !.pc = "pausing", !.wake = now + d, !.after = "retry"]
    BY <1>0, <2>1 DEF Pause, Becomes
  <2> QED
    BY <2>2 DEF LeavesAfterCall
<1>9. ~(Tick \/ UNCHANGED execVars)
  BY <1>5 DEF Tick, execVars
<1> QED
  BY <1>4, <1>5, <1>6, <1>7, <1>8, <1>9 DEF Next, Step, CallEnds

\* Every way marks the call, or its client is gone, or it is the one error of a
\* stream that is dropped.
LEMMA LeavingIsMarked ==
  ASSUME ExecInv, [Next]_execVars, NEW t \in Tasks, LeavesAfterCall(t)
  PROVE  \/ run'[t].mark # None \/ run'[t].answer = "gone"
         \/ LET e == run'[t].last
            IN /\ IsConnection(t, e) /\ ~LastAttempt(t)
               /\ ~Fits(t, RetryWait(t, e))
<1>0. run \in [Tasks -> Run] /\ run[t] \in Run /\ LocalOK(run[t])
  BY DEF ExecInv, TypeOK
<1>1. ASSUME NEW r \in Run, NEW how,
             \/ Leave(t, r) \/ End(t, r, how)
      PROVE  run'[t].mark = r.mark /\ run'[t].last = r.last
  <2>1. run'[t] \in {[r EXCEPT !.pc = "loop", !.after = None],
                     [r EXCEPT !.pc = "ended", !.after = None, !.answer = how]}
    BY <1>0, <1>1 DEF Leave, End, Becomes
  <2> QED
    BY <2>1 DEF Run
<1>2. ASSUME Disconnect(t) \/ Cancel(t) PROVE run'[t].answer = "gone"
  <2>1. PICK m : \/ End(t, run[t], "gone")
                 \/ End(t, [run[t] EXCEPT !.mark = m], "gone")
                 \/ Becomes(t, [run[t] EXCEPT !.pc = "ended", !.answer = "gone"])
    BY <1>2 DEF Disconnect, Cancel
  <2>2. run'[t] \in
          {[run[t] EXCEPT !.pc = "ended", !.after = None, !.answer = "gone"],
           [[run[t] EXCEPT !.mark = m] EXCEPT !.pc = "ended", !.after = None,
                                              !.answer = "gone"],
           [run[t] EXCEPT !.pc = "ended", !.answer = "gone"]}
    BY <1>0, <2>1 DEF End, Becomes
  <2> QED
    BY <1>0, <2>2 DEF Run
<1>3. ASSUME Succeed(t) PROVE run'[t].mark # None
  <2> DEFINE r == [run[t] EXCEPT !.mark = "success"]
  <2>1. r \in Run /\ r.mark = "success"
    BY <1>0 DEF Run
  <2> QED
    BY <1>1, <1>3, <2>1, ExecutorConstants DEF Succeed
<1>4. ASSUME PauseEnds(t) PROVE run'[t].mark # None
  <2>1. run[t].pc = "pausing" /\ run[t].after = "rotate" /\ Leave(t, run[t])
    <3>1. ~Becomes(t, [Calls(run[t]) EXCEPT !.attempt = @ + 1, !.after = None])
      <4>1. ASSUME run'[t] = [Calls(run[t]) EXCEPT !.attempt = @ + 1, !.after = None]
            PROVE  run'[t].pc = "calling"
        BY <1>0, <4>1 DEF Calls, Run
      <4> QED
        BY <1>0, <4>1 DEF Becomes, LeavesAfterCall
    <3> QED
      BY <1>4, <3>1 DEF PauseEnds
  <2> QED
    BY <1>0, <1>1, <2>1 DEF LocalOK, MarkOK, QuotaOK
<1>5. ASSUME run[t].pc = "calling", NEW e \in Raised(t), NEW how,
             \/ Leave(t, MarkFailure(Caught(t, e)))
             \/ End(t, MarkFailure(Caught(t, e)), how)
      PROVE  run'[t].mark # None
  BY <1>1, <1>5, CaughtFacts, ExecutorConstants
<1>6. ASSUME AbortOnQuota(t) \/ FailNoRotate(t) \/ BreakStream(t)
      PROVE  run'[t].mark # None
  BY <1>5, <1>6 DEF AbortOnQuota, FailNoRotate, BreakStream
<1>7. ASSUME Rotate(t) PROVE run'[t].mark # None
  <2>1. PICK e \in Raised(t) :
          \/ Leave(t, MarkFailure(Caught(t, e)))
          \/ Pause(t, MarkFailure(Caught(t, e)), RotateWait(t, e), "rotate")
    BY <1>7 DEF Rotate
  <2>2. ASSUME NEW r, NEW d, Pause(t, r, d, "rotate") PROVE FALSE
    <3>1. run'[t] = [r EXCEPT !.pc = "pausing", !.wake = now + d,
                              !.after = "rotate"]
      BY <1>0, <2>2 DEF Pause, Becomes
    <3> QED
      BY <3>1 DEF LeavesAfterCall
  <2> QED
    BY <1>5, <1>7, <2>1, <2>2 DEF Rotate
<1>8. ASSUME DropUnmarked(t)
      PROVE  LET e == run'[t].last
             IN /\ IsConnection(t, e) /\ ~LastAttempt(t)
                /\ ~Fits(t, RetryWait(t, e))
  <2>1. PICK e \in Raised(t) :
          /\ ~Retries(t, e) /\ IsConnection(t, e) /\ ~LastAttempt(t)
          /\ Leave(t, Caught(t, e))
    BY <1>8 DEF DropUnmarked
  <2>2. ~Fits(t, RetryWait(t, e))
    BY <2>1 DEF Retries, RetryAllowed, IsConnection
  <2>3. run'[t].last = e
    BY <1>1, <1>8, <2>1, CaughtFacts DEF DropUnmarked
  <2> QED
    BY <2>1, <2>2, <2>3
<1> QED
  BY <1>2, <1>3, <1>4, <1>6, <1>7, <1>8, WaysToLeave

\* No call is left unrecorded, whatever is raised and however often the request
\* pauses, except the connection error of a stream that has no time to retry.
THEOREM CallsAreRecorded == Spec => OutcomeRecorded
<1>1. ExecInv /\ [Next]_execVars =>
        [\A t \in Tasks : LeavesAfterCall(t) =>
           \/ run'[t].mark # None \/ run'[t].answer = "gone"
           \/ LET e == run'[t].last
              IN /\ IsConnection(t, e) /\ ~LastAttempt(t)
                 /\ ~Fits(t, RetryWait(t, e))]_execVars
  BY LeavingIsMarked
<1> QED
  BY <1>1, InitInv, ExecInvInductive, PTL DEF Spec, OutcomeRecorded
-----------------------------------------------------------------------------
(* The retry policy of streams.                                             *)

\* After this chunk the upstream may be called again.
MayReplay(chunk) == chunk = None \/ (RetryReasoning /\ chunk = "reasoning")

\* While the policy was asked about every error: outside a call the client has seen
\* nothing that forbids another one, and inside one it has seen such a thing, if at
\* all, in this call.
PolicyOK(t) ==
  /\ ~Streaming[t] => run[t].seen = None
  /\ run[t].policed => \/ MayReplay(run[t].seen)
                       \/ run[t].pc = "calling" /\ run[t].last_chunk = run[t].seen
                       \/ run[t].pc = "ended"
  /\ run[t].pc = "pausing" /\ Streaming[t] =>
       run[t].wake <= run[t].deadline \/ run[t].wake <= now

PolicyInv == \A t \in Tasks : PolicyOK(t)

\* A step of a request that leaves PolicyOK of it true.
LEMMA PolicyStep ==
  ASSUME ExecInv, PolicyInv, NEW t \in Tasks, NEW r, Becomes(t, r),
         ~Streaming[t] => r.seen = None,
         r.policed => \/ MayReplay(r.seen)
                      \/ r.pc = "calling" /\ r.last_chunk = r.seen
                      \/ r.pc = "ended",
         r.pc = "pausing" /\ Streaming[t] => r.wake <= r.deadline \/ r.wake <= now
  PROVE  PolicyInv'
<1>1. run' = [run EXCEPT ![t] = r] /\ now' = now /\ run \in [Tasks -> Run]
  BY DEF Becomes, ExecInv, TypeOK
<1>2. ASSUME NEW u \in Tasks PROVE PolicyOK(u)'
  <2>1. CASE u = t
    BY <1>1, <2>1 DEF PolicyOK
  <2>2. CASE u # t
    <3>1. run'[u] = run[u]
      BY <1>1, <2>2
    <3> QED BY <1>1, <3>1 DEF PolicyInv, PolicyOK
  <2> QED BY <2>1, <2>2
<1> QED BY <1>2 DEF PolicyInv

\* The steps of a request that no error of its call causes.
LEMMA PolicyOutsideCall ==
  ASSUME ExecInv, PolicyInv, NEW t \in Tasks,
         \/ Begin(t) \/ Reject(t) \/ StopLooping(t) \/ Acquire(t) \/ Acquired(t)
         \/ NoKeys(t) \/ PrepareFails(t) \/ Call(t) \/ Chunk(t) \/ Succeed(t)
         \/ Disconnect(t) \/ Cancel(t) \/ PauseEnds(t)
  PROVE  PolicyInv'
<1>0. run[t] \in Run /\ PolicyOK(t)
  BY DEF ExecInv, TypeOK, PolicyInv
<1>1. CASE Begin(t) \/ Reject(t)
  <2>1. PICK r : /\ Becomes(t, r) /\ r.seen = None /\ r.pc # "pausing"
    <3>1. CASE Begin(t)
      <4> DEFINE r == [NewRun EXCEPT !.pc = "loop", !.deadline = now + Budget]
      <4>1. Becomes(t, r) /\ r.seen = None /\ r.pc = "loop"
        BY <3>1 DEF Begin, NewRun
      <4> QED BY <4>1
    <3>2. CASE Reject(t)
      <4>1. PICK how \in {"raised", "error"} :
              Becomes(t, [NewRun EXCEPT !.pc = "ended", !.answer = how])
        BY <3>2 DEF Reject
      <4> DEFINE r == [NewRun EXCEPT !.pc = "ended", !.answer = how]
      <4>2. Becomes(t, r) /\ r.seen = None /\ r.pc = "ended"
        BY <4>1 DEF NewRun
      <4> QED BY <4>2
    <3> QED BY <1>1, <3>1, <3>2
  <2> QED BY <2>1, PolicyStep DEF MayReplay
<1>2. CASE StopLooping(t) \/ NoKeys(t) \/ Succeed(t) \/ Disconnect(t) \/ Cancel(t)
  <2>1. PICK r : Becomes(t, r) /\ r.seen = run[t].seen /\ r.pc = "ended"
    <3>1. CASE StopLooping(t) \/ NoKeys(t)
      <4>1. Becomes(t, GivesUp(t)) /\ GivesUp(t).seen = run[t].seen /\ GivesUp(t).pc = "ended"
        BY <1>0, <3>1 DEF StopLooping, NoKeys, GivesUp, Run
      <4> QED BY <4>1
    <3>2. CASE Succeed(t) \/ Disconnect(t) \/ Cancel(t)
      <4>1. PICK m, how :
              \/ End(t, run[t], how) \/ End(t, [run[t] EXCEPT !.mark = m], how)
              \/ Becomes(t, [run[t] EXCEPT !.pc = "ended", !.answer = how])
        BY <3>2 DEF Succeed, Disconnect, Cancel
      <4>2. PICK q \in {run[t], [run[t] EXCEPT !.mark = m]} :
              \/ Becomes(t, [q EXCEPT !.pc = "ended", !.after = None, !.answer = how])
              \/ Becomes(t, [q EXCEPT !.pc = "ended", !.answer = how])
        BY <4>1 DEF End
      <4>3. q.seen = run[t].seen /\ "pc" \in DOMAIN q /\ "seen" \in DOMAIN q
        BY <1>0 DEF Run
      <4>4. /\ [q EXCEPT !.pc = "ended", !.after = None, !.answer = how].pc = "ended"
            /\ [q EXCEPT !.pc = "ended", !.answer = how].pc = "ended"
            /\ [q EXCEPT !.pc = "ended", !.after = None, !.answer = how].seen = q.seen
            /\ [q EXCEPT !.pc = "ended", !.answer = how].seen = q.seen
        BY <4>3
      <4> QED BY <4>2, <4>3, <4>4
    <3> QED BY <1>2, <3>1, <3>2
  <2> QED BY <1>0, <2>1, PolicyStep DEF PolicyOK
<1>3. CASE Acquire(t) \/ Acquired(t) \/ PrepareFails(t)
  <2>1. PICK r : /\ Becomes(t, r) /\ r.seen = run[t].seen /\ r.policed = run[t].policed
                 /\ r.pc # "pausing" /\ run[t].pc \in {"loop", "acquire", "granted"}
    <3>1. CASE Acquire(t)
      <4> DEFINE r == [run[t] EXCEPT !.pc = "acquire"]
      <4>1. Becomes(t, r) /\ r.seen = run[t].seen /\ r.policed = run[t].policed
            /\ r.pc = "acquire" /\ run[t].pc = "loop"
        BY <1>0, <3>1 DEF Acquire, Run
      <4> QED BY <4>1
    <3>2. CASE Acquired(t)
      <4>1. PICK c \in Creds : Becomes(t, Enter(t, c))
        BY <3>2 DEF Acquired
      <4>2. /\ Enter(t, c).seen = run[t].seen /\ Enter(t, c).policed = run[t].policed
            /\ Enter(t, c).pc = "granted" /\ run[t].pc = "acquire"
        BY <1>0, <3>2 DEF Acquired, Enter, Run
      <4> QED BY <4>1, <4>2
    <3>3. CASE PrepareFails(t)
      <4>1. PICK e : \E q \in {run[t], [run[t] EXCEPT !.last = e]} :
              Becomes(t, [q EXCEPT !.pc = "loop", !.after = None])
        BY <3>3 DEF PrepareFails, Leave
      <4>2. PICK q \in {run[t], [run[t] EXCEPT !.last = e]} :
              Becomes(t, [q EXCEPT !.pc = "loop", !.after = None])
        BY <4>1
      <4> DEFINE r == [q EXCEPT !.pc = "loop", !.after = None]
      <4>3. r.seen = run[t].seen /\ r.policed = run[t].policed /\ r.pc = "loop"
        BY <1>0 DEF Run
      <4>4. run[t].pc = "granted"
        BY <3>3 DEF PrepareFails
      <4> QED BY <4>2, <4>3, <4>4
    <3> QED BY <1>3, <3>1, <3>2, <3>3
  <2> QED BY <1>0, <2>1, PolicyStep DEF PolicyOK
<1>4. CASE Call(t) \/ PauseEnds(t)
  <2>1. PICK r : /\ Becomes(t, r) /\ r.seen = run[t].seen /\ r.policed = run[t].policed
                 /\ r.pc # "pausing" /\ run[t].pc \in {"granted", "pausing"}
    <3>1. CASE Call(t)
      <4>1. /\ Becomes(t, Calls(run[t])) /\ Calls(run[t]).seen = run[t].seen
            /\ Calls(run[t]).policed = run[t].policed /\ Calls(run[t]).pc = "calling"
            /\ run[t].pc = "granted"
        BY <1>0, <3>1 DEF Call, Calls, Run
      <4> QED BY <4>1
    <3>2. CASE PauseEnds(t)
      <4>1. PICK r \in {[Calls(run[t]) EXCEPT !.attempt = @ + 1, !.after = None],
                        [run[t] EXCEPT !.pc = "loop", !.after = None]} : Becomes(t, r)
        BY <3>2 DEF PauseEnds, Leave
      <4>2. r.seen = run[t].seen /\ r.policed = run[t].policed /\ r.pc \in {"calling", "loop"}
        BY <1>0 DEF Calls, Run
      <4>3. run[t].pc = "pausing"
        BY <3>2 DEF PauseEnds
      <4> QED BY <4>1, <4>2, <4>3
    <3> QED BY <1>4, <3>1, <3>2
  <2> QED BY <1>0, <2>1, PolicyStep DEF PolicyOK
<1>5. CASE Chunk(t)
  <2>1. PICK k \in Chunks :
          Becomes(t, [run[t] EXCEPT !.last_chunk = k, !.seen = k])
    BY <1>5 DEF Chunk
  <2> DEFINE r == [run[t] EXCEPT !.last_chunk = k, !.seen = k]
  <2>2. r.seen = k /\ r.last_chunk = k /\ r.pc = "calling" /\ Streaming[t]
    BY <1>0, <1>5 DEF Chunk, Run
  <2>3. Becomes(t, r)
    BY <2>1
  <2> HIDE DEF r
  <2> QED BY <2>2, <2>3, PolicyStep
<1> QED BY <1>1, <1>2, <1>3, <1>4, <1>5

\* What an except clause leaves of the history.
LEMMA CaughtHistory ==
  ASSUME ExecInv, NEW t \in Tasks, run[t].pc = "calling", NEW e \in Raised(t)
  PROVE  \A r \in {Caught(t, e), MarkFailure(Caught(t, e)), Recorded(Caught(t, e))} :
           /\ r \in Run /\ r.seen = run[t].seen /\ r.deadline = run[t].deadline
           /\ r.policed = (run[t].policed /\ Policed(e))
<1>1. run[t] \in Run
  BY DEF ExecInv, TypeOK
<1> DEFINE caught == Caught(t, e)
<1>2. /\ caught.seen = run[t].seen /\ caught.deadline = run[t].deadline
      /\ caught.policed = (run[t].policed /\ Policed(e))
  BY <1>1 DEF Caught, Run
<1>3. caught \in Run
  BY CaughtFacts
<1> HIDE DEF caught
<1>4. \A r \in {caught, MarkFailure(caught), Recorded(caught)} :
        /\ r \in Run /\ r.seen = caught.seen /\ r.deadline = caught.deadline
        /\ r.policed = caught.policed
  <2>1. \A r \in {caught, MarkFailure(caught), Recorded(caught)} :
          r \in Run /\ r.seen = caught.seen /\ r.deadline = caught.deadline
    BY <1>3 DEF MarkFailure, Recorded, Run
  <2>2. MarkFailure(caught).policed = caught.policed
    BY <1>3 DEF MarkFailure, Recorded, Run
  <2>3. Recorded(caught).policed = caught.policed
    BY <1>3 DEF Recorded, Run
  <2> QED BY <2>1, <2>2, <2>3
<1> QED
  BY <1>2, <1>4 DEF caught

\* An error that the policy was asked about, and that did not end the stream, leaves
\* nothing behind that forbids another call.
LEMMA AskedPolicy ==
  ASSUME ExecInv, PolicyInv, NEW t \in Tasks, run[t].pc = "calling", NEW e \in Errors,
         run[t].policed, Policed(e), ~BrokenStream(t, e)
  PROVE  MayReplay(run[t].seen)
<1>1. PolicyOK(t)
  BY DEF PolicyInv
<1>2. CASE ~Streaming[t]
  BY <1>1, <1>2 DEF PolicyOK, MayReplay
<1>3. CASE Streaming[t]
  BY <1>1, <1>3 DEF PolicyOK, MayReplay, Policed, BrokenStream, CanRetryStream
<1> QED BY <1>2, <1>3, ExecutorConstants

LEMMA PolicyInCall ==
  ASSUME ExecInv, PolicyInv, NEW t \in Tasks,
         \/ AbortOnQuota(t) \/ FailNoRotate(t) \/ BreakStream(t)
         \/ RetryAfterPause(t) \/ DropUnmarked(t) \/ Rotate(t)
  PROVE  PolicyInv'
<1>0. run[t].pc = "calling" /\ run[t] \in Run /\ PolicyOK(t) /\ now \in Nat
  BY DEF AbortOnQuota, FailNoRotate, BreakStream, RetryAfterPause, DropUnmarked,
         Rotate, ExecInv, TypeOK, PolicyInv
<1>1. ASSUME NEW r \in Run, r.seen = run[t].seen, NEW how, End(t, r, how)
      PROVE  PolicyInv'
  <2> DEFINE q == [r EXCEPT !.pc = "ended", !.after = None, !.answer = how]
  <2>1. Becomes(t, q) /\ q.pc = "ended" /\ q.seen = run[t].seen
    BY <1>1 DEF End, Run
  <2> HIDE DEF q
  <2> QED BY <1>0, <2>1, PolicyStep DEF PolicyOK
<1>2. ASSUME NEW r \in Run, r.seen = run[t].seen, r.policed => MayReplay(r.seen),
             Leave(t, r)
      PROVE  PolicyInv'
  <2> DEFINE q == [r EXCEPT !.pc = "loop", !.after = None]
  <2>1. Becomes(t, q) /\ q.pc = "loop" /\ q.seen = run[t].seen /\ q.policed = r.policed
    BY <1>2 DEF Leave, Run
  <2> HIDE DEF q
  <2> QED BY <1>0, <1>2, <2>1, PolicyStep DEF PolicyOK
<1>3. ASSUME NEW r \in Run, r.seen = run[t].seen, r.policed => MayReplay(r.seen),
             r.deadline = run[t].deadline,
             NEW d \in Nat, Streaming[t] => Fits(t, d), NEW then, Pause(t, r, d, then)
      PROVE  PolicyInv'
  <2> DEFINE q == [r EXCEPT !.pc = "pausing", !.wake = now + d, !.after = then]
  <2>1. /\ Becomes(t, q) /\ q.pc = "pausing" /\ q.seen = run[t].seen
        /\ q.policed = r.policed /\ q.wake = now + d /\ q.deadline = run[t].deadline
    BY <1>3 DEF Pause, Run
  <2>2. Streaming[t] => q.wake <= q.deadline \/ q.wake <= now
    <3> HIDE DEF q
    <3> QED BY <1>0, <1>3, <2>1 DEF Fits
  <2> HIDE DEF q
  <2> QED BY <1>0, <1>3, <2>1, <2>2, PolicyStep DEF PolicyOK
<1>4. CASE AbortOnQuota(t)
  <2>1. PICK e \in Raised(t) :
          \/ End(t, MarkFailure(Caught(t, e)), "quota_error")
          \/ ~Streaming[t] /\ Leave(t, MarkFailure(Caught(t, e)))
    BY <1>4, ExecutorConstants DEF AbortOnQuota
  <2> DEFINE r == MarkFailure(Caught(t, e))
  <2>2. r \in Run /\ r.seen = run[t].seen
    BY <1>0, CaughtHistory
  <2>3. ~Streaming[t] => MayReplay(r.seen)
    BY <1>0, <2>2 DEF PolicyOK, MayReplay
  <2> HIDE DEF r
  <2> QED BY <1>1, <1>2, <2>1, <2>2, <2>3 DEF r
<1>5. CASE FailNoRotate(t) \/ BreakStream(t)
  <2>1. PICK e \in Raised(t), how \in {"error", "raised", "broken"} :
          \/ End(t, MarkFailure(Caught(t, e)), how)
          \/ ~Rotatable(e) /\ Leave(t, MarkFailure(Caught(t, e)))
    BY <1>5 DEF FailNoRotate, BreakStream, NotRotated
  <2> DEFINE r == MarkFailure(Caught(t, e))
  <2>2. r \in Run /\ r.seen = run[t].seen /\ (r.policed => Rotatable(e))
    BY <1>0, CaughtHistory DEF Policed
  <2> HIDE DEF r
  <2> QED BY <1>1, <1>2, <2>1, <2>2 DEF r
<1>6. ASSUME NEW e \in Raised(t), Survives(t, e)
      PROVE  \A r \in {Caught(t, e), MarkFailure(Caught(t, e)), Recorded(Caught(t, e))} :
               /\ r \in Run /\ r.seen = run[t].seen /\ r.deadline = run[t].deadline
               /\ r.policed => MayReplay(r.seen)
  <2>1. e \in Errors
    BY DEF Raised
  <2>2. run[t].policed /\ Policed(e) => MayReplay(run[t].seen)
    BY <1>0, <1>6, <2>1, AskedPolicy DEF Survives
  <2> QED BY <1>0, <2>2, CaughtHistory
<1>7. CASE RetryAfterPause(t)
  <2>1. PICK e \in Raised(t) :
          /\ Survives(t, e) /\ Retries(t, e)
          /\ \E r \in {Caught(t, e), Recorded(Caught(t, e))} :
               Pause(t, r, RetryWait(t, e), "retry")
    BY <1>7 DEF RetryAfterPause
  <2>2. RetryWait(t, e) \in Nat /\ (Streaming[t] => Fits(t, RetryWait(t, e)))
    BY <2>1, WaitTypes DEF Retries, RetryAllowed, Raised
  <2>3. PICK r \in {Caught(t, e), Recorded(Caught(t, e))} :
          Pause(t, r, RetryWait(t, e), "retry")
    BY <2>1
  <2> QED BY <1>3, <1>6, <2>1, <2>2, <2>3
<1>8. CASE DropUnmarked(t)
  <2>1. PICK e \in Raised(t) : Survives(t, e) /\ Leave(t, Caught(t, e))
    BY <1>8 DEF DropUnmarked
  <2> QED BY <1>2, <1>6, <2>1
<1>9. CASE Rotate(t)
  <2>1. PICK e \in Raised(t) :
          /\ Survives(t, e)
          /\ \/ Leave(t, MarkFailure(Caught(t, e)))
             \/ /\ RotateWait(t, e) # 0
                /\ Pause(t, MarkFailure(Caught(t, e)), RotateWait(t, e), "rotate")
    BY <1>9 DEF Rotate
  <2>2. /\ RotateWait(t, e) \in Nat
        /\ RotateWait(t, e) # 0 /\ Streaming[t] => Fits(t, RotateWait(t, e))
    BY ExecutorConstants DEF RotateWait
  <2> QED BY <1>2, <1>3, <1>6, <2>1, <2>2
<1> QED BY <1>4, <1>5, <1>7, <1>8, <1>9

\* A request that has ended makes no further step.
LEMMA EndedStays ==
  ASSUME ExecInv, [Next]_execVars, NEW t \in Tasks, run[t].pc = "ended"
  PROVE  run'[t] = run[t]
<1>1. ~(\/ Begin(t) \/ Reject(t) \/ Step(t) \/ Chunk(t) \/ Disconnect(t) \/ Cancel(t))
  BY DEF Begin, Reject, Step, CallEnds, Chunk, Disconnect, Cancel, StopLooping, Acquire,
     Acquired, NoKeys, PrepareFails, Call, PauseEnds, Succeed, AbortOnQuota, FailNoRotate,
     BreakStream, RetryAfterPause, DropUnmarked, Rotate
<1> QED
  BY <1>1, OthersStay DEF Next, Tick, execVars

LEMMA PolicyKept == ExecInv /\ PolicyInv /\ [Next]_execVars => PolicyInv'
<1> SUFFICES ASSUME ExecInv, PolicyInv, [Next]_execVars PROVE PolicyInv'
  OBVIOUS
<1>1. ASSUME Tick \/ UNCHANGED execVars PROVE PolicyInv'
  <2>1. run' = run /\ now' \in Nat /\ now \in Nat /\ now <= now'
    BY <1>1 DEF Tick, execVars, ExecInv, TypeOK
  <2>2. ASSUME NEW t \in Tasks PROVE PolicyOK(t)'
    <3>1. run[t].wake \in Nat /\ PolicyOK(t)
      BY DEF ExecInv, TypeOK, Run, PolicyInv
    <3> QED BY <2>1, <3>1 DEF PolicyOK
  <2> QED BY <2>2 DEF PolicyInv
<1> QED
  BY <1>1, PolicyOutsideCall, PolicyInCall DEF Next, Step, CallEnds

\* Over any retries and rotations of any number of requests, with any errors: a
\* stream does not pause past its deadline, and while the policy was asked about every
\* error the upstream is not called again after output, except after reasoning where
\* that is allowed.
THEOREM PolicyIsFollowed == Spec => PolicyFollowed
<1>1. Init => PolicyInv
  <2>1. NewRun.seen = None /\ NewRun.pc = "idle"
    BY DEF NewRun
  <2> QED BY <2>1 DEF Init, PolicyInv, PolicyOK, MayReplay
<1>2. PolicyInv => NoPausePastDeadline
  BY DEF PolicyInv, PolicyOK, NoPausePastDeadline
<1>3. ExecInv /\ PolicyInv /\ [Next]_execVars => [~Replays]_execVars
  <2> SUFFICES ASSUME ExecInv, PolicyInv, [Next]_execVars, NEW t \in Tasks,
                      StartsCall(t), run[t].policed
               PROVE  MayReplay(run[t].seen)
    BY DEF Replays, MayReplay
  <2>1. PolicyOK(t) /\ run[t].pc # "calling"
    BY DEF PolicyInv, StartsCall
  <2>2. CASE run[t].pc = "ended"
    BY <2>2, EndedStays DEF StartsCall
  <2> QED BY <2>1, <2>2 DEF PolicyOK
<1> QED
  BY <1>1, <1>2, <1>3, InitInv, ExecInvInductive, PolicyKept, PTL DEF Spec, PolicyFollowed
==============================================================================
