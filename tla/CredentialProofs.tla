--------------------------- MODULE CredentialProofs ---------------------------
(***************************************************************************)
(* Proofs about OAuth credentials, for any number of credential files,     *)
(* users, accounts and grants and any limit of retries.                    *)
(*                                                                         *)
(* The queue of token refreshes: a credential is queued once at most,      *)
(* _queued_credentials says exactly which ones are in progress, and a      *)
(* credential is given up after MaxRetries failures.                       *)
(* A credential's tokens: a record has the tokens of one grant, the newest *)
(* ones are where the next task looks for them, and no caller holds a      *)
(* header older than its call.                                             *)
(* The start: which of the files of an account is used.                    *)
(* Project and tier of a Gemini credential: they are what Google and the   *)
(* file say.                                                               *)
(***************************************************************************)
EXTENDS RefreshQueue, OAuthCredentials, CredentialStartup, ProjectDiscovery,
        FiniteSetTheorems, TLAPS

(***************************************************************************)
(* The refresh queue.                                                      *)
(***************************************************************************)
InQueue(p) == \E i \in 1..Len(queue) : queue[i] = p

\* The processor has a credential in its hands while it locks and posts.
HandsOK == worker.path # None <=> worker.pc \in {"locking", "posting"}

\* p waits in one place at most.
Once(p) ==
  /\ \A i, j \in 1..Len(queue) : queue[i] = p /\ queue[j] = p => i = j
  /\ ~(InQueue(p) /\ Handled(p))

Listed(p) == p \in queued <=> InQueue(p) \/ Handled(p)

\* The retry count of a queued credential keeps up with its failures; when the
\* idle timer is about to clear the counts, no queued credential has failed.
Counted(p) ==
  /\ failures[p] <= MaxRetries
  /\ p \in queued => failures[p] <= retries[p]
  /\ p \in queued /\ worker.pc = "idle" => failures[p] = 0

QueueInv ==
  /\ TypeOK /\ HandsOK
  /\ \A p \in Paths : retries[p] < MaxRetries
  /\ \A p \in Paths \ revoked : Once(p) /\ Listed(p) /\ Counted(p)

-----------------------------------------------------------------------------
(* Queues.                                                                  *)

\* What is appended is in the queue, in a place of its own.
LEMMA Appended ==
  ASSUME NEW q \in Seq(Paths), NEW p \in Paths, NEW r \in Paths
  PROVE  LET s == Append(q, p)
         IN /\ s \in Seq(Paths)
            /\ (\E i \in 1..Len(s) : s[i] = r) <=>
                 (\E i \in 1..Len(q) : q[i] = r) \/ r = p
            /\ (\A i, j \in 1..Len(q) : q[i] = r /\ q[j] = r => i = j)
               /\ ~((\E i \in 1..Len(q) : q[i] = r) /\ r = p)
               => \A i, j \in 1..Len(s) : s[i] = r /\ s[j] = r => i = j
<1> DEFINE s == Append(q, p)
<1>1. /\ s \in Seq(Paths) /\ Len(s) = Len(q) + 1 /\ Len(q) \in Nat
      /\ s[Len(q) + 1] = p /\ \A i \in 1..Len(q) : s[i] = q[i]
  OBVIOUS
<1>2. \A i \in 1..Len(s) : i \in 1..Len(q) \/ i = Len(q) + 1
  BY <1>1
<1>3. \A i \in 1..Len(q) : i \in 1..Len(s)
  BY <1>1
<1>4. Len(q) + 1 \in 1..Len(s)
  BY <1>1
<1> HIDE DEF s
<1>5. (\E i \in 1..Len(s) : s[i] = r) <=> (\E i \in 1..Len(q) : q[i] = r) \/ r = p
  BY <1>1, <1>2, <1>3, <1>4
<1>6. ASSUME \A i, j \in 1..Len(q) : q[i] = r /\ q[j] = r => i = j,
             ~((\E i \in 1..Len(q) : q[i] = r) /\ r = p),
             NEW i \in 1..Len(s), NEW j \in 1..Len(s), s[i] = r, s[j] = r
      PROVE  i = j
  BY <1>1, <1>2, <1>6
<1> QED
  BY <1>1, <1>5, <1>6 DEF s

OccursIn(q, r) == \E i \in 1..Len(q) : q[i] = r
OnceIn(q, r) == \A i, j \in 1..Len(q) : q[i] = r /\ q[j] = r => i = j

\* Taking the head off leaves every other credential where it was, and the head
\* nowhere if it was there once.
LEMMA TakenOff ==
  ASSUME NEW q \in Seq(Paths), q # <<>>, NEW r \in Paths
  PROVE  LET s == Tail(q)
         IN /\ s \in Seq(Paths) /\ Head(q) \in Paths
            /\ OccursIn(q, r) <=> OccursIn(s, r) \/ r = Head(q)
            /\ OnceIn(q, r) => OnceIn(s, r) /\ ~(OccursIn(s, r) /\ r = Head(q))
<1> DEFINE s == Tail(q)
<1>1. /\ s \in Seq(Paths) /\ Head(q) \in Paths /\ Head(q) = q[1]
      /\ Len(q) \in Nat /\ Len(q) > 0
      /\ Len(s) = Len(q) - 1 /\ \A i \in 1..Len(s) : s[i] = q[i + 1]
  OBVIOUS
<1>2. \A i \in 1..Len(s) : i + 1 \in 1..Len(q) /\ i + 1 # 1 /\ i \in Nat
  BY <1>1
<1>3. \A i \in 1..Len(q) : i = 1 \/ (i - 1 \in 1..Len(s) /\ s[i - 1] = q[i])
  BY <1>1
<1>4. 1 \in 1..Len(q)
  BY <1>1
<1> HIDE DEF s
<1>5. OccursIn(q, r) <=> OccursIn(s, r) \/ r = Head(q)
  BY <1>1, <1>2, <1>3, <1>4 DEF OccursIn
<1>6. ASSUME OnceIn(q, r)
      PROVE  OnceIn(s, r) /\ ~(OccursIn(s, r) /\ r = Head(q))
  <2>1. ASSUME NEW i \in 1..Len(s), NEW j \in 1..Len(s), s[i] = r, s[j] = r
        PROVE  i = j
    <3>1. i + 1 = j + 1
      BY <1>1, <1>2, <1>6, <2>1 DEF OnceIn
    <3> QED
      BY <1>2, <3>1
  <2>2. ASSUME NEW i \in 1..Len(s), s[i] = r, r = Head(q) PROVE FALSE
    <3>1. i + 1 = 1
      BY <1>1, <1>2, <1>4, <1>6, <2>2 DEF OnceIn
    <3> QED
      BY <1>2, <3>1
  <2> QED
    BY <2>1, <2>2 DEF OccursIn, OnceIn
<1> QED
  BY <1>1, <1>5, <1>6 DEF s

-----------------------------------------------------------------------------
(* The steps.                                                               *)

LEMMA InitInv == Init => QueueInv
BY QueueConstants DEF Init, QueueInv, TypeOK, HandsOK, Worker, At, Zero, Once,
   Listed, Counted, InQueue, Handled

\* The steps that change neither the queue nor the processor.
LEMMA TokensKeep ==
  ASSUME QueueInv, NEW p \in Paths,
         Expires(p) \/ Revoked(p) \/ RequestRefreshes(p) \/ RequestRefreshed(p)
  PROVE  QueueInv'
<1>1. /\ UNCHANGED <<queue, retries, worker, failures>>
      /\ queued' \in SUBSET queued /\ queued \subseteq queued' \cup revoked
      /\ revoked \subseteq revoked'
  BY DEF Expires, Revoked, RequestRefreshes, RequestRefreshed
<1>2. TypeOK'
  BY <1>1 DEF Expires, Revoked, RequestRefreshes, RequestRefreshed, QueueInv,
     TypeOK
<1> QED
  BY <1>1, <1>2 DEF QueueInv, HandsOK, Once, Listed, Counted, InQueue, Handled

LEMMA QueueingKeeps ==
  ASSUME QueueInv, NEW p \in Paths, QueueRefresh(p)
  PROVE  QueueInv'
<1>0. /\ TypeOK /\ HandsOK /\ p \notin queued /\ queue \in Seq(Paths)
      /\ queue' = Append(queue, p) /\ queued' = queued \cup {p}
      /\ UNCHANGED <<retries, revoked>>
      /\ failures' = [failures EXCEPT ![p] = 0]
      /\ worker' = IF worker.pc = "none" THEN At("waiting") ELSE worker
  BY DEF QueueRefresh, QueueInv, TypeOK
<1>1. worker'.path = worker.path /\ (worker'.pc = "idle" => worker.pc = "idle")
      /\ worker' \in Worker
  BY <1>0 DEF TypeOK, Worker, HandsOK, At
<1>2. TypeOK'
  BY <1>0, <1>1, Appended DEF QueueRefresh, TypeOK
<1>3. HandsOK'
  BY <1>0, <1>1 DEF HandsOK, At
<1>4. ASSUME NEW r \in Paths \ revoked
      PROVE  Once(r)' /\ Listed(r)' /\ Counted(r)'
  <2>1. Once(r) /\ Listed(r) /\ Counted(r) /\ retries[r] \in Nat
    BY <1>0 DEF QueueInv, TypeOK
  <2>2. InQueue(r)' <=> InQueue(r) \/ r = p
    BY <1>0, Appended DEF InQueue
  <2>3. r = p => ~InQueue(r) /\ ~Handled(r)
    BY <1>0, <2>1 DEF Listed
  <2>4. Handled(r)' <=> Handled(r)
    BY <1>1 DEF Handled
  <2>5. Once(r)'
    BY <1>0, <2>1, <2>2, <2>3, <2>4, Appended DEF Once, InQueue
  <2>6. Listed(r)'
    BY <1>0, <2>1, <2>2, <2>4 DEF Listed
  <2>7. Counted(r)'
    BY <1>0, <1>1, <2>1, QueueConstants DEF Counted, TypeOK
  <2> QED
    BY <2>5, <2>6, <2>7
<1> QED
  BY <1>0, <1>2, <1>3, <1>4 DEF QueueInv

\* The head of the queue goes to the processor, or nowhere.
LEMMA TakingKeeps == QueueInv /\ Take => QueueInv'
<1> SUFFICES ASSUME QueueInv, Take PROVE QueueInv'
  OBVIOUS
<1> DEFINE p == Head(queue)
<1>0. /\ TypeOK /\ queue \in Seq(Paths) /\ queue # <<>> /\ p \in Paths
      /\ worker.pc = "waiting" /\ worker.path = None
      /\ queue' = Tail(queue) /\ UNCHANGED <<revoked, failures>>
  BY TakenOff DEF Take, QueueInv, TypeOK, HandsOK, Worker
<1>1. \/ /\ worker' = [pc |-> "locking", path |-> p]
         /\ UNCHANGED <<queued, retries>>
      \/ /\ worker' = At("waiting") /\ retries' = [retries EXCEPT ![p] = 0]
         /\ queued' = queued \ {p}
  <2>1. CASE p \in stale
    BY <2>1 DEF Take
  <2>2. CASE p \notin stale
    <3>1. Done(p, "waiting")
      BY <2>2 DEF Take
    <3>2. retries'[p] = 0
      BY <1>0, <3>1 DEF Done, TypeOK
    <3> QED
      BY <3>1, <3>2 DEF Done, Kept
  <2> QED
    BY <2>1, <2>2
<1>2. TypeOK'
  <2>1. UNCHANGED <<expired, requests, stale, revoked, failures>>
    BY DEF Take
  <2>2. queue' \in Seq(Paths)
    BY ONLY <1>0, TakenOff
  <2> HIDE DEF p
  <2>3. worker' \in Worker
    BY <1>0, <1>1 DEF Worker, At
  <2>4. queued' \in SUBSET Paths /\ retries' \in [Paths -> Nat]
    BY <1>0, <1>1 DEF TypeOK
  <2> QED
    BY <1>0, <2>1, <2>2, <2>3, <2>4 DEF TypeOK
<1> HIDE DEF p
<1>3. HandsOK'
  BY <1>0, <1>1, QueueConstants DEF HandsOK, At
<1>4. ASSUME NEW r \in Paths PROVE retries'[r] < MaxRetries
  <2>1. retries[r] < MaxRetries /\ 0 < MaxRetries
    BY QueueConstants DEF QueueInv
  <2>2. retries'[r] \in {retries[r], 0}
    BY <1>0, <1>1 DEF TypeOK
  <2> QED
    BY <2>1, <2>2
<1>5. ASSUME NEW r \in Paths \ revoked
      PROVE  Once(r)' /\ Listed(r)' /\ Counted(r)'
  <2>1. Once(r) /\ Listed(r) /\ Counted(r)
    BY <1>0 DEF QueueInv
  <2>2. /\ InQueue(r) <=> InQueue(r)' \/ r = p
        /\ ~(InQueue(r)' /\ r = p)
        /\ \A i, j \in 1..Len(queue') : queue'[i] = r /\ queue'[j] = r => i = j
    <3>1. /\ OccursIn(queue, r) <=> OccursIn(queue', r) \/ r = p
          /\ OnceIn(queue, r) => OnceIn(queue', r) /\ ~(OccursIn(queue', r) /\ r = p)
      <4>1. queue \in Seq(Paths) /\ queue # <<>> /\ queue' = Tail(queue)
        BY <1>0
      <4> QED
        BY <4>1, TakenOff DEF p
    <3> QED
      BY <2>1, <3>1 DEF Once, InQueue, OccursIn, OnceIn
  <2>3. ~Handled(r)
    BY <1>0, QueueConstants DEF Handled
  <2>4. Handled(r)' => r = p
    BY <1>1, QueueConstants DEF Handled, At
  <2>5. Listed(r)'
    BY <1>1, <2>1, <2>2, <2>3, QueueConstants DEF Listed, Handled, At
  <2>6. Counted(r)'
    BY <1>0, <1>1, <2>1 DEF Counted, At, TypeOK
  <2> QED
    BY <2>2, <2>4, <2>5, <2>6 DEF Once
<1> QED
  BY <1>0, <1>2, <1>3, <1>4, <1>5 DEF QueueInv

\* The processor puts the credential down and forgets it.
LEMMA DoneKeeps ==
  ASSUME QueueInv, worker.pc \in {"locking", "posting"},
         Done(worker.path, "pausing"),
         UNCHANGED <<queue, expired, requests, revoked, failures>>,
         stale' \in SUBSET stale
  PROVE  QueueInv'
<1> DEFINE p == worker.path
<1>0. TypeOK /\ p \in Paths /\ worker \in Worker
  BY DEF QueueInv, TypeOK, HandsOK, Worker
<1>1. /\ worker' = At("pausing") /\ retries' = [retries EXCEPT ![p] = 0]
      /\ queued' = queued \ {p}
  <2>1. retries'[p] = 0
    BY <1>0 DEF Done, TypeOK
  <2> QED
    BY <2>1 DEF Done, Kept
<1>2. TypeOK' /\ HandsOK'
  BY <1>0, <1>1, QueueConstants DEF TypeOK, Worker, At, HandsOK
<1>3. \A r \in Paths : retries'[r] < MaxRetries
  BY <1>0, <1>1, QueueConstants DEF QueueInv, TypeOK
<1>4. ASSUME NEW r \in Paths \ revoked
      PROVE  Once(r)' /\ Listed(r)' /\ Counted(r)'
  <2>1. Once(r) /\ Listed(r) /\ Counted(r)
    BY DEF QueueInv
  <2>2. InQueue(r)' = InQueue(r) /\ ~Handled(r)'
    BY <1>1, QueueConstants DEF InQueue, Handled, At
  <2>3. Handled(r) <=> r = p
    BY DEF Handled
  <2>4. Once(r)' /\ Listed(r)'
    BY <1>1, <2>1, <2>2, <2>3 DEF Once, Listed
  <2>5. Counted(r)'
    BY <1>0, <1>1, <2>1 DEF Counted, At, TypeOK
  <2> QED
    BY <2>4, <2>5
<1> QED
  BY <1>2, <1>3, <1>4 DEF QueueInv

\* A failure puts the credential back, unless it was one too many.
LEMMA FailingKeeps ==
  ASSUME QueueInv, worker.pc \in {"locking", "posting"},
         NEW S \in SUBSET queued, queued \subseteq S \cup revoked,
         Failed(worker.path, S),
         UNCHANGED <<requests, stale, revoked>>, expired' \in SUBSET Paths
  PROVE  QueueInv'
<1> DEFINE p == worker.path
<1>0. TypeOK /\ p \in Paths /\ worker \in Worker /\ queue \in Seq(Paths)
      /\ retries[p] \in Nat /\ retries[p] < MaxRetries /\ failures[p] \in Nat
  BY DEF QueueInv, TypeOK, HandsOK, Worker
<1>1. /\ worker' = At("pausing")
      /\ failures' = [failures EXCEPT ![p] = IF @ > MaxRetries THEN @ ELSE @ + 1]
      /\ \/ /\ retries[p] + 1 >= MaxRetries
            /\ retries' = [retries EXCEPT ![p] = 0]
            /\ queued' = S \ {p} /\ queue' = queue
         \/ /\ retries[p] + 1 < MaxRetries
            /\ retries' = [retries EXCEPT ![p] = @ + 1]
            /\ queued' = S /\ queue' = Append(queue, p)
  <2>1. CASE Kicks(p)
    BY <2>1, QueueConstants DEF Failed, Kicks
  <2>2. CASE ~Kicks(p)
    <3>1. retries' = [retries EXCEPT ![p] = @ + 1] /\ queued' = Kept(S, p, retries')
      BY <2>2 DEF Failed
    <3>2. retries'[p] # 0
      BY <1>0, <3>1 DEF TypeOK
    <3> QED
      BY <1>0, <2>2, <3>1, <3>2, QueueConstants DEF Failed, Kicks, Kept
  <2> QED
    BY <2>1, <2>2
<1>2. failures' \in [Paths -> Nat] /\ retries' \in [Paths -> Nat]
  <2>1. failures \in [Paths -> Nat] /\ retries \in [Paths -> Nat]
    BY <1>0 DEF TypeOK
  <2>2. failures[p] + 1 \in Nat /\ retries[p] + 1 \in Nat
    BY <1>0
  <2>3. (IF failures[p] > MaxRetries THEN failures[p] ELSE failures[p] + 1) \in Nat
    BY <1>0, <2>2
  <2> HIDE DEF p
  <2>4. failures' \in [Paths -> Nat]
    BY <1>0, <1>1, <2>1, <2>3
  <2> QED
    BY <1>0, <1>1, <2>1, <2>2, <2>4
<1>9. /\ retries' = [retries EXCEPT ![p] = 0] \/ retries' = [retries EXCEPT ![p] = @ + 1]
      /\ queue' \in Seq(Paths) /\ queued' \in SUBSET Paths
  <2>1. S \in SUBSET Paths
    BY <1>0 DEF TypeOK
  <2>2. Append(queue, p) \in Seq(Paths)
    BY <1>0
  <2> HIDE DEF p
  <2> QED
    BY <1>0, <1>1, <2>1, <2>2
<1>3. TypeOK' /\ HandsOK'
  <2>1. worker' \in Worker /\ HandsOK'
    BY <1>1, QueueConstants DEF Worker, At, HandsOK
  <2> QED
    BY <1>0, <1>2, <1>9, <2>1 DEF TypeOK
<1> HIDE DEF p
<1>4. ASSUME NEW r \in Paths PROVE retries'[r] < MaxRetries
  <2>1. retries \in [Paths -> Nat] /\ retries[r] < MaxRetries /\ 0 < MaxRetries
    BY <1>0, QueueConstants DEF QueueInv, TypeOK
  <2>2. CASE r # p
    <3>1. retries'[r] = retries[r]
      BY <1>9, <2>1, <2>2
    <3> QED
      BY <2>1, <3>1
  <2>3. CASE r = p
    <3>1. retries'[r] = 0 \/ (retries'[r] = retries[p] + 1 /\ retries[p] + 1 < MaxRetries)
      BY <1>0, <1>1, <2>1, <2>3
    <3> QED
      BY <2>1, <3>1
  <2> QED
    BY <2>2, <2>3
<1>5. ASSUME NEW r \in Paths \ revoked
      PROVE  Once(r)' /\ Listed(r)' /\ Counted(r)'
  <2>1. Once(r) /\ Listed(r) /\ Counted(r) /\ (r \in S <=> r \in queued)
    BY DEF QueueInv
  <2>2. Handled(r) <=> r = p
    BY DEF Handled, p
  <2>3. ~Handled(r)' /\ worker'.pc # "idle"
    BY <1>1, QueueConstants DEF Handled, At
  <2>4. CASE queue' = queue /\ queued' = S \ {p}
    <3>1. InQueue(r)' = InQueue(r)
      BY <2>4 DEF InQueue
    <3>2. Once(r)' /\ Listed(r)'
      BY <2>1, <2>2, <2>3, <2>4, <3>1 DEF Once, Listed
    <3>3. CASE r # p
      <4>1. failures'[r] = failures[r] /\ retries'[r] = retries[r]
        BY <1>0, <1>1, <1>9, <3>3 DEF TypeOK
      <4> QED
        BY <2>1, <2>3, <2>4, <3>2, <4>1 DEF Counted
    <3>4. CASE r = p
      <4>1. p \in queued /\ p \notin queued'
        BY <2>1, <2>2, <2>4, <3>4 DEF Listed
      <4>2. failures[p] <= retries[p]
        BY <2>1, <3>4, <4>1 DEF Counted
      <4>3. failures'[p] \in {failures[p], failures[p] + 1}
        BY <1>0, <1>1 DEF TypeOK
      <4>4. failures'[p] <= MaxRetries
        BY <1>0, <4>2, <4>3, QueueConstants
      <4> QED
        BY <3>2, <3>4, <4>1, <4>4 DEF Counted
    <3> QED
      BY <3>2, <3>3, <3>4
  <2>5. CASE /\ queue' = Append(queue, p) /\ queued' = S
             /\ retries' = [retries EXCEPT ![p] = @ + 1]
    <3>1. InQueue(r)' <=> InQueue(r) \/ r = p
      BY <1>0, <2>5, Appended DEF InQueue
    <3>2. r = p => ~InQueue(r)
      BY <2>1, <2>2 DEF Once
    <3>3. \A i, j \in 1..Len(queue') : queue'[i] = r /\ queue'[j] = r => i = j
      BY <1>0, <2>1, <2>5, <3>2, Appended DEF Once, InQueue
    <3>4. Once(r)' /\ Listed(r)'
      BY <2>1, <2>2, <2>3, <2>5, <3>1, <3>3 DEF Once, Listed
    <3>5. Counted(r)'
      <4>1. CASE r # p
        <5>1. failures'[r] = failures[r] /\ retries'[r] = retries[r]
          BY <1>0, <1>1, <1>9, <4>1 DEF TypeOK
        <5> QED
          BY <2>1, <2>3, <2>5, <5>1 DEF Counted
      <4>2. CASE r = p
        <5>1. p \in queued /\ failures[p] <= retries[p]
          BY <2>1, <2>2, <4>2 DEF Listed, Counted
        <5>2. retries'[p] = retries[p] + 1
          BY <1>0, <2>5 DEF TypeOK
        <5>3. failures'[p] \in {failures[p], failures[p] + 1}
          BY <1>0, <1>1 DEF TypeOK
        <5>4. failures'[p] <= MaxRetries /\ failures'[p] <= retries'[p]
          BY <1>0, <5>1, <5>2, <5>3, QueueConstants
        <5> QED
          BY <2>3, <4>2, <5>4 DEF Counted
      <4> QED
        BY <4>1, <4>2
    <3> QED
      BY <3>4, <3>5
  <2> QED
    BY <1>1, <2>4, <2>5
<1> QED
  BY <1>3, <1>4, <1>5 DEF QueueInv

\* The steps of the processor that have no credential in hand.
LEMMA WaitingKeeps ==
  ASSUME QueueInv, PauseEnds \/ IdleFires \/ IdleEnds \/ UNCHANGED vars
  PROVE  QueueInv'
<1>0. TypeOK /\ HandsOK /\ worker \in Worker
  BY DEF QueueInv, TypeOK
<1>1. CASE UNCHANGED vars
  BY <1>1 DEF vars, QueueInv, TypeOK, HandsOK, Once, Listed, Counted, InQueue,
     Handled
<1>4. CASE PauseEnds
  <2>1. /\ worker' = At("waiting") /\ worker.path = None
        /\ UNCHANGED <<queue, queued, retries, revoked, failures>>
    BY <1>0, <1>4, QueueConstants DEF PauseEnds, HandsOK
  <2>2. TypeOK' /\ HandsOK'
    BY <1>0, <1>4, <2>1, QueueConstants
       DEF PauseEnds, TypeOK, HandsOK, Worker, At
  <2>3. worker'.path = worker.path /\ worker'.pc = "waiting"
    BY <2>1 DEF At
  <2> QED
    BY <2>1, <2>2, <2>3
       DEF QueueInv, Once, Listed, Counted, InQueue, Handled
<1>2. CASE IdleFires
  <2>1. \A r \in Paths \ revoked : r \notin queued
    BY <1>0, <1>2, QueueConstants
       DEF IdleFires, QueueInv, HandsOK, Listed, InQueue, Handled
  <2> QED
    BY <1>0, <1>2, <2>1, QueueConstants DEF IdleFires, QueueInv, TypeOK, HandsOK,
       Worker, At, Once, Listed, Counted, InQueue, Handled
<1>3. CASE IdleEnds
  <2>1. TypeOK' /\ HandsOK'
    BY <1>0, <1>3, QueueConstants DEF IdleEnds, TypeOK, HandsOK, Zero, Worker, At
  <2>2. \A p \in Paths : retries'[p] < MaxRetries
    BY <1>0, <1>3, QueueConstants DEF IdleEnds, Zero
  <2>3. \A p \in Paths \ revoked' : Once(p)' /\ Listed(p)'
    BY <1>0, <1>3, QueueConstants
       DEF IdleEnds, QueueInv, HandsOK, At, Once, Listed, InQueue, Handled
  <2>4. \A p \in Paths \ revoked' : Counted(p)'
    BY <1>0, <1>3, QueueConstants DEF IdleEnds, QueueInv, TypeOK, Zero, At, Counted
  <2> QED BY <2>1, <2>2, <2>3, <2>4 DEF QueueInv
<1> QED
  BY <1>1, <1>2, <1>3, <1>4

LEMMA QueueInvInductive == QueueInv /\ [Next]_vars => QueueInv'
<1> SUFFICES ASSUME QueueInv, [Next]_vars PROVE QueueInv'
  OBVIOUS
<1>0. /\ expired \in SUBSET Paths /\ queued \in SUBSET Paths
      /\ worker.pc \in {"locking", "posting"} => worker.path \in Paths
  BY DEF QueueInv, TypeOK, HandsOK, Worker
<1>1. CASE Lock
  <2>1. CASE worker.path \in stale
    <3>1. /\ worker.pc = "locking" /\ worker' = [worker EXCEPT !.pc = "posting"]
          /\ UNCHANGED <<queue, queued, retries, revoked, failures>>
      BY <1>1, <2>1 DEF Lock
    <3>2. worker \in Worker /\ HandsOK
      BY DEF QueueInv, TypeOK
    <3>3. /\ worker' \in Worker /\ worker'.pc = "posting"
          /\ worker'.path = worker.path
      BY <3>1, <3>2 DEF Worker
    <3>4. TypeOK' /\ HandsOK'
      BY <1>1, <3>1, <3>2, <3>3 DEF Lock, QueueInv, TypeOK, HandsOK
    <3> QED
      BY <3>1, <3>3, <3>4
         DEF QueueInv, Once, Listed, Counted, InQueue, Handled
  <2>2. CASE worker.path \notin stale
    BY <1>1, <2>2, DoneKeeps DEF Lock
  <2> QED
    BY <2>1, <2>2
<1>2. CASE Refreshed
  BY <1>2, DoneKeeps DEF Refreshed
<1>3. CASE RefreshFails
  BY <1>0, <1>3, FailingKeeps DEF RefreshFails
<1>4. CASE RefreshRejected
  <2>1. queued \subseteq (queued \ {worker.path}) \cup revoked
    BY <1>4 DEF RefreshRejected
  <2> QED
    BY <1>0, <1>4, <2>1, FailingKeeps DEF RefreshRejected
<1> QED
  BY <1>1, <1>2, <1>3, <1>4, TokensKeep, QueueingKeeps, TakingKeeps, WaitingKeeps
     DEF Next, Process

\* A credential that is not revoked is in one place at most, is kept out of the
\* queue exactly while it is in one, and fails MaxRetries times at most before
\* it is put aside: at every length of the queue and in every order of expiries,
\* refreshes by requests, failures and idle ends of the processor.
THEOREM QueueStaysSound == Spec => []QueueSound
<1>1. QueueInv => QueueSound
  <2> SUFFICES ASSUME QueueInv, NEW p \in Paths \ revoked
               PROVE  /\ Cardinality(Places(p)) + (IF Handled(p) THEN 1 ELSE 0) <= 1
                      /\ p \in queued <=> (Places(p) # {} \/ Handled(p))
                      /\ failures[p] <= MaxRetries
    BY DEF QueueInv, QueueSound, QueuedOnce, RetriesBounded
  <2>1. Once(p) /\ Listed(p) /\ Counted(p)
    BY DEF QueueInv
  <2>2. Places(p) # {} <=> InQueue(p)
    BY DEF Places, InQueue
  <2>3. Cardinality(Places(p)) = IF InQueue(p) THEN 1 ELSE 0
    <3>1. CASE InQueue(p)
      <4>1. PICK i \in 1..Len(queue) : queue[i] = p
        BY <3>1 DEF InQueue
      <4>2. Places(p) = {i}
        BY <2>1, <4>1 DEF Places, Once
      <4> QED
        BY <3>1, <4>2, FS_Singleton
    <3>2. CASE ~InQueue(p)
      BY <2>2, <3>2, FS_EmptySet
    <3> QED
      BY <3>1, <3>2
  <2> QED
    BY <2>1, <2>2, <2>3 DEF Once, Listed, Counted
<1> QED
  BY <1>1, InitInv, QueueInvInductive, PTL DEF Spec

-----------------------------------------------------------------------------
(***************************************************************************)
(* The tokens of a credential.                                             *)
(***************************************************************************)
Cred == [access : Nat, refresh : Nat, project : BOOLEAN]
Pcs == {"idle", "load", "read", "lock", "post", "validate", "discover", "info"}

TokTypes ==
  /\ TokTypeOK
  /\ file \in Cred
  /\ issuer \in [access : Nat, refresh : Nat, expiring : BOOLEAN, revoked : BOOLEAN,
                 rotates : BOOLEAN]
  /\ task \in [Tasks -> [pc : Pcs, obj : {0} \cup Objects]]
  /\ grants \in Nat
  /\ {disk, inRotation, lost, cutShort, projectCached} \subseteq BOOLEAN

\* The start alone fills the cache; until then nothing else runs.
Phases ==
  /\ \A u \in Users : task[u].pc \notin {"load", "read", "info"}
  /\ cached = 0 <=> task[Starter].pc \in {"load", "read"}
  /\ cached = 0 => /\ buffered = 0 /\ ~inRotation
                   /\ \A u \in Users : task[u].pc = "idle"

\* A record has the tokens of an earlier grant, or both of the newest.
Genuine(creds) ==
  /\ creds.access <= issuer.access
  /\ creds.access = issuer.access => creds.refresh = issuer.refresh
Genuines == issuer.access > 0 /\ Genuine(file) /\ \A i \in Objects : Genuine(heap[i])

New(i) == heap[i].access = issuer.access

\* Where the newest token is while none has been lost and no refresh is about
\* to save.
TokensKept ==
  ~lost /\ ~Saving =>
    /\ cached = 0 => file.access = issuer.access
    /\ cached # 0 => New(cached)
    /\ ~cutShort =>
         /\ buffered # 0 => New(buffered)
         /\ cached # 0 /\ buffered = 0 => file.access = issuer.access

\* What a task may count on.
TaskOK(t) ==
  /\ task[t].pc = "validate" => ~issuer.expiring /\ New(task[t].obj)
  /\ ~lost =>
       /\ task[t].pc = "post" => issuer.expiring
       /\ issuer.expiring /\ task[t].pc \in {"lock", "post"} => New(task[t].obj)

Grants == (issuer.expiring => grants = 0) /\ GrantedOnce

TokInv ==
  /\ TokTypes /\ Phases /\ Genuines /\ TokensKept
  /\ \A t \in Tasks : TaskOK(t)
  /\ Grants /\ HeaderFresh /\ NotLockedOut

-----------------------------------------------------------------------------
\* A task that holds no object leaves room for a new one.
LEMMA Room ==
  ASSUME TokTypes, NEW t \in Tasks, task[t].obj = 0
  PROVE  /\ NewObject \in Objects
         /\ NewObject \notin {cached, buffered}
         /\ \A u \in Tasks : task[u].obj # NewObject
<1> DEFINE Others == Tasks \ {t}
           held == [u \in Others |-> task[u].obj]
           Held == {task[u].obj : u \in Others}
           N == Cardinality(Users)
<1>1. IsFiniteSet(Users) /\ N \in Nat
  BY TokenConstants, FS_CardinalityType
<1>2. IsFiniteSet(Others) /\ Cardinality(Others) = N
  <2>1. Starter \notin Users /\ t \in Users \cup {Starter}
    BY TokenConstants DEF Tasks
  <2>2. IsFiniteSet(Tasks) /\ Cardinality(Tasks) = N + 1
    BY <1>1, <2>1, FS_AddElement DEF Tasks
  <2> QED BY <2>1, <2>2, <1>1, FS_RemoveElement DEF Tasks
<1>3. IsFiniteSet(Held) /\ Cardinality(Held) <= N
  <2>1. held \in Surjection(Others, Held)
    BY DEF Surjection
  <2> HIDE DEF held, Held, Others
  <2> QED BY <2>1, <1>2, FS_Surjection
<1>4. IsFiniteSet((Held \cup {cached}) \cup {buffered})
      /\ Cardinality((Held \cup {cached}) \cup {buffered}) <= N + 2
  <2> HIDE DEF Held, N
  <2>1. Cardinality(Held) \in Nat
    BY <1>3, FS_CardinalityType
  <2>2. IsFiniteSet(Held \cup {cached}) /\ Cardinality(Held \cup {cached}) <= N + 1
    <3>1. /\ IsFiniteSet(Held \cup {cached})
          /\ \/ Cardinality(Held \cup {cached}) = Cardinality(Held)
             \/ Cardinality(Held \cup {cached}) = Cardinality(Held) + 1
      BY <1>3, FS_AddElement
    <3> QED BY <1>1, <1>3, <2>1, <3>1
  <2>3. Cardinality(Held \cup {cached}) \in Nat
    BY <2>2, FS_CardinalityType
  <2> QED BY <1>1, <2>2, <2>3, FS_AddElement
<1>5. IsFiniteSet(Objects) /\ Cardinality(Objects) = N + 3
  BY <1>1, FS_Interval DEF Objects
<1>6. PICK i \in Objects : i \notin (Held \cup {cached}) \cup {buffered}
  <2> HIDE DEF Held, N
  <2>1. SUFFICES ASSUME Objects \subseteq (Held \cup {cached}) \cup {buffered}
                 PROVE  FALSE
    OBVIOUS
  <2>2. Cardinality(Objects) <= Cardinality((Held \cup {cached}) \cup {buffered})
    BY <1>4, <2>1, FS_Subset
  <2> QED BY <1>1, <1>4, <1>5, <2>2, FS_CardinalityType
<1>7. 0 \notin Objects
  BY <1>1 DEF Objects
<1>8. \E j \in Objects : j \notin {cached, buffered} \cup {task[u].obj : u \in Tasks}
  BY <1>6, <1>7
<1> QED BY <1>8 DEF NewObject

\* The objects after a step that leaves h: what is referred to stays.
Leaves(h) ==
  /\ heap' \in [Objects -> Cred]
  /\ \A i \in Objects : heap'[i] = h[i] \/ heap'[i] = Blank
  /\ \A i \in Objects :
       i = cached' \/ i = buffered' \/ (\E t \in Tasks : task'[t].obj = i)
         => heap'[i] = h[i]

LEMMA Keeps ==
  ASSUME NEW h \in [Objects -> Cred], Keep(h)
  PROVE  Leaves(h)
<1>1. Blank \in Cred
  BY DEF Blank, Cred
<1> QED BY <1>1 DEF Keep, Referred, Leaves

\* What a move of one task leaves of the others.
LEMMA Moves ==
  ASSUME TokTypes, NEW t \in Tasks, NEW pc \in Pcs, NEW i \in {0} \cup Objects,
         Go(t, pc, i)
  PROVE  /\ task' \in [Tasks -> [pc : Pcs, obj : {0} \cup Objects]]
         /\ task'[t].pc = pc /\ task'[t].obj = i
         /\ \A u \in Tasks : u # t => task'[u] = task[u]
BY DEF TokTypes, Go

LEMMA InitialTokens == TokInit => TokInv
<1> SUFFICES ASSUME TokInit PROVE TokInv
  OBVIOUS
<1>0. Cardinality(Users) \in Nat /\ 0 \notin Objects /\ Starter \notin Users /\ 0 \notin Tasks
  BY TokenConstants, FS_CardinalityType DEF Objects, Tasks
<1>1. /\ heap \in [Objects -> Cred] /\ file \in Cred
      /\ file.access = 1 /\ file.refresh = 1
      /\ \A i \in Objects : heap[i].access = 0 /\ heap[i].refresh = 0
  BY DEF TokInit, Blank, Cred
<1>2. /\ task \in [Tasks -> [pc : Pcs, obj : {0} \cup Objects]]
      /\ task[Starter].pc = "load" /\ task[Starter].obj = 0
      /\ \A u \in Users : task[u].pc = "idle"
      /\ \A t \in Tasks : task[t].pc \in {"idle", "load"} /\ task[t].obj = 0
  BY <1>0 DEF TokInit, Idle, Tasks, Pcs
<1>3. TokTypes
  BY <1>0, <1>1, <1>2 DEF TokInit, TokTypes, TokTypeOK, Cred
<1>4. Phases /\ Genuines
  BY <1>0, <1>1, <1>2 DEF TokInit, Phases, Genuines, Genuine
<1>5. TokensKept /\ Grants /\ HeaderFresh /\ NotLockedOut
  BY <1>1 DEF TokInit, TokensKept, Grants, GrantedOnce, HeaderFresh, NotLockedOut
<1>6. \A t \in Tasks : TaskOK(t)
  BY <1>2 DEF TaskOK
<1> QED BY <1>3, <1>4, <1>5, <1>6 DEF TokInv

\* One task at a time holds the lock.
LEMMA OneHolds ==
  ASSUME TokTypes, NEW t \in Tasks, NEW u \in Tasks,
         task[t].pc \in {"read", "post", "validate"},
         task[u].pc \in {"read", "post", "validate"}
  PROVE  t = u
BY DEF TokTypes, TokTypeOK

LEMMA Answers ==
  ASSUME TokInv, NEW t \in Tasks, NEW creds, NEW failed \in BOOLEAN,
         Answer(t, creds, failed)
  PROVE  /\ \E pc \in {"info", "idle", "discover"} :
              /\ Go(t, pc, 0)
              /\ pc = "info" <=> t = Starter
         /\ projectCached' \in BOOLEAN
         /\ failed \/ ~Expired(creds) => HeaderFresh'
BY DEF Answer, TokInv, TokTypes, HeaderFresh

\* What the other tasks count on, when the issuer's tokens and their objects
\* stay as they are.
LEMMA OthersOK ==
  ASSUME TokInv, NEW u \in Tasks, TokTypes', UNCHANGED issuer, ~lost' => ~lost,
         task'[u] = task[u], task[u].obj # 0 => heap'[task[u].obj] = heap[task[u].obj]
  PROVE  TaskOK(u)'
<1>1. TaskOK(u) /\ (task[u].obj # 0 <=> task[u].pc \in {"lock", "post", "validate"})
  BY DEF TokInv, TokTypes, TokTypeOK
<1> QED BY <1>1 DEF TaskOK, New

\* Types after t went to pc, holding object i.
LEMMA TypesStep ==
  ASSUME TokInv, NEW t \in Tasks, NEW pc \in Pcs, NEW i \in {0} \cup Objects, Go(t, pc, i),
         heap' \in [Objects -> Cred], file' \in Cred,
         {cached', buffered'} \subseteq {0} \cup Objects,
         issuer' \in [access : Nat, refresh : Nat, expiring : BOOLEAN, revoked : BOOLEAN,
                     rotates : BOOLEAN],
         grants' \in Nat, {disk', inRotation', lost', cutShort', projectCached'} \subseteq BOOLEAN,
         i # 0 <=> pc \in {"lock", "post", "validate"},
         holder' \in {0} \cup Tasks, holder' = t <=> pc \in {"read", "post", "validate"},
         \A u \in Tasks \ {t} : holder' = u <=> holder = u
  PROVE  TokTypes'
<1>1. TokTypes
  BY DEF TokInv
<1>2. /\ task' \in [Tasks -> [pc : Pcs, obj : {0} \cup Objects]]
      /\ task'[t].pc = pc /\ task'[t].obj = i
      /\ \A u \in Tasks : u # t => task'[u] = task[u]
  BY <1>1, Moves
<1>3. ASSUME NEW u \in Tasks
      PROVE  /\ task'[u].pc \in Pcs
             /\ (task'[u].obj # 0) <=> (task'[u].pc \in {"lock", "post", "validate"})
             /\ (holder' = u) <=> (task'[u].pc \in {"read", "post", "validate"})
  BY <1>1, <1>2 DEF TokTypes, TokTypeOK
<1> QED BY <1>1, <1>2, <1>3 DEF TokTypes, TokTypeOK, Cred, Pcs

\* A step of t that changes no token: it goes to pc, holding object i.
LEMMA Quiet ==
  ASSUME TokInv, NEW t \in Tasks, NEW pc \in Pcs \ {"validate"},
         NEW i \in {0} \cup Objects, Go(t, pc, i), Leaves(heap),
         task[t].pc # "validate", i # 0 <=> pc \in {"lock", "post"},
         ~lost /\ i # 0 => (pc = "post" => issuer.expiring),
         ~lost /\ i # 0 => (issuer.expiring => New(i)),
         holder' \in {0} \cup Tasks, holder' = t <=> pc \in {"read", "post"},
         \A u \in Tasks \ {t} : holder' = u <=> holder = u,
         t = Starter => (cached = 0 <=> pc \in {"load", "read"}),
         t # Starter => cached # 0 /\ pc \notin {"load", "read", "info"},
         UNCHANGED <<cached, file, buffered, disk, issuer, inRotation, grants, lost, cutShort>>,
         projectCached' \in BOOLEAN, HeaderFresh', NotLockedOut'
  PROVE  TokInv'
<1>1. TokTypes /\ heap \in [Objects -> Cred] /\ 0 \notin Objects /\ cached \in {0} \cup Objects
      /\ buffered \in {0} \cup Objects /\ pc \in Pcs
  BY TokenConstants, FS_CardinalityType DEF TokInv, TokTypes, TokTypeOK, Cred, Objects
<1>2. /\ task' \in [Tasks -> [pc : Pcs, obj : {0} \cup Objects]]
      /\ task'[t].pc = pc /\ task'[t].obj = i
      /\ \A u \in Tasks : u # t => task'[u] = task[u]
  BY <1>1, Moves
<1>3. TokTypes'
  <2>1. heap' \in [Objects -> Cred]
    BY DEF Leaves
  <2>2. /\ file' \in Cred /\ {cached', buffered'} \subseteq {0} \cup Objects /\ grants' \in Nat
        /\ issuer' \in [access : Nat, refresh : Nat, expiring : BOOLEAN, revoked : BOOLEAN,
                       rotates : BOOLEAN]
        /\ {disk', inRotation', lost', cutShort', projectCached'} \subseteq BOOLEAN
    BY <1>1 DEF TokTypes
  <2> QED BY <1>1, <2>1, <2>2, TypesStep
<1>4. Phases'
  BY <1>2, TokenConstants DEF TokInv, Phases, Tasks
<1>5. Genuines'
  BY DEF TokInv, Genuines, Genuine, Leaves, Blank, TokTypes
<1>6. TokensKept'
  <2>1. Saving' <=> Saving
    BY <1>2 DEF Saving
  <2>2. /\ cached # 0 => heap'[cached] = heap[cached]
        /\ buffered # 0 => heap'[buffered] = heap[buffered]
    BY <1>1 DEF Leaves
  <2> QED BY <2>1, <2>2 DEF TokInv, TokensKept, New
<1>7. ASSUME NEW u \in Tasks PROVE TaskOK(u)'
  <2>1. CASE u # t
    <3>1. task[u].obj # 0 => heap'[task[u].obj] = heap[task[u].obj]
      BY <1>1, <1>2, <2>1 DEF Leaves, TokTypes
    <3> QED BY <1>2, <1>3, <2>1, <3>1, OthersOK
  <2>2. CASE u = t
    <3>1. i # 0 => heap'[i] = heap[i]
      BY <1>2 DEF Leaves
    <3> QED BY <1>2, <2>2, <3>1 DEF TaskOK, New
  <2> QED BY <2>1, <2>2
<1>8. Grants'
  BY DEF TokInv, Grants, GrantedOnce
<1> QED BY <1>3, <1>4, <1>5, <1>6, <1>7, <1>8 DEF TokInv

\* The same, for a task that looks at the cached object, gets its header or
\* goes to wait for the lock.
LEMMA UsesCached ==
  ASSUME TokInv, NEW t \in Tasks, cached # 0, Use(t, heap[cached], cached), Leaves(heap),
         task[t].pc \notin {"read", "post", "validate"},
         UNCHANGED <<cached, file, buffered, disk, issuer, holder, inRotation, marked,
                     grants, lost, cutShort>>
  PROVE  TokInv'
<1>1. /\ cached \in Objects /\ 0 \notin Objects /\ TokTypes /\ holder \in {0} \cup Tasks
      /\ holder # t
  BY TokenConstants, FS_CardinalityType DEF TokInv, TokTypes, TokTypeOK, Objects
<1>2. NotLockedOut'
  BY DEF TokInv, NotLockedOut
<1>3. CASE Expired(heap[cached])
  <2>1. Go(t, "lock", cached) /\ HeaderFresh' /\ projectCached' \in BOOLEAN
    BY <1>3 DEF Use, TokInv, HeaderFresh, TokTypes
  <2>2. ~lost /\ issuer.expiring => New(cached)
    <3>1. issuer.expiring => ~Saving
      BY DEF TokInv, TaskOK, Saving
    <3> QED BY <3>1 DEF TokInv, TokensKept
  <2> QED BY <1>1, <1>2, <2>1, <2>2, Quiet DEF Pcs
<1>4. CASE ~Expired(heap[cached])
  <2>1. PICK pc \in {"info", "idle", "discover"} :
          /\ Go(t, pc, 0) /\ (pc = "info" <=> t = Starter)
          /\ HeaderFresh' /\ projectCached' \in BOOLEAN
    BY <1>4, Answers DEF Use
  <2> QED BY <1>1, <1>2, <2>1, Quiet DEF Pcs
<1> QED BY <1>3, <1>4

\* Facts about the values every step needs.
LEMMA Values ==
  ASSUME TokInv
  PROVE  /\ TokTypes /\ heap \in [Objects -> Cred] /\ file \in Cred /\ 0 \notin Objects
         /\ cached \in {0} \cup Objects /\ buffered \in {0} \cup Objects
         /\ holder \in {0} \cup Tasks /\ Starter \in Tasks /\ Starter \notin Users
         /\ 0 \notin Tasks /\ issuer.access \in Nat /\ issuer.access > 0
BY TokenConstants, FS_CardinalityType
   DEF TokInv, TokTypes, TokTypeOK, Cred, Objects, Tasks, Genuines

LEMMA BeginStep ==
  ASSUME TokInv, NEW t \in Users, Begin(t)
  PROVE  TokInv'
<1>1. t \in Tasks /\ cached # 0
  BY DEF Begin, TokInv, Phases, Tasks
<1>2. Leaves(heap)
  BY Values, Keeps DEF Begin
<1> QED BY <1>1, <1>2, UsesCached DEF Begin

LEMMA LoadStep ==
  ASSUME TokInv, NEW t \in Tasks, Load(t)
  PROVE  TokInv'
<1>1. t = Starter /\ cached = 0 /\ Go(t, "read", 0) /\ holder' = t /\ holder = 0
  BY DEF Load, TokInv, Phases, Tasks
<1>2. Leaves(heap)
  BY Values, Keeps DEF Load
<1>3. /\ UNCHANGED <<cached, file, buffered, disk, issuer, inRotation, grants, lost, cutShort>>
      /\ projectCached' \in BOOLEAN /\ HeaderFresh' /\ NotLockedOut'
      /\ task[t].pc # "validate"
  BY <1>1 DEF Load, TokInv, HeaderFresh, NotLockedOut, TokTypes
<1> QED BY <1>1, <1>2, <1>3, Values, Quiet DEF Pcs

LEMMA AcquireStep ==
  ASSUME TokInv, NEW t \in Tasks, Acquire(t)
  PROVE  TokInv'
<1>1. /\ task[t].pc = "lock" /\ holder = 0 /\ cached # 0 /\ ~Saving
      /\ task[t].obj \in Objects
  BY Values DEF Acquire, TokInv, TokTypes, TokTypeOK, Phases, Tasks, Saving
<1>2. Leaves(heap)
  BY Values, Keeps DEF Acquire
<1>3. UNCHANGED <<cached, file, buffered, disk, issuer, inRotation, grants, lost, cutShort>>
      /\ NotLockedOut'
  BY DEF Acquire, TokInv, NotLockedOut
<1>4. CASE Expired(heap[cached])
  <2>1. /\ Go(t, "post", task[t].obj) /\ holder' = t /\ HeaderFresh'
        /\ projectCached' \in BOOLEAN
    BY <1>4 DEF Acquire, Needed, TokInv, TokTypes, HeaderFresh
  <2>2. ~lost => issuer.expiring
    BY <1>1, <1>4, Values DEF TokInv, TokensKept, New, Expired
  <2>3. ~lost => (issuer.expiring => New(task[t].obj))
    BY <1>1 DEF TokInv, TaskOK
  <2> QED BY <1>1, <1>2, <1>3, <2>1, <2>2, <2>3, Values, Quiet DEF Pcs
<1>5. CASE ~Expired(heap[cached])
  <2>1. PICK pc \in {"info", "idle", "discover"} :
          /\ Go(t, pc, 0) /\ (pc = "info" <=> t = Starter)
          /\ HeaderFresh' /\ projectCached' \in BOOLEAN
    BY <1>5, Answers DEF Acquire, Needed, AlreadyRenewed
  <2>2. holder' = holder
    BY <1>5 DEF Acquire, Needed
  <2> QED BY <1>1, <1>2, <1>3, <2>1, <2>2, Values, Quiet DEF Pcs
<1> QED BY <1>4, <1>5

LEMMA GivesUp ==
  ASSUME TokInv, NEW t \in Tasks, task[t].pc = "post", NEW mark \in {"no", "refused"},
         GiveUp(t, mark), mark = "refused" => issuer.revoked \/ lost
  PROVE  TokInv'
<1>1. holder = t /\ cached # 0
  BY DEF TokInv, TokTypes, TokTypeOK, Phases, Tasks
<1>2. Leaves(heap)
  BY Values, Keeps DEF GiveUp
<1>3. UNCHANGED <<cached, file, buffered, disk, issuer, inRotation, grants, lost, cutShort>>
      /\ holder' = 0 /\ NotLockedOut'
  BY DEF GiveUp, TokInv, NotLockedOut
<1>4. PICK pc \in {"info", "idle", "discover"} :
        /\ Go(t, pc, 0) /\ (pc = "info" => t = Starter)
        /\ HeaderFresh' /\ projectCached' \in BOOLEAN
  <2>1. CASE t = Starter
    BY <2>1 DEF GiveUp, TokInv, TokTypes, HeaderFresh
  <2>2. CASE t # Starter
    BY <2>2, Answers DEF GiveUp
  <2> QED BY <2>1, <2>2
<1> QED BY <1>1, <1>2, <1>3, <1>4, Values, Quiet DEF Pcs

LEMMA PostFailsStep ==
  ASSUME TokInv, NEW t \in Tasks, PostFails(t)
  PROVE  TokInv'
BY GivesUp DEF PostFails

\* Only a refresh token that is not the newest is refused before its owner
\* revokes it, and a task that posts has the newest while none is lost.
LEMMA RefusedStep ==
  ASSUME TokInv, NEW t \in Tasks, Refused(t)
  PROVE  TokInv'
<1>1. task[t].pc = "post" /\ task[t].obj \in Objects /\ GiveUp(t, "refused")
  BY Values DEF Refused, TokInv, TokTypes, TokTypeOK
<1>2. issuer.revoked \/ lost
  BY <1>1 DEF Refused, Accepted, TokInv, TaskOK, New, Genuines, Genuine
<1> QED BY <1>1, <1>2, GivesUp

LEMMA DiscoveryFailsStep ==
  ASSUME TokInv, NEW t \in Tasks, DiscoveryFails(t)
  PROVE  TokInv'
<1>1. task[t].pc = "discover" /\ cached # 0 /\ holder # t
  BY DEF DiscoveryFails, TokInv, TokTypes, TokTypeOK, Phases, Tasks
<1>2. Leaves(heap)
  BY Values DEF DiscoveryFails, Leaves
<1>3. UNCHANGED <<cached, file, buffered, disk, issuer, inRotation, grants, lost, cutShort,
                  holder>>
      /\ projectCached' \in BOOLEAN /\ HeaderFresh' /\ NotLockedOut' /\ Go(t, "idle", 0)
  BY DEF DiscoveryFails, TokInv, HeaderFresh, NotLockedOut, TokTypes
<1> QED BY <1>1, <1>2, <1>3, Values, Quiet DEF Pcs

LEMMA ReadStep ==
  ASSUME TokInv, NEW t \in Tasks, Read(t)
  PROVE  TokInv'
<1> DEFINE i == NewObject
<1>1. /\ t = Starter /\ cached = 0 /\ buffered = 0 /\ ~inRotation
      /\ task[t].pc = "read" /\ task[t].obj = 0 /\ holder = t
      /\ \A u \in Users : task[u].pc = "idle" /\ task[u].obj = 0
      /\ ~Saving
  BY DEF Read, TokInv, TokTypes, TokTypeOK, Phases, Tasks, Saving
<1>2. i \in Objects
  BY <1>1, Values, Room
<1> HIDE DEF i
<1>3. /\ cached' = i /\ holder' = 0 /\ Use(t, file, i) /\ Keep([heap EXCEPT ![i] = file])
      /\ UNCHANGED <<file, buffered, disk, issuer, inRotation, marked, grants, lost, cutShort>>
  BY DEF Read, i
<1>4. Leaves([heap EXCEPT ![i] = file])
  BY <1>3, Values, Keeps
<1>5. heap' \in [Objects -> Cred] /\ heap'[i] = file
      /\ \A j \in Objects : heap'[j] \in {heap[j], file, Blank}
  BY <1>2, <1>3, <1>4, Values DEF Leaves
<1>6. PICK pc \in {"lock", "info"}, o \in {0, i} :
        /\ Go(t, pc, o) /\ HeaderFresh' /\ projectCached' \in BOOLEAN
        /\ o = IF pc = "lock" THEN i ELSE 0
  <2>1. CASE Expired(file)
    BY <1>3, <2>1 DEF Use, TokInv, HeaderFresh, TokTypes
  <2>2. CASE ~Expired(file)
    BY <1>1, <1>3, <2>2, Answers DEF Use
  <2> QED BY <2>1, <2>2
<1>7. /\ task' \in [Tasks -> [pc : Pcs, obj : {0} \cup Objects]]
      /\ task'[t].pc = pc /\ task'[t].obj = o
      /\ \A u \in Tasks : u # t => task'[u] = task[u]
  <2>1. pc \in Pcs /\ o \in {0} \cup Objects /\ Go(t, pc, o)
    BY <1>2, <1>6 DEF Pcs
  <2>2. TokTypes
    BY Values
  <2> QED BY <2>1, <2>2, Moves
<1>8. TokTypes'
  <2>1. /\ pc \in Pcs /\ o \in {0} \cup Objects /\ Go(t, pc, o)
        /\ o # 0 <=> pc \in {"lock", "post", "validate"}
    BY <1>2, <1>6, Values DEF Pcs
  <2>2. /\ {cached', buffered'} \subseteq {0} \cup Objects /\ grants' \in Nat /\ file' \in Cred
        /\ issuer' \in [access : Nat, refresh : Nat, expiring : BOOLEAN, revoked : BOOLEAN,
                       rotates : BOOLEAN]
        /\ {disk', inRotation', lost', cutShort', projectCached'} \subseteq BOOLEAN
    BY <1>2, <1>3, <1>6, Values DEF TokTypes
  <2>3. /\ holder' \in {0} \cup Tasks /\ (holder' = t <=> pc \in {"read", "post", "validate"})
        /\ \A u \in Tasks \ {t} : holder' = u <=> holder = u
    BY <1>1, <1>3, Values
  <2> QED BY <1>5, <2>1, <2>2, <2>3, TypesStep
<1>9. Phases'
  BY <1>1, <1>2, <1>3, <1>7, Values DEF TokInv, Phases, Tasks
<1>10. Genuines'
  BY <1>3, <1>5, Values DEF TokInv, Genuines, Genuine, Blank
<1>11. TokensKept'
  BY <1>1, <1>2, <1>3, <1>5, Values DEF TokInv, TokensKept, New
<1>12. ASSUME NEW u \in Tasks PROVE TaskOK(u)'
  <2>1. CASE u # t
    BY <1>1, <1>7, <2>1 DEF TaskOK, Tasks
  <2>2. CASE u = t
    BY <1>1, <1>2, <1>3, <1>5, <1>6, <1>7, <2>2, Values DEF TaskOK, New, TokInv, TokensKept
  <2> QED BY <2>1, <2>2
<1>13. Grants' /\ NotLockedOut'
  BY <1>3 DEF TokInv, Grants, GrantedOnce, NotLockedOut
<1> QED BY <1>6, <1>8, <1>9, <1>10, <1>11, <1>12, <1>13 DEF TokInv

\* The newest token is now in the object of t, and every other record is older.
LEMMA GrantedStep ==
  ASSUME TokInv, NEW t \in Tasks, Granted(t)
  PROVE  TokInv'
<1> DEFINE i == task[t].obj
           new == WithGrant(heap[i], issuer')
<1>1. /\ task[t].pc = "post" /\ i \in Objects /\ holder = t /\ ~Saving
      /\ issuer.refresh \in Nat
  BY Values DEF Granted, TokInv, TokTypes, TokTypeOK, Saving
<1>2. /\ issuer' \in [access : Nat, refresh : Nat, expiring : BOOLEAN, revoked : BOOLEAN,
                      rotates : BOOLEAN]
      /\ issuer'.access = issuer.access + 1 /\ issuer'.expiring = FALSE
      /\ issuer'.revoked = issuer.revoked
  <2>1. issuer \in [access : Nat, refresh : Nat, expiring : BOOLEAN, revoked : BOOLEAN,
                    rotates : BOOLEAN]
    BY Values DEF TokTypes
  <2> DEFINE r == IF issuer.rotates THEN issuer.refresh + 1 ELSE issuer.refresh
  <2>2. issuer' = [issuer EXCEPT !.access = issuer.access + 1, !.expiring = FALSE,
                                 !.refresh = r]
    BY DEF Granted
  <2>3. r \in Nat
    BY <1>1
  <2>4. issuer.access + 1 \in Nat
    BY Values
  <2> HIDE DEF r
  <2> QED BY <2>1, <2>2, <2>3, <2>4
<1>3. new \in Cred /\ new.access = issuer'.access /\ new.refresh = issuer'.refresh
  BY <1>1, <1>2, Values DEF WithGrant, Cred
<1>4. [heap EXCEPT ![i] = new] \in [Objects -> Cred] /\ Keep([heap EXCEPT ![i] = new])
  BY <1>1, <1>3, Values DEF Granted
<1>5. Leaves([heap EXCEPT ![i] = new])
  BY <1>4, Keeps
<1>6. Go(t, "validate", i)
      /\ UNCHANGED <<cached, file, buffered, disk, holder, inRotation, marked,
                     projectCached, lost, cutShort, staleSent>>
      /\ grants' = grants + 1
  BY DEF Granted
<1> HIDE DEF i, new
<1>7. /\ task' \in [Tasks -> [pc : Pcs, obj : {0} \cup Objects]]
      /\ task'[t].pc = "validate" /\ task'[t].obj = i
      /\ \A u \in Tasks : u # t => task'[u] = task[u]
  BY <1>1, <1>6, Values, Moves DEF Pcs
<1>8. heap' \in [Objects -> Cred] /\ heap'[i] = new
      /\ \A j \in Objects : heap'[j] \in {heap[j], new, Blank}
  BY <1>1, <1>5, <1>7, Values DEF Leaves
<1>9. TokTypes'
  <2>1. {cached', buffered'} \subseteq {0} \cup Objects /\ grants' \in Nat /\ file' \in Cred
        /\ {disk', inRotation', lost', cutShort', projectCached'} \subseteq BOOLEAN
    BY <1>6, Values DEF TokTypes
  <2>2. /\ holder' \in {0} \cup Tasks /\ holder' = t
        /\ \A u \in Tasks \ {t} : holder' = u <=> holder = u
    BY <1>1, <1>6, Values
  <2> QED BY <1>1, <1>2, <1>6, <1>8, <2>1, <2>2, Values, TypesStep DEF Pcs
<1>10. Phases'
  BY <1>1, <1>6, <1>7, Values DEF TokInv, Phases, Tasks
<1>11. Genuines'
  BY <1>2, <1>3, <1>6, <1>8, Values DEF TokInv, Genuines, Genuine, Blank, Cred
<1>12. TokensKept'
  BY <1>7 DEF TokensKept, Saving
<1>13. ASSUME NEW u \in Tasks PROVE TaskOK(u)'
  <2>1. CASE u # t
    <3>1. task[u].pc \notin {"post", "validate"}
      BY <1>1, <2>1, Values, OneHolds
    <3> QED BY <1>2, <1>7, <2>1, <3>1 DEF TaskOK
  <2>2. CASE u = t
    BY <1>2, <1>3, <1>7, <1>8, <2>2 DEF TaskOK, New
  <2> QED BY <2>1, <2>2
<1>14. Grants'
  BY <1>1, <1>2, <1>6 DEF TokInv, Grants, GrantedOnce, TaskOK
<1>15. HeaderFresh' /\ NotLockedOut'
  BY <1>2, <1>6 DEF TokInv, HeaderFresh, NotLockedOut
<1> QED BY <1>9, <1>10, <1>11, <1>12, <1>13, <1>14, <1>15 DEF TokInv

\* Saving object i of the objects h.
LEMMA Saves ==
  ASSUME TokInv, NEW h, NEW i \in Objects, Save(h, i), h[i] \in Cred
  PROVE  /\ cached' = i /\ file' \in Cred /\ buffered' \in {0, i}
         /\ file' \in {file, h[i]}
         /\ buffered' = 0 => file' = h[i]
BY Values DEF Save

LEMMA ValidatedStep ==
  ASSUME TokInv, NEW t \in Tasks, Validated(t)
  PROVE  TokInv'
<1> DEFINE i == task[t].obj
<1>1. /\ task[t].pc = "validate" /\ i \in Objects /\ holder = t /\ cached # 0
      /\ ~issuer.expiring /\ heap[i].access = issuer.access
  BY Values DEF Validated, TokInv, TokTypes, TokTypeOK, Phases, TaskOK, New, Tasks
<1>2. /\ Save(heap, i) /\ holder' = 0 /\ Answer(t, heap[i], FALSE) /\ Keep(heap)
      /\ UNCHANGED <<disk, issuer, inRotation, marked, grants, lost, cutShort>>
  BY DEF Validated
<1> HIDE DEF i
<1>3. heap[i] \in Cred
  BY <1>1, Values
<1>4. /\ cached' = i /\ file' \in Cred /\ buffered' \in {0, i}
      /\ file' \in {file, heap[i]} /\ (buffered' = 0 => file' = heap[i])
  BY <1>1, <1>2, <1>3, Saves
<1>5. PICK pc \in {"info", "idle", "discover"} :
        /\ Go(t, pc, 0) /\ (pc = "info" <=> t = Starter)
        /\ HeaderFresh' /\ projectCached' \in BOOLEAN
  <2>1. ~Expired(heap[i])
    BY <1>1, Values DEF Expired
  <2> QED BY <1>2, <2>1, Answers
<1>6. /\ task' \in [Tasks -> [pc : Pcs, obj : {0} \cup Objects]]
      /\ task'[t].pc = pc /\ task'[t].obj = 0
      /\ \A u \in Tasks : u # t => task'[u] = task[u]
  <2>1. pc \in Pcs /\ 0 \in {0} \cup Objects /\ Go(t, pc, 0)
    BY <1>5 DEF Pcs
  <2>2. TokTypes
    BY Values
  <2> QED BY <2>1, <2>2, Moves
<1>7. Leaves(heap)
  BY <1>2, Values, Keeps
<1>8. TokTypes'
  <2>1. /\ heap' \in [Objects -> Cred] /\ grants' \in Nat /\ file' \in Cred
        /\ {cached', buffered'} \subseteq {0} \cup Objects
        /\ issuer' \in [access : Nat, refresh : Nat, expiring : BOOLEAN, revoked : BOOLEAN,
                       rotates : BOOLEAN]
        /\ {disk', inRotation', lost', cutShort', projectCached'} \subseteq BOOLEAN
    BY <1>1, <1>2, <1>4, <1>5, <1>7, Values DEF TokTypes, Leaves
  <2>2. /\ holder' \in {0} \cup Tasks /\ (holder' = t <=> pc \in {"read", "post", "validate"})
        /\ \A u \in Tasks \ {t} : holder' = u <=> holder = u
    BY <1>1, <1>2, Values
  <2> QED BY <1>5, <2>1, <2>2, TypesStep DEF Pcs
<1>9. Phases'
  BY <1>1, <1>2, <1>4, <1>5, <1>6, Values DEF TokInv, Phases, Tasks
<1>10. Genuines'
  <2>1. Genuine(heap[i]) /\ Genuine(file)
    BY <1>1 DEF TokInv, Genuines
  <2>2. Genuine(file')
    BY <1>4, <2>1
  <2> QED BY <1>2, <1>7, <2>2, Values DEF TokInv, Genuines, Genuine, Blank, Leaves
<1>11. TokensKept'
  <2>1. heap'[i] = heap[i]
    BY <1>1, <1>4, <1>7 DEF Leaves
  <2> QED BY <1>1, <1>2, <1>4, <2>1, Values DEF TokensKept, New
<1>12. ASSUME NEW u \in Tasks PROVE TaskOK(u)'
  <2>1. CASE u # t
    <3>1. task[u].obj # 0 => heap'[task[u].obj] = heap[task[u].obj]
      BY <1>6, <1>7, <2>1, Values DEF Leaves, TokTypes
    <3> QED BY <1>2, <1>6, <1>8, <2>1, <3>1, OthersOK
  <2>2. CASE u = t
    BY <1>6, <2>2 DEF TaskOK
  <2> QED BY <2>1, <2>2
<1>13. Grants' /\ NotLockedOut'
  BY <1>2 DEF TokInv, Grants, GrantedOnce, NotLockedOut
<1> QED BY <1>5, <1>8, <1>9, <1>10, <1>11, <1>12, <1>13 DEF TokInv

\* Storing the project puts the tokens of the file over those of the cache.
LEMMA PersistStep ==
  ASSUME TokInv, NEW t \in Tasks, Persist(t)
  PROVE  TokInv'
<1> DEFINE i == NewObject
           new == [file EXCEPT !.project = TRUE]
           h == [heap EXCEPT ![i] = new]
<1>2. /\ task[t].pc = "discover" /\ task[t].obj = 0 /\ holder # t /\ cached # 0
  BY DEF Persist, TokInv, TokTypes, TokTypeOK, Phases, Tasks
<1>3. i \in Objects /\ i # buffered /\ \A u \in Tasks : task[u].obj # i
  BY <1>2, Values, Room
<1>4. new \in Cred /\ new.access = file.access /\ new.refresh = file.refresh
  BY Values DEF Cred
<1>5. /\ Save(h, i) /\ Go(t, "idle", 0) /\ Keep(h) /\ projectCached' = TRUE
      /\ UNCHANGED <<disk, issuer, holder, inRotation, marked, grants, cutShort, staleSent>>
      /\ lost' = (lost \/ /\ file.access < issuer.access
                          /\ \A u \in Tasks : task[u].pc # "validate")
  BY DEF Persist
<1> HIDE DEF i, new
<1>6. h \in [Objects -> Cred] /\ h[i] = new /\ \A j \in Objects : j # i => h[j] = heap[j]
  BY <1>3, <1>4, Values
<1> HIDE DEF h
<1>7. Leaves(h)
  BY <1>5, <1>6, Keeps
<1>8. /\ cached' = i /\ file' \in Cred /\ buffered' \in {0, i}
      /\ file' \in {file, new} /\ (buffered' = 0 => file' = new)
  BY <1>3, <1>4, <1>5, <1>6, Saves
<1>9. /\ task' \in [Tasks -> [pc : Pcs, obj : {0} \cup Objects]]
      /\ task'[t].pc = "idle" /\ task'[t].obj = 0
      /\ \A u \in Tasks : u # t => task'[u] = task[u]
  BY <1>5, Values, Moves DEF Pcs
<1>10. /\ heap' \in [Objects -> Cred] /\ heap'[i] = new
       /\ \A j \in Objects : heap'[j] \in {heap[j], new, Blank}
       /\ \A j \in Objects : (\E u \in Tasks : task'[u].obj = j) => j = i \/ heap'[j] = heap[j]
  BY <1>3, <1>6, <1>7, <1>8 DEF Leaves
<1>11. lost' \in BOOLEAN /\ (~lost' => ~lost)
  BY <1>5, Values DEF TokTypes
<1>12. TokTypes'
  <2>1. /\ grants' \in Nat /\ {cached', buffered'} \subseteq {0} \cup Objects
        /\ issuer' \in [access : Nat, refresh : Nat, expiring : BOOLEAN, revoked : BOOLEAN,
                       rotates : BOOLEAN]
        /\ {disk', inRotation', lost', cutShort', projectCached'} \subseteq BOOLEAN
    BY <1>3, <1>5, <1>8, <1>11, Values DEF TokTypes
  <2>2. /\ holder' \in {0} \cup Tasks /\ holder' # t
        /\ \A u \in Tasks \ {t} : holder' = u <=> holder = u
    BY <1>2, <1>5, Values
  <2> QED BY <1>5, <1>8, <1>10, <2>1, <2>2, TypesStep DEF Pcs
<1>13. Phases'
  BY <1>2, <1>3, <1>5, <1>8, <1>9, Values DEF TokInv, Phases, Tasks
<1>14. Genuines'
  <2>1. Genuine(file') /\ Genuine(new)
    BY <1>4, <1>8 DEF TokInv, Genuines, Genuine
  <2> QED BY <1>5, <1>10, <2>1, Values DEF TokInv, Genuines, Genuine, Blank
<1>15. TokensKept'
  <2>1. Saving' <=> Saving
    BY <1>2, <1>9 DEF Saving
  <2>2. ~lost' /\ ~Saving => file.access = issuer.access
    <3>1. ~lost' /\ ~Saving => ~(file.access < issuer.access)
      BY <1>5 DEF Saving
    <3>2. file.access \in Nat /\ file.access <= issuer.access
      BY Values DEF TokInv, Genuines, Genuine, Cred
    <3> QED BY <3>1, <3>2, Values
  <2> QED BY <1>3, <1>4, <1>5, <1>8, <1>10, <2>1, <2>2, Values DEF TokensKept, New
<1>16. ASSUME NEW u \in Tasks PROVE TaskOK(u)'
  <2>1. CASE u # t
    <3>1. task[u].obj # 0 => heap'[task[u].obj] = heap[task[u].obj]
      BY <1>3, <1>9, <1>10, <2>1, Values DEF TokTypes
    <3> QED BY <1>5, <1>9, <1>11, <1>12, <2>1, <3>1, OthersOK
  <2>2. CASE u = t
    BY <1>9, <2>2 DEF TaskOK
  <2> QED BY <2>1, <2>2
<1>17. Grants' /\ HeaderFresh' /\ NotLockedOut'
  BY <1>5, <1>11 DEF TokInv, Grants, GrantedOnce, HeaderFresh, NotLockedOut
<1> QED BY <1>12, <1>13, <1>14, <1>15, <1>16, <1>17 DEF TokInv

LEMMA UserInfoStep == ASSUME TokInv, UserInfo PROVE TokInv'
<1>1. task[Starter].pc = "info" /\ holder # Starter /\ cached \in Objects
  BY Values DEF UserInfo, TokInv, TokTypes, TokTypeOK, Phases
<1>2. /\ Save(heap, cached) /\ Go(Starter, "idle", 0) /\ inRotation' = TRUE /\ Keep(heap)
      /\ UNCHANGED <<disk, issuer, holder, marked, projectCached, grants, lost, cutShort,
                     staleSent>>
  BY DEF UserInfo
<1>3. /\ cached' = cached /\ file' \in Cred /\ buffered' \in {0, cached}
      /\ file' \in {file, heap[cached]} /\ (buffered' = 0 => file' = heap[cached])
  BY <1>1, <1>2, Saves, Values
<1>4. /\ task' \in [Tasks -> [pc : Pcs, obj : {0} \cup Objects]]
      /\ task'[Starter].pc = "idle" /\ task'[Starter].obj = 0
      /\ \A u \in Tasks : u # Starter => task'[u] = task[u]
  BY <1>2, Values, Moves DEF Pcs
<1>5. Leaves(heap)
  BY <1>2, Values, Keeps
<1>6. TokTypes'
  <2>1. /\ heap' \in [Objects -> Cred] /\ grants' \in Nat
        /\ {cached', buffered'} \subseteq {0} \cup Objects
        /\ issuer' \in [access : Nat, refresh : Nat, expiring : BOOLEAN, revoked : BOOLEAN,
                       rotates : BOOLEAN]
        /\ {disk', inRotation', lost', cutShort', projectCached'} \subseteq BOOLEAN
    BY <1>1, <1>2, <1>3, <1>5, Values DEF TokTypes, Leaves
  <2>2. /\ holder' \in {0} \cup Tasks /\ holder' # Starter
        /\ \A u \in Tasks \ {Starter} : holder' = u <=> holder = u
    BY <1>1, <1>2, Values
  <2> QED BY <1>2, <1>3, <2>1, <2>2, Values, TypesStep DEF Pcs
<1>7. Phases'
  BY <1>1, <1>2, <1>3, <1>4, Values DEF TokInv, Phases, Tasks
<1>8. Genuines'
  <2>1. Genuine(file')
    BY <1>1, <1>3 DEF TokInv, Genuines
  <2> QED BY <1>2, <1>5, <2>1, Values DEF TokInv, Genuines, Genuine, Blank, Leaves
<1>9. TokensKept'
  <2>1. Saving' <=> Saving
    BY <1>1, <1>4, Values DEF Saving
  <2>2. heap'[cached] = heap[cached]
    BY <1>1, <1>3, <1>5 DEF Leaves
  <2> QED BY <1>1, <1>2, <1>3, <2>1, <2>2, Values DEF TokInv, TokensKept, New
<1>10. ASSUME NEW u \in Tasks PROVE TaskOK(u)'
  <2>1. CASE u # Starter
    <3>1. task[u].obj # 0 => heap'[task[u].obj] = heap[task[u].obj]
      BY <1>4, <1>5, <2>1, Values DEF Leaves, TokTypes
    <3> QED BY <1>2, <1>4, <1>6, <2>1, <3>1, OthersOK
  <2>2. CASE u = Starter
    BY <1>4, <2>2 DEF TaskOK
  <2> QED BY <2>1, <2>2
<1>11. Grants' /\ HeaderFresh' /\ NotLockedOut'
  BY <1>2 DEF TokInv, Grants, GrantedOnce, HeaderFresh, NotLockedOut
<1> QED BY <1>6, <1>7, <1>8, <1>9, <1>10, <1>11 DEF TokInv

\* A task that is stopped before it saves loses its token when another one has
\* replaced the cached object meanwhile.
LEMMA StoppedStep ==
  ASSUME TokInv, NEW t \in Tasks, Stopped(t)
  PROVE  TokInv'
<1>1. /\ t # Starter /\ task[t].pc # "idle" /\ cached # 0
      /\ holder' = IF holder = t THEN 0 ELSE holder
      /\ Go(t, "idle", 0) /\ Keep(heap)
      /\ lost' = (lost \/ (task[t].pc = "validate" /\ cached # task[t].obj))
      /\ cutShort' = (cutShort \/ task[t].pc = "validate")
      /\ UNCHANGED <<cached, file, buffered, disk, issuer, inRotation, marked,
                     projectCached, grants, staleSent>>
  BY DEF Stopped, Freed, TokInv, Phases, Tasks
<1>2. Leaves(heap)
  BY <1>1, Values, Keeps
<1>3. /\ HeaderFresh' /\ NotLockedOut' /\ projectCached' \in BOOLEAN
      /\ {lost', cutShort'} \subseteq BOOLEAN /\ (~lost' => ~lost)
  BY <1>1, Values DEF TokInv, HeaderFresh, NotLockedOut, TokTypes
<1>4. CASE task[t].pc # "validate"
  <2>1. lost' = lost /\ cutShort' = cutShort
    BY <1>1, <1>4, Values DEF TokTypes
  <2>2. /\ holder' \in {0} \cup Tasks /\ holder' # t
        /\ \A u \in Tasks \ {t} : holder' = u <=> holder = u
    BY <1>1, Values
  <2> QED BY <1>1, <1>2, <1>3, <1>4, <2>1, <2>2, Values, Quiet DEF Pcs
<1>5. CASE task[t].pc = "validate"
  <2>1. /\ holder = t /\ ~issuer.expiring /\ heap[task[t].obj].access = issuer.access
    BY <1>5, Values DEF TokInv, TokTypes, TokTypeOK, TaskOK, New
  <2>2. /\ task' \in [Tasks -> [pc : Pcs, obj : {0} \cup Objects]]
        /\ task'[t].pc = "idle" /\ task'[t].obj = 0
        /\ \A u \in Tasks : u # t => task'[u] = task[u]
    BY <1>1, Values, Moves DEF Pcs
  <2>3. TokTypes'
    <3>1. /\ heap' \in [Objects -> Cred] /\ grants' \in Nat /\ file' \in Cred
          /\ {cached', buffered'} \subseteq {0} \cup Objects
          /\ issuer' \in [access : Nat, refresh : Nat, expiring : BOOLEAN, revoked : BOOLEAN,
                         rotates : BOOLEAN]
          /\ {disk', inRotation', lost', cutShort', projectCached'} \subseteq BOOLEAN
      BY <1>1, <1>2, <1>3, Values DEF TokTypes, Leaves
    <3>2. /\ holder' \in {0} \cup Tasks /\ holder' # t
          /\ \A u \in Tasks \ {t} : holder' = u <=> holder = u
      BY <1>1, Values
    <3> QED BY <1>1, <3>1, <3>2, TypesStep DEF Pcs
  <2>4. Phases'
    BY <1>1, <2>2, Values DEF TokInv, Phases, Tasks
  <2>5. Genuines'
    BY <1>1, <1>2, Values DEF TokInv, Genuines, Genuine, Blank, Leaves
  <2>6. TokensKept'
    <3>1. ~lost' => cached = task[t].obj /\ heap'[cached] = heap[cached]
      BY <1>1, <1>2, <1>5, Values DEF Leaves
    <3> QED BY <1>1, <1>5, <2>1, <3>1 DEF TokensKept, New
  <2>7. ASSUME NEW u \in Tasks PROVE TaskOK(u)'
    <3>1. CASE u # t
      <4>1. task[u].obj # 0 => heap'[task[u].obj] = heap[task[u].obj]
        BY <1>2, <2>2, <3>1, Values DEF Leaves, TokTypes
      <4> QED BY <1>1, <1>3, <2>2, <2>3, <3>1, <4>1, OthersOK
    <3>2. CASE u = t
      BY <2>2, <3>2 DEF TaskOK
    <3> QED BY <3>1, <3>2
  <2>8. Grants'
    BY <1>1, <1>3 DEF TokInv, Grants, GrantedOnce
  <2> QED BY <1>3, <2>3, <2>4, <2>5, <2>6, <2>7, <2>8 DEF TokInv
<1> QED BY <1>4, <1>5

LEMMA RestartStep == ASSUME TokInv, Restart PROVE TokInv'
<1>1. /\ cached' = 0 /\ buffered' = 0 /\ holder' = 0
      /\ heap' = [i \in Objects |-> Blank]
      /\ inRotation' = FALSE /\ marked' = "no" /\ projectCached' = FALSE
      /\ lost' = (lost \/ file'.access < issuer.access)
      /\ UNCHANGED <<disk, issuer, grants, cutShort, staleSent>>
      /\ file' = file \/ (buffered # 0 /\ file' = heap[buffered])
  BY DEF Restart
<1>2. /\ task' \in [Tasks -> [pc : Pcs, obj : {0} \cup Objects]]
      /\ task'[Starter].pc = "load" /\ task'[Starter].obj = 0
      /\ \A u \in Users : task'[u].pc = "idle"
      /\ \A u \in Tasks : task'[u].pc \in {"idle", "load"} /\ task'[u].obj = 0
  BY Values DEF Restart, Idle, Tasks, Pcs
<1>3. /\ heap' \in [Objects -> Cred] /\ \A i \in Objects : heap'[i].access = 0
      /\ \A i \in Objects : heap'[i].refresh = 0
  BY <1>1 DEF Blank, Cred
<1>4. file' \in Cred /\ Genuine(file') /\ file'.access \in Nat
  BY <1>1, Values DEF TokInv, Genuines, Genuine, Cred
<1>5. lost' \in BOOLEAN /\ (~lost' => ~lost) /\ (~lost' => file'.access = issuer.access)
  <2>1. file'.access <= issuer.access
    BY <1>1, <1>4 DEF Genuine
  <2>2. lost' \in BOOLEAN
    BY <1>1
  <2>3. ~lost' => ~lost /\ ~(file'.access < issuer.access)
    BY <1>1
  <2> QED BY <1>4, <2>1, <2>2, <2>3, Values
<1>6. TokTypes'
  <2>1. holder' \notin Tasks
    BY <1>1, Values
  <2> QED BY <1>1, <1>2, <1>3, <1>4, <1>5, <2>1, Values DEF TokTypes, TokTypeOK, Cred
<1>7. Phases'
  BY <1>1, <1>2 DEF Phases
<1>8. Genuines'
  BY <1>1, <1>3, <1>4, Values DEF Genuines, Genuine
<1>9. TokensKept'
  BY <1>1, <1>5 DEF TokensKept
<1>10. ASSUME NEW u \in Tasks PROVE TaskOK(u)'
  BY <1>2 DEF TaskOK
<1>11. Grants' /\ HeaderFresh' /\ NotLockedOut'
  BY <1>1, <1>5 DEF TokInv, Grants, GrantedOnce, HeaderFresh, NotLockedOut
<1> QED BY <1>6, <1>7, <1>8, <1>9, <1>10, <1>11 DEF TokInv

LEMMA FlushStep == ASSUME TokInv, Flush PROVE TokInv'
<1>1. /\ buffered \in Objects /\ file' = heap[buffered] /\ buffered' = 0 /\ Keep(heap)
      /\ UNCHANGED <<cached, disk, issuer, holder, task, inRotation, marked, projectCached,
                     grants, lost, cutShort, staleSent>>
  BY Values DEF Flush
<1>2. Leaves(heap)
  BY <1>1, Values, Keeps
<1>3. TokTypes'
  BY <1>1, <1>2, Values DEF TokTypes, TokTypeOK, Leaves, Cred
<1>4. Phases'
  BY <1>1 DEF TokInv, Phases
<1>5. Genuines'
  BY <1>1, <1>2, Values DEF TokInv, Genuines, Genuine, Blank, Leaves
<1>6. TokensKept'
  <2>1. Saving' <=> Saving
    BY <1>1 DEF Saving
  <2>2. cached # 0
    BY <1>1, Values DEF TokInv, Phases
  <2>3. heap'[cached] = heap[cached]
    BY <1>1, <1>2, <2>2, Values DEF Leaves
  <2> QED BY <1>1, <2>1, <2>2, <2>3, Values DEF TokInv, TokensKept, New
<1>7. ASSUME NEW u \in Tasks PROVE TaskOK(u)'
  <2>1. task'[u] = task[u] /\ (task[u].obj # 0 => heap'[task[u].obj] = heap[task[u].obj])
    BY <1>1, <1>2, Values DEF Leaves, TokTypes
  <2> QED BY <1>1, <1>3, <2>1, OthersOK
<1>8. Grants' /\ HeaderFresh' /\ NotLockedOut'
  BY <1>1 DEF TokInv, Grants, GrantedOnce, HeaderFresh, NotLockedOut
<1> QED BY <1>3, <1>4, <1>5, <1>6, <1>7, <1>8 DEF TokInv

\* The disk, the hour and the owner touch no record of the proxy.
LEMMA WorldStep ==
  ASSUME TokInv, DiskChanges \/ NearsEnd \/ Revoke
  PROVE  TokInv'
<1>1. UNCHANGED <<heap, cached, file, buffered, holder, task, inRotation, marked,
                  projectCached, lost, cutShort, staleSent>>
  BY DEF DiskChanges, NearsEnd, Revoke, Untouched
<1>2. issuer \in [access : Nat, refresh : Nat, expiring : BOOLEAN, revoked : BOOLEAN,
                   rotates : BOOLEAN]
  BY DEF TokInv, TokTypes
<1>3. /\ issuer' \in [access : Nat, refresh : Nat, expiring : BOOLEAN, revoked : BOOLEAN,
                       rotates : BOOLEAN]
      /\ issuer'.access = issuer.access /\ issuer'.refresh = issuer.refresh
      /\ issuer.revoked => issuer'.revoked
      /\ grants' \in Nat /\ disk' \in BOOLEAN
      /\ \/ issuer'.expiring = issuer.expiring /\ grants' = grants
         \/ /\ grants' = 0
            /\ \A t \in Tasks : task[t].pc \notin {"lock", "post", "validate"}
  <2>1. CASE DiskChanges
    BY <1>2, <2>1, Values DEF DiskChanges, TokTypes
  <2>2. CASE NearsEnd
    BY <1>2, <2>2, Values DEF NearsEnd, TokTypes
  <2>3. CASE Revoke
    BY <1>2, <2>3, Values DEF Revoke, TokTypes
  <2> QED BY <2>1, <2>2, <2>3
<1>4. TokTypes'
  BY <1>1, <1>3, Values DEF TokTypes, TokTypeOK
<1>5. Phases' /\ TokensKept' /\ HeaderFresh' /\ NotLockedOut'
  BY <1>1, <1>3 DEF TokInv, Phases, TokensKept, New, Saving, HeaderFresh, NotLockedOut
<1>6. Genuines'
  BY <1>1, <1>3 DEF TokInv, Genuines, Genuine
<1>7. ASSUME NEW u \in Tasks PROVE TaskOK(u)'
  BY <1>1, <1>3 DEF TokInv, TaskOK, New
<1>8. Grants'
  BY <1>1, <1>3 DEF TokInv, Grants, GrantedOnce
<1> QED BY <1>4, <1>5, <1>6, <1>7, <1>8 DEF TokInv

LEMMA TokensInductive == TokInv /\ [TokNext]_tokVars => TokInv'
<1> SUFFICES ASSUME TokInv, [TokNext]_tokVars PROVE TokInv'
  OBVIOUS
<1>1. ASSUME NEW t \in Tasks, Step(t) PROVE TokInv'
  BY <1>1, LoadStep, ReadStep, AcquireStep, GrantedStep, PostFailsStep, RefusedStep,
     ValidatedStep, PersistStep, DiscoveryFailsStep DEF Step
<1>2. CASE \E t \in Tasks : Stopped(t)
  BY <1>2, StoppedStep
<1>3. CASE \E t \in Users : Begin(t)
  BY <1>3, BeginStep
<1>4. CASE UserInfo \/ Restart \/ Flush \/ DiskChanges \/ NearsEnd \/ Revoke
  BY <1>4, UserInfoStep, RestartStep, FlushStep, WorldStep
<1>5. CASE UNCHANGED tokVars
  BY <1>5 DEF tokVars, TokInv, TokTypes, TokTypeOK, Phases, Genuines, Genuine, TokensKept, New,
              Saving, TaskOK, Grants, GrantedOnce, HeaderFresh, NotLockedOut
<1> QED BY <1>1, <1>2, <1>3, <1>4, <1>5 DEF TokNext

\* Whatever the issuer, the disk, the restarts and the requests do, a token that
\* nears its end is renewed once, the newest token is in the cache, its file or
\* the buffer of writes, no request is sent with an expired token it did not try
\* to renew, and a credential is given up only for a cause (_refresh_token,
\* get_valid_access_token, _save_credentials and the resilient writer).
THEOREM TokensStaySound == TokSpec => []TokensSound
<1>1. TokInv => TokensSound
  <2> SUFFICES ASSUME TokInv PROVE NewestKept
    BY DEF TokInv, TokensSound, TokTypes, Grants
  <2> QED BY DEF TokInv, TokensKept, New, NewestKept
<1> QED BY <1>1, InitialTokens, TokensInductive, PTL DEF TokSpec

-----------------------------------------------------------------------------
(***************************************************************************)
(* The start.                                                              *)
(***************************************************************************)
Known == Accounts \cup {NoAccount}

StartTypes ==
  /\ stored \in [Files -> Known] /\ owner \in [Files -> Known]
  /\ works \in [Files -> BOOLEAN]
  /\ result \in [Files -> Known \cup {"none", "error"}]
  /\ processed \in [Accounts -> Files \cup {NoFile}]
  /\ pass \in {"discover", "scan", "initialize", "assemble", "serve"}
  /\ at \in 1..(FileCount + 1)
  /\ found \subseteq Files /\ toInit \subseteq found /\ final \subseteq toInit

\* Another file has taken the account of f.
Beaten(f) == owner[f] # NoAccount /\ processed[owner[f]] \notin {NoFile, f}

\* The scan: what it has passed over names an account that is taken.
ScanOK ==
  /\ pass \in {"discover", "scan"} =>
       /\ \A f \in Files : stored[f] # NoAccount => owner[f] = stored[f]
       /\ final = {} /\ \A f \in Files : result[f] = "none"
  /\ pass = "discover" => toInit = {} /\ at = 1
  /\ pass = "scan" => \A f \in toInit : f < at
  /\ pass # "discover" =>
       \A f \in found \ toInit : pass # "scan" \/ f < at => Beaten(f)

\* Who has an account is one of its files.
TakenOK ==
  \A a \in Accounts : processed[a] # NoFile =>
    processed[a] \in toInit /\ owner[processed[a]] = a

ResultsOK ==
  /\ \A f \in Files : result[f] # "none" =>
       f \in toInit /\ result[f] = IF works[f] THEN owner[f] ELSE "error"
  /\ pass = "initialize" => final = {}
  /\ pass \in {"assemble", "serve"} => \A f \in toInit : result[f] # "none"

\* The assembly, file by file.
AssemblyOK ==
  /\ \A f \in final : f < at /\ (owner[f] # NoAccount => processed[owner[f]] = f)
  /\ pass \in {"assemble", "serve"} =>
       \A f \in toInit : f < at /\ works[f] => f \in final \/ Beaten(f)
  /\ pass = "serve" => at = FileCount + 1

StartInv == StartTypes /\ ScanOK /\ TakenOK /\ ResultsOK /\ AssemblyOK

LEMMA StartInitial == StartInit => StartInv
BY StartupConstants
   DEF StartInit, StartInv, StartTypes, Known, Files, NoFile, ScanOK, TakenOK, ResultsOK,
       AssemblyOK

LEMMA StartInductive == StartInv /\ [StartNext]_startVars => StartInv'
<1> SUFFICES ASSUME StartInv, [StartNext]_startVars PROVE StartInv'
  OBVIOUS
<1> USE StartupConstants DEF NoFile
<1>1. CASE Discover
  BY <1>1 DEF Discover, StartInv, StartTypes, ScanOK, TakenOK, ResultsOK, AssemblyOK,
              Chosen, Beaten, Files
<1>2. CASE Skip
  BY <1>2 DEF Skip, StartInv, StartTypes, ScanOK, TakenOK, ResultsOK, AssemblyOK, Beaten, Files
<1>3. CASE Scan
  <2> DEFINE a == NamedAccount(at)
             duplicate == a # NoAccount /\ processed[a] # NoFile
  <2>1. /\ pass = "scan" /\ at \in found /\ at \in Files /\ at' = at + 1 /\ at \notin toInit
        /\ a \in Known /\ (a # NoAccount => owner[at] = a)
        /\ toInit' = IF duplicate THEN toInit ELSE toInit \cup {at}
        /\ processed' = IF a # NoAccount /\ ~duplicate
                        THEN [processed EXCEPT ![a] = at] ELSE processed
        /\ UNCHANGED <<kind, stored, owner, works, pass, result, final, found>>
    BY <1>3 DEF Scan, NamedAccount, StartInv, StartTypes, ScanOK, Files, Known
  <2> HIDE DEF a
  <2>2. \A b \in Accounts :
          \/ processed'[b] = processed[b] /\ (b = a => duplicate)
          \/ b = a /\ ~duplicate /\ processed'[b] = at /\ processed[b] = NoFile
    BY <2>1 DEF StartInv, StartTypes, Known
  <2>3. StartTypes'
    BY <2>1 DEF StartInv, StartTypes, Files, Known
  <2>4. ScanOK'
    <3>1. ASSUME NEW f \in found \ toInit', f < at' PROVE Beaten(f)'
      <4>1. f \in Files /\ owner[f] \in Known
        BY <3>1 DEF StartInv, StartTypes
      <4>2. CASE f = at
        <5>1. duplicate /\ a \in Accounts /\ owner[f] = a /\ processed[a] # at
          BY <2>1, <3>1, <4>2 DEF StartInv, TakenOK, Known
        <5>2. processed'[a] = processed[a]
          BY <2>2, <5>1
        <5> QED BY <2>1, <4>2, <5>1, <5>2 DEF Beaten, Known
      <4>3. CASE f # at
        <5>1. Beaten(f)
          BY <2>1, <3>1, <4>1, <4>3 DEF StartInv, StartTypes, ScanOK, Files
        <5>2. processed'[owner[f]] = processed[owner[f]]
          BY <2>2, <4>1, <5>1 DEF Beaten, Known
        <5> QED BY <2>1, <5>1, <5>2 DEF Beaten
      <4> QED BY <4>2, <4>3
    <3>2. \A f \in toInit' : f < at'
      BY <2>1 DEF StartInv, StartTypes, ScanOK, Files
    <3> QED BY <2>1, <3>1, <3>2 DEF StartInv, ScanOK
  <2>5. TakenOK'
    BY <2>1, <2>2 DEF StartInv, TakenOK
  <2>6. ResultsOK' /\ AssemblyOK'
    BY <2>1 DEF StartInv, ResultsOK, AssemblyOK, ScanOK
  <2> QED BY <2>3, <2>4, <2>5, <2>6 DEF StartInv
<1>4. CASE Scanned
  BY <1>4 DEF Scanned, StartInv, StartTypes, ScanOK, TakenOK, ResultsOK, AssemblyOK, Beaten, Files
<1>5. CASE Gathered
  BY <1>5 DEF Gathered, StartInv, StartTypes, ScanOK, TakenOK, ResultsOK, AssemblyOK, Beaten, Files
<1>6. CASE Assemble
  <2> DEFINE a == result[at]
  <2>1. /\ pass = "assemble" /\ at \in Files /\ at \in found /\ at' = at + 1
        /\ a \in Known \cup {"none", "error"}
        /\ UNCHANGED <<kind, owner, works, pass, toInit, result, found>>
    BY <1>6 DEF Assemble, StartInv, StartTypes, Files
  <2>2. CASE a \in {"none", "error"} \/ (a # NoAccount /\ Taken(a, at))
    <3>1. UNCHANGED <<processed, stored, final>>
      BY <1>6, <2>2 DEF Assemble
    <3>2. at \in toInit /\ works[at] => Beaten(at)
      BY <2>1, <2>2 DEF StartInv, StartTypes, ResultsOK, Taken, Beaten, Known
    <3>3. StartTypes' /\ ScanOK' /\ TakenOK' /\ ResultsOK'
      BY <2>1, <3>1 DEF StartInv, StartTypes, ScanOK, TakenOK, ResultsOK, Beaten, Files
    <3>4. AssemblyOK'
      BY <2>1, <3>1, <3>2 DEF StartInv, StartTypes, AssemblyOK, Beaten, Files
    <3> QED BY <3>3, <3>4 DEF StartInv
  <2>3. CASE ~(a \in {"none", "error"} \/ (a # NoAccount /\ Taken(a, at)))
    <3>1. /\ at \in toInit /\ works[at] /\ owner[at] = a /\ a \in Known
          /\ a # NoAccount => processed[a] \in {NoFile, at}
      BY <2>1, <2>3 DEF StartInv, StartTypes, ResultsOK, Taken, ScanOK
    <3>2. /\ final' = final \cup {at}
          /\ stored' \in [Files -> Known]
          /\ processed' = IF a = NoAccount THEN processed ELSE [processed EXCEPT ![a] = at]
      BY <1>6, <2>1, <2>3, <3>1 DEF Assemble, StartInv, StartTypes
    <3>3. \A b \in Accounts :
            \/ processed'[b] = processed[b]
            \/ b = a /\ processed'[b] = at /\ processed[b] = NoFile
      BY <3>1, <3>2 DEF StartInv, StartTypes, Known
    <3>4. a # NoAccount => processed'[a] = at
      BY <3>1, <3>2 DEF StartInv, StartTypes, Known
    <3>5. StartTypes'
      BY <2>1, <3>1, <3>2 DEF StartInv, StartTypes, Files, Known
    <3>6. ASSUME NEW f \in Files, Beaten(f) PROVE Beaten(f)'
      BY <2>1, <3>3, <3>6 DEF Beaten, StartInv, StartTypes, Known
    <3>7. ScanOK' /\ ResultsOK'
      BY <2>1, <3>2, <3>6 DEF StartInv, StartTypes, ScanOK, ResultsOK
    <3>8. TakenOK'
      BY <2>1, <3>1, <3>3 DEF StartInv, TakenOK
    <3>9. AssemblyOK'
      <4>1. ASSUME NEW f \in final'
            PROVE  f < at' /\ (owner'[f] # NoAccount => processed'[owner'[f]] = f)
        <5>1. CASE f = at
          BY <2>1, <3>1, <3>4, <5>1 DEF Files
        <5>2. CASE f # at
          <6>1. f \in final /\ f \in Files /\ f < at
                /\ owner[f] \in Known /\ (owner[f] # NoAccount => processed[owner[f]] = f)
            BY <3>2, <4>1, <5>2 DEF StartInv, StartTypes, AssemblyOK
          <6> QED BY <2>1, <3>3, <6>1 DEF Known, Files
        <5> QED BY <5>1, <5>2
      <4>2. ASSUME NEW f \in toInit', f < at', works'[f] PROVE f \in final' \/ Beaten(f)'
        BY <2>1, <3>2, <3>6, <4>2 DEF StartInv, StartTypes, AssemblyOK, Files
      <4> QED BY <2>1, <4>1, <4>2 DEF AssemblyOK
    <3> QED BY <3>5, <3>7, <3>8, <3>9 DEF StartInv
  <2> QED BY <2>2, <2>3
<1>7. CASE Serve
  BY <1>7 DEF Serve, StartInv, StartTypes, ScanOK, TakenOK, ResultsOK, AssemblyOK, Beaten, Files
<1>8. ASSUME NEW f \in Files, Initialize(f) PROVE StartInv'
  BY <1>8 DEF Initialize, StartInv, StartTypes, ScanOK, TakenOK, ResultsOK, AssemblyOK,
              Beaten, Files
<1>9. CASE UNCHANGED startVars
  BY <1>9 DEF startVars, StartInv, StartTypes, ScanOK, TakenOK, ResultsOK, AssemblyOK, Beaten
<1> QED BY <1>1, <1>2, <1>3, <1>4, <1>5, <1>6, <1>7, <1>8, <1>9 DEF StartNext

\* However many files there are, whichever accounts they name and whichever of
\* them work, two files of one account never rotate both, and a working file is
\* left out only for another one of its account (the lifespan of main.py).
THEOREM StartStaysSound == StartSpec => []StartSound
<1>1. StartInv => StartSound
  <2> SUFFICES ASSUME StartInv PROVE StartSound
    OBVIOUS
  <2>1. OneFilePerAccount
    BY DEF StartInv, StartTypes, AssemblyOK, OneFilePerAccount, Files
  <2>2. LeftOutForAnother
    <3> SUFFICES ASSUME pass = "serve", NEW f \in found \ final, works[f]
                 PROVE  \E g \in found \ {f} : owner[g] = owner[f] /\ (g \in final \/ ~works[g])
      BY DEF LeftOutForAnother
    <3>1. Beaten(f)
      <4>1. CASE f \in toInit
        <5>1. f \in Files /\ at = FileCount + 1
          BY DEF StartInv, StartTypes, AssemblyOK
        <5>2. f < at
          BY <5>1, StartupConstants DEF Files
        <5> QED BY <4>1, <5>2 DEF StartInv, AssemblyOK
      <4>2. CASE f \notin toInit
        BY <4>2 DEF StartInv, ScanOK
      <4> QED BY <4>1, <4>2
    <3> DEFINE g == processed[owner[f]]
    <3>2. g \in toInit /\ g # f /\ owner[g] = owner[f] /\ owner[f] \in Accounts
      BY <3>1 DEF StartInv, StartTypes, TakenOK, Beaten, Known
    <3>3. g \in final \/ ~works[g]
      <4>1. ~Beaten(g)
        BY <3>2 DEF Beaten
      <4> HIDE DEF g
      <4> QED BY <3>2, <4>1, StartupConstants DEF StartInv, StartTypes, AssemblyOK, Files
    <3> QED BY <3>2, <3>3 DEF StartInv, StartTypes
  <2> QED BY <2>1, <2>2 DEF StartSound
<1> QED BY <1>1, StartInitial, StartInductive, PTL DEF StartSpec

-----------------------------------------------------------------------------
(***************************************************************************)
(* The project and the tier of a Gemini credential.                        *)
(***************************************************************************)
Named == Sources \cup {Unknown}
Certain == Named \ {"listed"}
Tiered == Tiers \cup {Unknown}
Steps == {"idle", "start", "load", "scan", "offer", "onboard", "list"}

AccountRecords == [tier : Tiered, project : Certain, offer : Tiered,
                   scan : BOOLEAN, listed : BOOLEAN]

DiscTypeOK ==
  /\ configured \in {Unknown, "configured"}
  /\ known \in [project : Named, tier : Tiered]
  /\ metadata \in [project : Named, tier : Tiered]
  /\ account \in [tier : Tiered, project : Certain, offer : Tiered,
                  scan : BOOLEAN, listed : BOOLEAN]
  /\ finder \in [DiscTasks -> [pc : Steps, project : Certain, polls : Nat]]
  /\ unsaved \in BOOLEAN /\ raced \in BOOLEAN

\* Both copies of the tier are the account's, which can only be onboarded again
\* with the tier it has, and a copy with a tier names a project.
TiersAgree ==
  /\ known.tier # Unknown => known.tier = account.tier /\ known.project # Unknown
  /\ metadata.tier # Unknown => metadata.tier = account.tier /\ metadata.project # Unknown
  /\ account.tier # Unknown => account.offer \in {Unknown, account.tier}
  /\ \A t \in DiscTasks : finder[t].pc = "onboard" => account.offer # Unknown

\* Before the start has looked at the file nothing is known and nobody asks; after
\* it the caches and the file only differ when a write failed.
StartIsFirst ==
  /\ finder[Startup].pc = "start" =>
       known = Nothing /\ \A t \in Requests : finder[t].pc = "idle"
  /\ \A t \in Requests : finder[t].pc # "start"
  /\ finder[Startup].pc # "start" /\ ~unsaved => known = metadata

\* Whoever asks alone does so because no project is known, nor on file.
AsksAlone ==
  ~raced => \A t \in DiscTasks : Discovering(t) =>
    /\ known.project = Unknown /\ metadata.project = Unknown
    /\ \A u \in DiscTasks : Discovering(u) => u = t

\* A guess has no tier, and what the file has is what is known.
GuessAlone ==
  ~raced => /\ known.project = "listed" => known.tier = Unknown
            /\ metadata.project = "listed" => metadata.tier = Unknown
            /\ finder[Startup].pc # "start" /\ metadata.project # Unknown =>
                 known = metadata

DiscInv == DiscTypeOK /\ TiersAgree /\ StartIsFirst /\ AsksAlone /\ GuessAlone

LEMMA DiscInitial == DiscInit => DiscInv
<1> SUFFICES ASSUME DiscInit PROVE DiscInv
  OBVIOUS
<1> USE DiscoveryConstants DEF DiscInit, Nothing, Resting, AtStart, Discovering
<1>1. DiscTypeOK
  BY DEF DiscTypeOK, Named, Certain, Tiered, Steps, Sources, Tiers, DiscTasks
<1>2. TiersAgree /\ StartIsFirst
  BY DEF TiersAgree, StartIsFirst, DiscTasks
<1>3. AsksAlone /\ GuessAlone
  BY DEF AsksAlone, GuessAlone, DiscTasks
<1> QED BY <1>1, <1>2, <1>3 DEF DiscInv

LEMMA FoundKeeps ==
  ASSUME DiscInv, NEW t \in DiscTasks, finder[t].pc \notin {"idle", "start"},
         NEW p \in Sources, NEW r \in Tiered, Found(t, p, r),
         configured' = configured, raced' = raced,
         account' \in [tier : Tiered, project : Certain, offer : Tiered,
                       scan : BOOLEAN, listed : BOOLEAN],
         account'.offer = account.offer, r \in {Unknown, account'.tier},
         account.tier # Unknown => account'.tier = account.tier,
         account'.tier # Unknown => account.offer \in {Unknown, account'.tier},
         p = "listed" => r = Unknown
  PROVE  DiscInv'
<1> DEFINE U == Unknown
<1>1. /\ known' = [project |-> p, tier |-> IF r = U THEN known.tier ELSE r]
      /\ \/ metadata' = [project |-> p, tier |-> IF r = U THEN metadata.tier ELSE r]
              /\ unsaved' = unsaved
         \/ metadata' = metadata /\ unsaved' = TRUE
      /\ finder' = [finder EXCEPT ![t] = Resting]
  BY DEF Found, WriteMetadata, Ends
<1>2. p # U /\ p \in Named
  BY DiscoveryConstants DEF Named
<1>3. DiscTypeOK'
  <2>1. Resting \in [pc : Steps, project : Certain, polls : Nat]
    BY DiscoveryConstants DEF Resting, Steps, Certain, Named, Sources
  <2>2. finder' \in [DiscTasks -> [pc : Steps, project : Certain, polls : Nat]]
    BY <1>1, <2>1 DEF DiscInv, DiscTypeOK
  <2>3. known.tier \in Tiered /\ metadata.tier \in Tiered
    BY DEF DiscInv, DiscTypeOK
  <2>4. known' \in [project : Named, tier : Tiered]
    BY <1>1, <1>2, <2>3
  <2>5. metadata' \in [project : Named, tier : Tiered]
    BY <1>1, <1>2, <2>3 DEF DiscInv, DiscTypeOK
  <2> QED BY <1>1, <2>2, <2>4, <2>5 DEF DiscInv, DiscTypeOK
<1>4. \A u \in DiscTasks : u # t => finder'[u] = finder[u]
  BY <1>1 DEF DiscInv, DiscTypeOK
<1>5. finder'[t].pc = "idle"
  BY <1>1 DEF DiscInv, DiscTypeOK, Resting
<1>6. known'.project = p /\ known'.tier = IF r = U THEN known.tier ELSE r
  BY <1>1
<1>7. \/ /\ metadata'.project = p /\ metadata'.tier = IF r = U THEN metadata.tier ELSE r
         /\ unsaved' = unsaved
      \/ metadata' = metadata /\ unsaved' = TRUE
  BY <1>1
<1>8. TiersAgree'
  <2>1. known'.tier # U => known'.tier = account'.tier /\ known'.project # U
    BY <1>2, <1>6 DEF DiscInv, TiersAgree
  <2>2. metadata'.tier # U => metadata'.tier = account'.tier /\ metadata'.project # U
    BY <1>2, <1>7 DEF DiscInv, TiersAgree
  <2>3. \A u \in DiscTasks : finder'[u].pc = "onboard" => account'.offer # U
    BY <1>4, <1>5 DEF DiscInv, TiersAgree
  <2> QED BY <2>1, <2>2, <2>3 DEF TiersAgree
<1>9. StartIsFirst'
  <2>1. finder[Startup].pc # "start"
    BY DEF DiscInv, StartIsFirst, DiscTasks
  <2>2. finder'[Startup].pc # "start" /\ \A u \in Requests : finder'[u].pc # "start"
    BY <2>1, <1>4, <1>5 DEF DiscInv, StartIsFirst, DiscTasks
  <2>3. ~unsaved' => known' = metadata'
    BY <2>1, <1>1 DEF DiscInv, StartIsFirst
  <2> QED BY <2>2, <2>3 DEF StartIsFirst
<1>10. AsksAlone'
  <2>1. ~raced => \A u \in DiscTasks : ~Discovering(u)'
    BY <1>4, <1>5 DEF DiscInv, AsksAlone, Discovering
  <2> QED BY <2>1 DEF AsksAlone
<1>11. GuessAlone'
  <2>1. ~raced => known.project = U /\ metadata.project = U
    BY DEF DiscInv, AsksAlone, Discovering
  <2>2. ~raced => known.tier = U /\ metadata.tier = U
    BY <2>1 DEF DiscInv, TiersAgree
  <2> QED BY <1>1, <1>6, <1>7, <2>1, <2>2 DEF GuessAlone
<1> QED BY <1>3, <1>8, <1>9, <1>10, <1>11 DEF DiscInv

\* A task that goes on without having found anything.
LEMMA MovesKeep ==
  ASSUME DiscInv, NEW t \in DiscTasks,
         NEW next \in [pc : Steps \ {"start"}, project : Certain, polls : Nat],
         finder' = [finder EXCEPT ![t] = next],
         next.pc \in {"idle", finder[t].pc} \/ Discovering(t),
         finder[t].pc # "start",
         next.pc = "onboard" => account.offer # Unknown,
         UNCHANGED <<configured, known, metadata, account, unsaved, raced>>
  PROVE  DiscInv'
<1>1. \A u \in DiscTasks : u # t => finder'[u] = finder[u]
  BY DEF DiscInv, DiscTypeOK
<1>2. finder'[t] = next
  BY DEF DiscInv, DiscTypeOK
<1>3. DiscTypeOK'
  BY DEF DiscInv, DiscTypeOK
<1>4. TiersAgree'
  BY <1>1, <1>2 DEF DiscInv, TiersAgree
<1>5. StartIsFirst'
  <2>1. finder'[Startup].pc = "start" <=> finder[Startup].pc = "start"
    BY <1>1, <1>2 DEF DiscTasks
  <2>2. \A u \in Requests : finder'[u].pc # "start"
    BY <1>1, <1>2 DEF DiscInv, StartIsFirst, DiscTasks
  <2>3. finder[Startup].pc = "start" => \A u \in Requests : finder'[u].pc = "idle"
    BY <1>1, <1>2 DEF DiscInv, StartIsFirst, DiscTasks, Discovering
  <2> QED BY <2>1, <2>2, <2>3 DEF DiscInv, StartIsFirst, Nothing
<1>6. \A u \in DiscTasks : Discovering(u)' => Discovering(u)
  BY <1>1, <1>2 DEF Discovering
<1>7. AsksAlone'
  BY <1>6 DEF DiscInv, AsksAlone
<1>8. GuessAlone'
  BY <1>1, <1>2 DEF DiscInv, GuessAlone, DiscTasks
<1> QED BY <1>3, <1>4, <1>5, <1>7, <1>8 DEF DiscInv

LEMMA EndsKeeps ==
  ASSUME DiscInv, NEW t \in DiscTasks, finder[t].pc # "start", Ends(t),
         UNCHANGED <<configured, known, metadata, account, unsaved, raced>>
  PROVE  DiscInv'
<1>1. Resting \in [pc : Steps \ {"start"}, project : Certain, polls : Nat]
  BY DiscoveryConstants DEF Resting, Steps, Certain, Named, Sources
<1> QED BY <1>1, MovesKeep DEF Ends, Resting

LEMMA GoesKeeps ==
  ASSUME DiscInv, NEW t \in DiscTasks, Discovering(t),
         NEW pc \in {"scan", "offer", "list"}, Goes(t, pc),
         UNCHANGED <<configured, known, metadata, account, unsaved, raced>>
  PROVE  DiscInv'
<1> DEFINE next == [finder[t] EXCEPT !.pc = pc]
<1>1. finder[t] \in [pc : Steps, project : Certain, polls : Nat]
  BY DEF DiscInv, DiscTypeOK
<1>2. next \in [pc : Steps \ {"start"}, project : Certain, polls : Nat] /\ next.pc = pc
  BY <1>1 DEF Steps
<1>3. finder' = [finder EXCEPT ![t] = next]
  BY DEF Goes
<1> HIDE DEF next
<1> QED BY <1>2, <1>3, MovesKeep DEF Discovering

LEMMA StartKeeps ==
  ASSUME DiscInv, Start, configured' = configured
  PROVE  DiscInv'
<1> DEFINE U == Unknown
<1>1. Startup \in DiscTasks /\ finder[Startup].pc = "start"
  BY DEF Start, DiscTasks
<1>2. known.project = U /\ known.tier = U
  BY <1>1 DEF DiscInv, StartIsFirst, Nothing
<1>3. metadata \in [project : Named, tier : Tiered]
  BY DEF DiscInv, DiscTypeOK
<1>4. known' = metadata
  BY <1>2, <1>3 DEF Start
<1>5. UNCHANGED <<metadata, account, reboots, unsaved, raced>>
  BY DEF Start
<1>6. PICK next \in [pc : {"idle", "load"}, project : Certain, polls : Nat] :
        /\ finder' = [finder EXCEPT ![Startup] = next]
        /\ next.pc = "load" => metadata.project = U /\ metadata.tier = U
  <2>1. CASE metadata.tier # U \/ metadata.project # U
    <3>1. Resting \in [pc : {"idle", "load"}, project : Certain, polls : Nat]
      BY DiscoveryConstants DEF Resting, Certain, Named, Sources
    <3>2. finder' = [finder EXCEPT ![Startup] = Resting]
      BY <1>2, <2>1 DEF Start, Ends
    <3> QED BY <3>1, <3>2 DEF Resting
  <2>2. CASE metadata.tier = U /\ metadata.project = U
    <3> DEFINE r == [finder[Startup] EXCEPT !.pc = "load"]
    <3>1. finder[Startup] \in [pc : Steps, project : Certain, polls : Nat]
      BY <1>1 DEF DiscInv, DiscTypeOK
    <3>2. r \in [pc : {"idle", "load"}, project : Certain, polls : Nat]
      BY <3>1
    <3>3. finder' = [finder EXCEPT ![Startup] = r]
      BY <1>2, <2>2 DEF Start, Goes
    <3> HIDE DEF r
    <3> QED BY <2>2, <3>2, <3>3
  <2> QED BY <2>1, <2>2
<1>7. /\ finder'[Startup] = next
      /\ \A u \in Requests : finder'[u] = finder[u] /\ finder[u].pc = "idle"
  BY <1>1, <1>6, DiscoveryConstants DEF DiscInv, DiscTypeOK, StartIsFirst, DiscTasks
<1>8. DiscTypeOK'
  BY <1>4, <1>5, <1>6 DEF DiscInv, DiscTypeOK, Steps
<1>9. TiersAgree'
  <2>1. \A t \in DiscTasks : finder'[t].pc # "onboard"
    BY <1>6, <1>7 DEF DiscTasks
  <2> QED BY <1>4, <1>5, <2>1 DEF DiscInv, TiersAgree
<1>10. StartIsFirst'
  BY <1>4, <1>5, <1>6, <1>7 DEF StartIsFirst
<1>11. AsksAlone'
  <2>1. \A t \in DiscTasks : Discovering(t)' => t = Startup /\ next.pc = "load"
    BY <1>6, <1>7 DEF DiscTasks, Discovering
  <2> QED BY <1>4, <1>5, <1>6, <2>1 DEF AsksAlone
<1>12. GuessAlone'
  BY <1>4, <1>5 DEF DiscInv, GuessAlone
<1> QED BY <1>8, <1>9, <1>10, <1>11, <1>12 DEF DiscInv

LEMMA LoadTierKeeps ==
  ASSUME DiscInv, LoadTier, configured' = configured
  PROVE  DiscInv'
<1> DEFINE U == Unknown
<1>1. /\ known.tier = U /\ metadata.tier # U /\ finder[Startup].pc = "idle"
      /\ UNCHANGED <<metadata, account, finder, unsaved, raced>>
  BY DEF LoadTier
<1>2. metadata.project # U /\ metadata.tier = account.tier
  BY <1>1 DEF DiscInv, TiersAgree
<1>3. /\ known' \in [project : Named, tier : Tiered] /\ known'.tier = metadata.tier
      /\ known'.project # U
  <2>1. known' = [tier |-> metadata.tier,
                  project |-> IF known.project = U THEN metadata.project ELSE known.project]
    BY DEF LoadTier
  <2>2. known \in [project : Named, tier : Tiered] /\ metadata \in [project : Named, tier : Tiered]
    BY DEF DiscInv, DiscTypeOK
  <2> QED BY <1>2, <2>1, <2>2
<1>4. unsaved
  BY <1>1 DEF DiscInv, StartIsFirst
<1>5. raced
  BY <1>1, <1>2 DEF DiscInv, GuessAlone
<1>6. DiscTypeOK'
  BY <1>1, <1>3 DEF DiscInv, DiscTypeOK
<1>7. TiersAgree'
  BY <1>1, <1>2, <1>3 DEF DiscInv, TiersAgree
<1>8. StartIsFirst'
  BY <1>1, <1>4 DEF DiscInv, StartIsFirst
<1>9. AsksAlone' /\ GuessAlone'
  BY <1>1, <1>5 DEF AsksAlone, GuessAlone
<1> QED BY <1>6, <1>7, <1>8, <1>9 DEF DiscInv

LEMMA RebootKeeps ==
  ASSUME DiscInv, Reboot, configured' = configured
  PROVE  DiscInv'
<1>1. /\ known' = Nothing /\ finder' = AtStart
      /\ UNCHANGED <<metadata, account, unsaved, raced>>
  BY DEF Reboot
<1> USE DiscoveryConstants DEF Nothing, Resting, AtStart, Discovering
<1>2. DiscTypeOK'
  BY <1>1 DEF DiscInv, DiscTypeOK, Named, Certain, Tiered, Steps, Sources, DiscTasks
<1>3. TiersAgree' /\ StartIsFirst'
  BY <1>1 DEF DiscInv, TiersAgree, StartIsFirst, DiscTasks
<1>4. AsksAlone' /\ GuessAlone'
  BY <1>1 DEF DiscInv, AsksAlone, GuessAlone, DiscTasks
<1> QED BY <1>2, <1>3, <1>4 DEF DiscInv

LEMMA NeedKeeps ==
  ASSUME DiscInv, NEW t \in DiscTasks, Need(t), configured' = configured
  PROVE  DiscInv'
<1> DEFINE U == Unknown
<1>1. /\ t \in Requests /\ finder[t].pc = "idle" /\ finder[Startup].pc = "idle"
      /\ LookUp(t) /\ UNCHANGED <<metadata, account, unsaved>>
  BY DEF Need
<1>2. CASE known.project # U
  BY <1>1, <1>2, EndsKeeps DEF LookUp
<1>3. CASE known.project = U /\ metadata.project # U
  <2>1. known.tier = U /\ Ends(t) /\ raced' = raced
    BY <1>1, <1>3 DEF LookUp, DiscInv, TiersAgree
  <2>2. known' = metadata
    <3>1. metadata \in [project : Named, tier : Tiered]
      BY DEF DiscInv, DiscTypeOK
    <3>2. known' = [metadata EXCEPT !.tier = IF @ = U THEN known.tier ELSE @]
      BY <1>1, <1>3 DEF LookUp
    <3> QED BY <2>1, <3>1, <3>2
  <2>3. \A u \in DiscTasks : finder'[u].pc = finder[u].pc
    BY <1>1, <2>1 DEF DiscInv, DiscTypeOK, Ends, Resting
  <2>4. DiscTypeOK'
    <3>1. Resting \in [pc : Steps, project : Certain, polls : Nat]
      BY DiscoveryConstants DEF Resting, Steps, Certain, Named, Sources
    <3> QED BY <1>1, <2>1, <2>2, <3>1 DEF DiscInv, DiscTypeOK, Ends
  <2>5. TiersAgree'
    BY <1>1, <2>2, <2>3 DEF DiscInv, TiersAgree
  <2>6. StartIsFirst'
    BY <1>1, <2>2, <2>3 DEF DiscInv, StartIsFirst, DiscTasks
  <2>7. ~raced => \A u \in DiscTasks : ~Discovering(u)
    BY <1>3 DEF DiscInv, AsksAlone
  <2>8. AsksAlone'
    BY <2>1, <2>3, <2>7 DEF AsksAlone, Discovering
  <2>9. GuessAlone'
    BY <1>1, <2>1, <2>2 DEF DiscInv, GuessAlone
  <2> QED BY <2>4, <2>5, <2>6, <2>8, <2>9 DEF DiscInv
<1>4. CASE known.project = U /\ metadata.project = U
  <2>1. /\ finder' = [finder EXCEPT ![t].pc = "load"] /\ known' = known
        /\ raced' = (raced \/ \E u \in DiscTasks \ {t} : Discovering(u))
    BY <1>1, <1>4 DEF LookUp, Goes
  <2>2. /\ \A u \in DiscTasks : u # t => finder'[u] = finder[u]
        /\ finder'[t].pc = "load" /\ Startup # t /\ Startup \in DiscTasks
    BY <1>1, <2>1, DiscoveryConstants DEF DiscInv, DiscTypeOK, DiscTasks
  <2>3. DiscTypeOK'
    <3>1. finder' \in [DiscTasks -> [pc : Steps, project : Certain, polls : Nat]]
      BY <2>1 DEF DiscInv, DiscTypeOK, Steps
    <3>2. raced' \in BOOLEAN
      BY <2>1 DEF DiscInv, DiscTypeOK
    <3> QED BY <1>1, <2>1, <3>1, <3>2 DEF DiscInv, DiscTypeOK
  <2>4. TiersAgree'
    BY <1>1, <2>1, <2>2 DEF DiscInv, TiersAgree
  <2>5. StartIsFirst'
    BY <1>1, <2>1, <2>2 DEF DiscInv, StartIsFirst, DiscTasks
  <2>6. AsksAlone'
    BY <1>1, <1>4, <2>1, <2>2 DEF DiscInv, AsksAlone, Discovering
  <2>7. GuessAlone'
    BY <1>1, <2>1, <2>2 DEF DiscInv, GuessAlone
  <2> QED BY <2>3, <2>4, <2>5, <2>6, <2>7 DEF DiscInv
<1> QED BY <1>2, <1>3, <1>4

\* What a discovery asks the services and what they answer.
LEMMA AskingKeeps ==
  ASSUME DiscInv, NEW t \in DiscTasks, configured' = configured,
         LoadAssist(t) \/ ScanProjects(t) \/ Fail(t) \/ List(t)
  PROVE  DiscInv'
<1>1. /\ account \in AccountRecords /\ configured \in {Unknown, "configured"}
      /\ account' = account /\ raced' = raced
  BY DEF DiscInv, DiscTypeOK, AccountRecords, LoadAssist, ScanProjects, Fail, List
<1>2. Discovering(t) /\ finder[t].pc \notin {"idle", "start"}
  BY DEF LoadAssist, ScanProjects, Fail, List, Discovering
<1>3. /\ account.tier \in Tiered /\ Unknown \in Tiered
      /\ account.tier # Unknown => account.offer \in {Unknown, account.tier}
  BY <1>1 DEF AccountRecords, Tiered, DiscInv, TiersAgree
<1>4. ASSUME NEW p \in Sources, NEW r \in {Unknown, account.tier}, Found(t, p, r),
             p = "listed" => r = Unknown
      PROVE  DiscInv'
  BY <1>1, <1>2, <1>3, <1>4, FoundKeeps DEF AccountRecords
<1>5. ASSUME NEW pc \in {"scan", "offer", "list"}, Goes(t, pc),
             UNCHANGED <<known, metadata, unsaved>>
      PROVE  DiscInv'
  BY <1>1, <1>2, <1>5, GoesKeeps
<1>6. CASE LoadAssist(t)
  <2>1. CASE account.tier # Unknown /\ (account.project # Unknown \/ configured # Unknown)
    <3> DEFINE p == IF account.project # Unknown THEN account.project ELSE configured
    <3>1. Found(t, p, account.tier)
      BY <1>6, <2>1 DEF LoadAssist
    <3>2. p \in Sources /\ p # "listed"
      BY <1>1, <2>1 DEF AccountRecords, Certain, Named, Sources
    <3> HIDE DEF p
    <3> QED BY <1>4, <3>1, <3>2
  <2>2. CASE ~(account.tier # Unknown /\ (account.project # Unknown \/ configured # Unknown))
    BY <1>5, <1>6, <2>2 DEF LoadAssist
  <2> QED BY <2>1, <2>2
<1>7. CASE ScanProjects(t)
  <2>1. CASE Found(t, "scanned", account.tier)
    BY <1>4, <2>1 DEF Sources
  <2>2. CASE Goes(t, "offer") /\ UNCHANGED <<known, metadata, unsaved>>
    BY <1>5, <2>2
  <2> QED BY <1>7, <2>1, <2>2 DEF ScanProjects
<1>8. CASE Fail(t)
  BY <1>5, <1>8 DEF Fail
<1>9. CASE List(t)
  <2>1. CASE Found(t, "listed", Unknown)
    BY <1>4, <2>1 DEF Sources
  <2>2. CASE Ends(t) /\ UNCHANGED <<known, metadata, unsaved>>
    BY <1>1, <1>2, <2>2, EndsKeeps
  <2> QED BY <1>9, <2>1, <2>2 DEF List
<1> QED BY <1>6, <1>7, <1>8, <1>9

LEMMA OnboardingKeeps ==
  ASSUME DiscInv, NEW t \in DiscTasks, configured' = configured,
         Offer(t) \/ Onboard(t) \/ Onboarded(t)
  PROVE  DiscInv'
<1>1. /\ account \in AccountRecords /\ configured \in {Unknown, "configured"} /\ raced' = raced
      /\ finder[t] \in [pc : Steps, project : Certain, polls : Nat]
  BY DEF DiscInv, DiscTypeOK, AccountRecords, Offer, Onboard, Onboarded
<1>2. Discovering(t) /\ finder[t].pc \notin {"idle", "start"}
  BY DEF Offer, Onboard, Onboarded, Discovering
<1>3. CASE Offer(t)
  <2>1. UNCHANGED <<configured, known, metadata, account, unsaved, raced>>
    BY <1>3 DEF Offer
  <2>2. CASE Ends(t)
    BY <1>2, <2>1, <2>2, EndsKeeps
  <2>3. ASSUME account.offer # Unknown, NEW p \in {configured, "scanned"}, Onboards(t, p)
        PROVE  DiscInv'
    <3> DEFINE next == [pc |-> "onboard", project |-> p, polls |-> 0]
    <3>1. next \in [pc : Steps \ {"start"}, project : Certain, polls : Nat] /\ next.pc = "onboard"
      BY <1>1, DiscoveryConstants DEF Steps, Certain, Named, Sources
    <3>2. finder' = [finder EXCEPT ![t] = next]
      BY <2>3 DEF Onboards
    <3> HIDE DEF next
    <3> QED BY <1>2, <2>1, <2>3, <3>1, <3>2, MovesKeep
  <2> QED BY <1>3, <2>2, <2>3 DEF Offer
<1>4. CASE Onboard(t)
  <2>1. /\ finder[t].pc = "onboard"
        /\ UNCHANGED <<configured, known, metadata, account, unsaved, raced>>
    BY <1>4 DEF Onboard
  <2>2. CASE Ends(t)
    BY <1>2, <2>1, <2>2, EndsKeeps
  <2>3. CASE finder' = [finder EXCEPT ![t].polls = @ + 1]
    <3> DEFINE next == [finder[t] EXCEPT !.polls = @ + 1]
    <3>1. next \in [pc : Steps \ {"start"}, project : Certain, polls : Nat] /\ next.pc = "onboard"
      BY <1>1, <2>1 DEF Steps
    <3>2. finder' = [finder EXCEPT ![t] = next]
      BY <2>3
    <3>3. account.offer # Unknown
      BY <2>1 DEF DiscInv, TiersAgree
    <3> HIDE DEF next
    <3> QED BY <1>2, <2>1, <3>1, <3>2, <3>3, MovesKeep
  <2> QED BY <1>4, <2>2, <2>3 DEF Onboard
<1>5. CASE Onboarded(t)
  <2>1. PICK made \in BOOLEAN :
          LET server == IF finder[t].project # Unknown THEN finder[t].project
                        ELSE IF made THEN "server" ELSE account.project
              project == IF server # Unknown THEN server ELSE configured
          IN  /\ account' = [account EXCEPT !.tier = account.offer, !.project = server]
              /\ IF project # Unknown THEN Found(t, project, account.offer)
                 ELSE Ends(t) /\ UNCHANGED <<known, metadata, unsaved>>
    BY <1>5 DEF Onboarded
  <2> DEFINE server == IF finder[t].project # Unknown THEN finder[t].project
                       ELSE IF made THEN "server" ELSE account.project
             project == IF server # Unknown THEN server ELSE configured
  <2>2. server \in Certain
    BY <1>1 DEF AccountRecords, Certain, Named, Sources
  <2>3. project \in Certain
    BY <1>1, <2>2 DEF Certain, Named, Sources
  <2>4. /\ account' = [account EXCEPT !.tier = account.offer, !.project = server]
        /\ IF project # Unknown THEN Found(t, project, account.offer)
           ELSE Ends(t) /\ UNCHANGED <<known, metadata, unsaved>>
    BY <2>1
  <2> HIDE DEF server, project
  <2>5. /\ account' \in AccountRecords /\ account'.tier = account.offer
        /\ account'.offer = account.offer
    BY <1>1, <2>2, <2>4 DEF AccountRecords
  <2>6. account.offer # Unknown /\ (account.tier # Unknown => account.tier = account.offer)
    BY <1>5 DEF Onboarded, DiscInv, TiersAgree
  <2>7. account.offer \in Tiered
    BY <1>1 DEF AccountRecords
  <2>8. CASE project # Unknown
    <3>1. project \in Sources /\ project # "listed" /\ Found(t, project, account.offer)
      BY <2>3, <2>4, <2>8 DEF Certain, Named
    <3> QED BY <1>1, <1>2, <2>5, <2>6, <2>7, <3>1, FoundKeeps DEF AccountRecords
  <2>9. CASE project = Unknown
    <3>1. Ends(t) /\ UNCHANGED <<configured, known, metadata, unsaved, raced>>
      BY <1>1, <2>4, <2>9
    <3>2. finder' = [finder EXCEPT ![t] = Resting]
      BY <3>1 DEF Ends
    <3>3. \A u \in DiscTasks : u # t => finder'[u] = finder[u]
      BY <3>2 DEF DiscInv, DiscTypeOK
    <3>4. finder'[t].pc = "idle"
      BY <3>2 DEF DiscInv, DiscTypeOK, Resting
    <3>5. DiscTypeOK'
      <4>1. Resting \in [pc : Steps, project : Certain, polls : Nat]
        BY DiscoveryConstants DEF Resting, Steps, Certain, Named, Sources
      <4> QED BY <2>5, <3>1, <3>2, <4>1 DEF DiscInv, DiscTypeOK, AccountRecords
    <3>6. TiersAgree'
      BY <2>5, <2>6, <3>1, <3>3, <3>4 DEF DiscInv, TiersAgree
    <3>7. StartIsFirst'
      BY <1>2, <3>1, <3>3, <3>4 DEF DiscInv, StartIsFirst, DiscTasks
    <3>8. AsksAlone'
      BY <3>1, <3>3, <3>4 DEF DiscInv, AsksAlone, Discovering
    <3>9. GuessAlone'
      BY <1>2, <3>1, <3>3, <3>4 DEF DiscInv, GuessAlone, StartIsFirst, DiscTasks
    <3> QED BY <3>5, <3>6, <3>7, <3>8, <3>9 DEF DiscInv
  <2> QED BY <2>8, <2>9
<1> QED BY <1>3, <1>4, <1>5

LEMMA DiscPreserved == DiscInv /\ [DiscNext]_discVars => DiscInv'
<1> SUFFICES ASSUME DiscInv, [DiscNext]_discVars PROVE DiscInv'
  OBVIOUS
<1>1. CASE UNCHANGED discVars
  BY <1>1 DEF DiscInv, DiscTypeOK, TiersAgree, StartIsFirst, AsksAlone, GuessAlone,
              Discovering, discVars
<1>2. CASE DiscNext
  BY <1>2, StartKeeps, LoadTierKeeps, RebootKeeps, NeedKeeps, AskingKeeps, OnboardingKeeps
     DEF DiscNext
<1> QED BY <1>1, <1>2

LEMMA TierStays == DiscInv /\ [DiscNext]_discVars => [TierSurvives]_metadata
<1> SUFFICES ASSUME DiscNext, metadata.tier # Unknown, metadata' # metadata
             PROVE  metadata'.tier # Unknown
  BY DEF TierSurvives, discVars
<1>1. PICK p, r : WriteMetadata(p, r)
  BY DEF DiscNext, Start, LoadTier, Reboot, Need, LoadAssist, ScanProjects, Offer, Onboard,
         Onboarded, Fail, List, Found
<1> QED BY <1>1 DEF WriteMetadata

\* The project and the tier in use come from Google or the file, for any requests,
\* failures, overlaps and restarts: the tier is the account's, the next start finds
\* what was found unless it could not be written, a guessed project has no tier, and
\* a tier on file stays there (_discover_project_id, _persist_project_metadata).
THEOREM ProjectStaysKept == DiscSpec => ProjectKept
<1>1. DiscInv => TierIsAccounts /\ FileIsCache /\ GuessHasNoTier
  <2>1. DiscInv => TierIsAccounts /\ GuessHasNoTier
    BY DEF DiscInv, TiersAgree, GuessAlone, TierIsAccounts, GuessHasNoTier
  <2>2. DiscInv => FileIsCache
    BY DEF DiscInv, StartIsFirst, FileIsCache, Nothing
  <2> QED BY <2>1, <2>2
<1> QED BY <1>1, DiscInitial, DiscPreserved, TierStays, PTL DEF DiscSpec, ProjectKept
=============================================================================
