---------------------------- MODULE RefreshQueue ----------------------------
(***************************************************************************)
(* The token refresh of GoogleOAuthBase.  The background refresher queues  *)
(* every credential whose token nears its expiry; one processor task takes *)
(* them in turn, retries failures at the back of the queue, and ends after *)
(* 60 s without work.  Requests refresh the tokens they need themselves,   *)
(* under the same lock of the credential.                                  *)
(*                                                                         *)
(* No critical section of the tracking lock contains an await that         *)
(* suspends, so the lock is never contended and needs no variable.         *)
(***************************************************************************)
EXTENDS Integers, Sequences, FiniteSets

CONSTANTS
  Paths,       \* credential files
  MaxRetries,  \* _refresh_max_retries
  Revokes,     \* the issuer may revoke refresh tokens
  None,
  MaxQueue     \* bound on the length of the queue

ASSUME QueueConstants ==
  /\ None \notin Paths
  /\ MaxRetries \in Nat \ {0} /\ MaxQueue \in Nat
  /\ Revokes \in BOOLEAN

VARIABLES
  queue,     \* _refresh_queue
  queued,    \* _queued_credentials
  retries,   \* _queue_retry_count, 0 when absent
  expired,   \* _permanently_expired_credentials
  worker,    \* the processor: [pc, path]
  requests,  \* credentials a request is refreshing, with their lock held
  stale,     \* credentials for which _is_token_expired
  revoked,   \* credentials whose refresh token the issuer has revoked
  failures   \* failures of a path since it was queued (history, counted up
             \* to MaxRetries + 1)

vars == <<queue, queued, retries, expired, worker, requests, stale, revoked,
          failures>>

\* none: no task; waiting: in the queue's get; idle: the 60 s timer has
\* cancelled the get and the task has not run yet; locking: waits for the
\* lock of its path; posting: holds it; pausing: the 30 s between credentials.
Worker == [pc : {"none", "waiting", "idle", "locking", "posting", "pausing"},
           path : Paths \cup {None}]
TypeOK ==
  /\ queue \in Seq(Paths)
  /\ queued \in SUBSET Paths
  /\ retries \in [Paths -> Nat]
  /\ {expired, requests, stale, revoked} \subseteq SUBSET Paths
  /\ worker \in Worker
  /\ failures \in [Paths -> Nat]

At(pc) == [pc |-> pc, path |-> None]
Zero == [p \in Paths |-> 0]

Init ==
  /\ queue = <<>> /\ queued = {} /\ retries = Zero
  /\ expired = {} /\ worker = At("none") /\ requests = {}
  /\ stale = {} /\ revoked = {} /\ failures = Zero

-----------------------------------------------------------------------------
(* Tokens.                                                                  *)

Expires(p) ==
  /\ p \notin stale
  /\ stale' = stale \cup {p}
  /\ UNCHANGED <<queue, queued, retries, expired, worker, requests, revoked,
                 failures>>

Revoked(p) ==
  /\ Revokes /\ p \notin revoked
  /\ revoked' = revoked \cup {p}
  /\ UNCHANGED <<queue, queued, retries, expired, worker, requests, stale,
                 failures>>

\* proactively_refresh and _queue_refresh, which starts the processor unless
\* its task exists.
QueueRefresh(p) ==
  /\ p \in stale /\ p \notin queued /\ Len(queue) < MaxQueue
  /\ queued' = queued \cup {p}
  /\ queue' = Append(queue, p)
  /\ worker' = IF worker.pc = "none" THEN At("waiting") ELSE worker
  /\ failures' = [failures EXCEPT ![p] = 0]
  /\ UNCHANGED <<retries, expired, requests, stale, revoked>>

\* get_auth_header refreshes a token it needs on its own.
RequestRefreshes(p) ==
  /\ p \in stale /\ p \notin requests
  /\ worker # [pc |-> "posting", path |-> p]
  /\ requests' = requests \cup {p}
  /\ UNCHANGED <<queue, queued, retries, expired, worker, stale, revoked,
                 failures>>

RequestRefreshed(p) ==
  /\ p \in requests
  /\ requests' = requests \ {p}
  /\ \/ /\ p \notin revoked
        /\ stale' = stale \ {p}
        /\ UNCHANGED <<expired, queued>>
     \/ /\ p \in revoked               \* _mark_credential_expired
        /\ expired' = expired \cup {p}
        /\ queued' = queued \ {p}
        /\ UNCHANGED stale
     \/ UNCHANGED <<stale, expired, queued>>
  /\ UNCHANGED <<queue, retries, worker, revoked, failures>>

-----------------------------------------------------------------------------
(* _process_refresh_queue.                                                  *)

KeptAlways(S, p, r) == S
KeptNever(S, p, r) == S \ {p}
\* What the `finally` clause leaves of the set S of queued paths.
Kept(S, p, r) == IF r[p] = 0 THEN S \ {p} ELSE S

\* The attempt for p is over, and p needs no other one.
Done(p, next) ==
  /\ retries' = [retries EXCEPT ![p] = 0]
  /\ queued' = Kept(queued, p, retries')
  /\ worker' = At(next)

Take ==
  /\ worker.pc = "waiting" /\ queue # <<>>
  /\ queue' = Tail(queue)
  /\ LET p == Head(queue)
     IN IF p \in stale
        THEN /\ worker' = [pc |-> "locking", path |-> p]
             /\ UNCHANGED <<queued, retries>>
        ELSE Done(p, "waiting")
  /\ UNCHANGED <<expired, requests, stale, revoked, failures>>

\* _refresh_token looks at the token again once it has the lock.
Lock ==
  /\ worker.pc = "locking" /\ worker.path \notin requests
  /\ IF worker.path \in stale
     THEN /\ worker' = [worker EXCEPT !.pc = "posting"]
          /\ UNCHANGED <<queued, retries>>
     ELSE Done(worker.path, "pausing")
  /\ UNCHANGED <<queue, expired, requests, stale, revoked, failures>>

Refreshed ==
  /\ worker.pc = "posting" /\ worker.path \notin revoked
  /\ stale' = stale \ {worker.path}
  /\ Done(worker.path, "pausing")
  /\ UNCHANGED <<queue, expired, requests, revoked, failures>>

Kicks(p) == retries[p] + 1 >= MaxRetries

\* _handle_refresh_failure, then the `finally` clause; S is what the failed
\* attempt left of queued.
Failed(p, S) ==
  /\ failures' = [failures EXCEPT ![p] = IF @ > MaxRetries THEN @ ELSE @ + 1]
  /\ IF Kicks(p)
     THEN /\ retries' = [retries EXCEPT ![p] = 0]
          /\ queued' = S \ {p}
          /\ UNCHANGED queue
     ELSE /\ retries' = [retries EXCEPT ![p] = @ + 1]
          /\ queued' = Kept(S, p, retries')
          /\ queue' = Append(queue, p)
  /\ worker' = At("pausing")

\* The 15 s timeout, a network error, or a status other than the ones below.
RefreshFails ==
  /\ worker.pc \in {"locking", "posting"}
  /\ Failed(worker.path, queued)
  /\ UNCHANGED <<expired, requests, stale, revoked>>

\* invalid_grant, 401 or 403: _refresh_token marks the credential as expired
\* and raises CredentialNeedsReauthError, which is handled as a failure.
RefreshRejected ==
  /\ worker.pc = "posting" /\ worker.path \in revoked
  /\ expired' = expired \cup {worker.path}
  /\ Failed(worker.path, queued \ {worker.path})
  /\ UNCHANGED <<requests, stale, revoked>>

PauseEnds ==
  /\ worker.pc = "pausing"
  /\ worker' = At("waiting")
  /\ UNCHANGED <<queue, queued, retries, expired, requests, stale, revoked,
                 failures>>

IdleFires ==
  /\ worker.pc = "waiting" /\ queue = <<>>
  /\ worker' = At("idle")
  /\ UNCHANGED <<queue, queued, retries, expired, requests, stale, revoked,
                 failures>>

IdleEnds ==
  /\ worker.pc = "idle"
  /\ worker' = At("none")
  /\ retries' = Zero
  /\ UNCHANGED <<queue, queued, expired, requests, stale, revoked, failures>>

Process ==
  \/ Take \/ Lock \/ Refreshed \/ RefreshFails \/ RefreshRejected \/ PauseEnds
  \/ IdleEnds

Next ==
  \/ \E p \in Paths :
       \/ Expires(p) \/ Revoked(p) \/ QueueRefresh(p)
       \/ RequestRefreshes(p) \/ RequestRefreshed(p)
  \/ Process
  \/ IdleFires

Spec == Init /\ [][Next]_vars

\* The processor's awaits end: every refresh has a timeout.
FairSpec == Spec /\ WF_vars(Process)

-----------------------------------------------------------------------------
(* Properties.                                                              *)

Places(p) == {i \in 1..Len(queue) : queue[i] = p}
Handled(p) == worker.path = p

\* A credential whose token is not revoked is in the queue or in the
\* processor's hands at most once, and queued says exactly whether it is: none
\* is refreshed twice for one cause and none is kept out of the queue for good.
QueuedOnce ==
  \A p \in Paths \ revoked :
    /\ Cardinality(Places(p)) + (IF Handled(p) THEN 1 ELSE 0) <= 1
    /\ p \in queued <=> (Places(p) # {} \/ Handled(p))

\* A credential that keeps failing, but is not revoked, is given up after
\* MaxRetries attempts.
RetriesBounded == \A p \in Paths \ revoked : failures[p] <= MaxRetries

\* The queue, the set of queued paths, the retry counts and the processor agree.
QueueSound == TypeOK /\ QueuedOnce /\ RetriesBounded

\* While the processor lives no credential stays queued for good, even if
\* every refresh fails.
Drained == \A p \in Paths : []<>(p \notin queued \/ worker.pc = "none")
=============================================================================
