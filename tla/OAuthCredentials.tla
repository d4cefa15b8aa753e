-------------------------- MODULE OAuthCredentials --------------------------
(***************************************************************************)
(* The tokens of one credential file of GoogleOAuthBase: the object in     *)
(* _credentials_cache, the file, and the write that is buffered while the  *)
(* disk fails.  Requests take their header from it and refresh it under    *)
(* the lock of its path; the first ones discover the project and store it  *)
(* in the file.                                                            *)
(*                                                                         *)
(* Python objects are shared: a refresh changes the object it was given in *)
(* place, before it is saved, and whoever holds that object sees it.  So   *)
(* the model has a heap of credential objects, without the ones nothing    *)
(* refers to.  A token is the number of the grant it came from.            *)
(***************************************************************************)
EXTENDS Integers, FiniteSets

CONSTANTS
  Users,         \* requests, and the jobs that need a header
  Starter,       \* initialize_token and get_user_info before the first request
  MaxGrants,     \* bound on the tokens issued
  MaxRestarts    \* bound on crashes and restarts

ASSUME TokenConstants ==
  /\ IsFiniteSet(Users) /\ Starter \notin Users /\ 0 \notin Users \cup {Starter}
  /\ {MaxGrants, MaxRestarts} \subseteq Nat

VARIABLES
  heap,      \* credential objects
  cached,    \* the object in _credentials_cache, or 0
  file,      \* the credential file
  buffered,  \* the object whose write is retried, or 0
  disk,      \* whether writes to the disk succeed
  issuer,    \* [access, refresh, expiring, revoked, rotates]: the newest tokens
  holder,    \* who holds the lock of the path, or 0
  task,      \* [pc, obj] of each task
  inRotation,
  marked,    \* _permanently_expired_credentials: "no", "refused", "startup"
  projectCached,  \* project_id_cache has the path
  restarts,
  grants,    \* history: grants since the newest token neared its end
  lost,      \* history: an older token was put over the newest one
  cutShort,  \* history: a task was stopped before it saved its new token
  staleSent  \* history: a header with a token past its end was handed out by a
             \* task whose own refresh had not failed

tokVars == <<heap, cached, file, buffered, disk, issuer, holder, task, inRotation,
             marked, projectCached, restarts, grants, lost, cutShort, staleSent>>

Tasks == Users \cup {Starter}
Objects == 1..(Cardinality(Users) + 3)
Blank == [access |-> 0, refresh |-> 0, project |-> FALSE]
Idle == [pc |-> "idle", obj |-> 0]

TokInit ==
  /\ heap = [i \in Objects |-> Blank] /\ cached = 0 /\ buffered = 0
  /\ file \in {[access |-> 1, refresh |-> 1, project |-> b] : b \in BOOLEAN}
  /\ disk = TRUE
  /\ issuer \in [access : {1}, refresh : {1}, expiring : BOOLEAN,
                 revoked : {FALSE}, rotates : BOOLEAN]
  /\ holder = 0
  /\ task = [t \in Tasks |-> IF t = Starter THEN [Idle EXCEPT !.pc = "load"] ELSE Idle]
  /\ inRotation = FALSE /\ marked = "no" /\ projectCached = FALSE
  /\ restarts = 0 /\ grants = 0 /\ lost = FALSE /\ cutShort = FALSE
  /\ staleSent = FALSE

\* _is_token_expired: a token is refreshed only when it nears its end, so the
\* ones before it are over.
Expired(creds) == issuer.expiring \/ creds.access < issuer.access

Referred == {cached', buffered'} \cup {task'[t].obj : t \in Tasks}
Keep(h) == heap' = [i \in Objects |-> IF i \in Referred THEN h[i] ELSE Blank]
NewObject ==
  CHOOSE i \in Objects : i \notin {cached, buffered} \cup {task[t].obj : t \in Tasks}

SaveLeavingOlderWrite(h, i) ==
  /\ cached' = i
  /\ IF disk THEN file' = h[i] /\ UNCHANGED buffered
     ELSE buffered' = i /\ UNCHANGED file
\* _save_credentials: the cache first, then the file or the buffer.
Save(h, i) ==
  /\ cached' = i
  /\ IF disk THEN file' = h[i] /\ buffered' = 0
     ELSE buffered' = i /\ UNCHANGED file

Go(t, pc, i) == task' = [task EXCEPT ![t] = [pc |-> pc, obj |-> i]]

\* t has its header.  The provider looks for the project in its cache, then in
\* the file, and discovers it otherwise.
Answer(t, creds, failed) ==
  /\ staleSent' = (staleSent \/ (Expired(creds) /\ ~failed))
  /\ IF t = Starter THEN Go(t, "info", 0) /\ UNCHANGED projectCached
     ELSE IF projectCached \/ file.project
          THEN Go(t, "idle", 0) /\ projectCached' = TRUE
          ELSE Go(t, "discover", 0) /\ UNCHANGED projectCached

\* What t does with the credentials it has loaded.
Use(t, creds, i) ==
  IF Expired(creds) THEN Go(t, "lock", i) /\ UNCHANGED <<staleSent, projectCached>>
  ELSE Answer(t, creds, FALSE)

-----------------------------------------------------------------------------
(* _load_credentials.                                                       *)

\* get_auth_header of a request; the start has filled the cache.
Begin(t) ==
  /\ inRotation /\ task[t].pc = "idle"
  /\ Use(t, heap[cached], cached)
  /\ UNCHANGED <<cached, file, buffered, disk, issuer, holder, inRotation, marked,
                 restarts, grants, lost, cutShort>>
  /\ Keep(heap)

Load(t) ==
  /\ task[t].pc = "load" /\ holder = 0
  /\ IF cached # 0
     THEN Use(t, heap[cached], cached) /\ UNCHANGED holder
     ELSE Go(t, "read", 0) /\ holder' = t /\ UNCHANGED <<staleSent, projectCached>>
  /\ UNCHANGED <<cached, file, buffered, disk, issuer, inRotation, marked,
                 restarts, grants, lost, cutShort>>
  /\ Keep(heap)

Read(t) ==
  /\ task[t].pc = "read"
  /\ cached' = NewObject /\ holder' = 0
  /\ Use(t, file, NewObject)
  /\ UNCHANGED <<file, buffered, disk, issuer, inRotation, marked, restarts, grants,
                 lost, cutShort>>
  /\ Keep([heap EXCEPT ![NewObject] = file])

-----------------------------------------------------------------------------
(* _refresh_token.                                                          *)

\* The credentials a refresh looks at once it has the lock.
Needed(t) == heap[cached]
\* The ones it answers with when another task has renewed them.
AlreadyRenewed(t) == heap[cached]

Acquire(t) ==
  /\ task[t].pc = "lock" /\ holder = 0
  /\ IF Expired(Needed(t))
     THEN Go(t, "post", task[t].obj) /\ holder' = t /\ UNCHANGED <<staleSent, projectCached>>
     ELSE Answer(t, AlreadyRenewed(t), FALSE) /\ UNCHANGED holder
  /\ UNCHANGED <<cached, file, buffered, disk, issuer, inRotation, marked, restarts,
                 grants, lost, cutShort>>
  /\ Keep(heap)

Accepted(t) == ~issuer.revoked /\ heap[task[t].obj].refresh = issuer.refresh

\* The fields the answer of the issuer sets.
WithGrant(creds, new) == [creds EXCEPT !.access = new.access, !.refresh = new.refresh]

\* The issuer grants a token, and the task changes its object.
Granted(t) ==
  /\ task[t].pc = "post" /\ Accepted(t) /\ issuer.access < MaxGrants
  /\ issuer' = [issuer EXCEPT !.access = @ + 1, !.expiring = FALSE,
                              !.refresh = IF issuer.rotates THEN @ + 1 ELSE @]
  /\ grants' = grants + 1
  /\ Go(t, "validate", task[t].obj)
  /\ UNCHANGED <<cached, file, buffered, disk, holder, inRotation, marked,
                 projectCached, restarts, lost, cutShort, staleSent>>
  /\ Keep([heap EXCEPT ![task[t].obj] = WithGrant(@, issuer')])

\* The request for the new token has failed: get_auth_header falls back to the
\* cached token; initialize_token marks the credential, which is left out.
GiveUp(t, mark) ==
  /\ holder' = 0
  /\ IF t = Starter
     THEN /\ Go(t, "idle", 0) /\ marked' = IF mark = "no" THEN "startup" ELSE mark
          /\ UNCHANGED <<staleSent, projectCached>>
     ELSE /\ Answer(t, heap[cached], TRUE)
          /\ marked' = IF mark = "no" THEN marked ELSE mark
  /\ UNCHANGED <<cached, file, buffered, disk, issuer, inRotation, restarts, grants,
                 lost, cutShort>>
  /\ Keep(heap)

PostFails(t) == task[t].pc = "post" /\ GiveUp(t, "no")
\* invalid_grant, 401 or 403: _mark_credential_expired.
Refused(t) == task[t].pc = "post" /\ ~Accepted(t) /\ GiveUp(t, "refused")

\* The new token has been tried (whatever the outcome) and is saved.
Validated(t) ==
  /\ task[t].pc = "validate"
  /\ Save(heap, task[t].obj) /\ holder' = 0
  /\ Answer(t, heap[task[t].obj], FALSE)
  /\ UNCHANGED <<disk, issuer, inRotation, marked, restarts, grants, lost, cutShort>>
  /\ Keep(heap)

-----------------------------------------------------------------------------
(* The project, the start and the end.                                      *)

\* _persist_project_metadata: the file as it is becomes the cached object.
Persist(t) ==
  /\ task[t].pc = "discover"
  /\ LET i == NewObject
         h == [heap EXCEPT ![i] = [file EXCEPT !.project = TRUE]]
     IN /\ Save(h, i)
        /\ Go(t, "idle", 0)
        /\ Keep(h)
  /\ projectCached' = TRUE
  /\ lost' = (lost \/ /\ file.access < issuer.access
                      /\ \A u \in Tasks : task[u].pc # "validate")
  /\ UNCHANGED <<disk, issuer, holder, inRotation, marked, restarts, grants, cutShort,
                 staleSent>>

DiscoveryFails(t) ==
  /\ task[t].pc = "discover" /\ Go(t, "idle", 0)
  /\ UNCHANGED <<heap, cached, file, buffered, disk, issuer, holder, inRotation, marked,
                 projectCached, restarts, grants, lost, cutShort, staleSent>>

\* get_user_info stores the time of its check.
UserInfo ==
  /\ task[Starter].pc = "info"
  /\ Save(heap, cached) /\ Go(Starter, "idle", 0) /\ inRotation' = TRUE
  /\ UNCHANGED <<disk, issuer, holder, marked, projectCached, restarts, grants, lost,
                 cutShort, staleSent>>
  /\ Keep(heap)

\* What remains of the lock when t leaves its block.
FreedNever(t) == holder
Freed(t) == IF holder = t THEN 0 ELSE holder

\* The 15 s of the refresh queue, or a client that leaves.
Stopped(t) ==
  /\ t # Starter /\ task[t].pc # "idle"
  /\ holder' = Freed(t)
  /\ Go(t, "idle", 0)
  /\ lost' = (lost \/ (task[t].pc = "validate" /\ cached # task[t].obj))
  /\ cutShort' = (cutShort \/ task[t].pc = "validate")
  /\ UNCHANGED <<cached, file, buffered, disk, issuer, inRotation, marked,
                 projectCached, restarts, grants, staleSent>>
  /\ Keep(heap)

Restart ==
  /\ restarts < MaxRestarts /\ restarts' = restarts + 1
  /\ \/ UNCHANGED file                                        \* a crash
     \/ disk /\ buffered # 0 /\ file' = heap[buffered]        \* the exit handler
  /\ cached' = 0 /\ buffered' = 0 /\ holder' = 0
  /\ heap' = [i \in Objects |-> Blank]
  /\ task' = [t \in Tasks |-> IF t = Starter THEN [Idle EXCEPT !.pc = "load"] ELSE Idle]
  /\ inRotation' = FALSE /\ marked' = "no" /\ projectCached' = FALSE
  /\ lost' = (lost \/ file'.access < issuer.access)
  /\ UNCHANGED <<disk, issuer, grants, cutShort, staleSent>>

\* safe_write_json's retry thread.
Flush ==
  /\ disk /\ buffered # 0
  /\ file' = heap[buffered] /\ buffered' = 0
  /\ UNCHANGED <<cached, disk, issuer, holder, task, inRotation, marked, projectCached,
                 restarts, grants, lost, cutShort, staleSent>>
  /\ Keep(heap)

Untouched == UNCHANGED <<heap, cached, file, buffered, holder, task, inRotation, marked,
                         projectCached, restarts, lost, cutShort, staleSent>>
DiskChanges == disk' = ~disk /\ UNCHANGED <<issuer, grants>> /\ Untouched

\* An hour passes: longer than any wait for the lock or request for a token.
NearsEnd ==
  /\ ~issuer.expiring
  /\ \A t \in Tasks : task[t].pc \notin {"load", "read", "lock", "post", "validate"}
  /\ issuer' = [issuer EXCEPT !.expiring = TRUE] /\ grants' = 0
  /\ UNCHANGED disk /\ Untouched
Revoke ==
  /\ ~issuer.revoked
  /\ issuer' = [issuer EXCEPT !.revoked = TRUE]
  /\ UNCHANGED <<disk, grants>> /\ Untouched

Step(t) ==
  \/ Load(t) \/ Read(t) \/ Acquire(t)
  \/ Granted(t) \/ PostFails(t) \/ Refused(t) \/ Validated(t)
  \/ Persist(t) \/ DiscoveryFails(t)

TokNext ==
  \/ \E t \in Tasks : Step(t) \/ Stopped(t)
  \/ \E t \in Users : Begin(t)
  \/ UserInfo \/ Restart \/ Flush \/ DiskChanges \/ NearsEnd \/ Revoke

TokSpec == TokInit /\ [][TokNext]_tokVars

\* Every wait for a server has a timeout, and an asyncio.Lock serves its waiters
\* in turn.
TokFairness == \A t \in Tasks : SF_tokVars(Step(t))

-----------------------------------------------------------------------------
(* Properties.                                                              *)

TokTypeOK ==
  /\ heap \in [Objects -> [access : Nat, refresh : Nat, project : BOOLEAN]]
  /\ {cached, buffered} \subseteq {0} \cup Objects
  /\ holder \in {0} \cup Tasks
  /\ \A t \in Tasks :
       /\ task[t].pc \in {"idle", "load", "read", "lock", "post", "validate",
                          "discover", "info"}
       /\ (task[t].obj # 0) <=> (task[t].pc \in {"lock", "post", "validate"})
       /\ (holder = t) <=> (task[t].pc \in {"read", "post", "validate"})

Saving == \E t \in Tasks : task[t].pc = "validate"

\* A token that nears its end is renewed once, however many requests need it at
\* that moment: the later ones find the new token in the cache.
GrantedOnce == ~lost => grants <= 1

\* Except while a refresh is about to save, the cache holds the newest token;
\* so does the file, unless its write is buffered or the refresh was stopped.
\* Requests that store the project read the file and never put an older token
\* over a newer one, except when a write had failed before.
NewestKept ==
  ~lost /\ ~Saving =>
    /\ cached # 0 => heap[cached].access = issuer.access
    /\ cached # 0 /\ buffered = 0 /\ ~cutShort => file.access = issuer.access

\* A request is sent with a token that is still good unless its own attempt to
\* renew it has failed.
HeaderFresh == ~staleSent

\* The proxy declares a credential permanently expired only if its owner has
\* revoked it, or a token was lost in one of the ways above, or the refresh
\* failed when the proxy started.
NotLockedOut == marked = "refused" => issuer.revoked \/ lost

\* One renewal for all who need it, kept, sent and never lost without cause.
TokensSound == TokTypeOK /\ GrantedOnce /\ NewestKept /\ HeaderFresh /\ NotLockedOut

\* Every request gets its header, or fails, whatever the issuer and the disk do.
HeaderAnswered == \A t \in Users : (task[t].pc # "idle") ~> (task[t].pc = "idle")
=============================================================================
