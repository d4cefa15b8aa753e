--------------------------- MODULE CredentialPool ---------------------------
(***************************************************************************)
(* What a provider's UsageManager promises to the requests that use it.    *)
(* A request asks with the credentials it would accept; it is granted one  *)
(* of them, exclusively up to the credential's concurrency limit, or is    *)
(* refused (NoAvailableKeysError); a granted credential stays with the     *)
(* request until its `async with` block ends.  UsageManager implements     *)
(* this module; RequestExecutor is written against it.                     *)
(***************************************************************************)
EXTENDS Integers, FiniteSets

CONSTANTS
  Creds,         \* credentials of the provider
  Tasks,         \* requests
  MaxConcurrent, \* slots of a credential, <= 0 for unlimited
  None

VARIABLES
  asking,   \* requests inside acquire_credential
  allowed,  \* the credentials an asking request accepts
  using     \* the credential a request is inside the block of, or None

poolVars == <<asking, allowed, using>>

Users(c) == {t \in Tasks : using[t] = c}
HasSlot(c) == MaxConcurrent[c] <= 0 \/ Cardinality(Users(c)) < MaxConcurrent[c]

PoolInit ==
  /\ asking = {}
  /\ allowed = [t \in Tasks |-> {}]
  /\ using = [t \in Tasks |-> None]

Ask(t, S) ==
  /\ t \notin asking /\ using[t] = None
  /\ S \subseteq Creds
  /\ asking' = asking \cup {t}
  /\ allowed' = [allowed EXCEPT ![t] = S]
  /\ UNCHANGED using

Answer(t) ==
  /\ t \in asking
  /\ asking' = asking \ {t}
  /\ allowed' = [allowed EXCEPT ![t] = {}]

Grant(t, c) ==
  /\ Answer(t)
  /\ c \in allowed[t] /\ HasSlot(c)
  /\ using' = [using EXCEPT ![t] = c]

\* NoAvailableKeysError, or the cancellation of the request while it waits.
Refuse(t) == Answer(t) /\ UNCHANGED using

GiveBack(t) ==
  /\ using[t] # None
  /\ using' = [using EXCEPT ![t] = None]
  /\ UNCHANGED <<asking, allowed>>

PoolNext ==
  \E t \in Tasks :
    \/ \E S \in SUBSET Creds : Ask(t, S)
    \/ \E c \in Creds : Grant(t, c)
    \/ Refuse(t) \/ GiveBack(t)

PoolSpec == PoolInit /\ [][PoolNext]_poolVars
=============================================================================
