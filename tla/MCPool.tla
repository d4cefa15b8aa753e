------------------------------- MODULE MCPool -------------------------------
(* The credential pool ("pool"), and in a part of its own how the project and   *)
(* the tier of one of its Gemini credentials are found ("project").              *)
EXTENDS UsageManager, ProjectDiscovery, TLC

CONSTANTS c1, c2, t1, t2, t3, m1, g

TwoCreds == {c1, c2}
ThreeTasks == {t1, t2, t3}
OneModel == {m1}
NoSessions == {}
Ungrouped == [m \in {m1} |-> None]
OneSlot == [c \in Creds |-> 1]
SoftOneNoHard == [c \in Creds |-> IF c = c1 THEN 1 ELSE -1]
TwoTiers == [c \in Creds |-> IF c = c1 THEN 1 ELSE 2]
NoQuota == [c \in Creds |-> -1]

NoHook == [count |-> 1, cooldown |-> 0, exhaust |-> FALSE]
Ended(result, kind, retry, reset) ==
  [result |-> result, kind |-> kind, retry_after |-> retry,
   quota_reset |-> reset, hooked |-> FALSE, hook |-> NoHook]
Hooked(o, n, cd, ex) ==
  [o EXCEPT !.hooked = TRUE,
            !.hook = [count |-> n, cooldown |-> cd, exhaust |-> ex]]
PoolOutcomes == {Ended("failure", "other", 1, 0),
                 Hooked(Ended("success", "other", 0, 0), -1, 2, TRUE),
                 Ended("unmarked", "other", 0, 0)}

Untried == {Creds, {c2}}
NoExclusion == {{}}
ShortOrLong == {1, 3}
NoAdmin == {}
TaskSymmetry == Permutations(Tasks)

VARIABLE part

GeminiRequests == {"r1", "r2"}

PoolInit ==
  /\ Init /\ DiscInit
  /\ \/ /\ part = "pool" /\ configured = Unknown
        /\ account = [tier |-> Unknown, project |-> Unknown, offer |-> Unknown,
                      scan |-> FALSE, listed |-> FALSE]
     \/ part = "project"
PoolNext ==
  /\ UNCHANGED part
  /\ \/ part = "pool" /\ Next /\ UNCHANGED discVars
     \/ part = "project" /\ DiscNext /\ UNCHANGED vars
PoolSpec == PoolInit /\ [][PoolNext]_<<part, vars, discVars>>
=============================================================================
