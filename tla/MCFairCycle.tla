----------------------------- MODULE MCFairCycle -----------------------------
(* Two setups of UsageManager in one run: the fair cycle of two sequential    *)
(* credentials ("fair", the constants of the cfg), and one credential with a   *)
(* zero quota threshold under the fairness of the event loop ("live").         *)
EXTENDS UsageManager

CONSTANTS c1, c2, t1, t2, m1, g

TwoCreds == {c1, c2}
OneCred == {c1}
TwoTasks == {t1, t2}
OneModel == {m1}
NoSessions == {}
OnlyInGroup == [m \in {m1} |-> g]
Ungrouped == [m \in {m1} |-> None]
OneSlot == [c \in Creds |-> 1]
NoSoft == [c \in Creds |-> -1]
SameTier == [c \in Creds |-> 1]
QuotaTwo == [c \in Creds |-> 2]

NoHook == [count |-> 1, cooldown |-> 0, exhaust |-> FALSE]
Ended(result, kind, retry, reset) ==
  [result |-> result, kind |-> kind, retry_after |-> retry,
   quota_reset |-> reset, hooked |-> FALSE, hook |-> NoHook]
Success == Ended("success", "other", 0, 0)
LongQuota == Ended("failure", "quota_exceeded", 2, 0)
FairOutcomes == {Success, LongQuota, Ended("failure", "server_error", 0, 0)}
QuotaOutcomes == {Success, LongQuota}

AllCands == {Creds}
NoExclusion == {{}}
MayExclude == {{}, {c1}}
LongBudget == {3}
NoAdmin == {}
AdminTwo == {2}

VARIABLE setup

\* The second setup has variables of its own.
VARIABLES lNow, lActive, lState, lStart, lCurrent, lPc, lReq, lHeld, lWaitOn, lWake,
          lOutcome, lStarted
liveVars == <<lNow, lActive, lState, lStart, lCurrent, lPc, lReq, lHeld, lWaitOn,
              lWake, lOutcome, lStarted>>
Live == INSTANCE UsageManager
        WITH now <- lNow, active <- lActive, state <- lState, cycle_start <- lStart,
             current <- lCurrent, pc <- lPc, req <- lReq, held <- lHeld,
             wait_on <- lWaitOn, wake <- lWake, outcome <- lOutcome,
             started <- lStarted,
             Creds <- OneCred, GroupOf <- Ungrouped, Sequential <- FALSE,
             MaxConcurrent <- [c \in OneCred |-> 1],
             OptimalConcurrent <- [c \in OneCred |-> -1],
             Priority <- [c \in OneCred |-> 1],
             QuotaThreshold <- [c \in OneCred |-> 0],
             CycleDuration <- 10, Outcomes <- QuotaOutcomes,
             CandidateSets <- {OneCred}, Exclusions <- MayExclude,
             AdminCooldowns <- AdminTwo, MaxTime <- 4, MaxRequests <- 2

SetupInit == setup \in {"fair", "live"} /\ Init /\ Live!Init
SetupNext ==
  /\ UNCHANGED setup
  /\ \/ setup = "fair" /\ Next /\ UNCHANGED liveVars
     \/ setup = "live" /\ Live!Next /\ UNCHANGED vars
SetupSpec ==
  /\ SetupInit /\ [][SetupNext]_<<vars, liveVars, setup>>
  /\ (setup = "live" => Live!Fairness)

\* Every request gets a credential or is refused; none waits forever, also when
\* an operator moves the cooldowns and no credential can ever stay unexhausted.
EveryoneAnswered == setup = "live" => Live!Answered
=============================================================================
