----------------------------- MODULE MCUsageState -----------------------------
(* What a credential's usage is kept in, in one run: its windows in memory     *)
(* ("windows") and the file of all usage ("storage").  The two share no state: *)
(* the storage keeps whatever the windows hold.                                *)
EXTENDS UsageStorage, UsageWindows, TLC

CONSTANTS w1, w2, gr

TwoModels == {w1, w2}
Caps == [s \in TwoModels \cup {gr} |->
  IF s = w1 THEN [mode |-> "absolute", value |-> 1, cooldown |-> "fixed"]
  ELSE IF s = gr THEN [mode |-> "percentage", value |-> 50, cooldown |-> "offset"]
  ELSE [mode |-> "offset", value |-> -1, cooldown |-> "reset"]]
NoneTime == -1

VARIABLE part

AtRest == WindowsInit /\ mode = "rolling" /\ ~grouped /\ reports = "headers"

PartsInit ==
  \/ part = "storage" /\ StorageInit /\ AtRest
  \/ part = "windows" /\ StorageInit /\ WindowsInit
PartsNext ==
  /\ UNCHANGED part
  /\ \/ part = "storage" /\ StorageNext /\ UNCHANGED winVars
     \/ part = "windows" /\ WindowsNext /\ UNCHANGED stateVars
PartsSpec ==
  /\ PartsInit /\ [][PartsNext]_<<part, stateVars, winVars>>
  /\ (part = "storage" => StorageFairness)

\* UsageStorage's EventuallySaved: an update reaches the file if the disk works
\* throughout and nobody reloads or restarts.
EverythingSaved == part = "storage" => EventuallySaved
=============================================================================
