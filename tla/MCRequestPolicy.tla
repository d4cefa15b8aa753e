--------------------------- MODULE MCRequestPolicy ---------------------------
(* Two setups of RequestExecutor in one run: a stream and a plain request     *)
(* that compete for one credential and meet every error ("loop"), and one      *)
(* stream over three credentials whose errors all arrive as StreamedAPIError,   *)
(* the one clause that follows the documented retry policy ("policy").         *)
EXTENDS RequestExecutor

CONSTANTS c1, c2, c3, t1, t2

TwoTasks == {t1, t2}
OneCred == {c1}
ThreeCreds == {c1, c2, c3}
OneSlot == [c \in Creds |-> 1]

Mixed == [t \in Tasks |-> t = t1]

Error(via, type, retry_after) ==
  [via |-> via, type |-> type, retry_after |-> retry_after, marked |-> FALSE]
Quota == Error("streamed", "quota_exceeded", 3)
ServerDown == Error("streamed", "server_error", NoRetryAfter)
Reauth == [Error("streamed", "credential_reauth_needed", NoRetryAfter)
           EXCEPT !.marked = TRUE]
RateLimit == Error("rate", "rate_limit", 1)
Connection == Error("connection", "api_connection", NoRetryAfter)
Unknown == Error("other", "unknown", NoRetryAfter)
TooLong == Error("other", "context_window_exceeded", NoRetryAfter)
Callback == Error("other", "pre_request_callback_error", NoRetryAfter)

StreamedErrors == {Quota, ServerDown}
AllErrors ==
  {Quota, ServerDown, Reauth, RateLimit, Connection, Unknown, TooLong, Callback}

VARIABLE setup

Loop == INSTANCE RequestExecutor
        WITH Creds <- OneCred, MaxConcurrent <- [c \in OneCred |-> 1]
Policy == INSTANCE RequestExecutor
          WITH Streaming <- [t \in Tasks |-> TRUE], Errors <- StreamedErrors

SetupInit == (setup = "loop" /\ Loop!Init) \/ (setup = "policy" /\ Policy!Init)
SetupNext ==
  /\ UNCHANGED setup
  /\ \/ setup = "loop" /\ Loop!Next
     \/ setup = "policy" /\ Policy!Next /\ run'[t2] = run[t2]
SetupSpec ==
  /\ SetupInit /\ [][SetupNext]_<<execVars, setup>>
  /\ (setup = "loop" => Loop!Fairness)

\* Every request is answered, even when it competes for the credential.
EveryRequestEnds == setup = "loop" => Ends
=============================================================================
