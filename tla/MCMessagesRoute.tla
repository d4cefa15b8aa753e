-------------------------- MODULE MCMessagesRoute --------------------------
(* Constants for checking MessagesRoute with TLC.                           *)
EXTENDS MessagesRoute, TLC

CONSTANTS t1, t2, t3

TwoRequests == {t1, t2}
ThreeRequests == {t1, t2, t3}
Configured(w, c, n, a) ==
  [websearch |-> w, critique |-> c, nonstream |-> n, auto |-> a]

Requested(c, s, f, o) == [capped |-> c, stream |-> s, forced |-> f, own |-> o]
AnyProfile == {Requested(TRUE, TRUE, FALSE, FALSE),
               Requested(TRUE, FALSE, TRUE, FALSE),
               Requested(FALSE, FALSE, FALSE, TRUE)}
AnyConfig == {Configured(TRUE, TRUE, FALSE, FALSE),
              Configured(FALSE, TRUE, TRUE, TRUE),
              Configured(FALSE, FALSE, FALSE, FALSE)}
=============================================================================
