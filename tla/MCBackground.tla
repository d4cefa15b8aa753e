---------------------------- MODULE MCBackground ----------------------------
(* What runs beside the requests, one part at a time: the summaries of long    *)
(* conversations ("summaries"), and the background refresher with the quota      *)
(* job of a provider ("poll").                                                   *)
EXTENDS ContextCompaction, QuotaPolling

CONSTANTS a, big

Sizes == [x \in {a, big} |-> IF x = big THEN 3 ELSE 1]
AllTexts == {a, big}

VARIABLE part

BackgroundInit ==
  \/ part = "summaries" /\ CompactInit /\ PollInit /\ kind = "chutes"
  \/ part = "poll" /\ CompactInit /\ background = FALSE /\ PollInit
BackgroundNext ==
  /\ UNCHANGED part
  /\ \/ part = "summaries" /\ CompactNext /\ UNCHANGED pollVars
     \/ part = "poll" /\ PollNext /\ UNCHANGED compactVars
BackgroundSpec ==
  /\ BackgroundInit /\ [][BackgroundNext]_<<part, compactVars, pollVars>>
  /\ WF_compactVars(part = "summaries"
               /\ \E i \in 1..SummaryCap, ok \in BOOLEAN : SummaryEnds(i, ok))
  /\ WF_pollVars(part = "poll" /\ RefresherStep)
  /\ WF_pollVars(part = "poll" /\ JobStep)
  /\ WF_pollVars(part = "poll" /\ LeavingStep)

\* Summaries that were begun end, the job goes on polling while the proxy is up,
\* and a shutdown comes to its end.
BackgroundGoesOn ==
  /\ SummariesEnd
  /\ \A s \in {"fetching", "sleeping"} :
       (part = "poll" /\ phase = "up" /\ main # "none") ~> (job = s \/ phase # "up")
  /\ (part = "poll" /\ phase \in {"stopJob", "stopMain"}) ~> (phase = "exited")
=============================================================================
