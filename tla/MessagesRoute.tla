--------------------------- MODULE MessagesRoute ---------------------------
(***************************************************************************)
(* /v1/messages: a request takes a slot of the semaphore that protects a   *)
(* single-GPU backend, has its images described and its old messages       *)
(* summarised, calls the model, runs the web searches the model asks for    *)
(* and calls it again, may have the answer criticised, and is answered at   *)
(* once or as a stream whose end frees the slot.                           *)
(*                                                                         *)
(* A call of the model is one step that ends in a reply or an exception     *)
(* (RequestExecutor has what is inside), and so is draining a stream        *)
(* (AnthropicStream).  A reply is the set of the kinds of its blocks.       *)
(***************************************************************************)
EXTENDS Integers, Sequences, FiniteSets

CONSTANTS
  Requests,
  Cap,           \* VLLM_BACKEND_CONCURRENCY
  SummaryCap,    \* VLLM_CONTEXT_SUMMARY_CONCURRENCY
  MaxIters,      \* WEB_SEARCH_MAX_ITERS
  Configs,       \* the configurations the proxy may run with
  Profiles       \* the requests: [capped, stream, forced, own] (see Arrive)

ASSUME RouteConstants ==
  /\ Cap \in Nat \ {0} /\ SummaryCap \in Nat \ {0} /\ MaxIters \in Nat \ {0}
  /\ Configs \subseteq [websearch : BOOLEAN, critique : BOOLEAN,
                        nonstream : BOOLEAN, auto : BOOLEAN]
  /\ Profiles \subseteq [capped : BOOLEAN, stream : BOOLEAN,
                         forced : BOOLEAN, own : BOOLEAN]

VARIABLES
  config,  \* web_search.is_enabled, self_critique.is_enabled,
           \* ANTHROPIC_STREAM_FALLBACK_NONSTREAM, backend mode "auto"
  pc,      \* where a request is
  r,       \* what it is and what has happened to it
  slots,   \* _BACKEND_SEMAPHORE
  summary  \* _SUMMARY_SEMAPHORE

vars == <<config, pc, r, slots, summary>>

Kinds == {"text", "search", "tool"}
Replies == {{"text"}, {"tool"}, {"search"}, {"search", "tool"}}

\* capped: the model is on the protected backend.  forced: the translation of
\* the request demands a tool call.  searches: WebSearch is among its tools.
Request == [capped : BOOLEAN, stream : BOOLEAN, forced : BOOLEAN,
            searches : BOOLEAN, kinds : SUBSET Kinds, iters : Nat, calls : Nat,
            outcome : {"none", "answered", "left", "failed", "crashed", "dropped"}]

Working == {"captions", "summary", "call", "search", "critique", "opened", "draining"}
Semaphore == [free : Nat, queue : Seq(Requests)]

NewRequest == [capped |-> FALSE, stream |-> FALSE, forced |-> FALSE,
               searches |-> FALSE, kinds |-> {}, iters |-> 0, calls |-> 0,
               outcome |-> "none"]

Init ==
  /\ config \in Configs
  /\ pc = [t \in Requests |-> "idle"]
  /\ r = [t \in Requests |-> NewRequest]
  /\ slots = [free |-> Cap, queue |-> <<>>]
  /\ summary = [free |-> SummaryCap, queue |-> <<>>]

-----------------------------------------------------------------------------
(* asyncio.Semaphore: a slot that is released goes to the first waiter.     *)

Acquired(s) == s.free > 0
Acquire(s, t) == IF Acquired(s) THEN [s EXCEPT !.free = @ - 1]
                 ELSE [s EXCEPT !.queue = Append(@, t)]

Release(s) == IF s.queue = <<>> THEN [s EXCEPT !.free = @ + 1]
              ELSE [s EXCEPT !.queue = Tail(@)]

\* The program counters after t has gone to `next` and a waiter has been woken
\* that goes to `awake`.
Move(t, next, queue, awake) ==
  [u \in Requests |-> IF u = t THEN next
                      ELSE IF queue # <<>> /\ u = Head(queue) THEN awake
                      ELSE pc[u]]

\* Mutant: an exception leaves the slot taken.
EndKeeping(t, outcome) ==
  /\ r' = [r EXCEPT ![t].outcome = outcome]
  /\ pc' = [pc EXCEPT ![t] = "ended"]
  /\ UNCHANGED <<config, slots, summary>>

\* The request is over; its slot, if it has one, is freed.
End(t, outcome) ==
  /\ r' = [r EXCEPT ![t].outcome = outcome]
  /\ pc' = Move(t, "ended", IF r[t].capped THEN slots.queue ELSE <<>>, "captions")
  /\ slots' = IF r[t].capped THEN Release(slots) ELSE slots
  /\ UNCHANGED <<config, summary>>

-----------------------------------------------------------------------------

\* messages(): a request of the protected backend waits for a slot.  WebSearch
\* is added to its tools, or among its own ones already.
Arrive(t, profile) ==
  /\ pc[t] = "idle"
  /\ r' = [r EXCEPT ![t] = [NewRequest EXCEPT
             !.capped = profile.capped, !.stream = profile.stream,
             !.forced = profile.forced,
             !.searches = profile.own \/ (profile.capped /\ config.websearch)]]
  /\ slots' = IF profile.capped THEN Acquire(slots, t) ELSE slots
  /\ pc' = [pc EXCEPT ![t] = IF ~profile.capped THEN "call"
                             ELSE IF Acquired(slots) THEN "captions" ELSE "queued"]
  /\ UNCHANGED <<config, summary>>

\* Mutant: the summary takes a second slot of the backend's semaphore.
CaptionedSameSlots(t, long) ==
  /\ pc[t] = "captions"
  /\ IF long
       THEN /\ slots' = Acquire(slots, t)
            /\ pc' = [pc EXCEPT ![t] = IF Acquired(slots) THEN "summary"
                                       ELSE "awaiting summary"]
       ELSE /\ pc' = [pc EXCEPT ![t] = "call"]
            /\ UNCHANGED slots
  /\ UNCHANGED <<config, r, summary>>

\* The images are described (a failure leaves a placeholder); an old middle
\* that no longer fits is summarised first, with a slot of another semaphore.
Captioned(t, long) ==
  /\ pc[t] = "captions"
  /\ IF long
       THEN /\ summary' = Acquire(summary, t)
            /\ pc' = [pc EXCEPT ![t] = IF Acquired(summary) THEN "summary"
                                       ELSE "awaiting summary"]
       ELSE /\ pc' = [pc EXCEPT ![t] = "call"]
            /\ UNCHANGED <<config, summary>>
  /\ UNCHANGED <<config, r, slots>>

\* The summary is there, or failed and the recent messages are sent without it.
Summarised(t) ==
  /\ pc[t] = "summary"
  /\ pc' = Move(t, "call", summary.queue, "summary")
  /\ summary' = Release(summary)
  /\ UNCHANGED <<config, r, slots>>

\* A stream is answered from a complete reply when the operator says so, or
\* when web searches may have to be run before it is known.
Complete(t) ==
  ~r[t].stream \/ (r[t].capped /\ (config.nonstream \/ config.websearch))

\* A request that must use a tool and whose reply uses none is given one.
WithForcedTool(t, kinds) ==
  IF r[t].forced /\ kinds \cap {"tool", "search"} = {} THEN kinds \cup {"tool"}
  ELSE kinds

\* has_only_websearch_tool_calls
OnlySearches(kinds) == "search" \in kinds /\ "tool" \notin kinds

\* Mutant: the last round is not run.
SearchesAgainEarly(t, kinds) ==
  config.websearch /\ r[t].iters < MaxIters - 1 /\ OnlySearches(kinds)

SearchesAgain(t, kinds) ==
  config.websearch /\ r[t].iters < MaxIters /\ OnlySearches(kinds)

\* The reply of the model.
CallEnds(t, kinds) ==
  LET k == WithForcedTool(t, kinds)
      seen == [r[t] EXCEPT !.calls = @ + 1, !.kinds = k]
  IN /\ pc[t] = "call" /\ Complete(t)
     /\ "search" \in kinds => r[t].searches
     /\ \/ /\ SearchesAgain(t, k)
           /\ r' = [r EXCEPT ![t] = [seen EXCEPT !.iters = @ + 1]]
           /\ pc' = [pc EXCEPT ![t] = "search"]
           /\ UNCHANGED <<config, slots, summary>>
        \/ /\ ~SearchesAgain(t, k)
           /\ IF r[t].stream
                THEN /\ r' = [r EXCEPT ![t] = seen]
                     /\ pc' = [pc EXCEPT ![t] = "opened"]
                     /\ UNCHANGED <<config, slots, summary>>
                ELSE \/ /\ config.critique /\ k = {"text"}
                        /\ r' = [r EXCEPT ![t] = seen]
                        /\ pc' = [pc EXCEPT ![t] = "critique"]
                        /\ UNCHANGED <<config, slots, summary>>
                     \/ /\ r' = [r EXCEPT ![t] = [seen EXCEPT !.outcome = "answered"]]
                        /\ slots' = IF r[t].capped THEN Release(slots) ELSE slots
                        /\ pc' = Move(t, "ended",
                                      IF r[t].capped THEN slots.queue ELSE <<>>,
                                      "captions")
                        /\ UNCHANGED <<config, summary>>

\* The searches of a round, each of which ends with a result or an error text.
Searched(t) ==
  /\ pc[t] = "search"
  /\ pc' = [pc EXCEPT ![t] = "call"]
  /\ UNCHANGED <<config, r, slots, summary>>

\* The second call for a long enough plain answer; a failure keeps the first.
Critiqued(t) ==
  /\ pc[t] = "critique"
  /\ r' = [r EXCEPT ![t].calls = @ + 1, ![t].outcome = "answered"]
  /\ slots' = IF r[t].capped THEN Release(slots) ELSE slots
  /\ pc' = Move(t, "ended", IF r[t].capped THEN slots.queue ELSE <<>>, "captions")
  /\ UNCHANGED <<config, summary>>

\* acompletion returns a generator nobody has iterated yet.
CallStreams(t) ==
  /\ pc[t] = "call" /\ ~Complete(t)
  /\ r' = [r EXCEPT ![t].calls = @ + 1]
  /\ pc' = [pc EXCEPT ![t] = "opened"]
  /\ UNCHANGED <<config, slots, summary>>

\* An exception, or an error in the place of a reply.  In mode "auto" the route
\* would try another backend; the line that logs it raises AttributeError.
CallFails(t) ==
  /\ pc[t] = "call"
  /\ End(t, IF config.auto /\ r[t].capped THEN "crashed" ELSE "failed")

\* The server iterates the stream.
Opened(t) ==
  /\ pc[t] = "opened"
  /\ pc' = [pc EXCEPT ![t] = "draining"]
  /\ UNCHANGED <<config, r, slots, summary>>

\* The server gives up the response before it iterates the stream, because the
\* client has left: a generator that was never started runs no `finally`.
Dropped(t) ==
  /\ pc[t] = "opened"
  /\ r' = [r EXCEPT ![t].outcome = "dropped"]
  /\ pc' = [pc EXCEPT ![t] = "ended"]
  /\ UNCHANGED <<config, slots, summary>>

\* The stream is drained, fails, or is closed because the client has left.
StreamEnds(t, outcome) == pc[t] = "draining" /\ End(t, outcome)

Step(t) ==
  \/ Summarised(t) \/ Searched(t) \/ Critiqued(t)
  \/ CallStreams(t) \/ CallFails(t) \/ Opened(t) \/ Dropped(t)
  \/ \E long \in BOOLEAN : Captioned(t, long)
  \/ \E kinds \in Replies : CallEnds(t, kinds)
  \/ \E outcome \in {"answered", "left"} : StreamEnds(t, outcome)

Next ==
  \E t \in Requests :
    \/ Step(t)
    \/ \E profile \in Profiles : Arrive(t, profile)

Spec == Init /\ [][Next]_vars

\* A step of a request ends: model calls, summaries and image descriptions have
\* timeouts, searches too, and a response is iterated or given up.
FairSpec == Spec /\ \A t \in Requests : WF_vars(Step(t))

-----------------------------------------------------------------------------
(* Properties.                                                              *)

Holders == {t \in Requests : r[t].capped /\ pc[t] \in Working \cup {"awaiting summary"}}
Lost == {t \in Requests : r[t].capped /\ r[t].outcome = "dropped"}

\* The state is well formed and the queues hold those who wait, once each.
TypeOK ==
  /\ config \in Configs
  /\ pc \in [Requests -> Working \cup {"idle", "queued", "awaiting summary", "ended"}]
  /\ r \in [Requests -> Request]
  /\ slots \in Semaphore /\ summary \in Semaphore
  /\ \A s \in {slots, summary} :
       Cardinality({s.queue[i] : i \in DOMAIN s.queue}) = Len(s.queue)
  /\ {slots.queue[i] : i \in DOMAIN slots.queue} = {t \in Requests : pc[t] = "queued"}
  /\ {summary.queue[i] : i \in DOMAIN summary.queue}
       = {t \in Requests : pc[t] = "awaiting summary"}

\* Every slot of the backend is free, held by exactly one request between its
\* grant and its end, or lost with a response that was given up before it was
\* iterated; a request only waits when none is free.
SlotAccounting ==
  /\ slots.free + Cardinality(Holders) + Cardinality(Lost) = Cap
  /\ slots.queue # <<>> => slots.free = 0

\* The answer of a request is, or is about to be, sent from a complete reply.
Shown(t) ==
  /\ Complete(t) /\ r[t].kinds # {}
  /\ pc[t] \in {"opened", "draining"} \/ r[t].outcome \in {"answered", "left"}

\* A client sees a WebSearch call the proxy could have run only when the rounds
\* are used up or its own tools are called beside it.
SearchSeen ==
  \A t \in Requests :
    Shown(t) /\ config.websearch /\ "search" \in r[t].kinds =>
      r[t].iters = MaxIters \/ "tool" \in r[t].kinds

\* A step of an agent that must call a tool is answered with a call, also after
\* rounds of searches.
ForcedToolUsed ==
  \A t \in Requests :
    Shown(t) /\ r[t].forced => r[t].kinds \cap {"tool", "search"} # {}

\* The rounds of searches and the critique bound the model calls of a request.
BoundedCalls ==
  \A t \in Requests :
    /\ r[t].calls <= 2 + MaxIters /\ r[t].iters <= MaxIters
    /\ r[t].outcome = "answered" => r[t].calls >= r[t].iters + 1

\* The slots of the protected backend are where they are said to be.
SlotsSound == TypeOK /\ SlotAccounting

\* The rounds of a request are bounded and end with an answer it may be shown.
RoundsSound == SearchSeen /\ ForcedToolUsed /\ BoundedCalls

\* A request that waits for the backend is let in, unless every slot is lost:
\* the summaries that requests wait for with their slot cannot block each other.
Served ==
  \A t \in Requests :
    pc[t] = "queued" ~> pc[t] # "queued" \/ Cardinality(Lost) = Cap
=============================================================================
