---------------------------- MODULE GeminiStream ----------------------------
(* One answer of the Gemini CLI provider (providers/gemini_cli_provider.py) on  *)
(* its way to the client: the endpoints tried one after the other, the parts of *)
(* a Gemini chunk turned into deltas of their own, the finish reasons and the   *)
(* usage that the library's stream handler (client/streaming.py) derives from   *)
(* the deltas, and the message put together for a client that does not stream.  *)
(* Texts are left out: a delta says what it carries.                            *)
EXTENDS Integers, Sequences, FiniteSets, FiniteSetsExt

CONSTANTS Endpoints,    \* number of endpoints, 2 in gemini_shared_utils.py
          Parts,        \* what the parts of one chunk are, in order; a part that only
                        \* carries a signature gives no delta and is left out
          Usages,       \* usage metadata of a chunk
          Unsaid,       \* no usage, no finish reason
          MaxChunks     \* bound: chunks of one endpoint

Metadata == [prompt : Nat, cached : Nat, candidates : Nat, thoughts : Nat]

\* Cached tokens are tokens of the prompt.
ASSUME GeminiConstants ==
  /\ \A parts \in Parts : parts \in Seq({"text", "thought", "call"})
  /\ \A u \in Usages : u \in Metadata /\ u.cached <= u.prompt
  /\ Unsaid \notin Metadata \cup {"stop", "tool_calls"}
  /\ Unsaid \notin [prompt : Nat, cached : Nat, completion : Nat, thinking : Nat]

VARIABLES phase,     \* "connect", "reading", "done" or "failed"
          endpoint,  \* number of the endpoint asked
          chunks,    \* chunks read from it
          reported,  \* its last usage metadata
          toolIdx,   \* accumulator: calls converted
          complete,  \* accumulator: a delta carried usage
          deltas,    \* deltas given to the client
          hasCalls,  \* stream handler: a call went by
          counted,   \* stream handler: tokens of the last usage
          billed,    \* tokens recorded by mark_success
          replayed   \* history: an endpoint was asked after output of another
accumulator == <<toolIdx, complete>>
handler == <<hasCalls, counted>>
streamVars == <<phase, endpoint, chunks, reported, accumulator, deltas, handler,
                billed, replayed>>

NoTokens == [prompt |-> 0, cached |-> 0, completion |-> 0, thinking |-> 0]

StreamInit ==
  /\ phase = "connect" /\ endpoint = 1 /\ chunks = 0 /\ reported = Unsaid
  /\ toolIdx = 0 /\ complete = FALSE /\ deltas = <<>>
  /\ hasCalls = FALSE /\ counted = NoTokens /\ billed = Unsaid /\ replayed = FALSE

----------------------------------------------------------------------------
(* _convert_chunk_to_openai. *)

\* The usage as OpenAI counts it: thoughts are part of the completion.
Usage(u) == IF u = Unsaid THEN Unsaid
            ELSE [prompt |-> u.prompt, cached |-> u.cached,
                  completion |-> u.candidates + u.thoughts, thinking |-> u.thoughts]

CallsIn(kinds, n) == {k \in 1..n : kinds[k] = "call"}

Converted(kinds, u, first) ==
  [k \in DOMAIN kinds |->
     [kind |-> kinds[k], usage |-> Usage(u),
      index |-> first + Cardinality(CallsIn(kinds, k - 1))]]

----------------------------------------------------------------------------
(* StreamingHandler.wrap_stream and _process_chunk. *)

\* Only a delta with usage has a finish reason.
Finish(called, d) ==
  IF d.usage = Unsaid THEN Unsaid
  ELSE IF called THEN "tool_calls" ELSE "stop"

\* Details absent from a usage keep what an earlier one said.
Counted(tokens, u) ==
  LET thinking == IF u.thinking > 0 THEN u.thinking ELSE tokens.thinking
  IN  [prompt |-> u.prompt, cached |-> IF u.cached > 0 THEN u.cached ELSE tokens.cached,
       thinking |-> thinking,
       completion |-> IF thinking > 0 /\ u.completion >= thinking
                      THEN u.completion - thinking ELSE u.completion]

\* The deltas of a chunk carry the same usage; to count it again changes nothing.
Give(new) ==
  LET called(k) == hasCalls \/ \E j \in 1..k : new[j].kind = "call"
  IN  /\ hasCalls' = called(Len(new))
      /\ counted' = IF new = <<>> \/ new[1].usage = Unsaid THEN counted
                    ELSE Counted(counted, new[1].usage)
      /\ deltas' = deltas \o [k \in DOMAIN new |->
                      [kind |-> new[k].kind, index |-> new[k].index, usage |-> new[k].usage,
                       finish |-> Finish(called(k), new[k])]]

----------------------------------------------------------------------------
(* stream_handler in acompletion. *)

Connect ==
  /\ phase = "connect" /\ phase' = "reading"
  /\ UNCHANGED <<endpoint, chunks, reported, accumulator, deltas, handler, billed, replayed>>

\* Gemini reports cumulative usage, from some chunk on in every chunk, and the
\* prompt does not change.
Grows(u) == reported # Unsaid =>
  /\ u # Unsaid /\ u.prompt = reported.prompt
  /\ u.candidates >= reported.candidates /\ u.thoughts >= reported.thoughts

Chunk(kinds, u) ==
  /\ phase = "reading" /\ chunks < MaxChunks /\ Grows(u)
  /\ chunks' = chunks + 1 /\ reported' = u
  /\ toolIdx' = toolIdx + Cardinality(CallsIn(kinds, Len(kinds)))
  /\ complete' = (complete \/ (kinds # <<>> /\ u # Unsaid))
  /\ Give(Converted(kinds, u, toolIdx))
  /\ UNCHANGED <<phase, endpoint, billed, replayed>>

\* The stream ends: a made-up chunk where no delta had usage, then mark_success.
\* `prompt` of the record leaves the cached tokens out.
End ==
  /\ phase = "reading"
  /\ Give(IF complete THEN <<>>
          ELSE <<[kind |-> "end", index |-> 0,
                  usage |-> [NoTokens EXCEPT !.completion = 1]]>>)
  /\ billed' = [counted' EXCEPT !.prompt = IF @ >= counted'.cached THEN @ - counted'.cached ELSE 0]
  /\ phase' = "done"
  /\ UNCHANGED <<endpoint, chunks, reported, accumulator, replayed>>

\* Mutant: the next endpoint numbers its calls from the start.
NextEndpointAfresh ==
  IF endpoint < Endpoints
  THEN /\ endpoint' = endpoint + 1 /\ phase' = "connect" /\ chunks' = 0 /\ reported' = Unsaid
       /\ replayed' = (replayed \/ deltas # <<>>)
       /\ toolIdx' = 0 /\ complete' = FALSE
       /\ UNCHANGED <<deltas, handler, billed>>
  ELSE /\ phase' = "failed"
       /\ UNCHANGED <<endpoint, chunks, reported, accumulator, deltas, handler, billed, replayed>>

NextEndpoint ==
  IF endpoint < Endpoints
  THEN /\ endpoint' = endpoint + 1 /\ phase' = "connect" /\ chunks' = 0 /\ reported' = Unsaid
       /\ replayed' = (replayed \/ deltas # <<>>)
       /\ UNCHANGED <<accumulator, deltas, handler, billed>>
  ELSE /\ phase' = "failed"
       /\ UNCHANGED <<endpoint, chunks, reported, accumulator, deltas, handler, billed, replayed>>

\* A 5xx, a connection that fails; while reading, only a timeout or a connection
\* that fails again.
Unreachable == phase \in {"connect", "reading"} /\ NextEndpoint

\* A 429, another 4xx, or any other exception while reading.
Refuse ==
  /\ phase \in {"connect", "reading"} /\ phase' = "failed"
  /\ UNCHANGED <<endpoint, chunks, reported, accumulator, deltas, handler, billed, replayed>>

StreamNext ==
  \/ Connect \/ End \/ Unreachable \/ Refuse
  \/ \E kinds \in Parts, u \in Usages \cup {Unsaid} : Chunk(kinds, u)
StreamSpec == StreamInit /\ [][StreamNext]_streamVars

----------------------------------------------------------------------------
(* _stream_to_completion_response: the message of a client that does not stream. *)

Calls(given) == {i \in DOMAIN given : given[i].kind = "call"}
WithUsage(given) == {i \in DOMAIN given : given[i].usage # Unsaid}
LastUsage(given) == given[Max(WithUsage(given))]

Message(given) ==
  LET indices == {given[i].index : i \in Calls(given)}
  IN  [calls |-> [n \in indices |->
                    Cardinality({i \in Calls(given) : given[i].index = n})],
       finish |-> IF indices # {} THEN "tool_calls"
                  ELSE IF WithUsage(given) # {} THEN "stop" ELSE Unsaid,
       usage |-> LastUsage(given).usage]

----------------------------------------------------------------------------
\* Calls are numbered 0, 1, ... in the order given, over all chunks and also
\* after a change of endpoint: a client puts together what has one number, so
\* two calls with one number would become a single one.
CallsNumbered ==
  /\ \A i \in Calls(deltas) :
       deltas[i].index = Cardinality({j \in Calls(deltas) : j < i})
  /\ phase = "done" =>
       \A n \in DOMAIN Message(deltas).calls : Message(deltas).calls[n] = 1

\* A stream that ends well tells its client why, and the last reason given says
\* whether tools are to be run, the same as a client without a stream is told.
FinishKnown ==
  phase = "done" =>
    /\ WithUsage(deltas) # {}
    /\ ~replayed => /\ LastUsage(deltas).finish = Message(deltas).finish
                    /\ (Message(deltas).finish = "tool_calls") = (Calls(deltas) # {})

\* What is recorded adds up to the usage of the last chunk that said anything:
\* no token is counted twice, cached or thought, and none is dropped.
BilledOnce ==
  phase = "done" /\ ~replayed =>
    LET u == Message(deltas).usage
    IN  /\ billed.completion + billed.thinking = u.completion
        /\ billed.prompt + billed.cached = u.prompt

\* One streamed answer: calls are numbered apart, the finish reason is known and
\* tokens are counted once, over the endpoints it came from.
StreamSound == CallsNumbered /\ FinishKnown /\ BilledOnce
=============================================================================
