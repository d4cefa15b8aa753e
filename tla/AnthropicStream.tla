-------------------------- MODULE AnthropicStream --------------------------
(***************************************************************************)
(* The translation of a streamed OpenAI answer into the events of the      *)
(* Anthropic API (anthropic_streaming_wrapper).  The wrapper opens and      *)
(* closes content blocks as reasoning, text and tool calls arrive, keeps   *)
(* back what may be a tool call written as text, and sends the arguments   *)
(* of tool calls, the stop reason and the usage at [DONE].                 *)
(*                                                                         *)
(* `view` is what a client of the API makes of the events.   Contents are *)
(* abstracted to what decides on events: a text is plain, opens a tool     *)
(* call, or is plain and then opens one; arguments are empty, incomplete   *)
(* or a JSON document; token counts are 0 or 1.                            *)
(***************************************************************************)
EXTENDS Integers, Sequences, FiniteSets

CONSTANTS
  Tools,     \* indices of tool calls in the provider's stream
  Forced,    \* what forced_tool_call may be: "none", "call", "write"
  MaxTextual,\* bound: tool calls written as text that one buffer holds
  MaxChunks  \* bound on the chunks of a stream, and the blocks of an answer replayed

ASSUME StreamConstants ==
  /\ Tools \subseteq Nat
  /\ Forced \subseteq {"none", "call", "write"}
  /\ MaxTextual \in Nat /\ MaxChunks \in Nat

VARIABLES
  phase,    \* running, ending (after [DONE]), done, failed, left by its client;
            \* replaying a complete answer
  forced,   \* forced_tool_call
  w,        \* the other locals of the wrapper, and in `view` the client's view
  chunks,   \* chunks so far
  woven     \* reasoning arrived while a text block was open (history)

vars == <<phase, forced, w, chunks, woven>>

Call == [named : BOOLEAN, rejected : BOOLEAN,
         args : {"", "partial", "json"}, native : BOOLEAN]

(***************************************************************************)
(* The client.  `faults` collects what the protocol forbids.                *)
(***************************************************************************)
NewView == [started |-> FALSE, open |-> {}, seen |-> {}, tools |-> <<>>,
            stop |-> "none", stopped |-> FALSE, input |-> 0, output |-> 0,
            faults |-> {}]

Fault(v, bad, fault) == IF bad THEN [v EXCEPT !.faults = @ \cup {fault}] ELSE v

MessageStart(v, input) ==
  [Fault(v, v.started, "order") EXCEPT !.started = TRUE, !.input = input]

\* Blocks are numbered from 0 in the order of their starts.
BlockStart(v, i) ==
  LET u == Fault(v, ~v.started \/ v.stopped, "order")
  IN [Fault(u, i # Cardinality(v.seen), "index")
        EXCEPT !.open = @ \cup {i}, !.seen = @ \cup {i}]
ToolStart(v, i) ==
  [BlockStart(v, i) EXCEPT !.tools = [j \in DOMAIN v.tools \cup {i} |->
                                        IF j = i THEN "" ELSE v.tools[j]]]
Delta(v, i) == Fault(v, i \notin v.open, "delta")
ToolDelta(v, i, args) == [Delta(v, i) EXCEPT !.tools[i] = args]
BlockStop(v, i) ==
  [Fault(v, i \notin v.open, "stop") EXCEPT !.open = @ \ {i}]
MessageStop(v, reason, output) ==
  [Fault(Fault(v, v.open # {}, "unclosed"), ~v.started \/ v.stopped, "order")
     EXCEPT !.stopped = TRUE, !.stop = reason, !.output = output]

-----------------------------------------------------------------------------
(* Pieces of the wrapper: each takes the locals and returns them with what   *)
(* it sends applied to the view.                                            *)

NewLocals ==
  [started |-> FALSE, thinking |-> FALSE, text |-> FALSE, index |-> 0,
   textual |-> FALSE, delayed |-> FALSE, writing |-> forced = "write",
   finish |-> "none", input |-> 0, output |-> 0,
   calls |-> <<>>, blocks |-> <<>>, view |-> NewView]

Start(s) ==
  IF s.started THEN s
  ELSE [s EXCEPT !.started = TRUE, !.view = MessageStart(@, s.input)]

CloseThinking(s) ==
  IF ~s.thinking THEN s
  ELSE [s EXCEPT !.thinking = FALSE, !.index = @ + 1,
                 !.view = BlockStop(@, s.index)]
CloseText(s) ==
  IF ~s.text THEN s
  ELSE [s EXCEPT !.text = FALSE, !.index = @ + 1,
                 !.view = BlockStop(@, s.index)]
OpenThinking(s) ==
  IF s.thinking THEN s
  ELSE [s EXCEPT !.thinking = TRUE, !.view = BlockStart(@, s.index)]
OpenText(s) ==
  IF s.text THEN s
  ELSE [s EXCEPT !.text = TRUE, !.view = BlockStart(@, s.index)]
BlockDelta(s) == [s EXCEPT !.view = Delta(@, s.index)]

WholeText(s) ==
  [s EXCEPT !.index = @ + 1,
            !.view = BlockStop(Delta(BlockStart(@, s.index), s.index), s.index)]

\* The block of tool call i is opened at the current index.
OpenTool(s, i) ==
  [s EXCEPT !.index = @ + 1, !.view = ToolStart(@, s.index),
            !.blocks = [j \in DOMAIN @ \cup {i} |->
                          IF j = i THEN s.index ELSE s.blocks[j]]]
SetCall(s, i, call) ==
  [s EXCEPT !.calls = [j \in DOMAIN @ \cup {i} |->
                         IF j = i THEN call ELSE s.calls[j]]]

\* A call the wrapper makes up or has parsed from text comes with its arguments.
WholeTool(s, i) ==
  LET o == OpenTool(SetCall(s, i, [named |-> TRUE, rejected |-> FALSE,
                                   args |-> "json", native |-> FALSE]), i)
  IN [o EXCEPT !.view = ToolDelta(@, s.index, "json")]

-----------------------------------------------------------------------------
(* Chunks.                                                                  *)

Init ==
  /\ phase = "running" /\ forced \in Forced
  /\ w = NewLocals /\ chunks = 0 /\ woven = FALSE

\* A chunk while the stream runs; the first of any kind starts the message.
Chunk(after) ==
  /\ phase = "running" /\ chunks < MaxChunks
  /\ chunks' = chunks + 1
  /\ w' = after
  /\ UNCHANGED <<phase, forced>>

\* Usage is read before the message is started.
Usage ==
  /\ Chunk(Start([w EXCEPT !.input = 1, !.output = 1]))
  /\ UNCHANGED woven

\* "tool_calls" is not overwritten by a later finish_reason.
Finish(reason) ==
  /\ LET s == Start(w)
     IN Chunk(IF reason = "tool_calls" \/ s.finish # "tool_calls"
              THEN [s EXCEPT !.finish = reason] ELSE s)
  /\ UNCHANGED woven

\* An open text block is not closed for it.
Reasoning ==
  /\ Chunk(BlockDelta(OpenThinking(Start(w))))
  /\ woven' = (woven \/ w.text)

SendText(s) ==
  BlockDelta(OpenText(IF s.thinking /\ ~s.text THEN CloseThinking(s) ELSE s))

\* Content that is plain, begins a tool call, or both one after the other.
Content(s, kind) ==
  CASE kind = "plain" -> SendText(s)
    [] kind = "marker" -> [s EXCEPT !.textual = TRUE]
    [] kind = "mixed" -> SendText([s EXCEPT !.textual = TRUE])

\* A buffer that exceeds its cap is handled like new content.  What was kept
\* back as the beginning of a tool call still is one, so it is kept back again
\* (less the blanks before it).
TextChunk(kind, over) ==
  LET s == Start(w)
      held == [s EXCEPT !.delayed = TRUE]
      freed == [s EXCEPT !.delayed = FALSE, !.writing = FALSE]
      past(t) == IF ~t.textual THEN Content(t, kind)
                 ELSE IF ~over THEN t
                 ELSE Content(t, IF kind = "plain" THEN "marker" ELSE kind)
  IN /\ Chunk(IF s.writing /\ s.calls = <<>>
              THEN IF over THEN past(freed) ELSE held
              ELSE past(s))
     /\ UNCHANGED woven

\* What a chunk does to tool call i: the name it brings, if any, may be one
\* the request does not allow; arguments are appended.
Brought(s, i, name, args) ==
  LET old == IF i \in DOMAIN s.calls THEN s.calls[i]
             ELSE [named |-> FALSE, rejected |-> FALSE, args |-> "",
                   native |-> TRUE]
  IN [old EXCEPT !.named = @ \/ name # "none",
                 !.rejected = IF name = "none" THEN @ ELSE name = "unavailable",
                 !.args = IF args = "none" THEN @ ELSE args]

\* Mutant: the text block stays open beside the tool block.
ToolChunkBeside(i, name, args) ==
  LET s == SetCall(Start(w), i, Brought(w, i, name, args))
      opens == s.calls[i].named /\ ~s.calls[i].rejected /\ i \notin DOMAIN s.blocks
  IN /\ \A j \in 0..i-1 : j \in DOMAIN w.calls
     /\ Chunk(IF opens THEN OpenTool(CloseThinking(s), i) ELSE s)
     /\ UNCHANGED woven

\* The block is opened once the call has a name that is allowed.
ToolChunk(i, name, args) ==
  LET s == SetCall(Start(w), i, Brought(w, i, name, args))
      opens == s.calls[i].named /\ ~s.calls[i].rejected /\ i \notin DOMAIN s.blocks
  IN /\ \A j \in 0..i-1 : j \in DOMAIN w.calls
     /\ Chunk(IF opens THEN OpenTool(CloseText(CloseThinking(s)), i) ELSE s)
     /\ UNCHANGED woven

-----------------------------------------------------------------------------
(* The end.                                                                 *)

\* The text that was kept back: plain text is sent, and dropped when the model
\* was asked to write a file.
FlushText(s, plain) == IF plain /\ ~s.writing THEN WholeText(s) ELSE s

ForceTool(s) ==
  IF forced # "none" /\ DOMAIN s.blocks = {} THEN WholeTool(s, 0) ELSE s

\* Arguments of the provider's calls, when they are a JSON document.
SendArgs(s) ==
  LET ready == {i \in DOMAIN s.blocks : s.calls[i].native /\ s.calls[i].args = "json"}
      told == {s.blocks[i] : i \in ready}
      v == Fault(s.view, ~(told \subseteq s.view.open), "delta")
  IN [s EXCEPT !.view = [v EXCEPT !.tools = [b \in DOMAIN s.view.tools |->
                           IF b \in told THEN "json" ELSE s.view.tools[b]]]]

\* Each block is to be open, and stopped once.
CloseTools(s) ==
  LET closed == {s.blocks[i] : i \in DOMAIN s.blocks}
      once == \A i, j \in DOMAIN s.blocks : s.blocks[i] = s.blocks[j] => i = j
      v == Fault(s.view, ~(once /\ closed \subseteq s.view.open), "stop")
  IN [s EXCEPT !.view = [v EXCEPT !.open = s.view.open \ closed]]

Truncated(s) ==
  s.finish = "length" \/ \E i \in DOMAIN s.calls : s.calls[i].args = "partial"

StopReason(s) ==
  IF DOMAIN s.blocks # {} THEN IF Truncated(s) THEN "max_tokens" ELSE "tool_use"
  ELSE IF s.finish = "length" THEN "max_tokens" ELSE "end_turn"

\* [DONE]: what is open is closed, and the text that was kept back is looked at.
Done(plain) ==
  /\ phase = "running" /\ phase' = "ending"
  /\ plain => w.textual \/ w.delayed
  /\ w' = FlushText(CloseText(CloseThinking(Start(w))), plain)
  /\ UNCHANGED <<forced, chunks, woven>>

\* A tool call found in that text; one that is not allowed is passed over.
TextualCall ==
  /\ phase = "ending" /\ (w.textual \/ w.delayed)
  /\ Cardinality({i \in DOMAIN w.calls : ~w.calls[i].native}) < MaxTextual
  /\ w' = WholeTool(w, Cardinality(DOMAIN w.calls))
  /\ UNCHANGED <<phase, forced, chunks, woven>>

End ==
  LET ended == CloseTools(SendArgs(ForceTool(w)))
  IN /\ phase = "ending" /\ phase' = "done"
     /\ w' = [ended EXCEPT !.textual = FALSE, !.delayed = FALSE,
                !.view = MessageStop(@, StopReason(ended), ended.output)]
     /\ UNCHANGED <<forced, chunks, woven>>

\* An exception of the upstream stream or of the wrapper: what is open is
\* closed, the error is sent as text and the message ends.
Fail ==
  LET closed == CloseTools(CloseText(CloseThinking(Start(w))))
      told == WholeText(closed)
  IN /\ phase \in {"running", "ending"} /\ phase' = "failed"
     /\ w' = [told EXCEPT !.view = MessageStop(@, "end_turn", 0)]
     /\ UNCHANGED <<forced, chunks, woven>>

\* The client is gone.
Leave ==
  /\ phase \in {"running", "ending", "replaying"} /\ phase' = "left"
  /\ UNCHANGED <<forced, w, chunks, woven>>

\* A complete answer, which holds the forced call if there is one, replayed as
\* a stream (anthropic_response_to_streaming_events), block by block.
Replay ==
  /\ phase = "running" /\ chunks = 0 /\ forced = "none" /\ phase' = "replaying"
  /\ w' = Start([w EXCEPT !.input = 1, !.output = 1])
  /\ UNCHANGED <<forced, chunks, woven>>
ReplayBlock(kind) ==
  /\ phase = "replaying" /\ chunks < MaxChunks /\ chunks' = chunks + 1
  /\ w' = IF kind = "tool_use"
          THEN [WholeTool(w, w.index) EXCEPT !.view = BlockStop(@, w.index)]
          ELSE WholeText(w)
  /\ UNCHANGED <<phase, forced, woven>>
ReplayEnd ==
  /\ phase = "replaying" /\ phase' = "done"
  /\ w' = [w EXCEPT !.view =
             MessageStop(@, IF DOMAIN w.blocks = {} THEN "end_turn" ELSE "tool_use", 1)]
  /\ UNCHANGED <<forced, chunks, woven>>

Next ==
  \/ Usage \/ Reasoning \/ TextualCall \/ End \/ Fail \/ Leave \/ Replay \/ ReplayEnd
  \/ \E reason \in {"stop", "length", "tool_calls"} : Finish(reason)
  \/ \E kind \in {"plain", "marker", "mixed"}, over \in BOOLEAN :
       TextChunk(kind, over)
  \/ \E i \in Tools, name \in {"none", "allowed", "unavailable"},
        args \in {"none", "partial", "json"} : ToolChunk(i, name, args)
  \/ \E plain \in BOOLEAN : Done(plain)
  \/ \E kind \in {"text", "tool_use"} : ReplayBlock(kind)

Spec == Init /\ [][Next]_vars

-----------------------------------------------------------------------------
(* Properties.                                                              *)

\* The locals have their types: a block is opened only for a call that exists
\* and is named, and what the client knows of tool blocks are blocks.
TypeOK ==
  /\ phase \in {"running", "ending", "replaying", "done", "failed", "left"}
  /\ forced \in Forced
  /\ chunks \in 0..MaxChunks /\ woven \in BOOLEAN
  /\ {w.started, w.thinking, w.text, w.textual, w.delayed, w.writing} \subseteq BOOLEAN
  /\ w.index \in Nat /\ w.input \in 0..1 /\ w.output \in 0..1
  /\ w.finish \in {"none", "stop", "length", "tool_calls"}
  /\ \A i \in DOMAIN w.calls : w.calls[i] \in Call
  /\ \A i \in DOMAIN w.blocks :
       /\ i \in DOMAIN w.calls /\ w.calls[i].named
       /\ w.blocks[i] \in DOMAIN w.view.tools
  /\ DOMAIN w.view.tools \subseteq w.view.seen

\* The client gets the event sequence Anthropic's SDK accepts, whatever order
\* reasoning, text and tool calls come in and wherever the stream fails: blocks
\* are numbered in order, deltas and stops name an open block, and a message
\* that ends has closed them all.  Reasoning that comes while text is open is
\* excepted (no block is closed for it).
WellFormed ==
  ~woven => /\ w.view.faults = {}
            /\ phase \in {"done", "failed"} => w.view.stopped /\ w.view.open = {}

\* stop_reason "tool_use" is only sent with tool blocks whose complete arguments
\* were sent, so that a truncated call is not executed (and retried for ever).
ToolUseComplete ==
  w.view.stop = "tool_use" =>
    /\ DOMAIN w.view.tools # {} /\ w.finish # "length"
    /\ \A i \in DOMAIN w.blocks : w.view.tools[w.blocks[i]] = w.calls[i].args
    /\ \A i \in DOMAIN w.calls : w.calls[i].args # "partial"

\* A step of an agent that must use a tool ends with one, even when the model
\* wrote plain text, or only calls that were rejected.
ForcedTool == phase = "done" /\ forced # "none" => DOMAIN w.view.tools # {}

\* The events sent are an answer a client of the API can use.
AnswerSound == TypeOK /\ WellFormed /\ ToolUseComplete /\ ForcedTool
=============================================================================
