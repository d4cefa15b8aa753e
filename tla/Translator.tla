----------------------------- MODULE Translator -----------------------------
(***************************************************************************)
(* Between an Anthropic client and an OpenAI-compatible backend: the        *)
(* request translated from the whole conversation (translate_anthropic_    *)
(* request), cut to what a small vLLM can take (_sanitize_openai_request_   *)
(* for_vllm), and the answer translated back (openai_to_anthropic_response, *)
(* _force_tool_use_response).  An agent answers tool calls with results and *)
(* sends everything again, so what one turn loses the next one misses.      *)
(*                                                                         *)
(* A text is its size, 0 where there is none; a name of a tool is itself or *)
(* the short form of one that is too long; arguments are JSON or cut off.   *)
(***************************************************************************)
EXTENDS Integers, Sequences, SequencesExt

CONSTANTS
  Settings,    \* records of settings, of the tools a client offers, in order,
               \* and of the size of its system prompt
  Unschemed,   \* tools without input_schema, which a server executes
  Blocked,     \* _vllm_blocked_tool_names
  Priority(_), \* VLLM_TOOL_PRIORITY
  Shortened(_),\* _truncate_openai_tool_name
  Invented,    \* a name the model makes up
  Intents,     \* what _classify_tool_intent makes of a request of the user
  Sizes,       \* sizes of a text of the user
  ResultSizes, \* sizes of what a tool returns
  MaxTools, MaxChars, MinKeep, MaxResult, MaxMessage, \* limits of the backend
  MaxLength    \* bound: messages of a conversation

ASSUME TranslatorConstants ==
  /\ MaxTools \in Nat /\ MaxChars \in Nat /\ MinKeep \in Nat \ {0}
  /\ MaxResult \in Nat /\ MaxMessage \in Nat /\ MaxLength \in Nat
  /\ Sizes \subseteq Nat \ {0} /\ ResultSizes \subseteq Nat \ {0}
  /\ Intents \subseteq {"none", "create", "calculator", "inspect", "whole",
                        "run", "ssh"}

VARIABLES
  settings, \* vllm: is the backend a small one; native: does it know tools;
            \* force: are tools forced; tools and system of the client
  conv,     \* the client's conversation
  stage,    \* "user": somebody is to speak; "asked"; "answered"
  sent,     \* the request of this turn
  got,      \* the backend's answer
  answer    \* the client's

trVars == <<settings, conv, stage, sent, got, answer>>

Nobody == [messages |-> <<>>]

-----------------------------------------------------------------------------
(* The conversation in the form of OpenAI.                                  *)

OpenAI(role, text, calls, id, intent) ==
  [role |-> role, text |-> text, calls |-> calls, id |-> id, intent |-> intent]

\* Results are messages of their own, before the rest of theirs.
UserMessages(m) ==
  [i \in DOMAIN m.results |->
     OpenAI("tool", m.results[i].size, <<>>, m.results[i].id, "none")]
    \o (IF m.text = 0 THEN <<>> ELSE <<OpenAI("user", m.text, <<>>, 0, m.intent)>>)

\* A message that has nothing to say disappears, unless it reasons.
AssistantMessages(m) ==
  IF m.calls = <<>> /\ m.text = 0 /\ ~m.signed THEN <<>>
  ELSE <<OpenAI("assistant", m.text,
                [i \in DOMAIN m.calls |->
                   [m.calls[i] EXCEPT !.name = Shortened(@)]], 0, "none")>>

Converted(c) ==
  FlattenSeq([i \in DOMAIN c |-> IF c[i].role = "user" THEN UserMessages(c[i])
                                 ELSE AssistantMessages(c[i])])

\* Offered tools, and the names that were shortened.
ConvertedTools(ts) ==
  LET schemed == SelectSeq(ts, LAMBDA t : t \notin Unschemed)
  IN [i \in DOMAIN schemed |-> Shortened(schemed[i])]
Named(ts, c) == {t \in ToSet(ts) \cup UNION {{call.name : call \in ToSet(c[i].calls)} :
                                             i \in {i \in DOMAIN c : c[i].role = "assistant"}} :
                   Shortened(t) # t}
Restored(name, long) ==
  IF \E t \in long : Shortened(t) = name
    THEN CHOOSE t \in long : Shortened(t) = name ELSE name

-----------------------------------------------------------------------------
(* What is forced when the model writes instead of acting.                  *)

PriorCalls(ms) == Len(FlattenSeq([i \in DOMAIN ms |-> ms[i].calls]))

Intent(ms) ==
  LET users == SelectSeq(ms, LAMBDA m : m.role = "user")
  IN IF users = <<>> THEN "none" ELSE Last(users).intent

\* _build_vllm_forced_tool_call; what "run" asks for is forced every time.
ForcedCall(ms, tools) ==
  LET has(t) == Contains(tools, t)
      n == PriorCalls(ms)
      intent == Intent(ms)
  IN CASE intent \in {"create", "calculator"} ->
            IF n = 0 /\ has("Write") THEN "Write"
            ELSE IF intent = "calculator" /\ n = 1 /\ has("Bash") THEN "Bash"
            ELSE IF n = 0 /\ has("LS") THEN "LS" ELSE "none"
       [] intent \in {"inspect", "whole"} ->
            IF n = 0 /\ intent = "whole" /\ has("Bash") THEN "Bash"
            ELSE IF n = 0 /\ has("LS") THEN "LS" ELSE "none"
       [] intent = "run" -> IF has("Bash") THEN "Bash" ELSE "none"
       [] OTHER -> "none"

-----------------------------------------------------------------------------
(* The request of a small backend.                                          *)

\* Blocked tools are left out before the first MaxTools are taken.
CompactTools(ts) ==
  LET kept == SelectSeq(ts, LAMBDA t : t \notin Blocked)
      before(i, j) == Priority(kept[i]) < Priority(kept[j])
                        \/ (Priority(kept[i]) = Priority(kept[j]) /\ i < j)
      ordered == SortSeq([i \in DOMAIN kept |-> i], before)
  IN [k \in 1..(IF Len(kept) < MaxTools THEN Len(kept) ELSE MaxTools) |->
        kept[ordered[k]]]

\* A part of the system prompt is added once.
With(parts, part) == IF Contains(parts, part) THEN parts ELSE Append(parts, part)

\* The format of calls is kept from a prompt of the user's own: one without the
\* boundary.
WithFormat(parts, own) ==
  IF Contains(parts, "boundary") \/ (parts = <<>> /\ own < 2)
    THEN With(parts, "format") ELSE parts

\* The parts of the system prompt.  A request that came without tools gets the
\* language only.
Parts(tools, left, native, forced, own) ==
  LET base == <<"boundary", "language", "quality">>
  IN IF tools = <<>> THEN <<"language">>
     ELSE IF left = <<>> THEN base
     ELSE IF native THEN With(With(With(base, "path"), "agent"), "allowlist")
     ELSE LET told == With(WithFormat(With(base, "path"), own), "agent")
          IN IF forced THEN With(told, "mandatory") ELSE told

\* Calls and results as text, for a backend that knows no tools.
Linear(ms) ==
  FlattenSeq([i \in DOMAIN ms |->
    CASE ms[i].role = "tool" -> <<OpenAI("user", ms[i].text, <<>>, 0, "none")>>
      [] ms[i].role = "assistant" ->
           IF ms[i].text = 0 /\ ms[i].calls = <<>> THEN <<>>
           ELSE <<OpenAI("assistant", ms[i].text + Len(ms[i].calls), <<>>, 0, "none")>>
      [] OTHER -> <<ms[i]>>])

Size(m) == m.text + Len(m.calls)
Total(ms) == FoldLeft(LAMBDA n, m : n + Size(m), 0, ms)
Cut(m, max) == IF m.text > max THEN [m EXCEPT !.text = max] ELSE m
Compacted(ms) ==
  [i \in DOMAIN ms |-> Cut(ms[i], IF ms[i].role = "tool" THEN MaxResult ELSE MaxMessage)]

\* Mutant: results are kept by what was called and calls whatever was returned.
DropResults(ms) ==
  LET called == {c.id : c \in ToSet(FlattenSeq([i \in DOMAIN ms |-> ms[i].calls]))}
  IN SelectSeq(ms, LAMBDA m : m.role = "tool" => m.id \in called)

\* _drop_orphan_tool_messages: calls without a later result, results without an
\* earlier call.
DropOrphans(ms) ==
  LET ids(m) == {c.id : c \in ToSet(m.calls)}
      answered == {ms[i].id : i \in {i \in DOMAIN ms :
                     ms[i].role = "tool" /\ \E j \in 1..i-1 : ms[i].id \in ids(ms[j])}}
      kept(m) == SelectSeq(m.calls, LAMBDA c : c.id \in answered)
      step(acc, m) ==
        CASE m.role = "assistant" /\ m.calls # <<>> ->
               IF kept(m) # <<>> \/ m.text > 0
                 THEN [ms |-> Append(acc.ms, [m EXCEPT !.calls = kept(m)]),
                       calls |-> acc.calls \cup {c.id : c \in ToSet(kept(m))}]
                 ELSE acc
          [] m.role = "tool" ->
               IF m.id \in acc.calls THEN [acc EXCEPT !.ms = Append(@, m)] ELSE acc
          [] OTHER -> [acc EXCEPT !.ms = Append(@, m)]
  IN FoldLeft(step, [ms |-> <<>>, calls |-> {}], ms).ms

\* From the newest message on: MinKeep are kept whatever their size, older ones
\* as long as they fit, also behind one that did not.
Walk(ms, used) ==
  LET step(m, acc) ==
        LET n == IF acc.kept = <<>> /\ Size(m) > MaxChars
                 THEN Cut(m, MaxChars) ELSE m
        IN IF Len(acc.kept) >= MinKeep /\ acc.used + Size(m) > MaxChars
             THEN [acc EXCEPT !.omitted = @ + 1]
             ELSE [acc EXCEPT !.kept = <<n>> \o @, !.used = @ + Size(n)]
  IN FoldRight(step, ms, [kept |-> <<>>, used |-> used, omitted |-> 0])

\* _truncate_messages_for_vllm; the conversation alone is kept in `sent`.
TruncatedRequest(system, ms) ==
  LET whole == Compacted(ms)
      prompt == Cut(Compacted(<<system>>)[1], MaxChars \div 3)
      walk == Walk(whole, Size(prompt))
  IN IF Size(system) + Total(whole) <= MaxChars
       THEN [system |-> system.text, omitted |-> 0, messages |-> DropOrphans(whole)]
       ELSE [system |-> prompt.text, omitted |-> walk.omitted,
             messages |-> DropOrphans(walk.kept)]

\* _sanitize_openai_request_for_vllm.  A backend that knows no tools is sent
\* none, but when every tool is blocked the messages stay as they are.
ForVllm(s, q) ==
  LET left == CompactTools(q.tools)
      late == IF s.force /\ left # <<>> THEN ForcedCall(q.messages, left) ELSE "none"
      ms == IF s.native \/ (q.tools # <<>> /\ left = <<>>) THEN q.messages
            ELSE Linear(q.messages)
      cut == TruncatedRequest(OpenAI("system", s.system + 1, <<>>, 0, "none"), ms)
  IN [messages |-> cut.messages, system |-> cut.system, omitted |-> cut.omitted,
      parts |-> Parts(q.tools, left, s.native,
                      s.force /\ Intent(q.messages) # "none", s.system),
      tools |-> IF s.native THEN left ELSE <<>>,
      allowed |-> {Restored(t, q.long) : t \in ToSet(left)}, long |-> q.long,
      forced |-> IF q.forced = "none" \/ (~s.native /\ late # "none")
                 THEN late ELSE q.forced]

\* translate_anthropic_request.  What is forced is found among the tools the
\* client offers and, if that gives nothing, among those that are left.
Request(s, c) ==
  LET ms == Converted(c)
      tools == ConvertedTools(s.tools)
      long == Named(s.tools, c)
      q == [messages |-> ms, system |-> s.system, omitted |-> 0, parts |-> <<>>,
            tools |-> tools, allowed |-> {Restored(t, long) : t \in ToSet(tools)},
            long |-> long,
            forced |-> IF s.force /\ tools # <<>> THEN ForcedCall(ms, tools)
                       ELSE "none"]
  IN IF s.vllm THEN ForVllm(s, q) ELSE q

-----------------------------------------------------------------------------
(* The answer.                                                              *)

\* Calls written as text come after the others.
Blocks(r, q) ==
  LET all == r.calls \o [i \in DOMAIN r.textual |-> [name |-> r.textual[i], args |-> "json"]]
      named == [i \in DOMAIN all |-> [all[i] EXCEPT !.name = Restored(@, q.long)]]
  IN SelectSeq(named, LAMBDA b : b.name \in q.allowed)

\* Arguments that do not parse have become an empty input by now.
Reason(r, q) ==
  LET blocks == Blocks(r, q)
      written == SelectSeq(r.textual, LAMBDA t : Restored(t, q.long) \in q.allowed)
  IN CASE written # <<>> -> "tool_use"
       [] r.finish = "length" -> IF blocks # <<>> THEN "tool_use" ELSE "max_tokens"
       [] r.finish = "tool_calls" -> IF blocks # <<>> THEN "tool_use" ELSE "end_turn"
       [] OTHER -> "end_turn"

\* A forced call of Write takes the text of the answer as what it writes.
Anthropic(r, q) ==
  LET blocks == Blocks(r, q)
  IN IF q.forced # "none" /\ blocks = <<>>
       THEN [text |-> IF q.forced = "Write" THEN 0 ELSE r.text, signed |-> r.signed,
             calls |-> <<[name |-> q.forced, args |-> "json"]>>,
             stop |-> "tool_use", forced |-> TRUE]
       ELSE [text |-> r.text, signed |-> r.signed, calls |-> blocks,
             stop |-> Reason(r, q), forced |-> FALSE]

\* Bounds: two calls of different tools, and one call or none otherwise.
Answers(q) ==
  LET names == ToSet(q.tools) \cup {Shortened(t) : t \in q.allowed} \cup {Invented}
      call(n, args) == [name |-> n, args |-> args]
      answers(text, signed, calls, textual, finish) ==
        [text : text, signed : signed, calls : calls, textual : textual, finish : finish]
  IN answers(0..1, {FALSE}, {<<>>}, {<<>>}, {"stop", "length"})
     \cup answers({0}, {TRUE}, {<<>>}, {<<>>}, {"stop"})
     \cup answers(0..1, {FALSE}, {<<call(n, "json")>> : n \in names}, {<<>>},
                  {"stop", "tool_calls"})
     \cup answers({0}, {FALSE}, {<<call(n, "partial")>> : n \in names}, {<<>>}, {"length"})
     \cup answers({0}, {FALSE}, {<<call(n, "json"), call(m, "json")>> :
                                   n \in ToSet(q.tools), m \in ToSet(q.tools)},
                  {<<>>}, {"tool_calls"})
     \cup answers({0}, {FALSE}, {<<>>}, {<<n>> : n \in names}, {"stop", "length"})

-----------------------------------------------------------------------------
(* The agent.                                                               *)

TrInit ==
  /\ settings \in Settings
  /\ conv = <<>> /\ stage = "user" /\ sent = Nobody /\ got = Nobody
  /\ answer = Nobody

\* The user speaks, or the results of the last calls go back, with or without
\* something the user or the agent adds, which asks for nothing new then; those
\* of an interrupted turn are lost.
Ask(m) ==
  /\ stage = "user" /\ Len(conv) < MaxLength
  /\ m.results # <<>> \/ m.text > 0
  /\ conv' = Append(conv, m)
  /\ sent' = Request(settings, conv') /\ stage' = "asked"
  /\ UNCHANGED <<settings, got, answer>>

Outstanding ==
  IF stage # "user" \/ conv = <<>> THEN <<>> ELSE
    [i \in DOMAIN Last(conv).calls |-> Last(conv).calls[i].id]
Speak ==
  \E text \in Sizes, intent \in Intents, n \in 0..Len(Outstanding),
     size \in ResultSizes :
    /\ n > 0 => intent = "none"
    /\ Ask([role |-> "user", text |-> text, intent |-> intent,
         results |-> [i \in 1..n |-> [id |-> Outstanding[i], size |-> size]]])
Return ==
  \E f \in [DOMAIN Outstanding -> ResultSizes] :
    Ask([role |-> "user", text |-> 0, intent |-> "none",
         results |-> [i \in DOMAIN Outstanding |->
                        [id |-> Outstanding[i], size |-> f[i]]]])

Reply ==
  /\ stage = "asked" /\ stage' = "answered"
  /\ got' \in Answers(sent) /\ answer' = Anthropic(got', sent)
  /\ UNCHANGED <<settings, conv, sent>>

Ids == UNION {{c.id : c \in ToSet(conv[i].calls)} :
                       i \in {i \in DOMAIN conv : conv[i].role = "assistant"}}
Take ==
  LET top == CHOOSE n \in 0..2 * MaxLength + 2 :
               /\ n+1 \notin Ids /\ n+2 \notin Ids
               /\ \A k \in 0..n-1 : k+1 \in Ids \/ k+2 \in Ids
  IN /\ stage = "answered" /\ stage' = "user"
     /\ conv' = Append(conv,
          [role |-> "assistant", text |-> answer.text, signed |-> answer.signed,
           calls |-> [i \in DOMAIN answer.calls |->
              [id |-> top + i, name |-> answer.calls[i].name,
               forced |-> IF answer.forced THEN Intent(Converted(conv)) ELSE "none"]]])
     /\ sent' = Nobody /\ got' = Nobody /\ answer' = Nobody
     /\ UNCHANGED settings

\* The client forgets the oldest messages of a conversation it has from its
\* beginning.
Forget ==
  /\ stage = "user" /\ Len(conv) > MaxLength /\ Head(conv).results = <<>>
  /\ \E k \in 2..Len(conv) : conv' = SubSeq(conv, k, Len(conv))
  /\ UNCHANGED <<settings, stage, sent, got, answer>>

TrNext == Speak \/ Return \/ Reply \/ Take \/ Forget

-----------------------------------------------------------------------------
(* Properties.                                                              *)

Asked == stage # "user"
Small == Asked /\ settings.vllm

\* A backend that knows tools gets every result right behind the calls it
\* answers and every call with its result, whatever the client lost, the user
\* interrupted and the truncation left out (_drop_orphan_tool_messages: an
\* incoherent history is rejected, or makes the model call again).
Coherent ==
  Small =>
    LET ms == sent.messages
        ids(m) == {c.id : c \in ToSet(m.calls)}
    IN \A i \in DOMAIN ms :
         /\ ms[i].role = "tool" =>
              \E j \in 1..i-1 : /\ ms[i].id \in ids(ms[j])
                                /\ \A k \in j+1..i-1 : ms[k].role = "tool"
         /\ \A d \in ids(ms[i]) :
              \E j \in i+1..Len(ms) : ms[j].role = "tool" /\ ms[j].id = d

\* However large the conversation is, what the user said last reaches the
\* backend, and beyond the last MinKeep messages it stays within its limit
\* (_truncate_messages_for_vllm).
NewestWithinLimit ==
  Small =>
    LET ms == sent.messages
    IN /\ Last(conv).text > 0 => ms # <<>> /\ Last(ms).role = "user"
                                 /\ (Last(ms).intent = Last(conv).intent)
       /\ Len(ms) > MinKeep => sent.system + Total(ms) <= MaxChars

\* A model that is to write its calls as text is told their format and the
\* tools, whatever prompt the client brought (_inject_vllm_tool_use_prompt
\* gives way to a prompt of the user's own, and the ones before it to it).
FormatTold ==
  Small /\ ~settings.native /\ sent.allowed # {} => Contains(sent.parts, "format")

\* The client is only asked to run tools it offered, by the names it knows
\* them by, and no call of a tool the model was offered is lost on the way,
\* long names and blocked tools notwithstanding.  Forced calls are excepted:
\* they are chosen before tools are left out.
CallsArrive ==
  stage = "answered" /\ ~answer.forced =>
    /\ \A i \in DOMAIN answer.calls : Contains(settings.tools, answer.calls[i].name)
    /\ \A i \in DOMAIN got.calls :
         Contains(sent.tools, got.calls[i].name) =>
           \E j \in DOMAIN answer.calls :
             Shortened(answer.calls[j].name) = got.calls[i].name

\* "tool_use" is announced only with a call to run: an agent that is told so
\* and finds none hangs or asks again.
StopIsSound ==
  stage = "answered" /\ answer.stop = "tool_use" => answer.calls # <<>>

\* A request to create or to inspect something forces one call, one to create
\* a calculator two: the intent lasts while tools return
\* their results, the forcing must not.
ForcedBounded ==
  \A intent \in Intents \ {"run"} :
    LET forced(i) == conv[i].role = "assistant" /\ conv[i].calls # <<>>
                       /\ conv[i].calls[1].forced = intent
    IN intent = "none" \/ \A i, j \in DOMAIN conv :
         forced(i) /\ forced(j) /\ i < j =>
           intent = "calculator"
             /\ \A k \in DOMAIN conv : forced(k) => k \in {i, j}

\* What is sent of a conversation can be answered, and the answer be run.
ConversationSound ==
  Coherent /\ NewestWithinLimit /\ FormatTold /\ CallsArrive /\ StopIsSound /\ ForcedBounded

\* A call that the token limit cut off is not announced as one to run
\* (openai_to_anthropic_response: "A truncated tool_use has broken arguments").
CutOffNotRun ==
  stage = "answered" /\ got.finish = "length"
    /\ (\E i \in DOMAIN got.calls : got.calls[i].args = "partial")
    => answer.stop # "tool_use"
=============================================================================
