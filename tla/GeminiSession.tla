---------------------------- MODULE GeminiSession ----------------------------
(* A tool-using conversation with a Gemini 3 model through the Gemini CLI      *)
(* provider (providers/gemini_cli_provider.py, utilities/gemini_tool_handler.py).*)
(* The client keeps the history in OpenAI form: it asks, gets text or parallel  *)
(* calls, answers all, some or none of them, late or twice, and forgets the     *)
(* oldest messages.  Every request turns the whole history into Gemini contents *)
(* and regroups the tool results behind their calls, which Gemini insists on.   *)
(* A call is named by the number it was issued with, a result by `id`, the call *)
(* it names, and `of`, the call whose output it carries (0 for a placeholder).  *)
EXTENDS Naturals, Sequences, FiniteSets
LOCAL INSTANCE SequencesExt
LOCAL INSTANCE FiniteSetsExt

CONSTANTS Tools,        \* the client's tools
          Params,         \* [Tools -> the set of their parameters]
          Replies,        \* sequences of tools that one answer calls
          Confirm,        \* the parameter the proxy gives a tool that has none
          Unknown,        \* "unknown_function"
          MaxCalls,       \* bound: calls issued in one behaviour
          MaxHistory      \* bound: messages kept by the client

VARIABLES history,   \* the client's messages
          cache,     \* calls whose signature is in the signature cache
          nextCall,    \* number of calls issued so far
          sent       \* contents of the request under way, as Gemini gets them
sessionVars == <<history, cache, nextCall, sent>>

User == [role |-> "user"]
Assistant(calls) == [role |-> "assistant", calls |-> calls]
Result(id) == [role |-> "tool", id |-> id]

IsCalling(m) == m.role = "assistant" /\ m.calls # <<>>
CallIds(h) == UNION {{h[i].calls[k].id : k \in DOMAIN h[i].calls} :
                     i \in {j \in DOMAIN h : IsCalling(h[j])}}
ResultIds(h) == {h[i].id : i \in {j \in DOMAIN h : h[j].role = "tool"}}

----------------------------------------------------------------------------
(* _transform_messages. *)

Wire(name) == <<"gemini3_", name>>
Stripped(wire) == IF wire[1] = "gemini3_" THEN wire[2] ELSE wire

\* The name under which the result of a call goes out.
NameOf(h, id) ==
  LET named == {n \in Tools : \E i \in DOMAIN h : IsCalling(h[i]) /\
                  \E k \in DOMAIN h[i].calls : h[i].calls[k].id = id /\ h[i].calls[k].name = n}
  IN  IF named = {} THEN Unknown ELSE Wire(CHOOSE n \in named : TRUE)

Signature(calls, k, c) ==
  IF calls[k].signed \/ calls[k].id \in c THEN "own"
  ELSE IF k = 1 THEN "bypass" ELSE "none"

CallPart(calls, k, c) ==
  [kind |-> "call", id |-> calls[k].id, name |-> Wire(calls[k].name),
   signature |-> Signature(calls, k, c)]
Text == [kind |-> "text"]
Response(id, name, of) == [kind |-> "response", id |-> id, name |-> name, of |-> of]

Content(role, parts) == [role |-> role, parts |-> parts]
Flushed(acc) == IF acc.pending = <<>> THEN acc.contents
                ELSE Append(acc.contents, Content("user", acc.pending))

Transform(h, c) ==
  LET Add(acc, m) ==
        IF m.role = "tool"
        THEN [acc EXCEPT !.pending = Append(@, Response(m.id, NameOf(h, m.id), m.id))]
        ELSE [contents |-> Append(Flushed(acc),
                IF m.role = "user" THEN Content("user", <<Text>>)
                ELSE Content("model", <<Text>> \o
                       [k \in DOMAIN m.calls |-> CallPart(m.calls, k, c)])),
              pending |-> <<>>]
      all == Flushed(FoldLeft(Add, [contents |-> <<>>, pending |-> <<>>], h))
  IN  IF all # <<>> /\ Head(all).role = "user" THEN all
      ELSE <<Content("user", <<Text>>)>> \o all

----------------------------------------------------------------------------
(* _fix_tool_response_grouping. *)

PartsOf(content, kind) == SelectSeq(content.parts, LAMBDA p : p.kind = kind)
Holds(results, id) == \E i \in DOMAIN results : results[i].id = id
Take(results, id) == SelectSeq(results, LAMBDA r : r.id = id)[1]
Without(results, id) == SelectSeq(results, LAMBDA r : r.id # id)

Collect(collected, responses) ==
  FoldLeft(LAMBDA acc, r : IF Holds(acc, r.id) THEN acc ELSE Append(acc, r),
           collected, responses)

Answered(group, collected) == \A k \in DOMAIN group.calls : Holds(collected, group.calls[k].id)
Answers(group, collected) == [k \in DOMAIN group.calls |-> Take(collected, group.calls[k].id)]

\* One content: results are collected and satisfy the newest group that has all
\* of its own; a model message with calls opens a group.
Group(acc, content) ==
  LET responses == PartsOf(content, "response")
      calls == PartsOf(content, "call")
      collected == Collect(acc.collected, responses)
      ready == {g \in DOMAIN acc.groups : Answered(acc.groups[g], collected)}
      newest == Max(ready)
      answers == Answers(acc.groups[newest], collected)
  IN  IF responses = <<>>
      THEN [acc EXCEPT !.out = Append(@, content),
              !.groups = IF calls = <<>> THEN @
                         ELSE Append(@, [calls |-> calls, after |-> Len(acc.out) + 1])]
      ELSE IF ready = {} THEN [acc EXCEPT !.collected = collected]
      ELSE [out |-> Append(acc.out, Content("user", answers)),
            groups |-> RemoveAt(acc.groups, newest),
            collected |-> FoldLeft(Without, collected,
                            [k \in DOMAIN answers |-> answers[k].id])]

\* The result that stands in for a call that has none of its own: one of the
\* same name, one of an unknown call, the first, in this order of preference.
Orphan(collected, call) ==
  LET of(name) == SelectSeq(collected, LAMBDA r : r.name = name)
  IN  IF of(call.name) # <<>> THEN of(call.name)[1]
      ELSE IF of(Unknown) # <<>> THEN of(Unknown)[1]
      ELSE collected[1]

\* Mutant: a result of an unknown call keeps its name.
RecoverUnnamed(acc, call) ==
  LET own == Holds(acc.collected, call.id)
      taken == IF own THEN Take(acc.collected, call.id) ELSE Orphan(acc.collected, call)
  IN  IF acc.collected = <<>>
      THEN [acc EXCEPT !.answers = Append(@, Response(call.id, call.name, 0))]
      ELSE [answers |-> Append(acc.answers, Response(call.id, taken.name, taken.of)),
            collected |-> Without(acc.collected, taken.id)]

Recover(acc, call) ==
  LET own == Holds(acc.collected, call.id)
      taken == IF own THEN Take(acc.collected, call.id) ELSE Orphan(acc.collected, call)
      name == IF taken.name = Unknown THEN call.name ELSE taken.name
  IN  IF acc.collected = <<>>
      THEN [acc EXCEPT !.answers = Append(@, Response(call.id, call.name, 0))]
      ELSE [answers |-> Append(acc.answers, Response(call.id, name, taken.of)),
            collected |-> Without(acc.collected, taken.id)]

RecoverGroup(acc, group) ==
  LET done == FoldLeft(Recover, [answers |-> <<>>, collected |-> acc.collected], group.calls)
  IN  [out |-> InsertAt(acc.out, group.after + 1, Content("user", done.answers)),
       collected |-> done.collected]

Grouped(contents) ==
  LET main == FoldLeft(Group, [out |-> <<>>, groups |-> <<>>, collected |-> <<>>], contents)
  IN  FoldLeft(RecoverGroup, [out |-> main.out, collected |-> main.collected],
               Reverse(main.groups)).out

----------------------------------------------------------------------------
(* Tools, and the calls the model makes of them. *)

\* _transform_tool_schemas: name and parameters under which a tool is declared.
Declared(t) == [name |-> Wire(t), params |-> IF Params[t] = {} THEN {Confirm} ELSE Params[t]]

\* _convert_chunk_to_openai: a call of the model as the client gets it.
Converted(d, id, signed) ==
  [id |-> id, name |-> Stripped(d.name),
   args |-> IF d.params = {Confirm} THEN {} ELSE d.params, signed |-> signed]

----------------------------------------------------------------------------
SessionInit ==
  history = <<>> /\ cache = {} /\ nextCall = 0 /\ sent = <<>>

LastMessage == history[Len(history)]
Idle == sent = <<>>
Room(n) == Len(history) + n <= MaxHistory

Say ==
  /\ Idle /\ Room(1)
  /\ history # <<>> => LastMessage.role # "user"
  /\ history' = Append(history, User)
  /\ UNCHANGED <<cache, nextCall, sent>>

\* acompletion: the contents of a request.
Send ==
  /\ Idle /\ history # <<>> /\ LastMessage.role # "assistant"
  /\ sent' = Grouped(Transform(history, cache))
  /\ UNCHANGED <<history, cache, nextCall>>

\* The answer: text, or calls of declared tools.  Gemini signs the first call;
\* the client may drop that field.
Answer(tools, keeps) ==
  /\ ~Idle /\ Room(1) /\ nextCall + Len(tools) <= MaxCalls
  /\ history' = Append(history, Assistant([k \in DOMAIN tools |->
                  Converted(Declared(tools[k]), nextCall + k, keeps /\ k = 1)]))
  /\ cache' = cache \cup (IF tools = <<>> THEN {} ELSE {nextCall + 1})
  /\ nextCall' = nextCall + Len(tools) /\ sent' = <<>>

\* The request fails, or its answer is not kept.
Fail == ~Idle /\ sent' = <<>> /\ UNCHANGED <<history, cache, nextCall>>

\* The client runs calls of the last message; parallel ones end in any order.
RunCalls(ids) ==
  LET open == {c.id : c \in ToSet(LastMessage.calls)}
  IN  /\ Idle /\ Room(Len(ids)) /\ history # <<>> /\ IsCalling(LastMessage)
      /\ ids # <<>> /\ ToSet(ids) \subseteq open
      /\ Cardinality(ToSet(ids)) = Len(ids)
      /\ history' = history \o [k \in DOMAIN ids |-> Result(ids[k])]
      /\ UNCHANGED <<cache, nextCall, sent>>

\* A result that comes late or once more.
ResultAgain(id) ==
  /\ Idle /\ Room(1) /\ history # <<>> /\ ~IsCalling(LastMessage)
  /\ id \in CallIds(history)
  /\ history' = Append(history, Result(id))
  /\ UNCHANGED <<cache, nextCall, sent>>

\* The client, or a summary of the conversation, drops the oldest messages.
Forget(n) ==
  /\ Idle /\ n \in 1..Len(history) - 1
  /\ history' = SubSeq(history, n + 1, Len(history))
  /\ UNCHANGED <<cache, nextCall, sent>>

SignatureExpires(id) ==
  /\ Idle /\ id \in cache /\ cache' = cache \ {id}
  /\ UNCHANGED <<history, nextCall, sent>>

SessionNext ==
  \/ Say \/ Send \/ Fail
  \/ \E tools \in Replies, keeps \in BOOLEAN : Answer(tools, keeps)
  \/ \E ids \in {<<a>> : a \in 1..MaxCalls} \cup ((1..MaxCalls) \X (1..MaxCalls)) : RunCalls(ids)
  \/ \E id \in 1..MaxCalls : ResultAgain(id) \/ SignatureExpires(id)
  \/ \E n \in 1..MaxHistory : Forget(n)
SessionSpec == SessionInit /\ [][SessionNext]_sessionVars

----------------------------------------------------------------------------
\* Every result of a call still in the history comes right behind the message
\* with that call.
Direct(h) ==
  \A i \in DOMAIN h : h[i].role = "tool" /\ h[i].id \in CallIds(h) =>
    \E j \in 1..i - 1 : /\ IsCalling(h[j]) /\ h[i].id \in CallIds(<<h[j]>>)
                        /\ \A k \in j + 1..i : h[k].role = "tool"
\* Of the calls of one message all have a result, or none has.
WholeOrNone(h) ==
  \A i \in DOMAIN h : IsCalling(h[i]) =>
    CallIds(<<h[i]>>) \subseteq ResultIds(h) \/ CallIds(<<h[i]>>) \cap ResultIds(h) = {}

ResponsesSent == {<<i, k>> \in (DOMAIN sent) \X (1..MaxHistory) :
                    k \in DOMAIN sent[i].parts /\ sent[i].parts[k].kind = "response"}

\* Gemini rejects calls whose results do not follow at once, all of them and in
\* their order: whatever the client has lost or dropped, a request with results
\* at their place keeps that form.
CallsAnswered ==
  Direct(history) =>
    \A i \in DOMAIN sent :
      LET calls == PartsOf(sent[i], "call")
      IN  calls # <<>> =>
            /\ i < Len(sent)
            /\ sent[i + 1].role = "user"
            /\ Len(sent[i + 1].parts) = Len(calls)
            /\ \A k \in DOMAIN calls : /\ sent[i + 1].parts[k].kind = "response"
                                      /\ sent[i + 1].parts[k].id = calls[k].id

\* A call that was answered goes out with its own result, and another one never
\* with the result of a call that is still in the conversation; the names agree.
OwnResults ==
  Direct(history) /\ WholeOrNone(history) =>
    \A at \in ResponsesSent :
      LET r == sent[at[1]].parts[at[2]]
      IN  /\ IF r.id \in ResultIds(history) THEN r.of = r.id
             ELSE r.of \notin CallIds(history)
          /\ r.name = NameOf(history, r.id)

\* No output is sent to the model twice, even if the client has it twice.
NothingTwice ==
  Direct(history) =>
    \A a, b \in ResponsesSent :
      a # b => \/ sent[a[1]].parts[a[2]].of = 0
               \/ sent[a[1]].parts[a[2]].of # sent[b[1]].parts[b[2]].of

\* The signature Gemini gave a call goes back with it while the client or the
\* cache has it; only the first call of a message may claim to need none.
Signed ==
  \A i \in DOMAIN sent : LET calls == PartsOf(sent[i], "call") IN
    \A k \in DOMAIN calls :
      /\ calls[k].id \in cache => calls[k].signature = "own"
      /\ (calls[k].signature = "none") = (k > 1)

\* The client is only asked to run its own tools, with their own parameters.
OwnTools ==
  \A i \in DOMAIN history : IsCalling(history[i]) =>
    \A c \in ToSet(history[i].calls) : c.name \in Tools /\ c.args \subseteq Params[c.name]
=============================================================================
