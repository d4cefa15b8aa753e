------------------------------ MODULE MCStores ------------------------------
(* Stores that are checked one at a time: the keys of the admin database       *)
(* ("keys"), the providers' cache ("cache"), DeepSeek's use of it ("deepseek"),  *)
(* and what a Gemini conversation is made of: requests with the cached          *)
(* signatures ("session") and one streamed answer ("stream").                   *)
EXTENDS ApiKeys, ProviderCache, GeminiStream, TLC

CONSTANTS k1, k2, k3, a1, r1, r2

ThreeKeys == {k1, k2, k3}
OneAccount == {a1}
TwoRequests == {r1, r2}
Plain == [tokens |-> 1, daily |-> 0, days |-> 0]
Short == [tokens |-> 2, daily |-> 1, days |-> 1]
TwoForms == {Plain, Short}
Interchangeable == Permutations(Keys) \cup Permutations(Requests)

VARIABLE part

TwoCacheKeys == {"call", "text"}

\* DeepSeek's cache: two messages with a tool call each and the same text.
VARIABLES dsProc, dsMem, dsFile, dsDirty, dsReady, dsWaiting, dsDiskOk, dsNow, dsStored,
          dsLatest, dsOvertaken, given, onFile, fresh, asking, restored
dsVars == <<dsProc, dsMem, dsFile, dsDirty, dsReady, dsWaiting, dsDiskOk, dsNow, dsStored,
            dsLatest, dsOvertaken, given, onFile, fresh, asking, restored>>
CallKey(a) == IF a = 1 THEN "call1" ELSE "call2"
TextKey(a) == "text"
DeepSeek == INSTANCE DeepSeekReasoning
         WITH proc <- dsProc, mem <- dsMem, file <- dsFile, dirty <- dsDirty,
              ready <- dsReady, waiting <- dsWaiting, diskOk <- dsDiskOk, now <- dsNow,
              stored <- dsStored, latest <- dsLatest, overtaken <- dsOvertaken,
              CacheKeys <- {"call1", "call2", "text"}, MemoryTTL <- 1, DiskTTL <- 2,
              MaxStores <- 0, MaxQueue <- 0, MaxTime <- 4,
              Answers <- {1, 2}, IdOf <- CallKey, TextOf <- TextKey,
              Placeholder <- 0

\* A Gemini conversation with a tool that has a parameter and one that has none.
VARIABLES history, cache, nextCall, sent
sessionVars == <<history, cache, nextCall, sent>>
ToolParams == [t \in {"bash", "read"} |-> IF t = "bash" THEN {} ELSE {"path"}]
Session == INSTANCE GeminiSession
           WITH Tools <- {"bash", "read"}, Params <- ToolParams, Confirm <- "_confirm",
                Replies <- {<<>>, <<"bash">>, <<"read">>, <<"bash", "read">>, <<"read", "read">>},
                Unknown <- <<"unknown_", "function">>, MaxCalls <- 3, MaxHistory <- 6

\* A Gemini answer.
ChunkParts == {<<>>, <<"text">>, <<"call", "call">>, <<"thought", "call">>}
Spent(c, n, t) == [prompt |-> 2, cached |-> c, candidates |-> n, thoughts |-> t]
SomeUsages == {Spent(0, 0, 1), Spent(1, 1, 1), Spent(1, 2, 0)}

StoresInit ==
  /\ Init /\ CacheInit /\ DeepSeek!DsInit /\ Session!SessionInit /\ StreamInit
  /\ part \in {"keys", "cache", "deepseek", "session", "stream"}
StoresNext ==
  /\ UNCHANGED part
  /\ \/ part = "keys" /\ Next /\ UNCHANGED <<cacheVars, dsVars, sessionVars, streamVars>>
     \/ part = "cache" /\ CacheNext /\ UNCHANGED <<vars, dsVars, sessionVars, streamVars>>
     \/ /\ part = "deepseek" /\ DeepSeek!DsNext
        /\ UNCHANGED <<vars, cacheVars, sessionVars, streamVars>>
     \/ /\ part = "session" /\ Session!SessionNext
        /\ UNCHANGED <<vars, cacheVars, dsVars, streamVars>>
     \/ /\ part = "stream" /\ StreamNext
        /\ UNCHANGED <<vars, cacheVars, dsVars, sessionVars>>
StoresSpec ==
  StoresInit /\ [][StoresNext]_<<part, vars, cacheVars, dsVars, sessionVars, streamVars>>

\* What is sent upstream of a conversation.  To Gemini: calls followed by their own
\* results, each once, with signatures, and tools under the names the client knows.
\* To DeepSeek: every call with its own reasoning.
SessionSound ==
  /\ part = "session" =>
       /\ Session!CallsAnswered /\ Session!OwnResults /\ Session!NothingTwice
       /\ Session!Signed /\ Session!OwnTools
  /\ part = "deepseek" => DeepSeek!OwnReasoning
=============================================================================
