-------------------------- MODULE DeepSeekReasoning --------------------------
(***************************************************************************)
(* The reasoning DeepSeek wants back with every tool call                   *)
(* (deepseek_provider.py).  Clients do not send it, so the provider keeps   *)
(* it in a ProviderCache under the ids of the calls and under the text of    *)
(* the message, and puts it, or a placeholder, into the messages of the      *)
(* next requests.  ids of calls are unique; texts are not.                    *)
(***************************************************************************)
EXTENDS ProviderCache, FiniteSets

CONSTANTS
  Answers,      \* assistant messages with a tool call and reasoning, numbered
  IdOf(_), TextOf(_), \* keys of an answer: of its call, of its text
  Placeholder

VARIABLES
  given,     \* answers the client has, with the time of those that were stored
  onFile,    \* history: stored answers that a save wrote and none dropped
  fresh,     \* history: answers stored by this process
  asking,    \* answers in requests that wait for the file
  restored   \* the last message sent upstream, and what it had to have

dsVars == <<cacheVars, given, onFile, fresh, asking, restored>>

Nobody == [of |-> 0, got |-> 0, due |-> FALSE]
DsInit ==
  /\ CacheInit
  /\ given = [a \in Answers |-> NoEntry] /\ onFile = {} /\ fresh = {}
  /\ asking = {} /\ restored = Nobody

Stored(a) == given[a] # NoEntry /\ given[a].val
\* The cache must still have it: it is young in memory, or young on disk.
Due(a, readable) ==
  /\ Stored(a)
  /\ \/ a \in fresh /\ now - given[a].ts <= MemoryTTL
     \/ readable /\ a \in onFile /\ now - given[a].ts <= DiskTTL

----------------------------------------------------------------------------
\* An answer of the upstream: one that is read to its end is stored under both
\* keys, one whose stream the client leaves is not (_stream_completion).
Answer(a, whole) ==
  /\ Alive /\ given[a] = NoEntry
  /\ \A b \in Answers : b < a => given[b] # NoEntry
  /\ given' = [given EXCEPT ![a] = [val |-> whole, ts |-> now]]
  /\ fresh' = IF whole THEN fresh \cup {a} ELSE fresh
  /\ IF whole
     THEN /\ mem' = [k \in CacheKeys |->
                       IF k \in {IdOf(a), TextOf(a)} THEN [val |-> a, ts |-> now]
                       ELSE mem[k]]
          /\ dirty' = TRUE
     ELSE UNCHANGED <<mem, dirty>>
  /\ UNCHANGED <<proc, file, ready, waiting, diskOk, now, stored, latest,
                 overtaken, onFile, asking, restored>>

\* retrieve_async of the keys in turn, until one is found: what is not young in
\* memory is dropped there and looked up in the file.
Found(k, inMemory, readable) ==
  IF inMemory /\ Valid(mem[k], MemoryTTL) THEN mem[k] ELSE OnDisk(k, readable)
AfterLook(k, inMemory, readable) ==
  IF OnDisk(k, readable) = NoEntry /\ ~inMemory THEN mem[k]
  ELSE Found(k, inMemory, readable)

\* _inject_reasoning_content for one message; inMemory is FALSE after a wait.
Inject(a, inMemory, readable) ==
  LET byId == Found(IdOf(a), inMemory, readable)
      byText == Found(TextOf(a), TRUE, readable)
      e == IF byId # NoEntry THEN byId ELSE byText
  IN /\ mem' = [k \in CacheKeys |->
                  IF k = IdOf(a) THEN AfterLook(k, inMemory, readable)
                  ELSE IF k = TextOf(a) /\ byId = NoEntry THEN byText ELSE mem[k]]
     /\ restored' = [of |-> a, got |-> IF e = NoEntry THEN Placeholder ELSE e.val,
                     due |-> Due(a, readable)]
     /\ UNCHANGED <<proc, file, dirty, ready, waiting, diskOk, now, stored, latest,
                    overtaken, given, onFile, fresh>>

\* A request of the conversation goes on at once, or waits until the file is
\* loaded, because it needs it.
Ask(a, readable) ==
  /\ Alive /\ given[a] # NoEntry /\ a \notin asking
  /\ IF proc = "loading" /\ ~Valid(mem[IdOf(a)], MemoryTTL)
     THEN /\ asking' = asking \cup {a}
          /\ mem' = [mem EXCEPT ![IdOf(a)] = NoEntry]
          /\ UNCHANGED <<proc, file, dirty, ready, waiting, diskOk, now, stored,
                         latest, overtaken, given, onFile, fresh, restored>>
     ELSE Inject(a, TRUE, readable) /\ UNCHANGED asking
AskWakes(a, readable) ==
  /\ a \in asking /\ proc = "on" /\ asking' = asking \ {a}
  /\ Inject(a, FALSE, readable)

\* What happens to the cache meanwhile.
Quiet ==
  /\ Start \/ Clock \/ DiskTurns \/ BeginLoad \/ Cleanup
        \/ \E readable \in BOOLEAN : EndLoad(readable)
  /\ UNCHANGED <<given, onFile, fresh, asking, restored>>
SaveAnswers(readable) ==
  /\ Save(readable)
  /\ onFile' = (IF readable THEN onFile ELSE {})
                 \cup {a \in Answers : mem[IdOf(a)] # NoEntry}
  /\ UNCHANGED <<given, fresh, asking, restored>>
DsCrash ==
  /\ Crash /\ fresh' = {} /\ asking' = {}
  /\ UNCHANGED <<given, onFile, restored>>

DsNext ==
  \/ Quiet \/ DsCrash \/ \E readable \in BOOLEAN : SaveAnswers(readable)
  \/ \E a \in Answers, b \in BOOLEAN : Answer(a, b) \/ Ask(a, b) \/ AskWakes(a, b)

DsSpec == DsInit /\ [][DsNext]_dsVars

----------------------------------------------------------------------------
\* A tool call goes back upstream with the reasoning it came with, not with a
\* placeholder and not with that of another message of the same text, when the
\* answer was read to its end, at most the time on disk ago, and no crash came
\* before it was saved: also while the file is being loaded after a restart.
OwnReasoning == restored.due => restored.got = restored.of
=============================================================================
