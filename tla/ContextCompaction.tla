------------------------- MODULE ContextCompaction -------------------------
(***************************************************************************)
(* Compaction of long conversations (compact_context_if_needed).  A client *)
(* sends its whole history with every turn.  While it fits it is passed on, *)
(* in the yellow zone a summary of its old middle is prepared in the        *)
(* background, and when it no longer fits the middle is replaced by a        *)
(* cached summary of a prefix of it, or dropped while one is produced.       *)
(*                                                                         *)
(* A message is a value with a size in tokens; a summary is the sequence of *)
(* messages it was made from.                                               *)
(***************************************************************************)
EXTENDS Integers, Sequences, FiniteSets, SequencesExt

CONSTANTS
  Texts, SizeOf,   \* messages and their sizes
  Budget,          \* tokens a request may have (input_budget)
  Tools,           \* tokens of its tools
  SummarySize,     \* VLLM_CONTEXT_SUMMARY_TOKENS
  Margin,          \* VLLM_CONTEXT_PROACTIVE_MARGIN
  KeepTail,        \* VLLM_CONTEXT_KEEP_TAIL_TOKENS
  RefreshMin,      \* VLLM_CONTEXT_REFRESH_MIN_TOKENS
  MinKeep,         \* VLLM_CONTEXT_FALLBACK_MIN_KEEP
  Cooldown,        \* VLLM_CONTEXT_FAILURE_CACHE_SECONDS
  SummaryCap,      \* VLLM_CONTEXT_SUMMARY_CONCURRENCY
  CacheMax,        \* VLLM_CONTEXT_CACHE_MAX_ENTRIES
  MaxLength, MaxForks, LastTick, MaxTasks  \* bounds of the model

ASSUME CompactionConstants ==
  /\ SizeOf \in [Texts -> Nat \ {0}]
  /\ {Budget, Tools, SummarySize, Margin, KeepTail, RefreshMin, MinKeep, Cooldown,
      SummaryCap, CacheMax, MaxLength, MaxForks, LastTick, MaxTasks} \subseteq Nat
  /\ Budget > Tools + SummarySize /\ SummaryCap > 0 /\ CacheMax > 0

VARIABLES
  background, \* VLLM_CONTEXT_SUMMARY_BACKGROUND
  conv,     \* the history the client sends
  sent,     \* what the last request was turned into
  cache,    \* _SUMMARY_CACHE, least recently used first
  failures, \* _SUMMARY_FAILURE_CACHE: keys and when they expire
  tasks,    \* summaries being produced or waiting for the semaphore, in order
  clock, forks

compactVars == <<background, conv, sent, cache, failures, tasks, clock, forks>>

SizeSum(c) == SumFunction([i \in DOMAIN c |-> SizeOf[c[i]]])

\* What a failed or running summary is known by: the summary it starts from
\* (<<>> if none) and the messages it adds.
SummaryKey(base, new) == [base |-> base, new |-> new]

TailBudget == Budget - Tools - SummarySize

EffectiveKeepTail == IF KeepTail < TailBudget THEN KeepTail ELSE TailBudget

\* The index at which the tail begins: as many of the last messages as fit, at
\* least one, and never all.
TailStart(c) ==
  LET fits(i) == i = Len(c)
                   \/ (i > 1 /\ SizeSum(SubSeq(c, i, Len(c))) <= EffectiveKeepTail)
  IN CHOOSE i \in DOMAIN c : /\ \A j \in i..Len(c) : fits(j)
                             /\ i = 1 \/ ~fits(i - 1)

\* The whole history is sent.
Whole(c) == [conv |-> c, zone |-> "fits", base |-> <<>>, from |-> 1, cut |-> FALSE]

Summarised(c, base, from, zone, cut) ==
  [conv |-> c, zone |-> zone, base |-> base, from |-> from, cut |-> cut]

CompactInit ==
  /\ background \in BOOLEAN
  /\ conv = <<>> /\ sent = Whole(<<>>) /\ cache = <<>> /\ failures = {}
  /\ tasks = <<>> /\ clock = 0 /\ forks = 0

-----------------------------------------------------------------------------
(* The caches.                                                              *)

Matches(key, middle) == IsPrefix(key, middle)

\* The position of the longest cached prefix, 0 if there is none.
Find(c, middle) ==
  LET hits == {i \in DOMAIN c : Matches(c[i].key, middle)}
  IN IF hits = {} THEN 0
     ELSE CHOOSE i \in hits : \A j \in hits : Len(c[j].key) <= Len(c[i].key)

\* A summary that is found becomes the most recently used.
Touch(c, i) == IF i = 0 THEN c ELSE Append(RemoveAt(c, i), c[i])

Put(c, key, summary) ==
  LET old == {i \in DOMAIN c : c[i].key = key}
      others == IF old = {} THEN c ELSE RemoveAt(c, CHOOSE i \in old : TRUE)
      all == Append(others, [key |-> key, summary |-> summary])
  IN IF Len(all) > CacheMax THEN Tail(all) ELSE all

\* A failure that has not expired for these messages or the first of them.
Cooling(k) ==
  \E f \in failures : /\ f.until > clock /\ f.key.base = k.base
                      /\ IsPrefix(f.key.new, k.new)

-----------------------------------------------------------------------------

\* The recent messages, without the oldest ones that do not fit but MinKeep; the
\* oldest that is kept is cut when they still do not fit.
Fallback(c, base, tail) ==
  LET over(i) == SummarySize + SizeSum(SubSeq(c, i, Len(c))) > TailBudget
      kept == {i \in tail..Len(c) :
                 \A j \in tail..i-1 : /\ over(j)
                                      /\ Len(c) - j + 1 > (IF MinKeep > 1 THEN MinKeep ELSE 1)}
      from == CHOOSE i \in kept : \A j \in kept : j <= i
  IN Summarised(c, base, from, "fallback", over(from))

\* What is known about a history before it is decided on.
Plan(c) ==
  LET tail == TailStart(c)
      middle == SubSeq(c, 1, tail - 1)
      hit == Find(cache, middle)
      base == IF hit = 0 THEN <<>> ELSE cache[hit].summary
      new == SubSeq(middle, (IF hit = 0 THEN 0 ELSE Len(cache[hit].key)) + 1, Len(middle))
  IN [tail |-> tail, middle |-> middle, hit |-> hit, base |-> base, new |-> new]

\* The prior summary is good enough: what it lacks is less than a refresh.
StaleSmall(p) == p.hit # 0 /\ SizeSum(p.new) < RefreshMin

\* Mutant: whatever the prior summary lacks is dropped.
StaleSmallAny(p) == p.hit # 0

Task(c, p) ==
  [key |-> SummaryKey(p.base, p.new), middle |-> p.middle, conv |-> c, sync |-> ~background]

\* A background summary of the middle, unless the same one is in flight.
Spawn(c, p) ==
  LET task == Task(c, p)
  IN IF background /\ \E i \in DOMAIN tasks : tasks[i].key = task.key
     THEN tasks ELSE Append(tasks, task)

Fits(c) ==
  /\ SizeSum(c) + Tools <= Budget - Margin
  /\ sent' = Whole(c)
  /\ UNCHANGED <<cache, failures, tasks>>

\* Yellow zone: the request is passed on, and a summary prepared.
Warm(c) ==
  /\ SizeSum(c) + Tools > Budget - Margin /\ SizeSum(c) + Tools <= Budget
  /\ sent' = Whole(c)
  /\ LET p == Plan(c)
     IN IF ~background \/ Len(c) <= 2 \/ p.middle = <<>>
        THEN UNCHANGED <<cache, tasks>>
        ELSE /\ cache' = Touch(cache, p.hit)
             /\ tasks' = IF p.new = <<>> \/ StaleSmall(p) \/ Cooling(SummaryKey(p.base, p.new))
                         THEN tasks ELSE Spawn(c, p)
  /\ UNCHANGED failures

\* One or two messages that are too long are each cut.
CutAll(c) ==
  /\ SizeSum(c) + Tools > Budget /\ Len(c) <= 2
  /\ sent' = [Whole(c) EXCEPT !.zone = "cut", !.cut = TRUE]
  /\ UNCHANGED <<cache, failures, tasks>>

\* Red zone.  In the background mode the request goes on at once; otherwise it
\* waits for its summary (SummaryEnds).
Compact(c) ==
  LET p == Plan(c)
  IN /\ SizeSum(c) + Tools > Budget /\ Len(c) > 2
     /\ cache' = Touch(cache, p.hit)
     /\ IF p.new = <<>> \/ StaleSmall(p)
          THEN /\ sent' = Summarised(c, p.base, p.tail, "reused", FALSE)
               /\ UNCHANGED tasks
          ELSE IF Cooling(SummaryKey(p.base, p.new))
          THEN /\ sent' = Fallback(c, p.base, p.tail)
               /\ UNCHANGED tasks
          ELSE /\ tasks' = Spawn(c, p)
               /\ sent' = IF background THEN Fallback(c, p.base, p.tail) ELSE sent
     /\ UNCHANGED failures

\* The next turn: the history grows by a message, after the client has kept all
\* of it or has gone back to an earlier point.  A client that waits for its
\* summary has no next turn.
Turn(keep, x) ==
  /\ background \/ tasks = <<>>
  /\ Len(tasks) < MaxTasks /\ keep < MaxLength
  /\ keep = Len(conv) \/ forks < MaxForks
  /\ forks' = IF keep = Len(conv) THEN forks ELSE forks + 1
  /\ conv' = Append(SubSeq(conv, 1, keep), x)
  /\ Fits(conv') \/ Warm(conv') \/ CutAll(conv') \/ Compact(conv')
  /\ UNCHANGED <<background, clock>>

\* What a summary is made from, and the messages it is cached for.
\* Mutant: it is cached for the messages it was made from in this round only.
CachedForNew(task) == task.key.new
CachedFor(task) == task.middle

\* The answer to a request that has waited for its summary.
Answer(task, ok) ==
  LET tail == Len(task.middle) + 1
      summary == task.key.base \o task.key.new
      fits == SummarySize + SizeSum(SubSeq(task.conv, tail, Len(task.conv))) <= TailBudget
  IN IF ~ok THEN Fallback(task.conv, task.key.base, tail)
     ELSE IF fits THEN Summarised(task.conv, summary, tail, "summarised", FALSE)
     ELSE Fallback(task.conv, summary, tail)

\* The summary has a slot of the semaphore.
Running(i) == i \in DOMAIN tasks /\ i <= SummaryCap

\* A summary that has a slot of the semaphore ends, well or with an exception
\* (a timeout, an error payload, an empty summary).
SummaryEnds(i, ok) ==
  /\ Running(i)
  /\ tasks' = RemoveAt(tasks, i)
  /\ IF ok
       THEN /\ cache' = Put(cache, CachedFor(tasks[i]), tasks[i].key.base \o tasks[i].key.new)
            /\ UNCHANGED failures
       ELSE /\ failures' = {f \in failures : f.key # tasks[i].key}
                           \cup {[key |-> tasks[i].key, until |-> clock + Cooldown]}
            /\ UNCHANGED cache
  /\ sent' = IF tasks[i].sync THEN Answer(tasks[i], ok) ELSE sent
  /\ UNCHANGED <<background, conv, clock, forks>>

Tick ==
  /\ clock < LastTick /\ clock' = clock + 1
  /\ UNCHANGED <<background, conv, sent, cache, failures, tasks, forks>>

CompactNext ==
  \/ Tick
  \/ \E keep \in 0..Len(conv), x \in Texts : Turn(keep, x)
  \/ \E i \in 1..SummaryCap, ok \in BOOLEAN : SummaryEnds(i, ok)

CompactSpec == CompactInit /\ [][CompactNext]_compactVars

\* A summary has a timeout.
FairCompactSpec ==
  CompactSpec /\ WF_compactVars(\E i \in 1..SummaryCap, ok \in BOOLEAN : SummaryEnds(i, ok))

-----------------------------------------------------------------------------
(* Properties.                                                              *)

Messages == Seq(Texts)
Kept == SubSeq(sent.conv, sent.from, Len(sent.conv))

\* Types; a summary is in flight once, and no more are cached than the maximum.
CompactTypeOK ==
  /\ background \in BOOLEAN /\ conv \in Messages
  /\ clock \in 0..LastTick /\ forks \in 0..MaxForks
  /\ sent.conv \in Messages /\ sent.base \in Messages /\ sent.cut \in BOOLEAN
  /\ sent.zone \in {"fits", "cut", "reused", "fallback", "summarised"}
  /\ sent.conv # <<>> => sent.from \in DOMAIN sent.conv
  /\ Len(cache) <= CacheMax
  /\ \A i, j \in DOMAIN cache : i # j => cache[i].key # cache[j].key
  /\ background => \A i, j \in DOMAIN tasks : i # j => tasks[i].key # tasks[j].key

\* A cached summary was made from exactly the messages it is cached for, also
\* when it was folded from an older one, while newer turns and other branches of
\* the history produced theirs.
SummaryExact == \A i \in DOMAIN cache : cache[i].summary = cache[i].key

\* A request only gets a summary of the beginning of its own history, that ends
\* before the messages it keeps; and when the summary is taken for good enough,
\* the messages in neither are fewer than a refresh.
SentSound ==
  /\ IsPrefix(sent.base, sent.conv) /\ Len(sent.base) < sent.from
  /\ sent.zone = "reused" =>
       LET lost == SubSeq(sent.conv, Len(sent.base) + 1, sent.from - 1)
       IN lost = <<>> \/ SizeSum(lost) < RefreshMin

\* A compacted request fits its budget unless the few messages that are kept in
\* any case do not, and the last message is cut only when it does not fit alone.
Bounded ==
  sent.zone \in {"reused", "fallback", "summarised"} =>
    /\ sent.cut \/ SummarySize + SizeSum(Kept) <= Budget - Tools
         \/ Len(Kept) = 1
    /\ sent.cut /\ Len(Kept) = 1 => SummarySize + SizeSum(Kept) > TailBudget

\* The cache of summaries is bounded and exact, and so is what is sent from it.
SummariesSound == CompactTypeOK /\ SummaryExact /\ SentSound /\ Bounded

\* Every summary that is started ends, also those that wait for the semaphore.
SummariesEnd == \A n \in 1..MaxTasks : Len(tasks) = n ~> Len(tasks) # n
=============================================================================
