-------------------------- MODULE MessagesRouteProofs --------------------------
(***************************************************************************)
(* Proofs about /v1/messages, for any number of requests, any capacities   *)
(* and any profile of the requests: the slots of the protected backend are *)
(* accounted for at every moment, and the rounds of a request are bounded  *)
(* and end with an answer its client may be shown.                         *)
(***************************************************************************)
EXTENDS MessagesRoute, FunctionTheorems, FiniteSetTheorems, TLAPS

Waiting(q) == {q[i] : i \in DOMAIN q}
Distinct(q) == \A i, j \in DOMAIN q : q[i] = q[j] => i = j
At(place) == {t \in Requests : pc[t] = place}
PCs == Working \cup {"idle", "queued", "awaiting summary", "ended"}

Typed ==
  /\ config \in Configs
  /\ pc \in [Requests -> PCs]
  /\ r \in [Requests -> Request]
  /\ slots \in Semaphore /\ summary \in Semaphore

\* Those who wait for s are the requests at `place`, once each.
QueueHolds(s, place) == Distinct(s.queue) /\ Waiting(s.queue) = At(place)

\* Only a request of the protected backend waits, or is prepared, for it; and
\* it has an outcome when it is over.
Placed(t) ==
  /\ pc[t] \in {"queued", "captions", "summary", "awaiting summary"} => r[t].capped
  /\ pc[t] = "ended" <=> r[t].outcome # "none"

Accounted ==
  /\ IsFiniteSet(Holders) /\ IsFiniteSet(Lost)
  /\ SlotAccounting

\* How many model calls a request has behind it, by where it is.
Progress(t) ==
  /\ r[t].iters <= MaxIters
  /\ pc[t] \in {"queued", "captions", "summary", "awaiting summary", "call",
                "search"} => r[t].calls = r[t].iters
  /\ pc[t] \in {"critique", "opened", "draining"} => r[t].calls = r[t].iters + 1
  /\ r[t].calls <= r[t].iters + 2
  /\ r[t].outcome = "answered" => r[t].calls >= r[t].iters + 1

\* A complete reply that is about to be sent, criticised or shown asks for no
\* search the proxy could still run, and has the call it must have.
Settled(t) ==
  /\ Complete(t)
  /\ pc[t] \in {"critique", "opened", "draining"} \/ r[t].outcome \in {"answered", "left"}
  => /\ ~SearchesAgain(t, r[t].kinds)
     /\ r[t].forced => r[t].kinds \cap {"tool", "search"} # {}

Local(t) == Placed(t) /\ Progress(t) /\ Settled(t)

RouteInv ==
  /\ Typed
  /\ QueueHolds(slots, "queued") /\ QueueHolds(summary, "awaiting summary")
  /\ Accounted
  /\ \A t \in Requests : Local(t)

-----------------------------------------------------------------------------
(* Queues.                                                                  *)

\* Who joins a queue is in it, behind the others.
LEMMA Joined ==
  ASSUME NEW q \in Seq(Requests), NEW t \in Requests, Distinct(q), t \notin Waiting(q)
  PROVE  /\ Append(q, t) \in Seq(Requests) /\ Distinct(Append(q, t))
         /\ Waiting(Append(q, t)) = Waiting(q) \cup {t}
<1> DEFINE s == Append(q, t)
<1>1. /\ s \in Seq(Requests) /\ DOMAIN q = 1..Len(q) /\ Len(q) \in Nat
      /\ DOMAIN s = 1..(Len(q) + 1)
      /\ s[Len(q) + 1] = t /\ \A i \in 1..Len(q) : s[i] = q[i]
  OBVIOUS
<1>2. \A i \in DOMAIN s : i \in DOMAIN q \/ i = Len(q) + 1
  BY <1>1
<1>3. Len(q) + 1 \in DOMAIN s /\ \A i \in DOMAIN q : i \in DOMAIN s
  BY <1>1
<1> HIDE DEF s
<1>4. Distinct(s)
  BY <1>1, <1>2 DEF Distinct, Waiting
<1>5. Waiting(s) = Waiting(q) \cup {t}
  BY <1>1, <1>2, <1>3 DEF Waiting
<1> QED
  BY <1>1, <1>4, <1>5 DEF s

\* The head leaves a queue; the others stay.
LEMMA HeadLeaves ==
  ASSUME NEW q \in Seq(Requests), q # <<>>, Distinct(q)
  PROVE  /\ Tail(q) \in Seq(Requests) /\ Distinct(Tail(q))
         /\ Head(q) \in Requests /\ Head(q) \in Waiting(q)
         /\ Waiting(Tail(q)) = Waiting(q) \ {Head(q)}
<1> DEFINE s == Tail(q)
<1>1. /\ s \in Seq(Requests) /\ Head(q) \in Requests /\ Head(q) = q[1]
      /\ Len(q) \in Nat /\ Len(q) > 0 /\ DOMAIN q = 1..Len(q)
      /\ DOMAIN s = 1..(Len(q) - 1) /\ \A i \in DOMAIN s : s[i] = q[i + 1]
  OBVIOUS
<1>2. \A i \in DOMAIN s : i + 1 \in DOMAIN q /\ i + 1 # 1 /\ i \in Nat
  BY <1>1
<1>3. \A i \in DOMAIN q : i = 1 \/ (i - 1 \in DOMAIN s /\ s[i - 1] = q[i])
  BY <1>1
<1>4. 1 \in DOMAIN q
  BY <1>1
<1> HIDE DEF s
<1>5. Distinct(s)
  <2> SUFFICES ASSUME NEW i \in DOMAIN s, NEW j \in DOMAIN s, s[i] = s[j]
               PROVE  i = j
    BY DEF Distinct
  <2>1. i + 1 = j + 1
    BY <1>1, <1>2 DEF Distinct
  <2> QED
    BY <1>2, <2>1
<1>6. Waiting(s) = Waiting(q) \ {Head(q)}
  <2>1. ASSUME NEW i \in DOMAIN s PROVE s[i] \in Waiting(q) \ {Head(q)}
    BY <1>1, <1>2, <1>4 DEF Waiting, Distinct
  <2>2. ASSUME NEW i \in DOMAIN q, q[i] # Head(q) PROVE q[i] \in Waiting(s)
    BY <1>1, <1>3, <2>2 DEF Waiting
  <2> QED
    BY <2>1, <2>2 DEF Waiting
<1> QED
  BY <1>1, <1>4, <1>5, <1>6 DEF Waiting, s

\* A queue is as long as it has waiters.
LEMMA WaitersCounted ==
  ASSUME NEW q \in Seq(Requests), Distinct(q)
  PROVE  Cardinality(Waiting(q)) = Len(q)
<1> DEFINE f == [i \in 1..Len(q) |-> q[i]]
<1>1. Len(q) \in Nat /\ DOMAIN q = 1..Len(q)
  OBVIOUS
<1>2. f \in Bijection(1..Len(q), Waiting(q))
  BY <1>1 DEF Bijection, Injection, IsInjective, Surjection, Waiting, Distinct
<1>3. IsFiniteSet(1..Len(q)) /\ Cardinality(1..Len(q)) = Len(q)
  BY <1>1, FS_Interval
<1> QED
  BY <1>2, <1>3, FS_Bijection DEF ExistsBijection
\* A slot that is free is taken.
LEMMA Taken ==
  ASSUME NEW s \in Semaphore, NEW t, Acquired(s)
  PROVE  /\ Acquire(s, t) \in Semaphore /\ s.free > 0
         /\ Acquire(s, t).queue = s.queue /\ Acquire(s, t).free = s.free - 1
<1>1. s.free \in Nat /\ s.free > 0
  BY DEF Acquired, Semaphore
<1>2. s.free - 1 \in Nat
  BY <1>1
<1> QED
  BY <1>1, <1>2 DEF Acquire, Semaphore

\* A slot that is freed goes to the first waiter, or back.
LEMMA Released ==
  ASSUME NEW s \in Semaphore
  PROVE  /\ Release(s) \in Semaphore
         /\ s.queue = <<>> => /\ Release(s).queue = <<>>
                              /\ Release(s).free = s.free + 1
         /\ s.queue # <<>> => /\ Release(s).queue = Tail(s.queue)
                              /\ Release(s).free = s.free
<1>1. s.free + 1 \in Nat /\ (s.queue # <<>> => Tail(s.queue) \in Seq(Requests))
  BY DEF Semaphore
<1> QED
  BY <1>1 DEF Release, Semaphore

-----------------------------------------------------------------------------
(* What a step of one request is to the others.                             *)

\* A waiter that is let in is where its capped predecessors were.
LEMMA OthersKeep ==
  ASSUME NEW u \in Requests, Local(u), r'[u] = r[u], config' = config,
         \/ pc'[u] = pc[u]
         \/ pc[u] = "queued" /\ pc'[u] = "captions"
         \/ pc[u] = "awaiting summary" /\ pc'[u] = "summary"
  PROVE  Local(u)'
<1>1. Placed(u)'
  BY DEF Local, Placed
<1>2. Progress(u)'
  BY DEF Local, Progress
<1>3. Settled(u)'
  BY DEF Local, Settled, Complete, SearchesAgain
<1> QED
  BY <1>1, <1>2, <1>3 DEF Local

LEMMA InitInv == Init => RouteInv
<1> SUFFICES ASSUME Init PROVE RouteInv
  OBVIOUS
<1>1. Typed
  BY RouteConstants DEF Init, Typed, PCs, Request, NewRequest, Semaphore
<1>2. QueueHolds(slots, "queued") /\ QueueHolds(summary, "awaiting summary")
  <2>1. /\ slots.queue = <<>> /\ summary.queue = <<>>
        /\ \A t \in Requests : pc[t] = "idle"
    BY DEF Init
  <2>2. Waiting(<<>>) = {} /\ Distinct(<<>>)
    BY DEF Waiting, Distinct
  <2>3. At("queued") = {} /\ At("awaiting summary") = {}
    BY <2>1 DEF At
  <2> QED
    BY <2>1, <2>2, <2>3 DEF QueueHolds
<1>3. Holders = {} /\ Lost = {}
  BY DEF Init, Holders, Lost, Working, NewRequest
<1>4. Accounted
  BY <1>3, FS_EmptySet, RouteConstants DEF Init, Accounted, SlotAccounting
<1>5. \A t \in Requests : Local(t)
  BY RouteConstants DEF Init, Local, Placed, Progress, Settled, NewRequest
<1> QED
  BY <1>1, <1>2, <1>4, <1>5 DEF RouteInv

\* What the slots are to a step that neither takes nor frees one.
LEMMA SlotsAside ==
  ASSUME RouteInv, NEW t \in Requests, slots' = slots,
         \A u \in Requests \ {t} : r'[u] = r[u] /\
           (pc'[u] = pc[u] \/ (pc[u] = "awaiting summary" /\ pc'[u] = "summary")),
         r[t].capped => pc[t] \in Working \cup {"awaiting summary"},
         r'[t].capped = r[t].capped,
         r'[t].capped => pc'[t] \in Working \cup {"awaiting summary"}
                         /\ r'[t].outcome = "none",
         pc[t] # "queued", pc'[t] # "queued"
  PROVE  QueueHolds(slots, "queued")' /\ Accounted'
<1>1. \A u \in Requests \ {t} :
        /\ u \in Holders' <=> u \in Holders
        /\ u \in Lost' <=> u \in Lost
        /\ pc'[u] = "queued" <=> pc[u] = "queued"
  BY DEF Holders, Lost, Working
<1>2. (t \in Holders' <=> t \in Holders) /\ (t \in Lost' <=> t \in Lost)
  BY DEF Holders, Lost, Working, RouteInv, Local, Placed
<1>3. Holders' = Holders
  BY <1>1, <1>2 DEF Holders
<1>4. Lost' = Lost
  BY <1>1, <1>2 DEF Lost
<1>5. At("queued")' = At("queued")
  BY <1>1 DEF At
<1> QED
  BY <1>3, <1>4, <1>5 DEF RouteInv, QueueHolds, Accounted, SlotAccounting

LEMMA SummaryAside ==
  ASSUME RouteInv, NEW t \in Requests, summary' = summary,
         \A u \in Requests \ {t} :
           pc'[u] = pc[u] \/ (pc[u] = "queued" /\ pc'[u] = "captions"),
         pc[t] # "awaiting summary", pc'[t] # "awaiting summary"
  PROVE  QueueHolds(summary, "awaiting summary")'
BY DEF RouteInv, QueueHolds, At

\* The end of a request, with or without a slot.
LEMMA EndingKeeps ==
  ASSUME RouteInv, NEW t \in Requests, NEW x \in Request,
         pc[t] \in Working, x.capped = r[t].capped,
         x.outcome \in {"answered", "left", "failed", "crashed"},
         r' = [r EXCEPT ![t] = x],
         pc' = Move(t, "ended", IF r[t].capped THEN slots.queue ELSE <<>>, "captions"),
         slots' = IF r[t].capped THEN Release(slots) ELSE slots,
         UNCHANGED <<config, summary>>,
         Progress(t)', Settled(t)'
  PROVE  RouteInv'
<1> DEFINE q == slots.queue
           h == Head(slots.queue)
<1>0. /\ Typed /\ q \in Seq(Requests) /\ slots.free \in Nat /\ slots \in Semaphore
      /\ Distinct(q) /\ Waiting(q) = At("queued")
      /\ pc[t] \notin {"queued", "awaiting summary", "ended", "idle"}
  BY DEF RouteInv, Typed, Semaphore, QueueHolds, Working
<1>1. q # <<>> => /\ h \in Requests /\ pc[h] = "queued" /\ h # t
                  /\ Tail(q) \in Seq(Requests) /\ Distinct(Tail(q))
                  /\ Waiting(Tail(q)) = At("queued") \ {h}
  BY <1>0, HeadLeaves DEF At
<1>2. pc'[t] = "ended" /\ pc' \in [Requests -> PCs]
  BY <1>0 DEF Move, Typed, PCs, Working
<1>3. \A u \in Requests \ {t} :
        /\ r'[u] = r[u]
        /\ pc'[u] = IF r[t].capped /\ q # <<>> /\ u = h THEN "captions" ELSE pc[u]
  BY <1>0 DEF Move, Typed
<1>4. r'[t] = x /\ r' \in [Requests -> Request]
  BY <1>0 DEF Typed
<1>5. slots' \in Semaphore
  BY <1>0, Released
<1>6. Typed'
  BY <1>0, <1>2, <1>4, <1>5 DEF Typed
<1> HIDE DEF q, h
<1>7. \A u \in Requests : Local(u)'
  <2>1. Local(t)'
    BY <1>2, <1>4 DEF Local, Placed
  <2>2. ASSUME NEW u \in Requests \ {t} PROVE Local(u)'
    BY <1>1, <1>3, OthersKeep DEF RouteInv
  <2> QED
    BY <2>1, <2>2
<1>8. QueueHolds(summary, "awaiting summary")'
  BY <1>0, <1>1, <1>2, <1>3, SummaryAside
<1>9. Lost' = Lost
  BY <1>0, <1>2, <1>3, <1>4 DEF Lost, RouteInv, Local, Placed
<1>10. CASE ~r[t].capped
  <2>1. Holders' = Holders /\ At("queued")' = At("queued")
    BY <1>0, <1>2, <1>3, <1>4, <1>10 DEF Holders, At
  <2> QED
    BY <1>6, <1>7, <1>8, <1>9, <1>10, <2>1
       DEF RouteInv, QueueHolds, Accounted, SlotAccounting
<1>11. CASE r[t].capped /\ q = <<>>
  <2>1. Holders' = Holders \ {t} /\ At("queued")' = At("queued")
    BY <1>0, <1>2, <1>3, <1>4, <1>11 DEF Holders, At, Working
  <2>2. slots'.free = slots.free + 1 /\ slots'.queue = slots.queue
    BY <1>0, <1>11 DEF Release, Semaphore, q
  <2>3. t \in Holders /\ IsFiniteSet(Holders)
    BY <1>11 DEF Holders, RouteInv, Accounted
  <2>4. /\ IsFiniteSet(Holders')
        /\ Cardinality(Holders') = Cardinality(Holders) - 1
        /\ Cardinality(Holders) \in Nat /\ Cardinality(Lost) \in Nat
    BY <2>1, <2>3, FS_RemoveElement, FS_CardinalityType DEF RouteInv, Accounted
  <2>5. Accounted'
    <3>1. /\ slots.free + Cardinality(Holders) + Cardinality(Lost) = Cap
          /\ IsFiniteSet(Lost) /\ slots.free \in Nat /\ slots.queue = <<>>
      BY <1>0, <1>11 DEF RouteInv, Accounted, SlotAccounting, q
    <3>2. slots'.free + Cardinality(Holders') + Cardinality(Lost) = Cap
      BY <2>2, <2>4, <3>1
    <3> QED
      BY <1>9, <2>2, <2>4, <3>1, <3>2 DEF Accounted, SlotAccounting
  <2> QED
    BY <1>6, <1>7, <1>8, <2>1, <2>2, <2>5 DEF RouteInv, QueueHolds
<1>12. CASE r[t].capped /\ q # <<>>
  <2>1. Holders' = (Holders \ {t}) \cup {h} /\ At("queued")' = At("queued") \ {h}
    <3>1. h \in Requests /\ r[h].capped
      BY <1>1, <1>12 DEF RouteInv, Local, Placed
    <3>2. \A u \in Requests : u \in Holders' <=> (u \in Holders /\ u # t) \/ u = h
      BY <1>0, <1>1, <1>2, <1>3, <1>4, <1>12, <3>1 DEF Holders, Working
    <3>3. \A u \in Requests : u \in At("queued")' <=> u \in At("queued") /\ u # h
      BY <1>0, <1>1, <1>2, <1>3, <1>12 DEF At
    <3>4. Holders' \subseteq Requests /\ Holders \subseteq Requests
      BY DEF Holders
    <3>5. At("queued")' \subseteq Requests /\ At("queued") \subseteq Requests
      BY DEF At
    <3> QED
      BY <3>1, <3>2, <3>3, <3>4, <3>5
  <2>2. slots'.free = slots.free /\ slots'.queue = Tail(q)
    BY <1>0, <1>12 DEF Release, Semaphore, q
  <2>3. t \in Holders /\ h \notin Holders /\ IsFiniteSet(Holders)
    BY <1>1, <1>12 DEF Holders, RouteInv, Accounted, Working
  <2>4. /\ IsFiniteSet(Holders')
        /\ Cardinality(Holders') = Cardinality(Holders)
    <3>1. /\ IsFiniteSet(Holders \ {t})
          /\ Cardinality(Holders \ {t}) = Cardinality(Holders) - 1
      BY <2>3, FS_RemoveElement
    <3>2. Cardinality(Holders) \in Nat
      BY <2>3, FS_CardinalityType
    <3>3. /\ IsFiniteSet((Holders \ {t}) \cup {h})
          /\ Cardinality((Holders \ {t}) \cup {h}) = Cardinality(Holders \ {t}) + 1
      BY <2>3, <3>1, FS_AddElement
    <3> QED
      BY <2>1, <3>1, <3>2, <3>3
  <2>5. Accounted'
    BY <1>0, <1>9, <1>12, <2>2, <2>4 DEF RouteInv, Accounted, SlotAccounting, q
  <2> QED
    BY <1>1, <1>6, <1>7, <1>8, <1>12, <2>1, <2>2, <2>5 DEF RouteInv, QueueHolds
<1> QED
  BY <1>10, <1>11, <1>12

\* A request arrives: it takes a slot, waits for one, or needs none.
LEMMA ArrivingKeeps ==
  ASSUME RouteInv, NEW t \in Requests, NEW profile \in Profiles, Arrive(t, profile)
  PROVE  RouteInv'
<1> DEFINE x == [NewRequest EXCEPT
             !.capped = profile.capped, !.stream = profile.stream,
             !.forced = profile.forced,
             !.searches = profile.own \/ (profile.capped /\ config.websearch)]
           next == IF ~profile.capped THEN "call"
                   ELSE IF Acquired(slots) THEN "captions" ELSE "queued"
<1>0. /\ Typed /\ slots.queue \in Seq(Requests) /\ slots.free \in Nat
      /\ slots \in Semaphore /\ pc[t] = "idle"
      /\ Distinct(slots.queue) /\ Waiting(slots.queue) = At("queued")
      /\ UNCHANGED <<config, summary>>
  BY DEF Arrive, RouteInv, Typed, Semaphore, QueueHolds
<1>1. /\ x \in Request /\ x.capped = profile.capped /\ x.outcome = "none"
      /\ x.iters = 0 /\ x.calls = 0 /\ x.kinds = {}
  <2>1. /\ profile.capped \in BOOLEAN /\ profile.stream \in BOOLEAN
        /\ profile.forced \in BOOLEAN
        /\ (profile.own \/ (profile.capped /\ config.websearch)) \in BOOLEAN
    BY RouteConstants
  <2> QED
    BY <2>1 DEF NewRequest, Request
<1>2. /\ r' = [r EXCEPT ![t] = x] /\ pc' = [pc EXCEPT ![t] = next]
      /\ slots' = IF profile.capped THEN Acquire(slots, t) ELSE slots
  BY DEF Arrive
<1>3. /\ next \in PCs /\ next # "ended" /\ next # "awaiting summary"
      /\ next \notin {"critique", "opened", "draining"}
      /\ (next = "queued" <=> profile.capped /\ ~Acquired(slots))
      /\ (next \in {"captions", "queued"} <=> profile.capped)
      /\ next \in {"captions", "queued", "call"}
  BY DEF PCs, Working
<1> HIDE DEF x, next
<1>4. /\ pc'[t] = next /\ r'[t] = x
      /\ pc' \in [Requests -> PCs] /\ r' \in [Requests -> Request]
      /\ \A u \in Requests \ {t} : pc'[u] = pc[u] /\ r'[u] = r[u]
  BY <1>0, <1>1, <1>2, <1>3 DEF Typed
<1>5. \A u \in Requests : Local(u)'
  <2>1. Placed(t)' /\ Settled(t)'
    BY <1>1, <1>3, <1>4 DEF Placed, Settled
  <2>2. Progress(t)'
    <3>1. /\ r'[t].iters = 0 /\ r'[t].calls = 0 /\ r'[t].outcome = "none"
          /\ pc'[t] \notin {"critique", "opened", "draining"} /\ 0 <= MaxIters
      <4>1. 0 <= MaxIters
        BY RouteConstants
      <4> QED
        BY <1>1, <1>3, <1>4, <4>1
    <3> QED
      BY <3>1 DEF Progress
  <2> QED
    BY <1>0, <1>4, <2>1, <2>2, OthersKeep DEF RouteInv, Local
<1>6. QueueHolds(summary, "awaiting summary")'
  BY <1>0, <1>3, <1>4, SummaryAside
<1>7. Lost' = Lost
  BY <1>0, <1>1, <1>4 DEF Lost, RouteInv, Local, Placed
<1>8. CASE ~profile.capped
  <2>1. slots' = slots
    BY <1>2, <1>8
  <2>2. Holders' = Holders
    BY <1>0, <1>1, <1>4, <1>8 DEF Holders, Working
  <2>3. At("queued")' = At("queued")
    BY <1>0, <1>3, <1>4, <1>8 DEF At
  <2> QED
    BY <1>0, <1>4, <1>5, <1>6, <1>7, <2>1, <2>2, <2>3
       DEF RouteInv, Typed, QueueHolds, Accounted, SlotAccounting
<1>9. CASE profile.capped /\ Acquired(slots)
  <2>2. /\ slots' \in Semaphore /\ slots'.queue = slots.queue
        /\ slots'.free = slots.free - 1 /\ slots.free > 0
    BY <1>0, <1>2, <1>9, Taken
  <2>3. Holders' = Holders \cup {t} /\ t \notin Holders
    BY <1>0, <1>1, <1>3, <1>4, <1>9 DEF Holders, Working
  <2>4. At("queued")' = At("queued")
    BY <1>0, <1>3, <1>4, <1>9 DEF At
  <2>5. Accounted'
    <3>1. /\ slots.free + Cardinality(Holders) + Cardinality(Lost) = Cap
          /\ IsFiniteSet(Lost) /\ IsFiniteSet(Holders)
          /\ slots.queue # <<>> => slots.free = 0
      BY DEF RouteInv, Accounted, SlotAccounting
    <3>2. /\ IsFiniteSet(Holders') /\ Cardinality(Holders) \in Nat
          /\ Cardinality(Lost) \in Nat
          /\ Cardinality(Holders') = Cardinality(Holders) + 1
      BY <2>3, <3>1, FS_AddElement, FS_CardinalityType
    <3>3. slots'.free + Cardinality(Holders') + Cardinality(Lost) = Cap
      BY <1>0, <2>2, <3>1, <3>2
    <3> QED
      BY <1>0, <1>7, <2>2, <3>1, <3>2, <3>3 DEF Accounted, SlotAccounting
  <2> QED
    BY <1>0, <1>4, <1>5, <1>6, <2>2, <2>4, <2>5 DEF RouteInv, Typed, QueueHolds
<1>10. CASE profile.capped /\ ~Acquired(slots)
  <2>1. slots.free = 0 /\ slots' = [slots EXCEPT !.queue = Append(@, t)]
    BY <1>0, <1>2, <1>10 DEF Acquire, Acquired
  <2>2. t \notin Waiting(slots.queue)
    BY <1>0 DEF At
  <2>3. /\ slots' \in Semaphore /\ slots'.queue = Append(slots.queue, t)
        /\ slots'.free = slots.free
    BY <1>0, <2>1, <2>2, Joined DEF Semaphore
  <2>4. Holders' = Holders
    BY <1>0, <1>1, <1>3, <1>4, <1>10 DEF Holders, Working
  <2>5. At("queued")' = At("queued") \cup {t}
    BY <1>3, <1>4, <1>10 DEF At
  <2>6. QueueHolds(slots, "queued")'
    BY <1>0, <2>2, <2>3, <2>5, Joined DEF QueueHolds
  <2> QED
    BY <1>0, <1>4, <1>5, <1>6, <1>7, <2>1, <2>3, <2>4, <2>6
       DEF RouteInv, Typed, Accounted, SlotAccounting
<1> QED
  BY <1>8, <1>9, <1>10

\* A step of t that keeps its slot, if it has one, and queues nobody.
LEMMA MovingKeeps ==
  ASSUME RouteInv, NEW t \in Requests, NEW x \in Request, NEW next,
         pc[t] \in Working, next \in Working,
         r' = [r EXCEPT ![t] = x], pc' = [pc EXCEPT ![t] = next],
         UNCHANGED <<config, slots, summary>>,
         x.capped = r[t].capped, x.outcome = r[t].outcome,
         next \in {"captions", "summary"} => r[t].capped,
         Progress(t)', Settled(t)'
  PROVE  RouteInv'
<1>0. Typed /\ pc[t] \notin {"queued", "awaiting summary", "ended", "idle"}
      /\ next \notin {"queued", "awaiting summary", "ended", "idle"}
  BY DEF RouteInv, Working
<1>1. r[t].outcome = "none"
  BY <1>0 DEF RouteInv, Local, Placed
<1>2. /\ pc'[t] = next /\ r'[t] = x
      /\ pc' \in [Requests -> PCs] /\ r' \in [Requests -> Request]
      /\ \A u \in Requests \ {t} : pc'[u] = pc[u] /\ r'[u] = r[u]
  BY <1>0 DEF Typed, PCs
<1>3. Local(t)'
  BY <1>0, <1>1, <1>2 DEF Local, Placed
<1>4. \A u \in Requests : Local(u)'
  BY <1>2, <1>3, OthersKeep DEF RouteInv
<1>5. QueueHolds(slots, "queued")' /\ Accounted'
  BY <1>0, <1>1, <1>2, SlotsAside
<1>6. QueueHolds(summary, "awaiting summary")'
  BY <1>0, <1>2, SummaryAside
<1> QED
  BY <1>0, <1>2, <1>4, <1>5, <1>6 DEF RouteInv, Typed

-----------------------------------------------------------------------------
(* The steps of a request.                                                  *)

\* The images are described; the summary has its own semaphore.
LEMMA CaptionedKeeps ==
  ASSUME RouteInv, NEW t \in Requests, NEW long \in BOOLEAN, Captioned(t, long)
  PROVE  RouteInv'
<1>0. /\ Typed /\ summary \in Semaphore /\ summary.queue \in Seq(Requests)
      /\ summary.free \in Nat /\ pc[t] = "captions" /\ Local(t)
      /\ Distinct(summary.queue) /\ Waiting(summary.queue) = At("awaiting summary")
      /\ UNCHANGED <<config, r, slots>>
  BY DEF Captioned, RouteInv, Typed, Semaphore, QueueHolds
<1>1. r[t].capped /\ r[t].outcome = "none" /\ r[t] \in Request
  BY <1>0 DEF Local, Placed, Typed
<1>2. CASE ~long
  <2>1. pc' = [pc EXCEPT ![t] = "call"] /\ summary' = summary
    BY <1>2 DEF Captioned
  <2>2. r' = [r EXCEPT ![t] = r[t]] /\ pc'[t] = "call"
    BY <1>0, <2>1 DEF Typed
  <2>3. Progress(t)' /\ Settled(t)'
    BY <1>0, <1>1, <2>2 DEF Local, Progress, Settled
  <2> QED
    BY <1>0, <1>1, <2>1, <2>2, <2>3, MovingKeeps DEF Working
<1>3. CASE long
  <2> DEFINE next == IF Acquired(summary) THEN "summary" ELSE "awaiting summary"
  <2>1. pc' = [pc EXCEPT ![t] = next] /\ summary' = Acquire(summary, t)
    BY <1>3 DEF Captioned
  <2>2. /\ next \in PCs /\ next \in {"summary", "awaiting summary"}
        /\ pc'[t] = next /\ pc' \in [Requests -> PCs]
        /\ \A u \in Requests \ {t} : pc'[u] = pc[u]
    BY <1>0, <2>1 DEF PCs, Working, Typed
  <2>3. \A u \in Requests : Local(u)'
    <3>1. Placed(t)' /\ Settled(t)'
      BY <1>0, <1>1, <2>2 DEF Placed, Settled
    <3>2. Progress(t)'
      BY <1>0, <1>1, <2>2 DEF Local, Progress
    <3> QED
      BY <1>0, <2>2, <3>1, <3>2, OthersKeep DEF RouteInv, Local
  <2>4. QueueHolds(slots, "queued")' /\ Accounted'
    BY <1>0, <1>1, <2>2, SlotsAside DEF Working
  <2>5. summary' \in Semaphore /\ QueueHolds(summary, "awaiting summary")'
    <3>1. CASE Acquired(summary)
      <4>2. summary' \in Semaphore /\ summary'.queue = summary.queue
        BY <1>0, <2>1, <3>1, Taken
      <4>3. At("awaiting summary")' = At("awaiting summary")
        BY <1>0, <2>2, <3>1 DEF At
      <4> QED
        BY <1>0, <4>2, <4>3 DEF QueueHolds
    <3>2. CASE ~Acquired(summary)
      <4>1. t \notin Waiting(summary.queue)
        BY <1>0 DEF At
      <4>2. summary' = [summary EXCEPT !.queue = Append(@, t)]
        BY <2>1, <3>2 DEF Acquire
      <4>3. summary' \in Semaphore /\ summary'.queue = Append(summary.queue, t)
        BY <1>0, <4>1, <4>2, Joined DEF Semaphore
      <4>4. At("awaiting summary")' = At("awaiting summary") \cup {t}
        BY <2>2, <3>2 DEF At
      <4> QED
        BY <1>0, <4>1, <4>3, <4>4, Joined DEF QueueHolds
    <3> QED
      BY <3>1, <3>2
  <2> QED
    BY <1>0, <2>2, <2>3, <2>4, <2>5 DEF RouteInv, Typed
<1> QED
  BY <1>2, <1>3

\* The summary's slot goes to the next request that waits for one.
LEMMA SummarisedKeeps ==
  ASSUME RouteInv, NEW t \in Requests, Summarised(t)
  PROVE  RouteInv'
<1> DEFINE q == summary.queue
           h == Head(summary.queue)
<1>0. /\ Typed /\ summary \in Semaphore /\ q \in Seq(Requests)
      /\ pc[t] = "summary" /\ Local(t)
      /\ Distinct(q) /\ Waiting(q) = At("awaiting summary")
      /\ UNCHANGED <<config, r, slots>>
      /\ pc' = Move(t, "call", q, "summary") /\ summary' = Release(summary)
  BY DEF Summarised, RouteInv, Typed, Semaphore, QueueHolds
<1>1. r[t].capped /\ r[t].outcome = "none" /\ r[t] \in Request
  BY <1>0 DEF Local, Placed, Typed
<1>2. q # <<>> => /\ h \in Requests /\ pc[h] = "awaiting summary" /\ h # t
                  /\ Tail(q) \in Seq(Requests) /\ Distinct(Tail(q))
                  /\ Waiting(Tail(q)) = At("awaiting summary") \ {h}
  BY <1>0, HeadLeaves DEF At
<1>3. /\ pc'[t] = "call" /\ pc' \in [Requests -> PCs]
      /\ \A u \in Requests \ {t} :
           pc'[u] = IF q # <<>> /\ u = h THEN "summary" ELSE pc[u]
  BY <1>0 DEF Move, Typed, PCs, Working
<1>4. /\ summary' \in Semaphore
      /\ q # <<>> => summary'.queue = Tail(q)
      /\ q = <<>> => summary'.queue = q
  BY <1>0, Released
<1> HIDE DEF q, h
<1>5. \A u \in Requests : Local(u)'
  <2>1. Placed(t)' /\ Settled(t)'
    BY <1>0, <1>1, <1>3 DEF Placed, Settled
  <2>2. Progress(t)'
    BY <1>0, <1>1, <1>3 DEF Local, Progress
  <2> QED
    BY <1>0, <1>2, <1>3, <2>1, <2>2, OthersKeep DEF RouteInv, Local
<1>6. QueueHolds(slots, "queued")' /\ Accounted'
  BY <1>0, <1>1, <1>2, <1>3, SlotsAside DEF Working
<1>7. QueueHolds(summary, "awaiting summary")'
  <2>1. CASE q = <<>>
    <3>1. At("awaiting summary")' = At("awaiting summary")
      BY <1>0, <1>3, <2>1 DEF At
    <3> QED
      BY <1>0, <1>4, <2>1, <3>1 DEF QueueHolds
  <2>2. CASE q # <<>>
    <3>1. \A u \in Requests :
            pc'[u] = "awaiting summary" <=> pc[u] = "awaiting summary" /\ u # h
      BY <1>0, <1>2, <1>3, <2>2
    <3>2. At("awaiting summary")' = At("awaiting summary") \ {h}
      BY <3>1 DEF At
    <3> QED
      BY <1>2, <1>4, <2>2, <3>2 DEF QueueHolds
  <2> QED
    BY <2>1, <2>2
<1> QED
  BY <1>0, <1>3, <1>4, <1>5, <1>6, <1>7 DEF RouteInv, Typed

\* The reply of a model call is searched for, criticised, streamed or sent.
LEMMA CallEndsKeeps ==
  ASSUME RouteInv, NEW t \in Requests, NEW kinds \in Replies, CallEnds(t, kinds)
  PROVE  RouteInv'
<1> DEFINE k == WithForcedTool(t, kinds)
           seen == [r[t] EXCEPT !.calls = @ + 1, !.kinds = k]
<1>0. /\ Typed /\ pc[t] = "call" /\ Complete(t) /\ Local(t) /\ r[t] \in Request
      /\ r[t].outcome = "none" /\ r[t].calls = r[t].iters
      /\ r[t].iters \in Nat /\ r[t].iters <= MaxIters
  BY DEF CallEnds, RouteInv, Typed, Local, Placed, Progress, Request
<1>1. k \in SUBSET Kinds /\ (r[t].forced => k \cap {"tool", "search"} # {})
  BY DEF WithForcedTool, Replies, Kinds
<1> HIDE DEF k
<1>2. /\ seen \in Request /\ seen.calls = r[t].iters + 1 /\ seen.kinds = k
      /\ seen.iters = r[t].iters /\ seen.capped = r[t].capped
      /\ seen.stream = r[t].stream /\ seen.forced = r[t].forced
      /\ seen.searches = r[t].searches /\ seen.outcome = "none"
  <2>1. r[t].calls + 1 \in Nat
    BY <1>0
  <2> QED
    BY <1>0, <1>1, <2>1 DEF Request
<1> HIDE DEF seen
<1>3. CASE /\ SearchesAgain(t, k)
           /\ r' = [r EXCEPT ![t] = [seen EXCEPT !.iters = @ + 1]]
           /\ pc' = [pc EXCEPT ![t] = "search"]
           /\ UNCHANGED <<config, slots, summary>>
  <2> DEFINE x == [seen EXCEPT !.iters = @ + 1]
  <2>1. /\ x \in Request /\ x.iters = r[t].iters + 1 /\ x.calls = r[t].iters + 1
        /\ x.capped = r[t].capped /\ x.outcome = "none"
    <3>1. r[t].iters + 1 \in Nat
      BY <1>0
    <3> QED
      BY <1>2, <3>1 DEF Request
  <2> HIDE DEF x
  <2>2. r[t].iters + 1 <= MaxIters
    BY <1>0, <1>3, RouteConstants DEF SearchesAgain
  <2>3. r' = [r EXCEPT ![t] = x] /\ r'[t] = x /\ pc'[t] = "search"
    BY <1>0, <1>3 DEF Typed, x
  <2>4. Progress(t)' /\ Settled(t)'
    BY <1>0, <2>1, <2>2, <2>3 DEF Progress, Settled
  <2> QED
    BY <1>0, <1>3, <2>1, <2>3, <2>4, MovingKeeps DEF Working
<1>4. CASE /\ ~SearchesAgain(t, k) /\ r' = [r EXCEPT ![t] = seen]
           /\ \E next \in {"opened", "critique"} : pc' = [pc EXCEPT ![t] = next]
           /\ UNCHANGED <<config, slots, summary>>
  <2>1. PICK next \in {"opened", "critique"} : pc' = [pc EXCEPT ![t] = next]
    BY <1>4
  <2>2. r'[t] = seen /\ pc'[t] = next /\ config' = config
    BY <1>0, <1>4, <2>1 DEF Typed
  <2>3. Progress(t)'
    <3>1. /\ r'[t].iters = r[t].iters /\ r'[t].calls = r[t].iters + 1
          /\ r'[t].outcome = "none" /\ pc'[t] \in {"opened", "critique"}
      BY <1>2, <2>1, <2>2
    <3>2. r'[t].calls <= r'[t].iters + 2 /\ r'[t].iters <= MaxIters
      BY <1>0, <3>1
    <3> QED
      BY <3>1, <3>2 DEF Progress
  <2>4. Settled(t)'
    BY <1>0, <1>1, <1>2, <1>4, <2>2 DEF Settled, SearchesAgain
  <2> QED
    BY <1>0, <1>2, <1>4, <2>1, <2>3, <2>4, MovingKeeps DEF Working
<1>5. CASE /\ ~SearchesAgain(t, k)
           /\ r' = [r EXCEPT ![t] = [seen EXCEPT !.outcome = "answered"]]
           /\ slots' = IF r[t].capped THEN Release(slots) ELSE slots
           /\ pc' = Move(t, "ended", IF r[t].capped THEN slots.queue ELSE <<>>,
                         "captions")
           /\ UNCHANGED <<config, summary>>
  <2> DEFINE x == [seen EXCEPT !.outcome = "answered"]
  <2>1. /\ x \in Request /\ x.iters = r[t].iters /\ x.calls = r[t].iters + 1
        /\ x.capped = r[t].capped /\ x.outcome = "answered" /\ x.kinds = k
        /\ x.forced = r[t].forced
    BY <1>2 DEF Request
  <2> HIDE DEF x
  <2>2. r' = [r EXCEPT ![t] = x] /\ r'[t] = x /\ pc'[t] = "ended" /\ config' = config
    BY <1>0, <1>5 DEF Typed, Move, x
  <2>3. Progress(t)'
    BY <1>0, <2>1, <2>2 DEF Progress
  <2>4. Settled(t)'
    BY <1>0, <1>1, <1>5, <2>1, <2>2 DEF Settled, SearchesAgain
  <2> QED
    BY <1>0, <1>5, <2>1, <2>2, <2>3, <2>4, EndingKeeps DEF Working
<1> QED
  BY <1>3, <1>4, <1>5 DEF CallEnds, k, seen

LEMMA StepKeeps ==
  ASSUME RouteInv, NEW t \in Requests, Step(t)
  PROVE  RouteInv'
<1>0. Typed /\ Local(t) /\ r[t] \in Request
  BY DEF RouteInv, Typed
<1>1. CASE Searched(t) \/ Opened(t)
  <2>1. PICK next \in {"call", "draining"} :
          /\ pc[t] = IF next = "call" THEN "search" ELSE "opened"
          /\ pc' = [pc EXCEPT ![t] = next] /\ UNCHANGED <<config, r, slots, summary>>
    BY <1>1 DEF Searched, Opened
  <2>2. r' = [r EXCEPT ![t] = r[t]] /\ pc'[t] = next
    BY <1>0, <2>1 DEF Typed
  <2>3. Placed(t) /\ Progress(t)' /\ Settled(t)'
    BY <1>0, <2>1, <2>2
       DEF Local, Placed, Progress, Settled, Complete, SearchesAgain
  <2> QED
    BY <1>0, <2>1, <2>2, <2>3, MovingKeeps DEF Working
<1>2. CASE Critiqued(t)
  <2> DEFINE x == [r[t] EXCEPT !.calls = @ + 1, !.outcome = "answered"]
  <2>1. /\ pc[t] = "critique" /\ r[t].calls = r[t].iters + 1 /\ r[t].iters \in Nat
        /\ r[t].iters <= MaxIters
    BY <1>0, <1>2 DEF Critiqued, Local, Progress, Request
  <2>2. /\ x \in Request /\ x.iters = r[t].iters /\ x.calls = r[t].iters + 2
        /\ x.capped = r[t].capped /\ x.outcome = "answered"
        /\ x.kinds = r[t].kinds /\ x.forced = r[t].forced /\ x.stream = r[t].stream
    <3>1. r[t].calls + 1 \in Nat /\ r[t].calls + 1 = r[t].iters + 2
      BY <2>1
    <3> QED
      BY <1>0, <3>1 DEF Request
  <2>3. r' = [r EXCEPT ![t] = x]
    BY <1>0, <1>2 DEF Critiqued, Typed
  <2> HIDE DEF x
  <2>4. r'[t] = x /\ pc'[t] = "ended" /\ UNCHANGED <<config, summary>>
    BY <1>0, <1>2, <2>3 DEF Critiqued, Typed, Move
  <2>5. Progress(t)'
    BY <2>1, <2>2, <2>4 DEF Progress
  <2>6. Settled(t)'
    BY <1>0, <2>1, <2>2, <2>4 DEF Local, Settled, SearchesAgain, Complete
  <2> QED
    BY <1>2, <2>1, <2>2, <2>3, <2>4, <2>5, <2>6, EndingKeeps DEF Critiqued, Working
<1>3. CASE CallStreams(t)
  <2> DEFINE x == [r[t] EXCEPT !.calls = @ + 1]
  <2>1. /\ pc[t] = "call" /\ r[t].calls = r[t].iters /\ r[t].iters \in Nat
        /\ r[t].iters <= MaxIters /\ ~Complete(t) /\ r[t].outcome = "none"
    BY <1>0, <1>3 DEF CallStreams, Local, Placed, Progress, Request
  <2>2. /\ x \in Request /\ x.iters = r[t].iters /\ x.calls = r[t].iters + 1
        /\ x.capped = r[t].capped /\ x.outcome = "none" /\ x.stream = r[t].stream
    <3>1. r[t].calls + 1 \in Nat
      BY <2>1
    <3> QED
      BY <1>0, <2>1, <3>1 DEF Request
  <2>3. r' = [r EXCEPT ![t] = x] /\ pc' = [pc EXCEPT ![t] = "opened"]
        /\ UNCHANGED <<config, slots, summary>>
    BY <1>0, <1>3 DEF CallStreams, Typed
  <2> HIDE DEF x
  <2>4. r'[t] = x /\ pc'[t] = "opened"
    BY <1>0, <2>3 DEF Typed
  <2>5. Progress(t)'
    BY <2>1, <2>2, <2>4 DEF Progress
  <2>6. Settled(t)'
    BY <2>1, <2>2, <2>3, <2>4 DEF Settled, Complete
  <2> QED
    BY <2>1, <2>2, <2>3, <2>5, <2>6, MovingKeeps DEF Working
<1>4. CASE CallFails(t) \/ \E outcome \in {"answered", "left"} : StreamEnds(t, outcome)
  <2>1. PICK outcome \in {"answered", "left", "failed", "crashed"} :
          /\ pc[t] = IF outcome \in {"answered", "left"} THEN "draining" ELSE "call"
          /\ End(t, outcome)
    BY <1>4 DEF CallFails, StreamEnds
  <2> DEFINE x == [r[t] EXCEPT !.outcome = outcome]
  <2>2. /\ x \in Request /\ x.iters = r[t].iters /\ x.calls = r[t].calls
        /\ x.capped = r[t].capped /\ x.outcome = outcome
        /\ x.kinds = r[t].kinds /\ x.forced = r[t].forced /\ x.stream = r[t].stream
    BY <1>0, <2>1 DEF Request
  <2>3. r' = [r EXCEPT ![t] = x] /\ UNCHANGED <<config, summary>>
    BY <1>0, <2>1 DEF End, Typed
  <2> HIDE DEF x
  <2>4. r'[t] = x /\ pc'[t] = "ended"
    BY <1>0, <2>1, <2>3 DEF End, Typed, Move
  <2>5. Progress(t)'
    BY <1>0, <2>1, <2>2, <2>4 DEF Local, Progress, Request
  <2>6. Settled(t)'
    BY <1>0, <2>1, <2>2, <2>3, <2>4 DEF Local, Settled, SearchesAgain, Complete
  <2> QED
    BY <2>1, <2>2, <2>3, <2>5, <2>6, EndingKeeps DEF End, Working
<1>5. CASE Dropped(t)
  <2> DEFINE x == [r[t] EXCEPT !.outcome = "dropped"]
  <2>1. pc[t] = "opened" /\ r[t].outcome = "none"
    BY <1>0, <1>5 DEF Dropped, Local, Placed
  <2>2. /\ x \in Request /\ x.iters = r[t].iters /\ x.calls = r[t].calls
        /\ x.capped = r[t].capped /\ x.outcome = "dropped"
    BY <1>0 DEF Request
  <2>3. /\ r' = [r EXCEPT ![t] = x] /\ pc' = [pc EXCEPT ![t] = "ended"]
        /\ UNCHANGED <<config, slots, summary>>
    BY <1>0, <1>5 DEF Dropped, Typed
  <2> HIDE DEF x
  <2>4. /\ r'[t] = x /\ pc'[t] = "ended"
        /\ r' \in [Requests -> Request] /\ pc' \in [Requests -> PCs]
        /\ \A u \in Requests \ {t} : r'[u] = r[u] /\ pc'[u] = pc[u]
    BY <1>0, <2>2, <2>3 DEF Typed, PCs
  <2>5. \A u \in Requests : Local(u)'
    <3>1. Placed(t)' /\ Settled(t)'
      BY <2>2, <2>4 DEF Placed, Settled
    <3>2. Progress(t)'
      BY <1>0, <2>1, <2>2, <2>4 DEF Local, Progress, Request
    <3> QED
      BY <2>3, <2>4, <3>1, <3>2, OthersKeep DEF RouteInv, Local
  <2>6. QueueHolds(summary, "awaiting summary")'
    BY <2>1, <2>3, <2>4, SummaryAside
  <2>7. At("queued")' = At("queued")
    BY <2>1, <2>4 DEF At
  <2>8. Accounted'
    <3>0. /\ slots.free + Cardinality(Holders) + Cardinality(Lost) = Cap
          /\ IsFiniteSet(Lost) /\ IsFiniteSet(Holders) /\ slots.free \in Nat
          /\ slots.queue # <<>> => slots.free = 0
      BY DEF RouteInv, Accounted, SlotAccounting, Typed, Semaphore
    <3>1. CASE r[t].capped
      <4>1. Holders' = Holders \ {t} /\ t \in Holders
        BY <2>1, <2>2, <2>4, <3>1 DEF Holders, Working
      <4>2. Lost' = Lost \cup {t} /\ t \notin Lost
        BY <2>1, <2>2, <2>4, <3>1 DEF Lost
      <4>3. /\ IsFiniteSet(Holders') /\ Cardinality(Holders) \in Nat
            /\ Cardinality(Holders') = Cardinality(Holders) - 1
        BY <3>0, <4>1, FS_RemoveElement, FS_CardinalityType
      <4>4. /\ IsFiniteSet(Lost') /\ Cardinality(Lost) \in Nat
            /\ Cardinality(Lost') = Cardinality(Lost) + 1
        BY <3>0, <4>2, FS_AddElement, FS_CardinalityType
      <4>5. slots.free + Cardinality(Holders') + Cardinality(Lost') = Cap
        BY <3>0, <4>3, <4>4
      <4> QED
        BY <2>3, <3>0, <4>3, <4>4, <4>5 DEF Accounted, SlotAccounting
    <3>2. CASE ~r[t].capped
      <4>1. Holders' = Holders
        BY <2>2, <2>4, <3>2 DEF Holders
      <4>2. Lost' = Lost
        BY <2>2, <2>4, <3>2 DEF Lost
      <4> QED
        BY <2>3, <3>0, <4>1, <4>2 DEF Accounted, SlotAccounting
    <3> QED
      BY <3>1, <3>2
  <2> QED
    BY <1>0, <2>3, <2>4, <2>5, <2>6, <2>7, <2>8 DEF RouteInv, Typed, QueueHolds
<1>6. CASE Summarised(t)
  BY <1>6, SummarisedKeeps
<1>7. CASE \E long \in BOOLEAN : Captioned(t, long)
  BY <1>7, CaptionedKeeps
<1>8. CASE \E kinds \in Replies : CallEnds(t, kinds)
  BY <1>8, CallEndsKeeps
<1> QED
  BY <1>1, <1>2, <1>3, <1>4, <1>5, <1>6, <1>7, <1>8 DEF Step

LEMMA RouteInvInductive == RouteInv /\ [Next]_vars => RouteInv'
<1>1. ASSUME RouteInv, UNCHANGED vars PROVE RouteInv'
  BY <1>1 DEF vars, RouteInv, Typed, QueueHolds, At, Accounted, SlotAccounting,
     Holders, Lost, Local, Placed, Progress, Settled, Complete, SearchesAgain
<1> QED
  BY <1>1, StepKeeps, ArrivingKeeps DEF Next

LEMMA RouteInvHolds == Spec => []RouteInv
BY InitInv, RouteInvInductive, PTL DEF Spec

\* Whatever the interleaving of arrivals, summaries, failures, streams and
\* clients that leave: every slot of the protected backend is free, held by one
\* request or lost with a response nobody iterated, and the two queues hold
\* exactly those who wait, once each, and only while nothing is free.
THEOREM SlotsAreAccounted == Spec => []SlotsSound
<1>1. RouteInv => SlotsSound
  <2> SUFFICES ASSUME RouteInv PROVE TypeOK /\ SlotAccounting
    BY DEF SlotsSound
  <2>1. /\ slots.queue \in Seq(Requests) /\ summary.queue \in Seq(Requests)
        /\ Distinct(slots.queue) /\ Distinct(summary.queue)
        /\ Waiting(slots.queue) = At("queued")
        /\ Waiting(summary.queue) = At("awaiting summary")
    BY DEF RouteInv, Typed, Semaphore, QueueHolds
  <2>2. /\ Cardinality(Waiting(slots.queue)) = Len(slots.queue)
        /\ Cardinality(Waiting(summary.queue)) = Len(summary.queue)
    BY <2>1, WaitersCounted
  <2>3. \A s \in {slots, summary} :
          Cardinality({s.queue[i] : i \in DOMAIN s.queue}) = Len(s.queue)
    BY <2>2 DEF Waiting
  <2>4. TypeOK
    BY <2>1, <2>3 DEF RouteInv, Typed, TypeOK, PCs, Waiting, At
  <2> QED
    BY <2>4 DEF RouteInv, Accounted
<1> QED
  BY <1>1, RouteInvHolds, PTL

\* A request makes MaxIters + 2 model calls at most, and what its client is
\* shown contains neither a search the proxy could still have run nor, when a
\* tool call was demanded, an answer without one.
THEOREM RoundsAreSound == Spec => []RoundsSound
<1>1. RouteInv => RoundsSound
  <2> SUFFICES ASSUME RouteInv, NEW t \in Requests
               PROVE  /\ Shown(t) /\ config.websearch /\ "search" \in r[t].kinds =>
                           r[t].iters = MaxIters \/ "tool" \in r[t].kinds
                      /\ Shown(t) /\ r[t].forced =>
                           r[t].kinds \cap {"tool", "search"} # {}
                      /\ r[t].calls <= 2 + MaxIters /\ r[t].iters <= MaxIters
                      /\ r[t].outcome = "answered" => r[t].calls >= r[t].iters + 1
    BY DEF RoundsSound, SearchSeen, ForcedToolUsed, BoundedCalls
  <2>1. /\ Progress(t) /\ Settled(t) /\ r[t].iters \in Nat /\ r[t].calls \in Nat
    BY DEF RouteInv, Local, Typed, Request
  <2>2. Shown(t) => /\ ~SearchesAgain(t, r[t].kinds)
                    /\ r[t].forced => r[t].kinds \cap {"tool", "search"} # {}
    BY <2>1 DEF Shown, Settled
  <2>3. r[t].calls <= 2 + MaxIters
    <3>1. MaxIters \in Nat
      BY RouteConstants
    <3>2. r[t].calls <= r[t].iters + 2 /\ r[t].iters <= MaxIters
      BY <2>1 DEF Progress
    <3> QED
      BY <2>1, <3>1, <3>2
  <2>4. ~SearchesAgain(t, r[t].kinds) /\ config.websearch /\ "search" \in r[t].kinds
        => r[t].iters = MaxIters \/ "tool" \in r[t].kinds
    <3>1. MaxIters \in Nat /\ r[t].iters <= MaxIters
      BY <2>1, RouteConstants DEF Progress
    <3> QED
      BY <2>1, <3>1 DEF SearchesAgain, OnlySearches
  <2> QED
    BY <2>1, <2>2, <2>3, <2>4 DEF Progress
<1> QED
  BY <1>1, RouteInvHolds, PTL
==============================================================================
