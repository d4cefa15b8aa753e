----------------------------- MODULE QuotaProofs -----------------------------
(***************************************************************************)
(* Proofs about limits and quotas.                                         *)
(*                                                                         *)
(* The embeddings route, for any number of clients, requests and inputs:   *)
(* the rate and burst limits of a client, and the batches that answer it.  *)
(* The windows of a credential, for any models, caps and calendar: what    *)
(* they count, when they end, and how far a cap is overshot.               *)
(* The quota jobs, for any credentials: whom they keep from requests, and  *)
(* that nothing of them is left when the proxy ends.                       *)
(***************************************************************************)
EXTENDS EmbeddingsRoute, UsageWindows, QuotaPolling, FiniteSetTheorems, TLAPS

(***************************************************************************)
(* The embeddings route.                                                   *)
(***************************************************************************)
Times == 0..MaxTime

\* The stamps of a client are in order and not of the future.
Ordered(s) ==
  /\ \A i, j \in DOMAIN s : i <= j => s[i] <= s[j]
  /\ \A i \in DOMAIN s : s[i] <= now

\* Of what was granted the limiter has forgotten only what is older than a minute.
Forgot(g, s) ==
  /\ Len(s) <= Len(g)
  /\ \A i \in DOMAIN s : s[i] = g[Len(g) - Len(s) + i]
  /\ \A i \in DOMAIN g : i <= Len(g) - Len(s) => g[i] < now - Minute

LimiterInv ==
  /\ now \in Times
  /\ stamps \in [Clients -> Seq(Times)] /\ granted \in [Clients -> Seq(Times)]
  /\ \A c \in Clients :
       /\ Ordered(granted[c]) /\ Forgot(granted[c], stamps[c])
       /\ Len(stamps[c]) <= PerMinute
  /\ RateBound /\ BurstBound

WindowInv ==
  /\ now \in Times /\ heavy \subseteq Clients
  /\ seen \in [Clients -> -1..MaxTime] /\ heavyAt \in [Clients -> -1..MaxTime]
  /\ paused \in [Clients -> 0..MaxTime + Pause]
  /\ \A c \in Clients : heavyAt[c] <= now
  /\ FairPause

\* Dropping the old stamps.
LEMMA Drops ==
  ASSUME NEW s \in Seq(Times), NEW k \in Expired(s)
  PROVE  LET left == SubSeq(s, k + 1, Len(s))
         IN /\ left \in Seq(Times) /\ k \in 0..Len(s) /\ Len(left) = Len(s) - k
            /\ \A i \in 1..Len(left) : left[i] = s[k + i]
            /\ \A i \in 1..k : s[i] < now - Minute
BY DEF Expired

LEMMA LimiterCheck ==
  ASSUME LimiterInv, NEW c \in Clients, NEW rate \in {"granted", "rate", "burst"},
         RateCheck(c, rate), UNCHANGED now
  PROVE  LimiterInv'
<1>1. CASE c = Root
  BY <1>1 DEF RateCheck, LimiterInv, Ordered, Forgot, RateBound, BurstBound
<1>2. CASE c # Root
  <2> DEFINE s == stamps[c]
             g == granted[c]
  <2>1. PICK k \in Expired(s) :
          LET left == SubSeq(s, k + 1, Len(s))
          IN /\ rate = Limited(left)
             /\ stamps' = [stamps EXCEPT ![c] =
                            IF rate = "granted" THEN Append(left, now) ELSE left]
             /\ granted' = [granted EXCEPT ![c] =
                             IF rate = "granted" THEN Append(@, now) ELSE @]
    BY <1>2 DEF RateCheck
  <2> DEFINE left == SubSeq(s, k + 1, Len(s))
  <2>2. s \in Seq(Times) /\ g \in Seq(Times) /\ Len(s) \in Nat /\ Len(g) \in Nat /\ now \in Times
        /\ Len(s) <= PerMinute
    BY DEF LimiterInv
  <2>3. /\ left \in Seq(Times) /\ k \in 0..Len(s) /\ Len(left) = Len(s) - k
        /\ \A i \in 1..Len(left) : left[i] = s[k + i]
        /\ \A i \in 1..k : s[i] < now - Minute
    BY <2>2, Drops
  <2>4. Ordered(g) /\ Forgot(g, s)
    BY DEF LimiterInv
  <2> HIDE DEF s, g, left
  <2>5. Forgot(g, left)
    <3>1. DOMAIN left = 1..Len(left) /\ DOMAIN s = 1..Len(s) /\ DOMAIN g = 1..Len(g)
          /\ Len(s) <= Len(g) /\ k \in Nat /\ k <= Len(s) /\ Len(left) \in Nat
      BY <2>2, <2>3, <2>4 DEF Forgot
    <3>2. ASSUME NEW i \in DOMAIN left PROVE left[i] = g[Len(g) - Len(left) + i]
      <4>1. k + i \in DOMAIN s /\ Len(g) - Len(s) + (k + i) = Len(g) - Len(left) + i
        BY <2>2, <2>3, <3>1
      <4>2. left[i] = s[k + i]
        BY <2>3, <3>1
      <4> QED BY <2>4, <4>1, <4>2 DEF Forgot
    <3>3. ASSUME NEW i \in DOMAIN g, i <= Len(g) - Len(left) PROVE g[i] < now - Minute
      <4>1. CASE i <= Len(g) - Len(s)
        BY <2>4, <4>1 DEF Forgot
      <4>2. CASE ~(i <= Len(g) - Len(s))
        <5> DEFINE j == i - (Len(g) - Len(s))
        <5>1. j \in 1..k /\ j \in DOMAIN s /\ Len(g) - Len(s) + j = i
          BY <2>2, <2>3, <3>1, <3>3, <4>2
        <5>2. s[j] = g[Len(g) - Len(s) + j]
          BY <2>4, <5>1 DEF Forgot
        <5> QED BY <2>3, <5>1, <5>2
      <4> QED BY <4>1, <4>2
    <3> QED BY <2>2, <2>3, <3>1, <3>2, <3>3 DEF Forgot
  <2>6. stamps' \in [Clients -> Seq(Times)] /\ granted' \in [Clients -> Seq(Times)]
    BY <2>1, <2>2, <2>3 DEF LimiterInv, left, g
  <2>7. CASE rate # "granted"
    <3>1. stamps' = [stamps EXCEPT ![c] = left] /\ granted' = granted
      BY <2>1, <2>7 DEF left, LimiterInv
    <3>2. Len(left) <= PerMinute
      BY <2>2, <2>3, AdmissionConstants
    <3> QED BY <2>5, <2>6, <3>1, <3>2 DEF LimiterInv, Ordered, Forgot, RateBound, BurstBound, g
  <2>8. CASE rate = "granted"
    <3> DEFINE h == Append(g, now)
               t == Append(left, now)
    <3>1. stamps' = [stamps EXCEPT ![c] = t] /\ granted' = [granted EXCEPT ![c] = h]
      BY <2>1, <2>8 DEF left, g
    <3>2. Len(left) < PerMinute /\ Cardinality(Recent(left)) < Burst
      <4>1. Limited(left) = "granted"
        BY <2>1, <2>8 DEF left
      <4>2. ~(Len(left) >= PerMinute) /\ ~(Cardinality(Recent(left)) >= Burst)
        BY <4>1 DEF Limited
      <4>3. Len(left) \in Nat /\ Cardinality(Recent(left)) \in Nat
        <5>1. IsFiniteSet(DOMAIN left) /\ Recent(left) \in SUBSET DOMAIN left
          BY <2>2, <2>3, FS_Interval DEF Recent
        <5> QED BY <2>2, <2>3, <5>1, FS_Subset, FS_CardinalityType
      <4> QED BY <4>2, <4>3, AdmissionConstants
    <3>3. /\ h \in Seq(Times) /\ Len(h) = Len(g) + 1 /\ h[Len(g) + 1] = now
          /\ \A i \in 1..Len(g) : h[i] = g[i]
          /\ t \in Seq(Times) /\ Len(t) = Len(left) + 1 /\ t[Len(left) + 1] = now
          /\ \A i \in 1..Len(left) : t[i] = left[i]
          /\ Len(left) \in Nat
      BY <2>2, <2>3
    <3> HIDE DEF h, t
    <3>4. Ordered(h)
      <4>1. DOMAIN h = 1..(Len(g) + 1) /\ DOMAIN g = 1..Len(g) /\ \A i \in DOMAIN g : g[i] \in Times
        BY <2>2, <3>3
      <4>2. \A i \in DOMAIN h : i \in DOMAIN g \/ i = Len(g) + 1
        BY <2>2, <4>1
      <4>3. now <= now
        BY <2>2 DEF Times
      <4>4. ASSUME NEW i \in DOMAIN h PROVE h[i] <= now
        BY <2>4, <3>3, <4>1, <4>2, <4>3 DEF Ordered
      <4>5. ASSUME NEW i \in DOMAIN h, NEW j \in DOMAIN h, i <= j PROVE h[i] <= h[j]
        <5>1. CASE j = Len(g) + 1
          BY <3>3, <4>4, <5>1
        <5>2. CASE j # Len(g) + 1
          <6>1. i \in DOMAIN g /\ j \in DOMAIN g
            BY <2>2, <4>1, <4>5, <5>2
          <6> QED BY <2>4, <3>3, <4>1, <4>5, <6>1 DEF Ordered
        <5> QED BY <5>1, <5>2
      <4> QED BY <4>4, <4>5 DEF Ordered
    <3>5. Forgot(h, t)
      <4>1. /\ DOMAIN h = 1..(Len(g) + 1) /\ DOMAIN g = 1..Len(g)
            /\ DOMAIN t = 1..(Len(left) + 1) /\ DOMAIN left = 1..Len(left)
            /\ Len(h) - Len(t) = Len(g) - Len(left) /\ Len(left) <= Len(g)
        BY <2>2, <2>5, <3>3 DEF Forgot
      <4>2. ASSUME NEW i \in DOMAIN t PROVE t[i] = h[Len(h) - Len(t) + i]
        <5>1. CASE i = Len(left) + 1
          <6>1. Len(h) - Len(t) + i = Len(g) + 1
            BY <2>2, <3>3, <5>1
          <6> QED BY <3>3, <5>1, <6>1
        <5>2. CASE i # Len(left) + 1
          <6>1. i \in DOMAIN left /\ Len(g) - Len(left) + i \in 1..Len(g)
            BY <2>2, <3>3, <4>1, <5>2
          <6>2. t[i] = left[i] /\ left[i] = g[Len(g) - Len(left) + i]
            BY <2>5, <3>3, <4>1, <6>1 DEF Forgot
          <6> QED BY <3>3, <4>1, <6>1, <6>2
        <5> QED BY <5>1, <5>2
      <4>3. ASSUME NEW i \in DOMAIN h, i <= Len(h) - Len(t) PROVE h[i] < now - Minute
        <5>1. i \in DOMAIN g /\ i <= Len(g) - Len(left)
          BY <2>2, <3>3, <4>1, <4>3
        <5> QED BY <2>5, <3>3, <4>1, <5>1 DEF Forgot
      <4> QED BY <2>2, <3>3, <4>1, <4>2, <4>3 DEF Forgot
    <3>6. ASSUME NEW i \in DOMAIN h, i > PerMinute PROVE h[i] - h[i - PerMinute] > Minute
      <4>1. /\ i \in 1..(Len(g) + 1) /\ PerMinute \in Nat \ {0} /\ Minute \in Nat
            /\ i - PerMinute \in 1..Len(g) /\ DOMAIN g = 1..Len(g)
        BY <2>2, <3>3, <3>6, AdmissionConstants
      <4>2. CASE i = Len(g) + 1
        <5>1. g[i - PerMinute] < now - Minute
          <6>1. i - PerMinute <= Len(g) - Len(left)
            BY <2>2, <3>2, <3>3, <4>1, <4>2
          <6> QED BY <2>5, <4>1, <6>1 DEF Forgot
        <5>2. h[i] = now /\ h[i - PerMinute] = g[i - PerMinute] /\ g[i - PerMinute] \in Times
          BY <2>2, <3>3, <4>1, <4>2
        <5> QED BY <2>2, <4>1, <5>1, <5>2 DEF Times
      <4>3. CASE i # Len(g) + 1
        <5>1. i \in DOMAIN g
          BY <2>2, <4>1, <4>3
        <5> QED BY <3>3, <3>6, <4>1, <5>1 DEF LimiterInv, RateBound, g
      <4> QED BY <4>2, <4>3
    <3>7. ASSUME NEW i \in DOMAIN h, i > Burst PROVE h[i] - h[i - Burst] > Second
      <4>1. /\ i \in 1..(Len(g) + 1) /\ Burst \in Nat \ {0} /\ Minute \in Nat /\ Second \in Nat
            /\ Second <= Minute
            /\ i - Burst \in 1..Len(g) /\ DOMAIN g = 1..Len(g) /\ DOMAIN left = 1..Len(left)
        <5>1. /\ Burst \in Nat \ {0} /\ Minute \in Nat /\ Second \in Nat /\ Second <= Minute
          BY AdmissionConstants
        <5> QED BY <2>2, <2>3, <3>3, <3>7, <5>1
      <4> DEFINE b == i - Burst
      <4>2. CASE i = Len(g) + 1
        <5>1. h[i] = now /\ h[b] = g[b] /\ g[b] \in Times
          BY <2>2, <3>3, <4>1, <4>2
        <5>2. CASE b <= Len(g) - Len(left)
          <6>1. g[b] < now - Minute
            BY <2>5, <4>1, <5>2 DEF Forgot
          <6> QED BY <2>2, <4>1, <5>1, <6>1 DEF Times
        <5>3. CASE ~(b <= Len(g) - Len(left))
          <6> DEFINE j == b - (Len(g) - Len(left))
          <6>1. j \in DOMAIN left /\ Len(left) - j + 1 = Burst /\ Len(g) - Len(left) + j = b
                /\ Len(left) <= Len(g)
            BY <2>2, <2>5, <3>3, <4>1, <4>2, <5>3 DEF Forgot
          <6>2. left[j] = g[b]
            BY <2>5, <6>1 DEF Forgot
          <6>3. ASSUME left[j] >= now - Second PROVE FALSE
            <7>1. ASSUME NEW m \in j..Len(left) PROVE m \in Recent(left)
              <8>1. m \in DOMAIN left /\ Len(g) - Len(left) + m \in DOMAIN g
                    /\ b <= Len(g) - Len(left) + m
                <9>1. j \in 1..Len(left) /\ m \in Int /\ j <= m /\ m <= Len(left)
                  BY <4>1, <6>1, <7>1
                <9> HIDE DEF j
                <9> QED BY <2>2, <3>3, <4>1, <6>1, <9>1
              <8>2. left[m] = g[Len(g) - Len(left) + m]
                BY <2>5, <8>1 DEF Forgot
              <8>3. g[b] <= left[m]
                BY <2>4, <4>1, <8>1, <8>2 DEF Ordered
              <8>4. left[m] \in Times
                BY <2>3, <8>1
              <8> QED BY <2>2, <4>1, <5>1, <6>2, <6>3, <8>1, <8>3, <8>4 DEF Recent, Times
            <7>2. Cardinality(j..Len(left)) = Burst
              BY <3>3, <4>1, <6>1, FS_Interval
            <7>3. IsFiniteSet(Recent(left))
              <8>1. IsFiniteSet(DOMAIN left) /\ Recent(left) \in SUBSET DOMAIN left
                BY <3>3, <4>1, FS_Interval DEF Recent
              <8> QED BY <8>1, FS_Subset
            <7>4. Cardinality(j..Len(left)) <= Cardinality(Recent(left))
              <8>1. j..Len(left) \in SUBSET Recent(left)
                BY <7>1
              <8> QED BY <7>3, <8>1, FS_Subset
            <7> QED BY <3>2, <4>1, <7>2, <7>3, <7>4, FS_CardinalityType
          <6> QED BY <2>2, <4>1, <5>1, <6>2, <6>3 DEF Times
        <5> QED BY <5>2, <5>3
      <4>3. CASE i # Len(g) + 1
        <5>1. i \in DOMAIN g
          BY <2>2, <4>1, <4>3
        <5> QED BY <3>3, <3>7, <4>1, <5>1 DEF LimiterInv, BurstBound, g
      <4> QED BY <4>2, <4>3
    <3>8. Len(t) <= PerMinute
      BY <3>2, <3>3, AdmissionConstants
    <3>9. now' = now /\ Minute' = Minute
      OBVIOUS
    <3>10. ASSUME NEW d \in Clients
           PROVE  /\ Ordered(granted[d])' /\ Forgot(granted[d], stamps[d])'
                  /\ Len(stamps'[d]) <= PerMinute
      <4>1. CASE d = c
        <5>1. granted'[d] = h /\ stamps'[d] = t
          BY <3>1, <4>1 DEF LimiterInv
        <5> QED BY <3>4, <3>5, <3>8, <5>1 DEF Ordered, Forgot
      <4>2. CASE d # c
        <5>1. granted'[d] = granted[d] /\ stamps'[d] = stamps[d]
          BY <3>1, <4>2 DEF LimiterInv
        <5> QED BY <5>1 DEF LimiterInv, Ordered, Forgot
      <4> QED BY <4>1, <4>2
    <3>11. RateBound' /\ BurstBound'
      BY <3>1, <3>6, <3>7 DEF LimiterInv, RateBound, BurstBound
    <3> QED BY <2>6, <3>10, <3>11 DEF LimiterInv
  <2> QED BY <2>7, <2>8
<1> QED BY <1>1, <1>2

LEMMA WindowStep ==
  ASSUME WindowInv, NEW c \in Clients,
         UNCHANGED <<seen, paused>> \/ \E verdict \in {"granted", "window"} : WindowCheck(c, verdict),
         heavyAt' = [d \in Clients |-> IF d = c /\ c \in heavy THEN now ELSE heavyAt[d]],
         UNCHANGED <<now, heavy>>
  PROVE  WindowInv'
<1>1. seen' \in [Clients -> -1..MaxTime]
  <2>1. now \in -1..MaxTime
    BY AdmissionConstants DEF WindowInv, Times
  <2>2. SeenWith(c) \in [Clients -> -1..MaxTime]
    <3>1. ASSUME NEW d \in Clients PROVE SeenWith(c)[d] \in {now, -1, seen[d]}
      BY DEF SeenWith
    <3>2. -1 \in -1..MaxTime
      BY AdmissionConstants
    <3>3. \A d \in Clients : SeenWith(c)[d] \in -1..MaxTime
      BY <2>1, <3>1, <3>2 DEF WindowInv
    <3> QED BY <3>3 DEF SeenWith
  <2> QED BY <2>1, <2>2 DEF WindowInv, WindowCheck
<1>2. /\ heavyAt' \in [Clients -> -1..MaxTime]
      /\ \A d \in Clients : heavyAt'[d] <= now /\ heavyAt[d] <= heavyAt'[d]
  BY DEF WindowInv, Times
<1>3. paused' \in [Clients -> 0..MaxTime + Pause]
      /\ \A d \in Clients : paused'[d] \in {0, paused[d]}
                            \/ (d = c /\ c \in heavy /\ paused'[d] = now + Pause)
  BY AdmissionConstants DEF WindowInv, WindowCheck, StillPaused, Times
<1>4. FairPause'
  BY <1>2, <1>3, AdmissionConstants DEF WindowInv, FairPause, Times
<1> QED BY <1>1, <1>2, <1>3, <1>4 DEF WindowInv

\* A client comes to its heavy share or leaves it, or time passes.
LEMMA WorldStep ==
  ASSUME LimiterInv, WindowInv, Tick \/ \E c \in Clients : Uses(c) \/ Renewed(c)
  PROVE  LimiterInv' /\ WindowInv'
<1>1. /\ UNCHANGED <<stamps, granted, seen, paused, heavyAt>>
      /\ now' \in Times /\ now <= now' /\ heavy' \subseteq Clients
  BY AdmissionConstants DEF LimiterInv, WindowInv, Tick, Uses, Renewed, Times
<1>2. ASSUME NEW c \in Clients
      PROVE  /\ Ordered(granted[c])' /\ Forgot(granted[c], stamps[c])'
             /\ heavyAt'[c] <= now'
  <2>1. /\ granted[c] \in Seq(Times) /\ stamps[c] \in Seq(Times)
        /\ Ordered(granted[c]) /\ Forgot(granted[c], stamps[c])
        /\ now \in Int /\ now' \in Int /\ now <= now' /\ Minute \in Int
    BY <1>1, AdmissionConstants DEF LimiterInv, Times
  <2>2. \A i \in DOMAIN granted[c] : granted[c][i] \in Int
    <3>1. \A i \in DOMAIN granted[c] : granted[c][i] \in Times
      BY <2>1
    <3> QED BY <3>1 DEF Times
  <2>3. Ordered(granted[c])'
    BY <1>1, <2>1, <2>2 DEF Ordered
  <2>4. Forgot(granted[c], stamps[c])'
    <3> DEFINE g == granted[c]
    <3>1. ASSUME NEW i \in DOMAIN g, i <= Len(g) - Len(stamps[c])
          PROVE  g[i] < now' - Minute
      <4>1. g[i] < now - Minute /\ g[i] \in Int
        BY <2>1, <2>2, <3>1 DEF Forgot
      <4> HIDE DEF g
      <4> QED BY <2>1, <4>1
    <3> QED BY <1>1, <2>1, <3>1 DEF Forgot
  <2>5. heavyAt[c] \in Int /\ heavyAt[c] <= now
    BY DEF WindowInv
  <2> QED BY <1>1, <2>1, <2>3, <2>4, <2>5
<1> QED BY <1>1, <1>2 DEF LimiterInv, WindowInv, RateBound, BurstBound, FairPause

LEMMA ChecksKeep ==
  ASSUME LimiterInv, WindowInv, NEW c \in Clients, NEW verdict, NEW failing \in BOOLEAN,
         Check(c, verdict, failing)
  PROVE  LimiterInv' /\ WindowInv'
<1>1. PICK rate \in {"granted", "rate", "burst"} :
        /\ RateCheck(c, rate)
        /\ IF rate # "granted" \/ failing
             THEN verdict = rate /\ UNCHANGED <<seen, paused>>
             ELSE WindowCheck(c, verdict)
  BY DEF Check
<1>2. LimiterInv'
  BY <1>1, LimiterCheck DEF Check
<1>3. UNCHANGED <<seen, paused>> \/ \E a \in {"granted", "window"} : WindowCheck(c, a)
  <2>1. WindowCheck(c, verdict) => verdict \in {"granted", "window"}
    BY DEF WindowCheck
  <2> QED BY <1>1, <2>1
<1>4. WindowInv'
  BY <1>3, WindowStep DEF Check
<1> QED BY <1>2, <1>4

LEMMA AdmissionBegins == AdmissionInit => LimiterInv /\ WindowInv
<1> SUFFICES ASSUME AdmissionInit PROVE LimiterInv /\ WindowInv
  OBVIOUS
<1>1. LimiterInv
  BY AdmissionConstants
     DEF AdmissionInit, LimiterInv, Ordered, Forgot, RateBound, BurstBound, Times
<1>2. WindowInv
  BY AdmissionConstants DEF AdmissionInit, WindowInv, FairPause, Times
<1> QED BY <1>1, <1>2

LEMMA AdmissionHolds == LimiterInv /\ WindowInv => AdmissionSound
BY DEF LimiterInv, WindowInv, AdmissionSound, AdmissionTypeOK, Stamps, Times

-----------------------------------------------------------------------------
(* The batcher.                                                             *)

In(i, s) == \E n \in DOMAIN s : s[n] = i
Distinct(s) == \A m, n \in DOMAIN s : s[m] = s[n] => m = n

BatcherInv ==
  /\ queue \in Seq(Items) /\ batch \in Seq(Items) /\ Len(batch) <= BatchSize
  /\ worker \in {"gathering", "calling"} /\ future \in [Items -> Futures]
  /\ Distinct(queue) /\ Distinct(batch)
  /\ \A i \in Items : ~(In(i, queue) /\ In(i, batch))
  /\ \A i \in Items : future[i] = Pending <=> In(i, queue) \/ In(i, batch)

RepliesOK ==
  /\ reply \in [Requests -> {"new", "refused", "waiting", "ok", "error"}]
  /\ \A r \in Requests, i \in Items :
       In(i, InputsOf[r]) /\ future[i].is # "unasked" => reply[r] \in {"waiting", "ok", "error"}

RouteInv == LimiterInv /\ WindowInv /\ BatcherInv /\ RepliesOK /\ OwnResult

\* Two sequences put one after the other.
LEMMA Joined ==
  ASSUME NEW s \in Seq(Items), NEW t \in Seq(Items)
  PROVE  /\ s \o t \in Seq(Items)
         /\ \A i \in Items : In(i, s \o t) <=> In(i, s) \/ In(i, t)
         /\ Distinct(s) /\ Distinct(t) /\ (\A i \in Items : ~(In(i, s) /\ In(i, t)))
              => Distinct(s \o t)
<1> DEFINE u == s \o t
<1>1. /\ u \in Seq(Items) /\ Len(u) = Len(s) + Len(t) /\ Len(s) \in Nat /\ Len(t) \in Nat
      /\ \A n \in 1..Len(s) : u[n] = s[n]
      /\ \A n \in 1..Len(t) : u[Len(s) + n] = t[n]
  OBVIOUS
<1>2. DOMAIN u = 1..Len(u) /\ DOMAIN s = 1..Len(s) /\ DOMAIN t = 1..Len(t)
  OBVIOUS
<1> HIDE DEF u
<1>3. \A n \in DOMAIN u : n \in DOMAIN s \/ n - Len(s) \in DOMAIN t
  BY <1>1, <1>2
<1>4. \A n \in DOMAIN s : n \in DOMAIN u
  BY <1>1, <1>2
<1>5. \A n \in DOMAIN t : Len(s) + n \in DOMAIN u
  BY <1>1, <1>2
<1>6. \A n \in DOMAIN u : n - Len(s) \in DOMAIN t => u[n] = t[n - Len(s)]
  BY <1>1, <1>2
<1>7. ASSUME NEW i \in Items PROVE In(i, u) <=> In(i, s) \/ In(i, t)
  <2>1. In(i, s) => In(i, u)
    BY <1>1, <1>2, <1>4 DEF In
  <2>2. In(i, t) => In(i, u)
    BY <1>1, <1>2, <1>5 DEF In
  <2>3. In(i, u) => In(i, s) \/ In(i, t)
    BY <1>1, <1>2, <1>3, <1>6 DEF In
  <2> QED BY <2>1, <2>2, <2>3
<1>8. ASSUME Distinct(s), Distinct(t), \A i \in Items : ~(In(i, s) /\ In(i, t)),
             NEW m \in DOMAIN u, NEW n \in DOMAIN u, u[m] = u[n]
      PROVE  m = n
  <2>0. m \in Nat /\ n \in Nat
    BY <1>1, <1>2
  <2>1. CASE m \in DOMAIN s /\ n \in DOMAIN s
    BY <1>1, <1>2, <1>8, <2>1 DEF Distinct
  <2>2. CASE m - Len(s) \in DOMAIN t /\ n - Len(s) \in DOMAIN t
    <3>1. t[m - Len(s)] = t[n - Len(s)]
      BY <1>6, <1>8, <2>2
    <3>2. m - Len(s) = n - Len(s)
      BY <1>8, <2>2, <3>1 DEF Distinct
    <3> QED BY <1>1, <2>0, <3>2
  <2>3. CASE m \in DOMAIN s /\ n - Len(s) \in DOMAIN t
    <3>1. s[m] = t[n - Len(s)] /\ s[m] \in Items
      BY <1>1, <1>2, <1>6, <1>8, <2>3
    <3> QED BY <1>8, <2>3, <3>1 DEF In
  <2>4. CASE m - Len(s) \in DOMAIN t /\ n \in DOMAIN s
    <3>1. s[n] = t[m - Len(s)] /\ s[n] \in Items
      BY <1>1, <1>2, <1>6, <1>8, <2>4
    <3> QED BY <1>8, <2>4, <3>1 DEF In
  <2> QED BY <1>3, <2>1, <2>2, <2>3, <2>4
<1> QED BY <1>1, <1>7, <1>8 DEF Distinct, u

\* Taking the first of a sequence.
LEMMA Taken ==
  ASSUME NEW s \in Seq(Items), s # <<>>, Distinct(s)
  PROVE  /\ Tail(s) \in Seq(Items) /\ Head(s) \in Items /\ Distinct(Tail(s))
         /\ ~In(Head(s), Tail(s))
         /\ \A i \in Items : In(i, s) <=> In(i, Tail(s)) \/ i = Head(s)
<1> DEFINE t == Tail(s)
<1>1. /\ t \in Seq(Items) /\ Len(t) = Len(s) - 1 /\ Len(s) \in Nat \ {0}
      /\ \A n \in 1..Len(t) : t[n] = s[n + 1]
      /\ Head(s) = s[1] /\ Head(s) \in Items
      /\ DOMAIN t = 1..Len(t) /\ DOMAIN s = 1..Len(s)
  OBVIOUS
<1> HIDE DEF t
<1>2. \A n \in DOMAIN t : n + 1 \in DOMAIN s /\ n + 1 # 1 /\ n \in Nat
  BY <1>1
<1>3. \A n \in DOMAIN s : n = 1 \/ (n - 1 \in DOMAIN t /\ s[n] = t[n - 1])
  BY <1>1
<1>4. 1 \in DOMAIN s
  BY <1>1
<1>5. Distinct(t)
  <2> SUFFICES ASSUME NEW m \in DOMAIN t, NEW n \in DOMAIN t, t[m] = t[n] PROVE m = n
    BY DEF Distinct
  <2>1. m + 1 = n + 1
    BY <1>1, <1>2 DEF Distinct
  <2> QED BY <1>2, <2>1
<1>6. ~In(Head(s), t)
  BY <1>1, <1>2, <1>4 DEF In, Distinct
<1>7. ASSUME NEW i \in Items PROVE In(i, s) <=> In(i, t) \/ i = Head(s)
  <2>1. In(i, s) => In(i, t) \/ i = Head(s)
    BY <1>1, <1>3 DEF In
  <2>2. In(i, t) => In(i, s)
    BY <1>1, <1>2 DEF In
  <2>3. In(Head(s), s)
    BY <1>1, <1>4 DEF In
  <2> QED BY <2>1, <2>2, <2>3
<1> QED BY <1>1, <1>5, <1>6, <1>7 DEF t

\* What the futures of the batch get from the call.
LEMMA CallGives ==
  ASSUME BatcherInv, NEW n \in 0..Len(batch), CallEnds(n), NEW i \in Items
  PROVE  /\ (~In(i, batch) => future'[i] = future[i])
         /\ (In(i, batch) => future'[i] \in Futures /\ future'[i].is \in {"failed", "done"})
         /\ (In(i, batch) /\ future'[i].is = "done" => future'[i].item = i)
<1>1. future' = [j \in Items |-> IF In(j, batch)
                                THEN Part(n, CHOOSE k \in DOMAIN batch : batch[k] = j)
                                ELSE future[j]]
  BY DEF CallEnds, In
<1>2. CASE ~In(i, batch)
  BY <1>1, <1>2
<1>3. CASE In(i, batch)
  <2> DEFINE k == CHOOSE k \in DOMAIN batch : batch[k] = i
  <2>1. k \in DOMAIN batch /\ batch[k] = i
    BY <1>3 DEF In
  <2>2. future'[i] = Part(n, k)
    BY <1>1, <1>3
  <2> HIDE DEF k
  <2>3. batch[1] \in Items
    BY <2>1 DEF BatcherInv
  <2> QED BY <1>3, <2>1, <2>2, <2>3 DEF Part, Failed, Futures
<1> QED BY <1>2, <1>3

LEMMA BatcherStep ==
  ASSUME BatcherInv, RepliesOK, OwnResult, BatcherNext, UNCHANGED reply
  PROVE  BatcherInv' /\ RepliesOK' /\ OwnResult'
<1>1. CASE Gather
  <2>1. /\ queue # <<>> /\ Len(batch) < BatchSize /\ UNCHANGED <<worker, future, reply>>
        /\ batch' = Append(batch, Head(queue)) /\ queue' = Tail(queue)
    BY <1>1 DEF Gather
  <2>2. /\ Tail(queue) \in Seq(Items) /\ Head(queue) \in Items /\ Distinct(Tail(queue))
        /\ ~In(Head(queue), Tail(queue))
        /\ \A i \in Items : In(i, queue) <=> In(i, Tail(queue)) \/ i = Head(queue)
    BY <2>1, Taken DEF BatcherInv
  <2> DEFINE h == Head(queue)
             one == <<h>>
  <2>3. /\ one \in Seq(Items) /\ Distinct(one) /\ batch' = batch \o one
        /\ \A i \in Items : In(i, one) <=> i = h
        /\ Len(batch') = Len(batch) + 1
    BY <2>1, <2>2 DEF BatcherInv, Distinct, In
  <2> HIDE DEF h, one
  <2>4. ~In(h, batch) /\ h \in Items
    BY <2>2 DEF BatcherInv, h
  <2>5. /\ batch' \in Seq(Items) /\ Distinct(batch')
        /\ \A i \in Items : In(i, batch') <=> In(i, batch) \/ i = h
    BY <2>3, <2>4, Joined DEF BatcherInv
  <2>6. Len(batch') <= BatchSize
    BY <2>1, <2>3, BatcherConstants DEF BatcherInv
  <2>7. BatcherInv'
    BY <2>1, <2>2, <2>4, <2>5, <2>6 DEF BatcherInv, h, In, Distinct
  <2> QED BY <2>1, <2>7 DEF RepliesOK, OwnResult, In
<1>2. CASE GatherEnds
  BY <1>2 DEF GatherEnds, BatcherInv, RepliesOK, OwnResult, In, Distinct
<1>3. ASSUME NEW n \in 0..BatchSize, CallEnds(n) PROVE BatcherInv' /\ RepliesOK' /\ OwnResult'
  <2>1. /\ n \in 0..Len(batch) /\ UNCHANGED <<queue, reply>>
        /\ batch' = <<>> /\ worker' = "gathering" /\ future' = [i \in Items |-> future'[i]]
    BY <1>3 DEF CallEnds, AfterCall
  <2>2. ASSUME NEW i \in Items
        PROVE  /\ future'[i] \in Futures
               /\ future'[i] = Pending <=> In(i, queue)
               /\ future'[i].is # "unasked" => future[i].is # "unasked"
               /\ future'[i].is = "done" => future'[i].item = i
    <3>1. CASE In(i, batch)
      <4>1. /\ future'[i] \in Futures /\ future'[i].is \in {"failed", "done"}
            /\ future'[i].is = "done" => future'[i].item = i
        BY <1>3, <2>1, <3>1, CallGives
      <4>2. future[i] = Pending /\ ~In(i, queue)
        BY <3>1 DEF BatcherInv
      <4> QED BY <4>1, <4>2 DEF Pending
    <3>2. CASE ~In(i, batch)
      BY <1>3, <2>1, <3>2, CallGives DEF BatcherInv, OwnResult
    <3> QED BY <3>1, <3>2
  <2>3. /\ \A i \in Items : ~In(i, <<>>)
        /\ Distinct(<<>>) /\ <<>> \in Seq(Items) /\ Len(<<>>) <= BatchSize
    BY BatcherConstants DEF In, Distinct
  <2>4. future' \in [Items -> Futures]
    BY <2>1, <2>2
  <2>5. BatcherInv'
    BY <2>1, <2>2, <2>3, <2>4 DEF BatcherInv, In, Distinct
  <2>6. RepliesOK' /\ OwnResult'
    BY <2>1, <2>2 DEF RepliesOK, OwnResult
  <2> QED BY <2>5, <2>6
<1> QED BY <1>1, <1>2, <1>3 DEF BatcherNext

\* The inputs of a request that was not handed over yet are nowhere.
LEMMA RequestStep ==
  ASSUME RouteInv, NEW r \in Requests, NEW failing \in BOOLEAN,
         NEW verdict \in {"granted", "rate", "burst", "window"}, Request(r, verdict, failing)
  PROVE  RouteInv'
<1>1. reply[r] = "new" /\ Check(ClientOf[r], verdict, failing) /\ ClientOf[r] \in Clients
      /\ InputsOf[r] \in Seq(Items)
  BY RouteConstants DEF Request
<1>2. LimiterInv' /\ WindowInv'
  BY <1>1, ChecksKeep DEF RouteInv
<1> DEFINE items == InputsOf[r]
<1>3. /\ Distinct(items)
      /\ \A q \in Requests, i \in Items : In(i, items) /\ In(i, InputsOf[q]) => q = r
  BY RouteConstants DEF Distinct, In
<1>4. CASE verdict # "granted"
  <2>1. reply' = [reply EXCEPT ![r] = "refused"] /\ UNCHANGED <<queue, batch, worker, future>>
    BY <1>4 DEF Request, batcher
  <2>2. BatcherInv' /\ OwnResult'
    BY <2>1 DEF RouteInv, BatcherInv, OwnResult, In, Distinct
  <2>3. RepliesOK'
    BY <1>1, <2>1 DEF RouteInv, RepliesOK
  <2> QED BY <1>2, <2>2, <2>3 DEF RouteInv
<1>5. CASE verdict = "granted"
  <2>1. /\ reply' = [reply EXCEPT ![r] = "waiting"] /\ UNCHANGED <<batch, worker>>
        /\ queue' = queue \o items
        /\ future' = [i \in Items |-> IF In(i, items) THEN Pending ELSE future[i]]
    BY <1>5 DEF Request, AddRequests, In
  <2>2. \A i \in Items : In(i, items) => ~In(i, queue) /\ ~In(i, batch)
    BY <1>1 DEF RouteInv, RepliesOK, BatcherInv, Pending
  <2> HIDE DEF items
  <2>3. /\ queue' \in Seq(Items) /\ Distinct(queue')
        /\ \A i \in Items : In(i, queue') <=> In(i, queue) \/ In(i, items)
    BY <1>1, <1>3, <2>1, <2>2, Joined DEF RouteInv, BatcherInv, items
  <2>4. Pending \in Futures
    BY DEF Pending, Futures
  <2>5. future' \in [Items -> Futures]
    BY <2>1, <2>4 DEF RouteInv, BatcherInv
  <2>6. BatcherInv'
    BY <2>1, <2>2, <2>3, <2>5 DEF RouteInv, BatcherInv, In, Distinct
  <2>7. OwnResult'
    BY <2>1 DEF RouteInv, OwnResult, Pending
  <2>8. RepliesOK'
    BY <1>1, <1>3, <2>1 DEF RouteInv, RepliesOK, items
  <2> QED BY <1>2, <2>6, <2>7, <2>8 DEF RouteInv
<1> QED BY <1>4, <1>5

LEMMA RouteInductive == RouteInv /\ [Next]_vars => RouteInv'
<1> SUFFICES ASSUME RouteInv, [Next]_vars PROVE RouteInv'
  OBVIOUS
<1>1. ASSUME NEW r \in Requests, NEW failing \in BOOLEAN,
             NEW verdict \in {"granted", "rate", "burst", "window"}, Request(r, verdict, failing)
      PROVE  RouteInv'
  BY <1>1, RequestStep
<1>2. ASSUME NEW r \in Requests, Reply(r) PROVE RouteInv'
  <2>1. /\ UNCHANGED <<now, stamps, granted, seen, paused, heavy, heavyAt>>
        /\ UNCHANGED <<queue, batch, worker, future>>
        /\ reply' \in {[reply EXCEPT ![r] = "error"], [reply EXCEPT ![r] = "ok"]}
    BY <1>2 DEF Reply, admission, batcher
  <2>2. LimiterInv' /\ WindowInv'
    BY <2>1 DEF RouteInv, LimiterInv, WindowInv, Ordered, Forgot, RateBound, BurstBound, FairPause
  <2>3. BatcherInv' /\ OwnResult'
    BY <2>1 DEF RouteInv, BatcherInv, OwnResult, In, Distinct
  <2>4. RepliesOK'
    BY <2>1 DEF RouteInv, RepliesOK
  <2> QED BY <2>2, <2>3, <2>4 DEF RouteInv
<1>3. CASE BatcherNext /\ UNCHANGED <<admission, reply>>
  <2>1. UNCHANGED <<now, stamps, granted, seen, paused, heavy, heavyAt>>
    BY <1>3 DEF admission
  <2>2. LimiterInv' /\ WindowInv'
    BY <2>1 DEF RouteInv, LimiterInv, WindowInv, Ordered, Forgot, RateBound, BurstBound, FairPause
  <2> QED BY <1>3, <2>2, BatcherStep DEF RouteInv
<1>4. CASE (Tick \/ \E c \in Clients : Uses(c) \/ Renewed(c)) /\ UNCHANGED <<batcher, reply>>
  <2>1. UNCHANGED <<queue, batch, worker, future, reply>>
    BY <1>4 DEF batcher
  <2>2. BatcherInv' /\ OwnResult' /\ RepliesOK'
    BY <2>1 DEF RouteInv, BatcherInv, OwnResult, RepliesOK, In, Distinct
  <2> QED BY <1>4, <2>2, WorldStep DEF RouteInv
<1>5. CASE UNCHANGED vars
  BY <1>5 DEF vars, RouteInv, LimiterInv, WindowInv, Ordered, Forgot, RateBound, BurstBound,
              FairPause, BatcherInv, OwnResult, RepliesOK, In, Distinct
<1> QED BY <1>1, <1>2, <1>3, <1>4, <1>5 DEF Next

\* For any number of clients, requests and inputs and any limits: the sliding
\* windows and the bursts of a client are never exceeded (the in-memory rate
\* limiter forgets only what is old enough), only a client that used too much is
\* paused, and each input of a request that was let through is embedded for that
\* request or its request fails (EmbeddingBatcher).
THEOREM RouteStaysSound == Spec => []RouteSound
<1>1. Init => RouteInv
  <2> SUFFICES ASSUME Init PROVE RouteInv
    OBVIOUS
  <2>1. LimiterInv /\ WindowInv
    BY AdmissionBegins DEF Init
  <2>2. BatcherInv
    BY BatcherConstants DEF Init, BatcherInit, BatcherInv, Unasked, Pending, Futures, In, Distinct
  <2>3. RepliesOK /\ OwnResult
    BY DEF Init, BatcherInit, RepliesOK, OwnResult, Unasked
  <2> QED BY <2>1, <2>2, <2>3 DEF RouteInv
<1>2. RouteInv => RouteSound
  <2> SUFFICES ASSUME RouteInv PROVE RouteSound
    OBVIOUS
  <2>1. AdmissionSound
    BY AdmissionHolds DEF RouteInv
  <2>2. BatcherTypeOK
    <3>1. /\ \A i \in Items : In(i, queue \o batch) <=> In(i, queue) \/ In(i, batch)
          /\ Distinct(queue \o batch)
      BY Joined DEF RouteInv, BatcherInv
    <3> QED BY <3>1 DEF RouteInv, BatcherInv, BatcherTypeOK, In, Distinct
  <2>3. \A r \in Requests, i \in Items :
          i \in Of(r) /\ future[i].is # "unasked" => reply[r] \in {"waiting", "ok", "error"}
    BY DEF RouteInv, RepliesOK, In, Of
  <2> QED BY <2>1, <2>2, <2>3 DEF RouteSound, AdmissionSound, TypeOK, RouteInv, RepliesOK
<1> QED BY <1>1, <1>2, RouteInductive, PTL DEF Spec

-----------------------------------------------------------------------------
(***************************************************************************)
(* The windows of a credential.                                            *)
(***************************************************************************)
Time == Nat \cup {NoTime}
Win == [known : BOOLEAN, count : Nat, success : Nat, failure : Nat,
        started : Time, reset : Time, limit : {NoTime, ApiLimit}, max : Nat]

\* A window counts its successes and its failures.
Fits(w) == w \in Win /\ w.count = w.success + w.failure

\* The most a model with a cap can count.
Most(m) == Larger(1, CapMax(CapOf[m], NoTime)) - 1 + MaxInFlight

WinTypes ==
  /\ clock \in 0..WinMaxTime /\ mode \in Modes /\ grouped \in BOOLEAN
  /\ reports \in {"headers", "answers"}
  /\ flight \in [WinModels -> 0..MaxInFlight]
  /\ api \in [used : Nat, reset : Time]
  /\ fetch \in [is : {"none", "answer"}, used : Nat, reset : Time, force : BOOLEAN]
  /\ reports = "headers" => fetch.is = "none"

WindowsFit ==
  \A s \in Scopes : Fits(window[s]) /\ (~window[s].known => window[s] = NoWindow)

\* Of a running window the requests that are still under way count as well.
Capped ==
  reports = "headers" => \A m \in WinModels : CapOf[m].mode = "absolute" =>
    /\ window[m].count <= Most(m)
    /\ Live(window[m]) => window[m].count + flight[m] <= Most(m)

\* A window in use has begun, and a running one of a model with its group's.
Begun == \A m \in WinModels :
           window[QuotaScope(m)].count > 0 => window[QuotaScope(m)].started # NoTime

WinInv == /\ window = [s \in Scopes |-> window[s]]
          /\ WinTypes /\ WindowsFit /\ Capped /\ Begun /\ SharedTiming

-----------------------------------------------------------------------------
(* The ends of windows.                                                     *)

LEMMA Divided ==
  ASSUME NEW t \in Int, NEW d \in Nat \ {0}
  PROVE  /\ t \div d \in Int /\ t % d \in 0..(d - 1) /\ t = (t \div d) * d + (t % d)
         /\ t \in Nat => t \div d \in Nat
OBVIOUS

LEMMA Multiples ==
  ASSUME NEW i \in Nat, NEW j \in Nat, NEW d \in Nat \ {0}
  PROVE  /\ i * d \in Nat /\ (i + j) * d = i * d + j * d
         /\ i <= j => i * d <= j * d
         /\ i < j => i * d + d <= j * d
<1>1. i * d \in Nat /\ (i + j) * d = i * d + j * d
  OBVIOUS
<1>2. i <= j => i * d <= j * d
  OBVIOUS
<1>3. ASSUME i < j PROVE i * d + d <= j * d
  <2>1. (i + 1) * d = i * d + d
    OBVIOUS
  <2>2. i + 1 <= j
    BY <1>3
  <2>3. (i + 1) * d <= j * d
    BY <2>2
  <2> QED BY <2>1, <2>3
<1> QED BY <1>1, <1>2, <1>3

LEMMA DayAndHour ==
  ASSUME NEW t \in Nat
  PROVE  /\ t \div Day \in Nat /\ (t \div Day) * Day \in Nat /\ t % Day \in 0..(Day - 1)
         /\ t = (t \div Day) * Day + (t % Day)
<1>1. Day \in Nat \ {0} /\ t \in Int
  BY WindowConstants
<1>2. t \div Day \in Nat /\ t % Day \in 0..(Day - 1) /\ t = (t \div Day) * Day + (t % Day)
  BY <1>1, Divided
<1>3. \A i \in Nat : i * Day \in Nat
  BY <1>1
<1> QED BY <1>2, <1>3

LEMMA DailyEnds ==
  ASSUME NEW t \in Nat
  PROVE  NextDaily(t) \in Nat /\ NextDaily(t) > t /\ NextDaily(t) <= t + Day
<1> DEFINE q == (t \div Day) * Day
           r == t % Day
<1>1. Day \in Nat \ {0} /\ ResetHour \in Nat /\ ResetHour < Day
  BY WindowConstants
<1>2. q \in Nat /\ r \in 0..(Day - 1) /\ t = q + r
  BY <1>1, DayAndHour
<1>3. NextDaily(t) = IF q + ResetHour <= t THEN q + ResetHour + Day ELSE q + ResetHour
  BY DEF NextDaily
<1> HIDE DEF q, r
<1> QED BY <1>1, <1>2, <1>3

LEMMA WeeklyEnds ==
  ASSUME NEW t \in Nat
  PROVE  NextWeekly(t) \in Nat /\ NextWeekly(t) > t /\ NextWeekly(t) <= t + Day * WeekDays
<1> DEFINE n == t \div Day
           r == t % Day
           left == (WeekDays - 1 - n) % WeekDays
           days == IF left = 0 /\ r >= ResetHour THEN WeekDays ELSE left
<1>1. Day \in Nat \ {0} /\ WeekDays \in Nat \ {0} /\ ResetHour \in Nat /\ ResetHour < Day
  BY WindowConstants
<1>2. n \in Nat /\ r \in 0..(Day - 1) /\ t = n * Day + r
  BY <1>1, DayAndHour
<1>3. NextWeekly(t) = (n + days) * Day + ResetHour
  BY DEF NextWeekly
<1>4. left \in 0..(WeekDays - 1)
  <2> HIDE DEF n
  <2>1. WeekDays - 1 - n \in Int
    BY <1>1, <1>2
  <2> QED BY <1>1, <2>1, Divided
<1> HIDE DEF n, r, left
<1>5. days \in Nat /\ (days = 0 => r < ResetHour) /\ (days = WeekDays => r >= ResetHour)
      /\ (days = WeekDays \/ days < WeekDays)
  BY <1>1, <1>2, <1>4
<1> HIDE DEF days
<1>6. /\ n * Day \in Nat /\ days * Day \in Nat /\ (n + days) * Day = n * Day + days * Day
      /\ WeekDays * Day = Day * WeekDays
      /\ 0 < days => Day <= days * Day
      /\ days < WeekDays => days * Day + Day <= WeekDays * Day
  <2>1. 0 \in Nat /\ 0 * Day = 0
    BY <1>1
  <2>2. n * Day \in Nat /\ days * Day \in Nat /\ (n + days) * Day = n * Day + days * Day
    BY <1>1, <1>2, <1>5, Multiples
  <2>3. WeekDays * Day = Day * WeekDays
    BY <1>1
  <2>4. 0 < days => 0 * Day + Day <= days * Day
    BY <1>1, <1>5, <2>1, Multiples
  <2>5. days < WeekDays => days * Day + Day <= WeekDays * Day
    BY <1>1, <1>5, Multiples
  <2> QED BY <1>1, <2>1, <2>2, <2>3, <2>4, <2>5
<1> DEFINE a == n * Day
           b == days * Day
           c == Day * WeekDays
<1>7. /\ a \in Nat /\ b \in Nat /\ c \in Nat /\ NextWeekly(t) = a + b + ResetHour /\ t = a + r
      /\ days # 0 => Day <= b
      /\ days = 0 => b = 0
      /\ days = WeekDays => b = c
      /\ days # WeekDays => b + Day <= c
  BY <1>1, <1>2, <1>3, <1>5, <1>6
<1> HIDE DEF a, b, c
<1>8. NextWeekly(t) \in Nat /\ NextWeekly(t) > t
  BY <1>1, <1>2, <1>5, <1>7
<1>9. NextWeekly(t) <= t + c
  BY <1>1, <1>2, <1>5, <1>7
<1> QED BY <1>8, <1>9 DEF c

LEMMA Ends ==
  ASSUME mode \in Modes, NEW t \in Nat
  PROVE  /\ NextReset(t) \in Time
         /\ mode # "api" => NextReset(t) > t
         /\ mode = "rolling" => NextReset(t) <= t + Duration
         /\ mode = "daily" => NextReset(t) <= t + Day
         /\ mode = "weekly" => NextReset(t) <= t + Day * WeekDays
<1>1. Duration \in Nat \ {0}
  BY WindowConstants
<1>2. CASE mode = "rolling"
  BY <1>1, <1>2 DEF NextReset, Time
<1>3. CASE mode = "daily"
  BY <1>3, DailyEnds DEF NextReset, Time
<1>4. CASE mode = "weekly"
  BY <1>4, WeeklyEnds DEF NextReset, Time
<1>5. CASE mode = "api"
  BY <1>5 DEF NextReset, Time
<1> QED BY <1>2, <1>3, <1>4, <1>5 DEF Modes

-----------------------------------------------------------------------------
(* What is done to one window.                                              *)

LEMMA CurrentFits ==
  ASSUME NEW w, Fits(w)
  PROVE  LET c == Current(w)
         IN /\ Fits(c) /\ c.known /\ c.max >= w.max /\ c.limit = w.limit
            /\ Live(w) => c = w
            /\ ~Live(w) => c.count = 0 /\ c.started = NoTime /\ c.reset = NoTime
<1>1. CASE Live(w)
  BY <1>1 DEF Current, Live, Fits, Win
<1>2. CASE ~Live(w)
  <2>1. Carried(w) \in Nat /\ Carried(w) >= w.max
    BY DEF Carried, Larger, Fits, Win
  <2>2. Current(w) = [known |-> TRUE, count |-> 0, success |-> 0, failure |-> 0,
                      started |-> NoTime, reset |-> NoTime, limit |-> w.limit, max |-> Carried(w)]
    BY <1>2 DEF Current, NoWindow
  <2> QED BY <1>2, <2>1, <2>2 DEF Fits, Win, Time
<1> QED BY <1>1, <1>2

LEMMA CountedFits ==
  ASSUME WinTypes, NEW w, Fits(w), w.known, NEW ok \in BOOLEAN
  PROVE  LET c == Counted(w, ok)
         IN /\ Fits(c) /\ c.known /\ c.count = w.count + 1 /\ c.max >= w.max
            /\ c.limit = w.limit /\ c.started # NoTime
            /\ w.started # NoTime => c.started = w.started /\ c.reset = w.reset
<1> DEFINE n == w.count + 1
           c == Counted(w, ok)
           started == IF w.started = NoTime THEN clock ELSE w.started
           reset == IF w.started = NoTime /\ w.reset = NoTime THEN NextReset(clock) ELSE w.reset
<1>1. clock \in Nat /\ clock # NoTime
  BY WindowConstants DEF WinTypes
<1>2. NextReset(clock) \in Time
  BY <1>1, Ends DEF WinTypes
<1>3. /\ w = [known |-> w.known, count |-> w.count, success |-> w.success,
              failure |-> w.failure, started |-> w.started, reset |-> w.reset,
              limit |-> w.limit, max |-> w.max]
      /\ w.count \in Nat /\ w.success \in Nat /\ w.failure \in Nat /\ w.max \in Nat
      /\ w.started \in Time /\ w.reset \in Time /\ w.limit \in {NoTime, ApiLimit}
      /\ w.count = w.success + w.failure
  BY DEF Fits, Win
<1>4. c = [known |-> TRUE, count |-> n,
           success |-> IF ok THEN w.success + 1 ELSE w.success,
           failure |-> IF ok THEN w.failure ELSE w.failure + 1,
           started |-> started, reset |-> reset, limit |-> w.limit, max |-> Larger(w.max, n)]
  <2>1. w \in [known : BOOLEAN, count : Nat, success : Nat, failure : Nat,
                started : Time, reset : Time, limit : {NoTime, ApiLimit}, max : Nat]
    BY DEF Fits, Win
  <2>2. c = [w EXCEPT !.count = n,
                      !.success = IF ok THEN @ + 1 ELSE @,
                      !.failure = IF ok THEN @ ELSE @ + 1,
                      !.started = started,
                      !.reset = IF w.started = NoTime /\ @ = NoTime THEN NextReset(clock) ELSE @,
                      !.max = Larger(@, n)]
    BY DEF Counted
  <2> HIDE DEF c, n, started
  <2> QED BY <2>1, <2>2
<1>5. started \in Time /\ started # NoTime /\ reset \in Time
  BY <1>1, <1>2, <1>3 DEF Time
<1>6. Larger(w.max, n) \in Nat /\ Larger(w.max, n) >= w.max
  BY <1>3 DEF Larger
<1> HIDE DEF c
<1>7. Fits(c)
  BY <1>3, <1>4, <1>5, <1>6 DEF Fits, Win
<1>8. /\ c.known /\ c.count = w.count + 1 /\ c.max >= w.max
      /\ c.limit = w.limit /\ c.started # NoTime
      /\ w.started # NoTime => c.started = w.started /\ c.reset = w.reset
  BY <1>4, <1>5, <1>6
<1> QED BY <1>7, <1>8 DEF c

LEMMA UpdatedFits ==
  ASSUME WinTypes, NEW w, Fits(w), w.known
  PROVE  LET u == Updated(w, fetch)
         IN /\ Fits(u) /\ u.known /\ u.max = w.max
            /\ u.count > 0 => u.started # NoTime
            /\ ~fetch.force => u.count >= w.count
<1> DEFINE u == Updated(w, fetch)
           used == InUse(w, fetch.used)
           started == IF used /\ w.started = NoTime THEN clock ELSE w.started
           reset == IF used /\ fetch.reset # NoTime THEN fetch.reset ELSE w.reset
           timed == [w EXCEPT !.limit = ApiLimit,
                              !.reset = IF used /\ fetch.reset # NoTime THEN fetch.reset ELSE @,
                              !.started = IF used /\ @ = NoTime THEN clock ELSE @]
           n == Synced(w, fetch)
<1>1. clock \in Nat /\ clock # NoTime /\ fetch.used \in Nat /\ fetch.reset \in Time
      /\ fetch.force \in BOOLEAN
  BY WindowConstants DEF WinTypes
<1>2. /\ w = [known |-> w.known, count |-> w.count, success |-> w.success,
              failure |-> w.failure, started |-> w.started, reset |-> w.reset,
              limit |-> w.limit, max |-> w.max]
      /\ w.count \in Nat /\ w.success \in Nat /\ w.failure \in Nat /\ w.max \in Nat
      /\ w.started \in Time /\ w.reset \in Time
      /\ w.count = w.success + w.failure
  BY DEF Fits, Win
<1>3. timed = [known |-> TRUE, count |-> w.count, success |-> w.success,
               failure |-> w.failure, started |-> started, reset |-> reset,
               limit |-> ApiLimit, max |-> w.max]
  <2>1. w \in [known : BOOLEAN, count : Nat, success : Nat, failure : Nat,
                started : Time, reset : Time, limit : {NoTime, ApiLimit}, max : Nat]
    BY DEF Fits, Win
  <2>2. timed = [w EXCEPT !.limit = ApiLimit, !.reset = reset, !.started = started]
    OBVIOUS
  <2> HIDE DEF used, reset, started, timed
  <2> QED BY <2>1, <2>2
<1>4. /\ n \in Nat /\ (~fetch.force => n >= w.count)
      /\ n > 0 => used
  BY <1>1, <1>2 DEF Synced, InUse, Larger
<1>5. started \in Time /\ reset \in Time /\ (used => started # NoTime)
  BY <1>1, <1>2 DEF Time
<1>6. u = Reconciled(timed, n)
  BY DEF Updated
<1> HIDE DEF u, timed, n, started, reset, used
<1>7. PICK x \in Nat, y \in Nat :
        /\ n = x + y
        /\ u = [known |-> TRUE, count |-> n, success |-> x, failure |-> y,
                started |-> started, reset |-> reset, limit |-> ApiLimit, max |-> w.max]
  <2> DEFINE all == w.success + w.failure
             bad == Smaller(w.failure, n)
  <2>1. CASE all = 0 /\ n > 0
    <3>1. u = [known |-> TRUE, count |-> n, success |-> n, failure |-> 0,
               started |-> started, reset |-> reset, limit |-> ApiLimit, max |-> w.max]
      BY <1>3, <1>6, <2>1 DEF Reconciled
    <3>2. n = n + 0
      BY <1>4
    <3> QED BY <1>4, <3>1, <3>2
  <2>2. CASE ~(all = 0 /\ n > 0) /\ n < all
    <3>1. bad \in Nat /\ n - bad \in Nat /\ n = (n - bad) + bad
      BY <1>2, <1>4 DEF Smaller
    <3>2. u = [known |-> TRUE, count |-> n, success |-> n - bad, failure |-> bad,
               started |-> started, reset |-> reset, limit |-> ApiLimit, max |-> w.max]
      BY <1>3, <1>6, <2>2 DEF Reconciled
    <3> QED BY <3>1, <3>2
  <2>3. CASE ~(all = 0 /\ n > 0) /\ ~(n < all)
    <3>1. w.success + (n - all) \in Nat /\ n = (w.success + (n - all)) + w.failure
      BY <1>2, <1>4, <2>3
    <3>2. u = [known |-> TRUE, count |-> n, success |-> w.success + (n - all),
               failure |-> w.failure,
               started |-> started, reset |-> reset, limit |-> ApiLimit, max |-> w.max]
      BY <1>3, <1>6, <2>3 DEF Reconciled
    <3> QED BY <1>2, <3>1, <3>2
  <2> QED BY <2>1, <2>2, <2>3
<1>8. Fits(u)
  BY <1>2, <1>4, <1>5, <1>7 DEF Fits, Win
<1>9. /\ u.known /\ u.max = w.max
      /\ u.count > 0 => u.started # NoTime
      /\ ~fetch.force => u.count >= w.count
  BY <1>4, <1>5, <1>7
<1> QED BY <1>8, <1>9 DEF u

-----------------------------------------------------------------------------
(* The steps.                                                               *)

\* A model never counts more than what is under way at once.
LEMMA MostIsNat ==
  ASSUME NEW m \in WinModels, CapOf[m].mode = "absolute"
  PROVE  /\ Most(m) \in Nat /\ Most(m) >= MaxInFlight
         /\ \A n \in Nat : n < CapMax(CapOf[m], window[m].limit) => n + MaxInFlight <= Most(m)
<1> DEFINE k == CapMax(CapOf[m], NoTime)
<1>1. MaxInFlight \in Nat /\ CapOf[m].value \in Int
  BY WindowConstants DEF Scopes
<1>2. k = Larger(0, CapOf[m].value) /\ CapMax(CapOf[m], window[m].limit) = k
  BY DEF CapMax
<1>3. k \in Nat
  BY <1>1, <1>2 DEF Larger
<1> HIDE DEF k
<1>4. Most(m) = Larger(1, k) - 1 + MaxInFlight
  BY DEF Most, k
<1>5. Most(m) \in Nat /\ Most(m) >= MaxInFlight
  BY <1>1, <1>3, <1>4 DEF Larger
<1>6. \A n \in Nat : n < k => n + MaxInFlight <= Most(m)
  BY <1>1, <1>3, <1>4 DEF Larger
<1> QED BY <1>2, <1>5, <1>6

LEMMA WindowsInitial == WindowsInit => WinInv
<1> SUFFICES ASSUME WindowsInit PROVE WinInv
  OBVIOUS
<1>1. NoWindow \in Win /\ Fits(NoWindow) /\ ~NoWindow.known
  BY DEF NoWindow, Win, Time, Fits
<1>2. MaxInFlight \in Nat /\ WinMaxTime \in Nat
  BY WindowConstants
<1>3. \A s \in Scopes : window[s] = NoWindow
  BY DEF WindowsInit
<1>4. WinTypes
  BY <1>2 DEF WindowsInit, WinTypes, Modes, NoFetch, Time
<1>5. WindowsFit
  BY <1>1, <1>3 DEF WindowsFit
<1>6. \A m \in WinModels : m \in Scopes /\ QuotaScope(m) \in Scopes
  BY DEF Scopes, QuotaScope
<1>7. Capped
  <2> SUFFICES ASSUME NEW m \in WinModels, CapOf[m].mode = "absolute"
               PROVE  window[m].count <= Most(m) /\ ~Live(window[m])
    BY DEF Capped
  <2>1. Most(m) \in Nat
    BY MostIsNat
  <2> QED BY <1>1, <1>3, <1>6, <2>1 DEF Live, NoWindow
<1>8. Begun /\ SharedTiming
  BY <1>1, <1>3, <1>6 DEF Begun, SharedTiming, Live, NoWindow
<1>9. window = [s \in Scopes |-> window[s]]
  BY DEF WindowsInit
<1> QED BY <1>4, <1>5, <1>7, <1>8, <1>9 DEF WinInv

\* What a step keeps: nothing is taken from a running window but by force.
Kept(s) ==
  /\ Live(window[s]) /\ window'[s].count < window[s].count => fetch.force
  /\ window'[s].max >= window[s].max

LEMMA Windows ==
  ASSUME WinInv, NEW m \in WinModels
  PROVE  /\ m \in Scopes /\ Group \in Scopes /\ m # Group
         /\ QuotaScope(m) = (IF grouped THEN Group ELSE m)
         /\ ScopesOf(m) = (IF grouped THEN {m, Group} ELSE {m})
         /\ grouped \in BOOLEAN
BY WindowConstants DEF Scopes, QuotaScope, ScopesOf, WinInv, WinTypes

\* record_usage, window by window.
LEMMA RecordedFits ==
  ASSUME WinInv, NEW m \in WinModels, NEW ok \in BOOLEAN, NEW s \in Scopes
  PROVE  LET f == Recorded(m, ok)
         IN /\ Fits(f[s]) /\ f[s].max >= window[s].max
            /\ s \notin ScopesOf(m) => f[s] = window[s]
            /\ s \in ScopesOf(m) =>
                 /\ f[s].known /\ f[s].started # NoTime
                 /\ f[s].count = Current(window[s]).count + 1
            /\ grouped => /\ f[m].started = f[Group].started /\ f[m].reset = f[Group].reset
                          /\ f[Group] = Counted(Current(window[Group]), ok)
<1> DEFINE f == Recorded(m, ok)
           g == Counted(Current(window[Group]), ok)
           c == Counted(Current(window[m]), ok)
<1>1. /\ m \in Scopes /\ Group \in Scopes /\ m # Group
      /\ ScopesOf(m) = (IF grouped THEN {m, Group} ELSE {m})
      /\ grouped \in BOOLEAN
  BY Windows
<1>2. Fits(window[s]) /\ Fits(window[m]) /\ Fits(window[Group])
  BY <1>1 DEF WinInv, WindowsFit
<1>3. WinTypes
  BY DEF WinInv
<1>4. ASSUME NEW x \in {m, Group}
      PROVE  LET d == Counted(Current(window[x]), ok)
             IN /\ Fits(d) /\ d.known /\ d.count = Current(window[x]).count + 1
                /\ d.max >= window[x].max /\ d.started # NoTime
  <2> DEFINE e == Current(window[x])
             d == Counted(e, ok)
  <2>1. Fits(window[x])
    BY <1>2
  <2>2. Fits(e) /\ e.known /\ e.max >= window[x].max
    BY <2>1, CurrentFits
  <2> HIDE DEF e
  <2>3. Fits(d) /\ d.known /\ d.count = e.count + 1 /\ d.max >= e.max /\ d.started # NoTime
    BY <1>3, <2>2, CountedFits
  <2> HIDE DEF d
  <2>4. d.max >= window[x].max
    BY <2>1, <2>2, <2>3 DEF Fits, Win
  <2> QED BY <2>3, <2>4 DEF d, e
<1>5. /\ Fits(g) /\ g.known /\ g.count = Current(window[Group]).count + 1
      /\ g.max >= window[Group].max /\ g.started # NoTime
  BY <1>4
<1>6. /\ Fits(c) /\ c.known /\ c.count = Current(window[m]).count + 1
      /\ c.max >= window[m].max /\ c.started # NoTime
  BY <1>4
<1> DEFINE t == Timed(c, g)
<1>7. /\ f[m] = t
      /\ f[Group] = (IF grouped THEN g ELSE window[Group])
      /\ s \notin {m, Group} => f[s] = window[s]
  BY <1>1 DEF Recorded
<1> HIDE DEF f, g, c
<1>8. /\ Fits(t) /\ t.known /\ t.count = c.count /\ t.max = c.max
      /\ t.started = (IF grouped THEN g.started ELSE c.started)
      /\ t.reset = (IF grouped THEN g.reset ELSE c.reset)
  <2>1. c \in [known : BOOLEAN, count : Nat, success : Nat, failure : Nat,
                started : Time, reset : Time, limit : {NoTime, ApiLimit}, max : Nat]
    BY <1>6 DEF Fits, Win
  <2>2. g.started \in Time /\ g.reset \in Time /\ c.count = c.success + c.failure
    BY <1>5, <1>6 DEF Fits, Win
  <2>3. CASE grouped
    <3>1. t = [c EXCEPT !.started = g.started, !.reset = g.reset]
      BY <2>3 DEF Timed
    <3> HIDE DEF t
    <3>2. t = [known |-> c.known, count |-> c.count, success |-> c.success,
               failure |-> c.failure, started |-> g.started, reset |-> g.reset,
               limit |-> c.limit, max |-> c.max]
      BY <2>1, <3>1
    <3> QED BY <1>6, <2>1, <2>2, <2>3, <3>2 DEF Fits, Win
  <2>4. CASE ~grouped
    BY <1>6, <2>4 DEF Timed
  <2> QED BY <2>3, <2>4
<1> HIDE DEF t
<1>9. Fits(f[s]) /\ f[s].max >= window[s].max
  BY <1>1, <1>2, <1>5, <1>6, <1>7, <1>8 DEF Fits, Win
<1>10. s \notin ScopesOf(m) => f[s] = window[s]
  BY <1>1, <1>7
<1>11. s \in ScopesOf(m) =>
         f[s].known /\ f[s].started # NoTime /\ f[s].count = Current(window[s]).count + 1
  BY <1>1, <1>5, <1>6, <1>7, <1>8
<1>12. grouped => f[m].started = f[Group].started /\ f[m].reset = f[Group].reset /\ f[Group] = g
  BY <1>7, <1>8
<1> QED BY <1>9, <1>10, <1>11, <1>12 DEF f, g

\* The windows after a request has ended, with the headers of its response.
LEMMA RecordWindows ==
  ASSUME WinInv, NEW m \in WinModels, NEW ok \in BOOLEAN, NEW headers \in BOOLEAN,
         RecordRequest(m, ok, headers), NEW s \in Scopes
  PROVE  /\ Fits(window'[s]) /\ window'[s].max >= window[s].max
         /\ s \notin ScopesOf(m) => window'[s] = window[s]
         /\ s \in ScopesOf(m) =>
              /\ window'[s].known /\ window'[s].started # NoTime
              /\ window'[s].count = Current(window[s]).count + 1
<1> DEFINE f == Recorded(m, ok)
           h == WithHeaders(f, m, Duration)
<1>1. window' = IF headers THEN h ELSE f
  BY DEF RecordRequest
<1>2. /\ Fits(f[s]) /\ f[s].max >= window[s].max
      /\ s \notin ScopesOf(m) => f[s] = window[s]
      /\ s \in ScopesOf(m) => /\ f[s].known /\ f[s].started # NoTime
                             /\ f[s].count = Current(window[s]).count + 1
  BY RecordedFits
<1> HIDE DEF f
<1>3. h[s] = IF s \in ScopesOf(m)
             THEN [f[s] EXCEPT !.limit = ApiLimit, !.reset = clock + Duration] ELSE f[s]
  BY DEF WithHeaders
<1>4. clock + Duration \in Nat
  BY WindowConstants DEF WinInv, WinTypes
<1>5. /\ Fits(h[s]) /\ h[s].max = f[s].max /\ h[s].known = f[s].known
      /\ h[s].started = f[s].started /\ h[s].count = f[s].count
      /\ s \notin ScopesOf(m) => h[s] = f[s]
  <2> DEFINE w == f[s]
             v == h[s]
  <2>1. w \in [known : BOOLEAN, count : Nat, success : Nat, failure : Nat,
                started : Time, reset : Time, limit : {NoTime, ApiLimit}, max : Nat]
        /\ w.count = w.success + w.failure
    BY <1>2 DEF Fits, Win
  <2>2. CASE s \in ScopesOf(m)
    <3>1. v = [w EXCEPT !.limit = ApiLimit, !.reset = clock + Duration]
      BY <1>3, <2>2
    <3> HIDE DEF w, v
    <3>2. v = [known |-> w.known, count |-> w.count, success |-> w.success,
               failure |-> w.failure, started |-> w.started, reset |-> clock + Duration,
               limit |-> ApiLimit, max |-> w.max]
      BY <2>1, <3>1
    <3>3. Fits(v) /\ v.max = w.max /\ v.known = w.known /\ v.started = w.started
          /\ v.count = w.count
      BY <1>4, <2>1, <3>2 DEF Fits, Win, Time
    <3> QED BY <2>2, <3>3 DEF w, v
  <2>3. CASE s \notin ScopesOf(m)
    BY <1>2, <1>3, <2>3
  <2> QED BY <2>2, <2>3
<1> HIDE DEF h
<1> QED BY <1>1, <1>2, <1>5

\* What is left of a window at the next step; a running one was running before.
LEMMA RunningBefore ==
  ASSUME WinInv, NEW w, Fits(w), clock' \in Nat, clock' >= clock, UNCHANGED mode, Live(w)'
  PROVE  Live(w)
<1>1. /\ clock \in Nat
      /\ (w.started # NoTime => w.started \in Nat) /\ (w.reset # NoTime => w.reset \in Nat)
  BY DEF WinInv, WinTypes, Fits, Win, Time
<1>2. w.started # NoTime /\ mode # "api" => NextReset(w.started) \in Nat
  BY <1>1, Ends, WindowConstants DEF WinInv, WinTypes, Time
<1>3. NextReset(w.started)' = NextReset(w.started)
  BY DEF NextReset
<1> QED BY <1>1, <1>2, <1>3 DEF Live, Over

LEMMA RecordStep ==
  ASSUME WinInv, NEW m \in WinModels, NEW ok \in BOOLEAN, NEW headers \in BOOLEAN,
         RecordRequest(m, ok, headers)
  PROVE  WinInv' /\ \A s \in Scopes : Kept(s)
<1>1. /\ flight[m] > 0 /\ flight' = [flight EXCEPT ![m] = @ - 1]
      /\ headers => reports = "headers"
      /\ UNCHANGED <<clock, mode, grouped, api, fetch, sent, reports>>
  BY DEF RecordRequest
<1>2. ASSUME NEW s \in Scopes
      PROVE  /\ Fits(window'[s]) /\ window'[s].max >= window[s].max
             /\ s \notin ScopesOf(m) => window'[s] = window[s]
             /\ s \in ScopesOf(m) =>
                  /\ window'[s].known /\ window'[s].started # NoTime
                  /\ window'[s].count = Current(window[s]).count + 1
  BY RecordWindows
<1>3. ASSUME NEW s \in Scopes
      PROVE  /\ Fits(window[s]) /\ (~window[s].known => window[s] = NoWindow)
             /\ Live(window[s]) => Current(window[s]) = window[s]
             /\ ~Live(window[s]) => Current(window[s]).count = 0
  BY CurrentFits DEF WinInv, WindowsFit
<1>4. \A x \in WinModels : x \in Scopes /\ QuotaScope(x) \in Scopes /\ x # Group
  BY Windows
<1>5. ScopesOf(m) = (IF grouped THEN {m, Group} ELSE {m}) /\ grouped \in BOOLEAN
      /\ Group \in Scopes
  BY Windows
<1>6. /\ flight \in [WinModels -> 0..MaxInFlight] /\ MaxInFlight \in Nat
      /\ \A w : Live(w)' <=> Live(w)
      /\ \A x : QuotaScope(x)' = QuotaScope(x)
  BY <1>1, WindowConstants
     DEF WinInv, WinTypes, Live, Over, NextReset, NextDaily, NextWeekly, QuotaScope
<1>7. WinTypes'
  BY <1>1, <1>6 DEF WinInv, WinTypes
<1>8. WindowsFit'
  BY <1>2, <1>3 DEF WindowsFit
<1>9. Capped'
  <2> SUFFICES ASSUME reports = "headers", NEW x \in WinModels, CapOf[x].mode = "absolute"
               PROVE  /\ window'[x].count <= Most(x)
                      /\ Live(window'[x]) => window'[x].count + flight'[x] <= Most(x)
    BY <1>1, <1>6 DEF Capped, Most, CapMax
  <2>1. Most(x) \in Nat /\ Most(x) >= MaxInFlight
    BY MostIsNat
  <2>2. /\ window[x].count <= Most(x)
        /\ Live(window[x]) => window[x].count + flight[x] <= Most(x)
        /\ window[x].count \in Nat
    BY <1>3, <1>4 DEF WinInv, Capped, Fits, Win
  <2>3. CASE x = m
    <3>1. window'[m].count = Current(window[m]).count + 1
      BY <1>2, <1>4, <1>5
    <3>2. flight'[m] = flight[m] - 1 /\ flight[m] \in 1..MaxInFlight
      BY <1>1, <1>6
    <3>3. CASE Live(window[m])
      BY <1>3, <1>4, <2>1, <2>2, <2>3, <3>1, <3>2, <3>3
    <3>4. CASE ~Live(window[m])
      <4>1. window'[m].count = 1
        BY <1>3, <1>4, <3>1, <3>4
      <4> QED BY <1>6, <2>1, <2>3, <3>2, <4>1
    <3> QED BY <3>3, <3>4
  <2>4. CASE x # m
    <3>1. window'[x] = window[x] /\ flight'[x] = flight[x]
      BY <1>1, <1>2, <1>4, <1>5, <1>6, <2>4
    <3> QED BY <2>2, <3>1
  <2> QED BY <2>3, <2>4
<1>10. Begun'
  BY <1>2, <1>4, <1>6 DEF WinInv, Begun
<1>11. SharedTiming'
  <2> SUFFICES ASSUME grouped, reports = "answers", NEW x \in WinModels,
                      Live(window'[x]), window'[x].started # NoTime
               PROVE  /\ window'[x].started = window'[Group].started
                      /\ window'[x].reset = window'[Group].reset
    BY <1>1, <1>6 DEF SharedTiming
  <2>1. window' = Recorded(m, ok)
    BY <1>1 DEF RecordRequest
  <2>2. /\ window'[m].started = window'[Group].started /\ window'[m].reset = window'[Group].reset
        /\ window'[Group] = Counted(Current(window[Group]), ok)
    BY <1>4, <2>1, RecordedFits
  <2>3. CASE x # m
    <3>1. window'[x] = window[x]
      BY <1>2, <1>4, <1>5, <2>3
    <3>2. /\ window[x].started = window[Group].started /\ window[x].reset = window[Group].reset
          /\ Live(window[x]) /\ window[x].started # NoTime
      BY <3>1 DEF WinInv, SharedTiming
    <3>3. window[Group].known
      BY <1>3, <1>5, <3>2 DEF NoWindow
    <3>4. Live(window[Group])
      BY <3>2, <3>3 DEF Live, Over
    <3>5. Current(window[Group]) = window[Group] /\ Fits(window[Group])
      BY <1>3, <1>5, <3>4
    <3>6. /\ window'[Group].started = window[Group].started
          /\ window'[Group].reset = window[Group].reset
      BY <2>2, <3>2, <3>3, <3>5, CountedFits DEF WinInv
    <3> QED BY <3>1, <3>2, <3>6
  <2> QED BY <2>2, <2>3
<1>12. window' = [s \in Scopes |-> window'[s]]
  BY DEF RecordRequest, Recorded, WithHeaders
<1>13. ASSUME NEW s \in Scopes PROVE Kept(s)
  <2>1. window'[s].count >= window[s].count \/ ~Live(window[s])
    BY <1>2, <1>3 DEF Fits, Win
  <2>2. window'[s].count \in Nat /\ window[s].count \in Nat
    BY <1>2, <1>3 DEF Fits, Win
  <2> QED BY <1>2, <2>1, <2>2 DEF Kept
<1> QED BY <1>7, <1>8, <1>9, <1>10, <1>11, <1>12, <1>13 DEF WinInv

LEMMA StoreStep ==
  ASSUME WinInv, NEW m \in WinModels, NEW exhausted \in BOOLEAN, StoreQuota(m, exhausted)
  PROVE  WinInv' /\ \A s \in Scopes : Kept(s)
<1> DEFINE scope == QuotaScope(m)
           c == Current(window[scope])
           w == Updated(c, fetch)
<1>1. /\ fetch.is = "answer" /\ fetch' = NoFetch
      /\ window' = [s \in Scopes |->
           IF s = scope THEN w
           ELSE IF grouped /\ window[s].known
             THEN [window[s] EXCEPT !.started = w.started, !.reset = w.reset,
                                    !.limit = IF w.limit # NoTime THEN w.limit ELSE @]
           ELSE window[s]]
      /\ UNCHANGED <<clock, mode, grouped, flight, api, sent, reports>>
  BY DEF StoreQuota
<1>2. /\ m \in Scopes /\ Group \in Scopes /\ m # Group
      /\ scope = (IF grouped THEN Group ELSE m) /\ grouped \in BOOLEAN
      /\ scope \in Scopes
  BY Windows
<1>3. ASSUME NEW s \in Scopes
      PROVE  Fits(window[s]) /\ (~window[s].known => window[s] = NoWindow)
  BY DEF WinInv, WindowsFit
<1>4. /\ Fits(c) /\ c.known /\ c.max >= window[scope].max
      /\ Live(window[scope]) => c = window[scope]
  BY <1>2, <1>3, CurrentFits
<1>5. /\ Fits(w) /\ w.known /\ w.max = c.max
      /\ w.count > 0 => w.started # NoTime
      /\ ~fetch.force => w.count >= c.count
  <2> HIDE DEF c
  <2> QED BY <1>4, UpdatedFits DEF WinInv
<1> HIDE DEF c, w, scope
<1>6. window'[scope] = w
  BY <1>1, <1>2
<1>7. ASSUME NEW s \in Scopes, s # scope
      PROVE  /\ Fits(window'[s]) /\ window'[s].known = window[s].known
             /\ window'[s].count = window[s].count /\ window'[s].max = window[s].max
             /\ ~window[s].known \/ ~grouped => window'[s] = window[s]
             /\ window[s].known /\ grouped =>
                  window'[s].started = w.started /\ window'[s].reset = w.reset
  <2> DEFINE o == window[s]
             v == window'[s]
             limit == IF w.limit # NoTime THEN w.limit ELSE o.limit
  <2>1. o \in [known : BOOLEAN, count : Nat, success : Nat, failure : Nat,
                started : Time, reset : Time, limit : {NoTime, ApiLimit}, max : Nat]
        /\ o.count = o.success + o.failure
    BY <1>3, <1>7 DEF Fits, Win
  <2>2. w.started \in Time /\ w.reset \in Time /\ w.limit \in {NoTime, ApiLimit}
    BY <1>5 DEF Fits, Win
  <2>3. CASE grouped /\ o.known
    <3>1. v = [o EXCEPT !.started = w.started, !.reset = w.reset, !.limit = limit]
      BY <1>1, <1>7, <2>3
    <3>2. limit \in {NoTime, ApiLimit}
      BY <2>1, <2>2
    <3> HIDE DEF v, o, limit
    <3>3. v = [known |-> o.known, count |-> o.count, success |-> o.success,
               failure |-> o.failure, started |-> w.started, reset |-> w.reset,
               limit |-> limit, max |-> o.max]
      BY <2>1, <3>1
    <3>4. /\ Fits(v) /\ v.known = o.known /\ v.count = o.count /\ v.max = o.max
          /\ v.started = w.started /\ v.reset = w.reset
      BY <2>1, <2>2, <3>2, <3>3 DEF Fits, Win
    <3> QED BY <2>3, <3>4 DEF v, o
  <2>4. CASE ~(grouped /\ o.known)
    BY <1>1, <1>3, <1>7, <2>4
  <2> QED BY <2>3, <2>4
<1>8. \A x \in WinModels : x \in Scopes /\ QuotaScope(x) = (IF grouped THEN Group ELSE x)
                          /\ x # Group
  BY Windows
<1>9. /\ \A u : Live(u)' <=> Live(u)
      /\ \A x : QuotaScope(x)' = QuotaScope(x)
  BY <1>1 DEF Live, Over, NextReset, NextDaily, NextWeekly, QuotaScope
<1>10. WinTypes'
  BY <1>1 DEF WinInv, WinTypes, NoFetch, Time
<1>11. WindowsFit'
  BY <1>3, <1>5, <1>6, <1>7 DEF WindowsFit
<1>12. Capped'
  BY <1>1 DEF WinInv, WinTypes, Capped
<1>13. Begun'
  <2> SUFFICES ASSUME NEW x \in WinModels, window'[QuotaScope(x)].count > 0
               PROVE  window'[QuotaScope(x)].started # NoTime
    BY <1>9 DEF Begun
  <2>1. CASE QuotaScope(x) = scope
    BY <1>5, <1>6, <2>1
  <2>2. CASE QuotaScope(x) # scope
    <3>1. ~grouped /\ QuotaScope(x) \in Scopes
      BY <1>2, <1>8, <2>2
    <3>2. window'[QuotaScope(x)] = window[QuotaScope(x)]
      BY <1>7, <2>2, <3>1
    <3> QED BY <3>2 DEF WinInv, Begun
  <2> QED BY <2>1, <2>2
<1>14. SharedTiming'
  <2> SUFFICES ASSUME grouped, NEW x \in WinModels, Live(window'[x])
               PROVE  /\ window'[x].started = window'[Group].started
                      /\ window'[x].reset = window'[Group].reset
    BY <1>1, <1>9 DEF SharedTiming
  <2>1. scope = Group /\ x # scope /\ x \in Scopes
    BY <1>2, <1>8
  <2>2. window[x].known
    BY <1>7, <2>1 DEF Live
  <2> QED BY <1>6, <1>7, <2>1, <2>2
<1>15. window' = [s \in Scopes |-> window'[s]]
  BY <1>1
<1>16. ASSUME NEW s \in Scopes PROVE Kept(s)
  <2>1. CASE s = scope
    <3>1. /\ window[s].max \in Nat /\ c.max \in Nat /\ w.max \in Nat
          /\ w.count \in Nat /\ c.count \in Nat
      BY <1>3, <1>4, <1>5 DEF Fits, Win
    <3>2. window'[s].max >= window[s].max
      BY <1>4, <1>5, <1>6, <2>1, <3>1
    <3>3. Live(window[s]) /\ window'[s].count < window[s].count => fetch.force
      BY <1>4, <1>5, <1>6, <2>1, <3>1
    <3> QED BY <3>2, <3>3 DEF Kept
  <2>2. CASE s # scope
    BY <1>3, <1>7, <2>2 DEF Kept, Fits, Win
  <2> QED BY <2>1, <2>2
<1> QED BY <1>10, <1>11, <1>12, <1>13, <1>14, <1>15, <1>16 DEF WinInv

\* A model whose cap is reached sends nothing.
MaySend(x) ==
  \/ flight'[x] = flight[x]
  \/ flight'[x] = flight[x] + 1 /\ ~CapReached(x, window[x])

\* What leaves the windows alone.
LEMMA OtherStep ==
  ASSUME WinInv, UNCHANGED <<mode, grouped, window, reports>>, WinTypes',
         clock' \in {clock, clock + 1},
         \A x \in WinModels : MaySend(x)
  PROVE  WinInv' /\ \A s \in Scopes : Kept(s)
<1>1. clock \in Nat /\ clock' \in Nat /\ clock' >= clock
  BY DEF WinInv, WinTypes
<1>2. \A s \in Scopes : Fits(window[s])
  BY DEF WinInv, WindowsFit
<1>3. \A x \in WinModels : x \in Scopes
  BY Windows
<1>4. ASSUME NEW s \in Scopes, Live(window[s])' PROVE Live(window[s])
  <2> DEFINE w == window[s]
  <2>1. window'[s] = w
    OBVIOUS
  <2>2. Live(window[s])' <=> Live(w)'
    BY <2>1
  <2> QED BY <1>1, <1>2, <1>4, RunningBefore
<1>5. WindowsFit' /\ Begun' /\ window' = [s \in Scopes |-> window'[s]]
  BY DEF WinInv, WindowsFit, Begun, QuotaScope
<1>6. SharedTiming'
  BY <1>3, <1>4 DEF WinInv, SharedTiming
<1>7. Capped'
  <2> SUFFICES ASSUME reports = "headers", NEW x \in WinModels, CapOf[x].mode = "absolute"
               PROVE  /\ window[x].count <= Most(x)
                      /\ Live(window[x])' => window[x].count + flight'[x] <= Most(x)
    BY DEF Capped, Most, CapMax
  <2>1. /\ window[x].count <= Most(x)
        /\ Live(window[x]) => window[x].count + flight[x] <= Most(x)
        /\ window[x].count \in Nat
    BY <1>2, <1>3 DEF WinInv, Capped, Fits, Win
  <2>2. CASE flight'[x] = flight[x]
    BY <1>3, <1>4, <2>1, <2>2
  <2>3. CASE flight'[x] = flight[x] + 1 /\ ~CapReached(x, window[x])
    <3> SUFFICES ASSUME Live(window[x]) PROVE window[x].count + flight'[x] <= Most(x)
      BY <1>3, <1>4, <2>1
    <3>1. window[x].count < CapMax(CapOf[x], window[x].limit)
      <4>1. ~(window[x].count >= CapMax(CapOf[x], window[x].limit))
        BY <2>3 DEF CapReached
      <4>2. CapMax(CapOf[x], window[x].limit) \in Nat
        BY <1>3, WindowConstants DEF CapMax, Larger
      <4> QED BY <2>1, <4>1, <4>2
    <3>2. window[x].count + MaxInFlight <= Most(x) /\ Most(x) \in Nat
      BY <2>1, <3>1, MostIsNat
    <3>3. flight'[x] \in 0..MaxInFlight
      BY DEF WinTypes
    <3> QED BY <2>1, <3>2, <3>3, WindowConstants
  <2> QED BY <2>2, <2>3 DEF MaySend
<1>8. \A s \in Scopes : Kept(s)
  BY <1>2 DEF Kept, Fits, Win
<1> QED BY <1>5, <1>6, <1>7, <1>8 DEF WinInv

LEMMA WindowsInductive ==
  WinInv /\ [WindowsNext]_winVars => WinInv' /\ \A s \in Scopes : Kept(s)
<1> SUFFICES ASSUME WinInv, [WindowsNext]_winVars PROVE WinInv' /\ \A s \in Scopes : Kept(s)
  OBVIOUS
<1>1. ASSUME NEW m \in WinModels, NEW ok \in BOOLEAN, NEW headers \in BOOLEAN,
             RecordRequest(m, ok, headers)
      PROVE  WinInv' /\ \A s \in Scopes : Kept(s)
  BY <1>1, RecordStep
<1>2. ASSUME NEW m \in WinModels, NEW exhausted \in BOOLEAN, StoreQuota(m, exhausted)
      PROVE  WinInv' /\ \A s \in Scopes : Kept(s)
  BY <1>2, StoreStep
<1>3. /\ clock \in Nat /\ MaxInFlight \in Nat /\ WinMaxTime \in Nat /\ api.used \in Nat
      /\ clock + Duration \in Time /\ api.reset \in Time /\ NoTime \in Time
      /\ flight \in [WinModels -> 0..MaxInFlight]
  BY WindowConstants DEF WinInv, WinTypes, Time
<1>4. ApiCounts(1) \in [used : Nat, reset : Time]
  BY <1>3 DEF ApiCounts
<1>5. ASSUME NEW m \in WinModels, SendRequest(m) PROVE WinInv' /\ \A s \in Scopes : Kept(s)
  <2>1. /\ flight' = [flight EXCEPT ![m] = @ + 1] /\ flight[m] < MaxInFlight
        /\ api' = ApiCounts(1) /\ UNCHANGED <<clock, mode, grouped, window, fetch, reports>>
        /\ ~CapReached(m, window[m])
    BY <1>5 DEF SendRequest, Allowed, ScopesOf
  <2>2. WinTypes'
    BY <1>3, <1>4, <2>1 DEF WinInv, WinTypes
  <2>3. \A x \in WinModels : MaySend(x)
    BY <1>3, <2>1 DEF MaySend
  <2> QED BY <2>1, <2>2, <2>3, OtherStep
<1>6. CASE Foreign
  <2>1. api' = ApiCounts(1) /\ UNCHANGED <<clock, mode, grouped, window, flight, fetch, reports>>
    BY <1>6 DEF Foreign
  <2>2. WinTypes'
    BY <1>4, <2>1 DEF WinInv, WinTypes
  <2>3. \A x \in WinModels : MaySend(x)
    BY <2>1 DEF MaySend
  <2> QED BY <2>1, <2>2, <2>3, OtherStep
<1>7. ASSUME NEW force \in BOOLEAN, FetchQuota(force) PROVE WinInv' /\ \A s \in Scopes : Kept(s)
  <2>1. /\ reports = "answers" /\ UNCHANGED <<clock, mode, grouped, window, flight, api, reports>>
        /\ fetch' = [is |-> "answer", used |-> api.used,
                     reset |-> IF api.used > 0 THEN api.reset ELSE NoTime, force |-> force]
    BY <1>7 DEF FetchQuota
  <2>2. WinTypes'
    BY <1>3, <2>1 DEF WinInv, WinTypes
  <2>3. \A x \in WinModels : MaySend(x)
    BY <2>1 DEF MaySend
  <2> QED BY <2>1, <2>2, <2>3, OtherStep
<1>8. CASE Pass
  <2>1. /\ clock < WinMaxTime /\ clock' = clock + 1
        /\ api' = IF api.reset = clock + 1 THEN [used |-> 0, reset |-> NoTime] ELSE api
        /\ UNCHANGED <<mode, grouped, window, flight, fetch, reports>>
    BY <1>8 DEF Pass
  <2>2. clock' \in 0..WinMaxTime /\ api' \in [used : Nat, reset : Time]
    BY <1>3, <2>1 DEF WinInv, WinTypes
  <2>3. WinTypes'
    BY <2>1, <2>2 DEF WinInv, WinTypes
  <2>4. \A x \in WinModels : MaySend(x)
    BY <2>1 DEF MaySend
  <2> QED BY <2>1, <2>3, <2>4, OtherStep
<1>9. CASE UNCHANGED winVars
  <2>1. UNCHANGED <<clock, mode, grouped, window, flight, api, fetch, reports>>
    BY <1>9 DEF winVars
  <2>2. WinTypes'
    BY <2>1 DEF WinInv, WinTypes
  <2>3. \A x \in WinModels : MaySend(x)
    BY <2>1 DEF MaySend
  <2> QED BY <2>1, <2>2, <2>3, OtherStep
<1> QED BY <1>1, <1>2, <1>5, <1>6, <1>7, <1>8, <1>9 DEF WindowsNext

\* For any models, caps, calendar, limits and times, and any mix of requests,
\* headers, quota answers and other users of the account: windows count what they
\* say, a capped model overshoots its cap by what was under way at most, windows
\* in use end, at most a period after they began, the models of a group share its
\* times, and no fetch in the background lowers a count or a high-water mark.
THEOREM WindowsStaySound == WindowsSpec => WindowsSound
<1>1. WinInv => WindowsTypeOK /\ CapOvershoot /\ UsedWindowsEnd /\ EndsAfterStart /\ SharedTiming
  <2> SUFFICES ASSUME WinInv
               PROVE  /\ WindowsTypeOK /\ CapOvershoot /\ UsedWindowsEnd /\ EndsAfterStart
                      /\ SharedTiming
    OBVIOUS
  <2>1. WindowsTypeOK
    BY DEF WinInv, WinTypes, WindowsFit, Fits, Win, WindowsTypeOK
  <2>2. CapOvershoot
    BY DEF WinInv, Capped, Most, CapOvershoot
  <2>3. UsedWindowsEnd
    BY DEF WinInv, Begun, UsedWindowsEnd
  <2>4. EndsAfterStart
    <3> SUFFICES ASSUME NEW s \in Scopes, window[s].started # NoTime, mode # "api"
                 PROVE  /\ NextReset(window[s].started) > window[s].started
                        /\ NextReset(window[s].started) <= window[s].started +
                             (CASE mode = "rolling" -> Duration [] mode = "daily" -> Day
                                [] mode = "weekly" -> Day * WeekDays)
      BY DEF EndsAfterStart
    <3> DEFINE t == window[s].started
    <3>1. t \in Nat /\ mode \in Modes
      BY DEF WinInv, WinTypes, WindowsFit, Fits, Win, Time
    <3> HIDE DEF t
    <3>2. /\ NextReset(t) > t
          /\ mode = "rolling" => NextReset(t) <= t + Duration
          /\ mode = "daily" => NextReset(t) <= t + Day
          /\ mode = "weekly" => NextReset(t) <= t + Day * WeekDays
      BY <3>1, Ends
    <3>3. CASE mode = "rolling"
      BY <3>2, <3>3 DEF t
    <3>4. CASE mode = "daily"
      BY <3>2, <3>4 DEF t
    <3>5. CASE mode = "weekly"
      BY <3>2, <3>5 DEF t
    <3> QED BY <3>1, <3>3, <3>4, <3>5 DEF Modes
  <2> QED BY <2>1, <2>2, <2>3, <2>4 DEF WinInv
<1>2. (\A s \in Scopes : Kept(s)) => NeverLowered /\ HighWater
  BY DEF Kept, NeverLowered, HighWater
<1>3. WinInv /\ [WindowsNext]_winVars => WinInv' /\ [NeverLowered /\ HighWater]_winVars
  BY <1>2, WindowsInductive
<1> QED BY <1>1, <1>3, WindowsInitial, PTL DEF WindowsSpec, WindowsSound

-----------------------------------------------------------------------------
(***************************************************************************)
(* The quota jobs.                                                         *)
(***************************************************************************)
Replies == {"none", "left", "spent", "past", "failed"}

PollTypes ==
  /\ kind \in {"gemini", "firmware", "chutes", "nanogpt"}
  /\ main \in {"none", "init", "loop", "ended"}
  /\ job \in {"none", "sleeping", "fetching", "storing", "ended"}
  /\ child \in [Creds -> {"idle", "queued", "fetching", "fetched"}]
  /\ answer \in [Creds -> Replies]
  /\ manual \in Creds \cup {"none"} /\ told \in Replies
  /\ unsaved \in BOOLEAN
  /\ phase \in {"up", "stopJob", "stopMain", "closing", "exited"}

\* What of the refresher runs in each phase.
Order ==
  /\ main \in {"none", "init"} => job = "none"
  /\ job \in {"none", "ended"} => child = Each("idle")
  /\ phase = "up" => cancelled = {} /\ main # "ended"
  /\ phase = "stopJob" => main = "loop" /\ cancelled = (IF job = "ended" THEN {} ELSE {"job"})
  /\ phase = "stopMain" =>
       /\ job \in {"none", "ended"} /\ main # "none"
       /\ cancelled = (IF main = "ended" THEN {} ELSE {"main"})
  /\ phase \in {"closing", "exited"} =>
       main = "ended" /\ job \in {"none", "ended"} /\ cancelled = {}

\* Nothing is left to be stored when the file is written.
NoneManual ==
  /\ phase # "up" => manual = "none"
  /\ manual = "none" => told = "none"

\* An answer of Gemini that says spent is of the period that goes on.
Timely ==
  kind = "gemini" =>
    /\ \A c \in Creds : answer[c] = "spent" => c \in spent
    /\ told = "spent" => manual \in spent

PollInv == PollTypes /\ Order /\ NoneManual /\ Timely /\ UsageSavedAtExit /\ RestOnlySpent

-----------------------------------------------------------------------------
LEMMA PollInitial == PollInit => PollInv
BY DEF PollInit, PollInv, PollTypes, Replies, Order, NoneManual, Timely, UsageSavedAtExit,
       RestOnlySpent, Each

\* What an answer can say.
LEMMA AnswersFit ==
  ASSUME PollTypes, NEW c \in Creds, NEW a \in Answers(c)
  PROVE  a \in Replies /\ (kind = "gemini" /\ a = "spent" => c \in spent)
<1>1. CASE kind = "gemini"
  BY <1>1 DEF Answers, GeminiAnswers, Replies
<1>2. CASE kind = "firmware"
  <2>1. a = "failed" \/ a \in FirmwareAnswers(c)
    BY <1>2 DEF Answers
  <2>2. ASSUME a \in FirmwareAnswers(c) PROVE a = "spent" \/ a = "left"
    BY <2>2 DEF FirmwareAnswers
  <2> QED BY <1>2, <2>1, <2>2 DEF Replies
<1>3. CASE kind = "chutes"
  BY <1>3 DEF Answers, ChutesAnswers, Replies
<1>4. CASE kind = "nanogpt"
  BY <1>4 DEF Answers, NanoGptAnswers, Replies
<1> QED BY <1>1, <1>2, <1>3, <1>4 DEF PollTypes

\* Storing an answer rests nobody whose quota is back.
LEMMA StoringRests ==
  ASSUME RestOnlySpent, NEW c \in Creds, NEW a, StoreAnswer(c, a),
         kind = "gemini" /\ a = "spent" => c \in spent
  PROVE  resting' \subseteq spent
BY DEF RestOnlySpent, StoreAnswer, GeminiRests, FirmwareRests, ChutesCounts, NanoGptCounts

LEMMA UseStep == ASSUME PollInv, NEW c \in Creds, Use(c) PROVE PollInv'
<1>1. /\ phase = "up" /\ unsaved' = TRUE /\ resting' \subseteq spent' /\ spent \subseteq spent'
      /\ UNCHANGED <<kind, main, job, first, child, answer, cancelled, manual, told, phase>>
  BY DEF Use, refresher, PollInv, RestOnlySpent
<1>2. PollTypes' /\ Order' /\ NoneManual' /\ UsageSavedAtExit' /\ RestOnlySpent'
  BY <1>1 DEF PollInv, PollTypes, Order, NoneManual, UsageSavedAtExit, RestOnlySpent, Each
<1>3. Timely'
  BY <1>1 DEF PollInv, Timely
<1> QED BY <1>2, <1>3 DEF PollInv

LEMMA UnusedStep == ASSUME PollInv, NEW c \in Creds, Unused(c) PROVE PollInv'
BY DEF Unused, refresher, PollInv, PollTypes, Order, NoneManual, UsageSavedAtExit, RestOnlySpent,
       Timely, Each

LEMMA RenewStep == ASSUME PollInv, NEW c \in Creds, Renew(c) PROVE PollInv'
<1>1. /\ spent' = spent \ {c} /\ resting' = resting \ {c}
      /\ answer' = [answer EXCEPT ![c] = PastPeriod(@)]
      /\ told' = IF manual = c THEN PastPeriod(told) ELSE told
      /\ UNCHANGED <<kind, main, job, first, child, manual, unsaved, phase, cancelled>>
  BY DEF Renew
<1>2. \A x \in Replies : PastPeriod(x) \in Replies \ {"spent"}
  BY DEF PastPeriod, Replies
<1>3. PollTypes'
  BY <1>1, <1>2 DEF PollInv, PollTypes
<1>4. Timely'
  BY <1>1, <1>2 DEF PollInv, PollTypes, Timely
<1>5. Order' /\ UsageSavedAtExit' /\ RestOnlySpent'
  BY <1>1 DEF PollInv, Order, UsageSavedAtExit, RestOnlySpent, Each
<1>6. NoneManual'
  BY <1>1, PollConstants DEF PollInv, NoneManual, PastPeriod
<1> QED BY <1>3, <1>4, <1>5, <1>6 DEF PollInv

LEMMA BeginStep == ASSUME PollInv, StartJobs \/ JobWakes PROVE PollInv'
<1>1. /\ BeginPoll /\ main' = "loop"
      /\ phase = "up"
      /\ UNCHANGED <<kind, manual, told, spent, resting, unsaved, phase, cancelled>>
  BY DEF StartJobs, JobWakes, provider, PollInv, PollTypes, Order, Stopped
<1>2. /\ child' \in [Creds -> {"idle", "queued"}] /\ answer' = Each("none") /\ job' = "fetching"
  BY <1>1 DEF BeginPoll
<1>3. PollTypes'
  BY <1>1, <1>2 DEF PollInv, PollTypes, Replies, Each
<1>4. Order'
  BY <1>1, <1>2 DEF PollInv, Order, PollTypes, StartJobs, JobWakes
<1>5. NoneManual' /\ UsageSavedAtExit' /\ RestOnlySpent'
  BY <1>1, <1>2 DEF PollInv, NoneManual, UsageSavedAtExit, RestOnlySpent
<1>6. Timely'
  BY <1>1, <1>2 DEF PollInv, Timely, Each
<1> QED BY <1>3, <1>4, <1>5, <1>6 DEF PollInv

\* While the job runs, nothing has been stopped.
LEMMA JobRuns ==
  ASSUME PollInv, job \in {"fetching", "storing"}, ~Stopped("job")
  PROVE  phase = "up" /\ main = "loop"
BY DEF PollInv, PollTypes, Order, Stopped

LEMMA FetchStep == ASSUME PollInv, NEW c \in Creds, Ask(c) \/ Fetched(c) PROVE PollInv'
<1>1. /\ job = "fetching" /\ ~Stopped("job")
      /\ child' \in {[child EXCEPT ![c] = "fetching"], [child EXCEPT ![c] = "fetched"]}
      /\ \/ answer' = answer
         \/ \E a \in Answers(c) : answer' = [answer EXCEPT ![c] = a]
      /\ UNCHANGED <<kind, main, job, manual, told, spent, resting, unsaved, phase, cancelled>>
  BY DEF Ask, Fetched, provider
<1>2. PollTypes' /\ Timely'
  BY <1>1, AnswersFit DEF PollInv, PollTypes, Timely
<1>3. Order' /\ NoneManual' /\ UsageSavedAtExit' /\ RestOnlySpent'
  BY <1>1, JobRuns DEF PollInv, Order, NoneManual, UsageSavedAtExit, RestOnlySpent
<1> QED BY <1>2, <1>3 DEF PollInv

LEMMA SavesAnswer == ASSUME PollInv, NEW c \in Creds, Store(c) \/ StoreFails(c) PROVE PollInv'
<1>1. /\ job \in {"fetching", "storing"} /\ ~Stopped("job") /\ StoreAnswer(c, answer[c])
      /\ child' \in {[child EXCEPT ![c] = "idle"], Each("idle")}
      /\ job' \in {job, "sleeping"}
      /\ UNCHANGED <<kind, main, answer, manual, told, spent, phase, cancelled>>
  BY DEF Store, StoreFails, provider
<1>2. resting' \subseteq spent' /\ unsaved' \in BOOLEAN
  BY <1>1, StoringRests DEF PollInv, Timely, StoreAnswer, PollTypes
<1>3. PollTypes' /\ Timely'
  BY <1>1, <1>2 DEF PollInv, PollTypes, Timely, Each
<1>4. Order' /\ NoneManual' /\ UsageSavedAtExit' /\ RestOnlySpent'
  BY <1>1, <1>2, JobRuns DEF PollInv, Order, NoneManual, UsageSavedAtExit, RestOnlySpent
<1> QED BY <1>3, <1>4 DEF PollInv

LEMMA JobEndsStep == ASSUME PollInv, Gathered \/ PollEnds PROVE PollInv'
<1>1. /\ job \in {"fetching", "storing"} /\ ~Stopped("job") /\ job' \in {"storing", "sleeping"}
      /\ UNCHANGED <<kind, main, child, answer, manual, told, spent, resting, unsaved, phase,
                     cancelled>>
  BY DEF Gathered, PollEnds, provider
<1> QED BY <1>1, JobRuns DEF PollInv, PollTypes, Timely, Order, NoneManual, UsageSavedAtExit,
           RestOnlySpent, Each

LEMMA ManualStep ==
  ASSUME PollInv, NEW c \in Creds, ManualStart(c) \/ ManualAnswered(c) \/ ManualStore(c)
  PROVE  PollInv'
<1>1. phase = "up" /\ UNCHANGED <<kind, main, job, child, answer, cancelled, spent, phase>>
  BY PollConstants
     DEF ManualStart, ManualAnswered, ManualStore, refresher, provider, PollInv, NoneManual
<1>2. Order' /\ UsageSavedAtExit'
  BY <1>1 DEF PollInv, Order, UsageSavedAtExit, Each
<1>3. NoneManual'
  BY <1>1, PollConstants DEF ManualStart, ManualAnswered, ManualStore, NoneManual
<1>4. RestOnlySpent' /\ unsaved' \in BOOLEAN
  <2>1. CASE ManualStore(c)
    BY <1>1, <2>1, StoringRests
       DEF ManualStore, StoreAnswer, PollInv, PollTypes, Timely, RestOnlySpent
  <2>2. CASE ManualStart(c) \/ ManualAnswered(c)
    BY <1>1, <2>2 DEF ManualStart, ManualAnswered, PollInv, PollTypes, RestOnlySpent
  <2> QED BY <2>1, <2>2
<1>5. told' \in Replies /\ manual' \in Creds \cup {"none"}
  BY AnswersFit DEF ManualStart, ManualAnswered, ManualStore, PollInv, PollTypes, Replies
<1>6. Timely'
  <2>1. CASE ManualStart(c)
    BY <1>1, <2>1 DEF ManualStart, PollInv, Timely, NoneManual
  <2>2. CASE ManualAnswered(c)
    BY <1>1, <2>2, AnswersFit DEF ManualAnswered, PollInv, Timely
  <2>3. CASE ManualStore(c)
    BY <1>1, <2>3 DEF ManualStore, PollInv, Timely
  <2> QED BY <2>1, <2>2, <2>3
<1> QED BY <1>1, <1>2, <1>3, <1>4, <1>5, <1>6 DEF PollInv, PollTypes

LEMMA StopStep ==
  ASSUME PollInv, StartRefresher \/ Saves \/ Shutdown \/ LeavingStep
  PROVE  PollInv'
<1>1. UNCHANGED <<kind, answer, manual, told, spent, resting>>
  BY DEF StartRefresher, Saves, Shutdown, LeavingStep, JobCancelled, StopMain, MainCancelled, Close,
         Exit, provider, refresher
<1>2. Timely' /\ RestOnlySpent'
  BY <1>1 DEF PollInv, Timely, RestOnlySpent
<1>3. PollTypes'
  <2>1. CASE StartRefresher \/ Saves \/ Shutdown
    BY <1>1, <2>1 DEF StartRefresher, Saves, Shutdown, refresher, PollInv, PollTypes
  <2>2. CASE JobCancelled
    BY <1>1, <2>2 DEF JobCancelled, Each, PollInv, PollTypes
  <2>3. CASE StopMain \/ MainCancelled \/ Close \/ Exit
    BY <1>1, <2>3 DEF StopMain, MainCancelled, Close, Exit, refresher, PollInv, PollTypes
  <2> QED BY <2>1, <2>2, <2>3 DEF LeavingStep
<1>4. NoneManual' /\ UsageSavedAtExit'
  BY <1>1 DEF StartRefresher, Saves, Shutdown, LeavingStep, JobCancelled, StopMain, MainCancelled,
              Close, Exit, refresher, PollInv, PollTypes, NoneManual, UsageSavedAtExit
<1>5. Order'
  <2>1. CASE StartRefresher \/ Saves \/ Shutdown
    BY <2>1 DEF StartRefresher, Saves, Shutdown, refresher, PollInv, PollTypes, Order, Each
  <2>2. CASE JobCancelled
    BY <2>2 DEF JobCancelled, Stopped, PollInv, PollTypes, Order, Each
  <2>3. CASE StopMain \/ MainCancelled
    BY <2>3 DEF StopMain, MainCancelled, Stopped, PollInv, PollTypes, Order, Each
  <2>4. CASE Close \/ Exit
    BY <2>4 DEF Close, Exit, refresher, PollInv, PollTypes, Order, Each
  <2> QED BY <2>1, <2>2, <2>3, <2>4 DEF LeavingStep
<1> QED BY <1>2, <1>3, <1>4, <1>5 DEF PollInv

LEMMA PollInductive == PollInv /\ [PollNext]_pollVars => PollInv'
<1> SUFFICES ASSUME PollInv, [PollNext]_pollVars PROVE PollInv'
  OBVIOUS
<1>1. CASE UNCHANGED pollVars
  BY <1>1 DEF pollVars, PollInv, PollTypes, Order, NoneManual, Timely, UsageSavedAtExit,
              RestOnlySpent, Each
<1>2. ASSUME NEW c \in Creds,
             \/ Use(c) \/ Unused(c) \/ Renew(c) \/ Ask(c) \/ Fetched(c) \/ Store(c)
             \/ StoreFails(c) \/ ManualStart(c) \/ ManualAnswered(c) \/ ManualStore(c)
      PROVE  PollInv'
  BY <1>2, UseStep, UnusedStep, RenewStep, FetchStep, SavesAnswer, ManualStep
<1>3. CASE StartRefresher \/ Saves \/ Shutdown \/ LeavingStep
  BY <1>3, StopStep
<1>4. CASE StartJobs \/ JobWakes \/ Gathered \/ PollEnds
  BY <1>4, BeginStep, JobEndsStep
<1> QED BY <1>1, <1>2, <1>3, <1>4 DEF PollNext, RefresherStep, JobStep

\* For any credentials, providers, answers and failures: after a shutdown nothing
\* polls, usage is in the file when the process ends, and a credential rests only
\* while its quota is spent, also when an answer is stored late.
THEOREM PollingStaysSound == PollSpec => []PollingSound
<1>1. PollInv => PollingSound
  BY DEF PollInv, Order, PollingSound, NothingAfterStop, UsageSavedAtExit, RestOnlySpent
<1> QED BY <1>1, PollInitial, PollInductive, PTL DEF PollSpec
==============================================================================
