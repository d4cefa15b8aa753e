----------------------------- MODULE StoreProofs -----------------------------
(***************************************************************************)
(* Proofs about what is kept for later requests.                             *)
(* The keys and token budgets of the admin database, for any keys, accounts, *)
(* forms and charges and any number of requests in flight: the tables fit    *)
(* together, and no client, reseller or distribution goes over its budget by *)
(* as much as the requests in flight may cost.                               *)
(* The providers' cache, for any keys, lives, stores and crashes: what is    *)
(* taken for saved is on file, memory is not behind, and what is young       *)
(* survives every write of the file.                                         *)
(* The summaries of long conversations, for any histories, sizes and budgets: *)
(* a cached summary is of the messages it is cached for, and what is sent in   *)
(* the place of a history holds its beginning and its end, and fits.          *)
(* The answers of Gemini, for any parts and usages of the chunks and any        *)
(* number of endpoints: calls have numbers of their own, and the reason and the *)
(* usage at the end are those of the whole answer.                              *)
(***************************************************************************)
EXTENDS ApiKeys, ProviderCache, ContextCompaction, GeminiStream, FiniteSetTheorems,
        WellFoundedInduction, TLAPS

-----------------------------------------------------------------------------
(* Sums over finite sets: SumFunctionOnSet is defined by recursion over      *)
(* subsets, picking an element each time.  The recursion has one solution,   *)
(* which does not depend on what is picked.  All of it follows from the      *)
(* least subset with a given property.                                       *)

\* A family of subsets of a finite set has a least member.
LEMMA LeastSubset ==
  ASSUME NEW S, IsFiniteSet(S), NEW F \in SUBSET (SUBSET S), F # {}
  PROVE  \E T \in F : \A U \in F : U \subseteq T => U = T
<1> DEFINE R == StrictSubsetOrdering(S)
<1>1. IsWellFoundedOn(R, SUBSET S)
  BY FS_StrictSubsetOrderingWellFounded, FS_FiniteSubsetsOfFinite
<1>2. \A T, U \in SUBSET S : <<U, T>> \in R <=> U \subseteq T /\ U # T
  BY DEF StrictSubsetOrdering
<1> HIDE DEF R
<1>3. PICK T \in F : \A U \in F : ~ (<<U, T>> \in R)
  BY <1>1, WFMin
<1> QED
  BY <1>2, <1>3

Pick(s) == CHOOSE x \in s : TRUE

\* What the recursion of a sum makes of the smaller sums g.
Term(w, s, g) == IF s = {} THEN 0 ELSE w[Pick(s)] + g[s \ {Pick(s)}]
Adds(w, S, g) == g = [s \in SUBSET S |-> Term(w, s, g)]

LEMMA PickIn ==
  ASSUME NEW s, s # {} PROVE Pick(s) \in s
BY DEF Pick

LEMMA SumIsAdds ==
  ASSUME NEW w, NEW S
  PROVE SumFunctionOnSet(w, S) = (CHOOSE g : Adds(w, S, g))[S]
BY Zenon DEF SumFunctionOnSet, FoldFunctionOnSet, MapThenFoldSet, Adds, Term, Pick

\* Sums of functions that agree are the same.
LEMMA AddsAgree ==
  ASSUME NEW S, IsFiniteSet(S), NEW w, NEW v, \A x \in S : w[x] = v[x],
         NEW T, NEW U, S \subseteq T, S \subseteq U, NEW g, NEW h,
         Adds(w, T, g), Adds(v, U, h)
  PROVE  g[S] = h[S]
<1> DEFINE F == {s \in SUBSET S : g[s] # h[s]}
<1>1. SUFFICES F = {}
  OBVIOUS
<1>2. SUFFICES ASSUME F # {} PROVE FALSE
  OBVIOUS
<1>3. PICK s \in F : \A r \in F : r \subseteq s => r = s
  <2>1. F \in SUBSET (SUBSET S)
    OBVIOUS
  <2> HIDE DEF F
  <2> QED
    BY <1>2, <2>1, LeastSubset
<1>4. s \in SUBSET S /\ s \in SUBSET T /\ s \in SUBSET U
  OBVIOUS
<1>5. g[s] = Term(w, s, g) /\ h[s] = Term(v, s, h)
  BY <1>4 DEF Adds
<1>6. s # {}
  BY <1>5 DEF Term
<1>7. Pick(s) \in s
  BY <1>6, PickIn
<1>8. s \ {Pick(s)} \notin F
  BY <1>3, <1>7
<1>9. g[s \ {Pick(s)}] = h[s \ {Pick(s)}]
  BY <1>8, <1>4
<1>10. w[Pick(s)] = v[Pick(s)]
  BY <1>7, <1>4
<1> QED
  BY <1>5, <1>6, <1>9, <1>10 DEF Term

\* The recursion has a solution.
LEMMA AddsExists ==
  ASSUME NEW S, IsFiniteSet(S), NEW w
  PROVE  \E g : Adds(w, S, g)
<1> DEFINE F == {s \in SUBSET S : ~ \E g : Adds(w, s, g)}
<1>1. SUFFICES F = {}
  OBVIOUS
<1>2. SUFFICES ASSUME F # {} PROVE FALSE
  OBVIOUS
<1>3. PICK T \in F : \A r \in F : r \subseteq T => r = T
  <2>1. F \in SUBSET (SUBSET S)
    OBVIOUS
  <2> HIDE DEF F
  <2> QED
    BY <1>2, <2>1, LeastSubset
<1>4. T \in SUBSET S /\ ~ \E g : Adds(w, T, g)
  OBVIOUS
<1> HIDE DEF F
<1> DEFINE G(s) == CHOOSE g : Adds(w, s, g)
           sum(s) == IF s = {} THEN 0 ELSE w[Pick(s)] + G(s \ {Pick(s)})[s \ {Pick(s)}]
           h == [s \in SUBSET T |-> sum(s)]
<1>5. ASSUME NEW s \in SUBSET T, s # T PROVE Adds(w, s, G(s))
  <2>1. s \in SUBSET S /\ s \notin F
    BY <1>3, <1>4, <1>5
  <2>2. \E g : Adds(w, s, g)
    BY <2>1 DEF F
  <2> QED
    BY <2>2
<1> HIDE DEF G
<1>6. ASSUME NEW s \in SUBSET T, s # T PROVE G(s)[s] = sum(s)
  <2>1. Adds(w, s, G(s)) /\ s \in SUBSET s
    BY <1>5, <1>6
  <2>2. G(s)[s] = Term(w, s, G(s))
    BY <2>1 DEF Adds
  <2>3. CASE s = {}
    BY <2>2, <2>3 DEF Term
  <2>4. CASE s # {}
    <3> DEFINE r == s \ {Pick(s)}
    <3>1. r \in SUBSET T /\ r # T /\ r \subseteq s /\ r \subseteq S
      BY <1>4, <1>6, <2>4, PickIn
    <3>2. Adds(w, r, G(r)) /\ IsFiniteSet(r)
      BY <1>5, <3>1, FS_Subset
    <3>3. G(s)[r] = G(r)[r]
      BY <2>1, <3>1, <3>2, AddsAgree
    <3> QED
      BY <2>2, <2>4, <3>3 DEF Term
  <2> QED
    BY <2>3, <2>4
<1>7. ASSUME NEW s \in SUBSET T PROVE sum(s) = Term(w, s, h)
  <2>1. CASE s = {}
    BY <2>1 DEF Term
  <2>2. CASE s # {}
    <3> DEFINE r == s \ {Pick(s)}
    <3>1. r \in SUBSET T /\ r # T
      BY <2>2, PickIn
    <3>2. G(r)[r] = sum(r)
      BY <1>6, <3>1
    <3>3. h[r] = sum(r)
      BY <3>1
    <3>4. sum(s) = w[Pick(s)] + G(r)[r]
      BY <2>2
    <3> HIDE DEF h, sum
    <3> QED
      BY <2>2, <3>2, <3>3, <3>4 DEF Term
  <2> QED
    BY <2>1, <2>2
<1> HIDE DEF sum
<1>8. Adds(w, T, h)
  BY <1>7 DEF Adds
<1> QED
  BY <1>4, <1>8

\* The recursive equation of a sum.
LEMMA SumIs ==
  ASSUME NEW S, IsFiniteSet(S), NEW w
  PROVE  \E g : Adds(w, S, g) /\ SumFunctionOnSet(w, S) = g[S]
BY AddsExists, SumIsAdds

LEMMA SumNone ==
  ASSUME NEW w
  PROVE SumFunctionOnSet(w, {}) = 0
<1>1. PICK g : Adds(w, {}, g) /\ SumFunctionOnSet(w, {}) = g[{}]
  BY SumIs, FS_EmptySet
<1> QED
  BY <1>1 DEF Adds, Term

LEMMA SumAgree ==
  ASSUME NEW S, IsFiniteSet(S), NEW w, NEW v, \A x \in S : w[x] = v[x]
  PROVE  SumFunctionOnSet(w, S) = SumFunctionOnSet(v, S)
<1>1. PICK g : Adds(w, S, g) /\ SumFunctionOnSet(w, S) = g[S]
  BY SumIs
<1>2. PICK h : Adds(v, S, h) /\ SumFunctionOnSet(v, S) = h[S]
  BY SumIs
<1> QED
  BY <1>1, <1>2, AddsAgree

LEMMA SumPick ==
  ASSUME NEW S, IsFiniteSet(S), S # {}, NEW w
  PROVE  SumFunctionOnSet(w, S) = w[Pick(S)] + SumFunctionOnSet(w, S \ {Pick(S)})
<1> DEFINE r == S \ {Pick(S)}
<1>1. IsFiniteSet(r)
  BY FS_Subset
<1>2. PICK g : Adds(w, S, g) /\ SumFunctionOnSet(w, S) = g[S]
  BY SumIs
<1>3. PICK h : Adds(w, r, h) /\ SumFunctionOnSet(w, r) = h[r]
  BY <1>1, SumIs
<1>4. r \subseteq S /\ \A x \in r : w[x] = w[x]
  OBVIOUS
<1>6. g[r] = h[r]
  <2> HIDE DEF r
  <2> QED
    BY <1>1, <1>2, <1>3, <1>4, AddsAgree
<1>5. g[S] = Term(w, S, g)
  BY <1>2 DEF Adds
<1> QED
  BY <1>2, <1>3, <1>5, <1>6 DEF Term

LEMMA SumNat ==
  ASSUME NEW S, IsFiniteSet(S), NEW w, \A x \in S : w[x] \in Nat
  PROVE  SumFunctionOnSet(w, S) \in Nat
<1> DEFINE F == {s \in SUBSET S : SumFunctionOnSet(w, s) \notin Nat}
<1>1. SUFFICES F = {}
  OBVIOUS
<1>2. SUFFICES ASSUME F # {} PROVE FALSE
  OBVIOUS
<1>3. PICK s \in F : \A r \in F : r \subseteq s => r = s
  <2>1. F \in SUBSET (SUBSET S)
    OBVIOUS
  <2> HIDE DEF F
  <2> QED
    BY <1>2, <2>1, LeastSubset
<1>4. s \in SUBSET S /\ SumFunctionOnSet(w, s) \notin Nat /\ IsFiniteSet(s)
  BY FS_Subset
<1>5. s # {}
  BY <1>4, SumNone
<1>6. Pick(s) \in s
  BY <1>5, PickIn
<1>7. SumFunctionOnSet(w, s \ {Pick(s)}) \in Nat
  BY <1>3, <1>4, <1>6
<1>8. w[Pick(s)] \in Nat
  BY <1>4, <1>6
<1> QED
  BY <1>4, <1>5, <1>7, <1>8, SumPick

\* A sum is any of its terms and the sum of the others.
LEMMA SumSplit ==
  ASSUME NEW S, IsFiniteSet(S), NEW w, \A y \in S : w[y] \in Nat, NEW x \in S
  PROVE  SumFunctionOnSet(w, S) = w[x] + SumFunctionOnSet(w, S \ {x})
<1> DEFINE Good(s) == \A y \in s : SumFunctionOnSet(w, s) = w[y] + SumFunctionOnSet(w, s \ {y})
           F == {s \in SUBSET S : ~Good(s)}
<1>1. SUFFICES F = {}
  OBVIOUS
<1>2. SUFFICES ASSUME F # {} PROVE FALSE
  OBVIOUS
<1>3. PICK s \in F : \A r \in F : r \subseteq s => r = s
  <2>1. F \in SUBSET (SUBSET S)
    OBVIOUS
  <2> HIDE DEF F
  <2> QED
    BY <1>2, <2>1, LeastSubset
<1>4. s \in SUBSET S /\ ~Good(s) /\ IsFiniteSet(s)
  BY FS_Subset
<1>5. PICK y \in s : SumFunctionOnSet(w, s) # w[y] + SumFunctionOnSet(w, s \ {y})
  BY <1>4
<1> DEFINE p == Pick(s)
<1>6. p \in s
  BY <1>5, PickIn
<1>7. SumFunctionOnSet(w, s) = w[p] + SumFunctionOnSet(w, s \ {p})
  BY <1>4, <1>5, SumPick
<1>8. p # y
  BY <1>5, <1>7
<1>9. Good(s \ {p}) /\ Good(s \ {y})
  BY <1>3, <1>4, <1>5, <1>6
<1>10. SumFunctionOnSet(w, s \ {p}) = w[y] + SumFunctionOnSet(w, (s \ {p}) \ {y})
  BY <1>5, <1>8, <1>9
<1>11. SumFunctionOnSet(w, s \ {y}) = w[p] + SumFunctionOnSet(w, (s \ {y}) \ {p})
  BY <1>6, <1>8, <1>9
<1>12. (s \ {p}) \ {y} = (s \ {y}) \ {p}
  OBVIOUS
<1>13. w[p] \in Nat /\ w[y] \in Nat /\ SumFunctionOnSet(w, (s \ {p}) \ {y}) \in Nat
  <2>1. IsFiniteSet((s \ {p}) \ {y})
    BY <1>4, FS_Subset
  <2>2. \A z \in (s \ {p}) \ {y} : w[z] \in Nat
    BY <1>4
  <2> QED
    BY <1>4, <1>5, <1>6, <2>1, <2>2, SumNat
<1> HIDE DEF p
<1> QED
  BY <1>5, <1>7, <1>10, <1>11, <1>12, <1>13

\* A sum of nothing but zeros.
LEMMA SumZero ==
  ASSUME NEW S, IsFiniteSet(S), NEW w, \A y \in S : w[y] = 0
  PROVE  SumFunctionOnSet(w, S) = 0
<1> DEFINE F == {s \in SUBSET S : SumFunctionOnSet(w, s) # 0}
<1>1. SUFFICES ASSUME F # {} PROVE FALSE
  OBVIOUS
<1>2. PICK s \in F : \A r \in F : r \subseteq s => r = s
  <2>1. F \in SUBSET (SUBSET S)
    OBVIOUS
  <2> HIDE DEF F
  <2> QED
    BY <1>1, <2>1, LeastSubset
<1>3. s \in SUBSET S /\ SumFunctionOnSet(w, s) # 0 /\ IsFiniteSet(s)
  BY FS_Subset
<1>4. s # {} /\ Pick(s) \in s
  BY <1>3, SumNone, PickIn
<1>5. SumFunctionOnSet(w, s \ {Pick(s)}) = 0 /\ w[Pick(s)] = 0
  BY <1>2, <1>3, <1>4
<1> QED
  BY <1>3, <1>4, <1>5, SumPick

\* One term more.
LEMMA SumAdded ==
  ASSUME NEW S, IsFiniteSet(S), NEW w, NEW x, x \notin S,
         \A y \in S \cup {x} : w[y] \in Nat
  PROVE  SumFunctionOnSet(w, S \cup {x}) = w[x] + SumFunctionOnSet(w, S)
<1>1. IsFiniteSet(S \cup {x}) /\ x \in S \cup {x} /\ (S \cup {x}) \ {x} = S
  BY FS_AddElement
<1> QED
  BY <1>1, SumSplit

\* One term less is not more.
LEMMA SumLess ==
  ASSUME NEW S, IsFiniteSet(S), NEW w, \A y \in S : w[y] \in Nat, NEW x \in S
  PROVE  SumFunctionOnSet(w, S \ {x}) <= SumFunctionOnSet(w, S)
<1>1. IsFiniteSet(S \ {x}) /\ \A y \in S \ {x} : w[y] \in Nat
  BY FS_Subset
<1>2. SumFunctionOnSet(w, S \ {x}) \in Nat /\ w[x] \in Nat
  BY <1>1, SumNat
<1> QED
  BY <1>2, SumSplit

\* One term changes.
LEMMA SumChanged ==
  ASSUME NEW S, IsFiniteSet(S), NEW w, NEW v, NEW x \in S,
         \A y \in S : w[y] \in Nat /\ v[y] \in Nat, \A y \in S \ {x} : w[y] = v[y]
  PROVE  SumFunctionOnSet(v, S) = SumFunctionOnSet(w, S) - w[x] + v[x]
<1> DEFINE r == S \ {x}
<1>1. IsFiniteSet(r)
  BY FS_Subset
<1>2. SumFunctionOnSet(w, r) = SumFunctionOnSet(v, r)
  BY <1>1, SumAgree
<1>3. SumFunctionOnSet(w, r) \in Nat /\ w[x] \in Nat /\ v[x] \in Nat
  BY <1>1, SumNat
<1>4. SumFunctionOnSet(w, S) = w[x] + SumFunctionOnSet(w, r)
  BY SumSplit
<1>5. SumFunctionOnSet(v, S) = v[x] + SumFunctionOnSet(v, r)
  BY SumSplit
<1> HIDE DEF r
<1> QED
  BY <1>2, <1>3, <1>4, <1>5

LEMMA SumChanges ==
  \A S, f, g : \A x \in S :
    /\ IsFiniteSet(S) /\ \A y \in S : f[y] \in Nat /\ g[y] \in Nat
    /\ \A y \in S \ {x} : f[y] = g[y]
    => SumFunctionOnSet(g, S) = SumFunctionOnSet(f, S) - f[x] + g[x]
BY SumChanged

-----------------------------------------------------------------------------
(* The tables.                                                              *)

\* Requests and forms refer to keys by ids that are not given again: a request
\* to one of a client, a form to one of a reseller.  Resellers have no parents.
Linked ==
  /\ \A t \in Requests : inflight[t] # None =>
       /\ inflight[t] \in issued
       /\ inflight[t] \in DOMAIN keys => keys[inflight[t]].type = "client"
  /\ form # None =>
       /\ form \in issued
       /\ form \in DOMAIN keys => keys[form].type = "reseller"
  /\ \A k \in DOMAIN keys : keys[k].type = "reseller" => keys[k].parent = None

\* The master key of a reseller who is not active is switched off.
Inactive ==
  \A a \in DOMAIN accounts :
    accounts[a].status # "active" /\ accounts[a].key \notin toggled =>
      ~keys[accounts[a].key].active

TablesInv == TypeOK /\ Linked /\ NoOrphans /\ Inactive

\* Only a master has children, and a client key has none.
LEMMA ChildrenOfMasters ==
  ASSUME TypeOK, NoOrphans, NEW k \in DOMAIN keys, keys[k].type = "client"
  PROVE  Children(k) = {}
<1>1. k # None
  BY KeyConstants DEF TypeOK
<1> QED
  BY <1>1 DEF NoOrphans, Children

\* A suspended master key lets nobody through.
LEMMA InactiveSuspends ==
  ASSUME TypeOK, NoOrphans, Inactive
  PROVE  SuspensionHolds
<1>1. SUFFICES ASSUME NEW a \in DOMAIN accounts,
                      accounts[a].status # "active", accounts[a].key \notin toggled,
                      NEW k \in {accounts[a].key} \cup Children(accounts[a].key)
               PROVE  ~Usable(k)
  BY DEF SuspensionHolds
<1>2. ~keys[accounts[a].key].active
  BY <1>1 DEF Inactive
<1>3. CASE k = accounts[a].key
  BY <1>2, <1>3 DEF Usable, Open
<1>4. CASE k \in Children(accounts[a].key)
  <2>1. keys[k].parent = accounts[a].key /\ accounts[a].key \in DOMAIN keys
    BY <1>4 DEF Children, NoOrphans
  <2>2. accounts[a].key # None
    BY <2>1, KeyConstants DEF TypeOK
  <2> QED
    BY <1>2, <2>1, <2>2 DEF Usable, Open
<1> QED
  BY <1>1, <1>3, <1>4

LEMMA TablesStart ==
  ASSUME Init
  PROVE  TablesInv
<1>1. DOMAIN keys = {} /\ DOMAIN accounts = {}
  BY DEF Init
<1>2. TypeOK
  BY <1>1, KeyConstants DEF Init, TypeOK, NoUsage
<1>3. Linked
  BY <1>1 DEF Init, Linked
<1>4. \A k \in Keys : Total(k) = 0
  BY DEF Init, Total, NoUsage
<1>5. NoOrphans
  BY <1>1, <1>4 DEF NoOrphans
<1>6. Inactive
  BY <1>1 DEF Inactive
<1> QED
  BY <1>2, <1>3, <1>5, <1>6 DEF TablesInv

-----------------------------------------------------------------------------
(* Steps that keep the family: the keys, their types and their parents.     *)

SameFamily ==
  /\ DOMAIN keys' = DOMAIN keys
  /\ \A x \in DOMAIN keys : keys'[x].type = keys[x].type /\ keys'[x].parent = keys[x].parent

LEMMA Amended ==
  ASSUME TypeOK, NEW k \in DOMAIN keys, NEW row \in Key,
         row.type = keys[k].type, row.parent = keys[k].parent, Update(k, row)
  PROVE  /\ SameFamily
         /\ keys' \in [DOMAIN keys' -> Key]
         /\ keys'[k] = row
         /\ \A x \in DOMAIN keys : x # k => keys'[x] = keys[x]
BY DEF TypeOK, Update, SameFamily

LEMMA FamilyKept ==
  ASSUME TablesInv, SameFamily,
         DOMAIN accounts' = DOMAIN accounts,
         \A a \in DOMAIN accounts : accounts'[a].key = accounts[a].key,
         \A x \in Keys \ DOMAIN keys : Total(x)' = Total(x),
         \A t \in Requests : inflight'[t] \in {inflight[t], None},
         form' \in {form, None}, issued' = issued
  PROVE  Linked' /\ NoOrphans'
<1>1. Linked'
  BY DEF TablesInv, Linked, SameFamily
<1>2. \A k \in DOMAIN keys' : keys'[k].parent # None =>
        keys'[k].parent \in DOMAIN keys' /\ keys'[keys'[k].parent].type = "reseller"
  BY DEF TablesInv, NoOrphans, SameFamily
<1>3. \A a, b \in DOMAIN accounts' :
        /\ accounts'[a].key \in DOMAIN keys'
        /\ keys'[accounts'[a].key].type = "reseller"
        /\ accounts'[a].key = accounts'[b].key => a = b
  BY DEF TablesInv, NoOrphans, SameFamily
<1>4. \A k \in Keys : Total(k)' > 0 => k \in DOMAIN keys'
  BY DEF TablesInv, NoOrphans, SameFamily
<1> QED
  BY <1>1, <1>2, <1>3, <1>4 DEF NoOrphans

LEMMA MaxOfNat ==
  ASSUME NEW n \in Nat, NEW m \in Int
  PROVE  Max({n, m}) \in Nat /\ Max({n, m}) >= n
<1>1. \E x \in {n, m} : \A y \in {n, m} : x >= y
  <2>1. CASE n >= m
    BY <2>1
  <2>2. CASE m >= n
    BY <2>2
  <2> QED
    BY <2>1, <2>2
<1>2. Max({n, m}) \in {n, m} /\ \A y \in {n, m} : Max({n, m}) >= y
  BY <1>1 DEF Max
<1> QED
  BY <1>2

LEMMA ExpiryType ==
  ASSUME TypeOK, NEW days \in Nat
  PROVE  Expiry(days) \in Nat
<1>1. day + days \in Nat
  BY DEF TypeOK
<1> QED
  BY <1>1 DEF Expiry

\* A key with other limits, and the note of a budget that shrank.
LEMMA BudgetSet ==
  ASSUME TypeOK, NEW k \in DOMAIN keys, NEW tokens \in Nat, NEW daily \in Nat,
         NEW row \in Key, row.type = keys[k].type, row.parent = keys[k].parent,
         SetBudget(k, tokens, daily, row)
  PROVE  /\ SameFamily
         /\ keys' \in [DOMAIN keys' -> Key]
         /\ keys'[k].token_limit = tokens /\ keys'[k].daily_limit = daily
         /\ keys'[k].active = row.active
         /\ \A x \in DOMAIN keys : x # k => keys'[x] = keys[x]
         /\ rebudgeted' \in SUBSET Keys /\ rebudgeted \subseteq rebudgeted'
         /\ k \notin rebudgeted' =>
              /\ tokens >= keys[k].token_limit /\ (keys[k].token_limit = 0 => tokens = 0)
              /\ daily >= keys[k].daily_limit /\ (keys[k].daily_limit = 0 => daily = 0)
<1> DEFINE new == [row EXCEPT !.token_limit = tokens, !.daily_limit = daily]
<1>1. /\ new \in Key /\ new.type = row.type /\ new.parent = row.parent
      /\ new.token_limit = tokens /\ new.daily_limit = daily
      /\ new.active = row.active
  BY DEF Key
<1>2. Update(k, new)
  BY DEF SetBudget
<1>3. rebudgeted' \in {rebudgeted \cup {k}, rebudgeted}
  BY DEF SetBudget
<1>4. k \in Keys /\ rebudgeted \subseteq Keys
  BY DEF TypeOK
<1>5. keys[k].token_limit \in Nat /\ keys[k].daily_limit \in Nat
  BY DEF TypeOK, Key
<1>6. k \notin rebudgeted' =>
        /\ tokens >= keys[k].token_limit /\ (keys[k].token_limit = 0 => tokens = 0)
        /\ daily >= keys[k].daily_limit /\ (keys[k].daily_limit = 0 => daily = 0)
  BY <1>5 DEF SetBudget
<1> HIDE DEF new
<1>7. /\ SameFamily /\ keys' \in [DOMAIN keys' -> Key] /\ keys'[k] = new
      /\ \A x \in DOMAIN keys : x # k => keys'[x] = keys[x]
  BY <1>1, <1>2, Amended
<1> QED
  BY <1>1, <1>3, <1>4, <1>6, <1>7

\* The rows of forms.
LEMMA FormTypes ==
  ASSUME NEW f \in Forms
  PROVE  f.tokens \in Nat /\ f.daily \in Nat /\ f.days \in Nat
BY KeyConstants

\* approve_reseller keeps the tables.
LEMMA ApproveKeeps ==
  ASSUME TablesInv, NEW a \in Accounts, NEW f \in Forms, Approve(a, f), edits' \in Nat
  PROVE  TablesInv'
<1> USE DEF TablesInv
<1> DEFINE k == accounts[a].key
           row == [keys[k] EXCEPT !.active = TRUE, !.expires_at = Expiry(f.days)]
<1>1. a \in DOMAIN accounts /\ k \in DOMAIN keys /\ keys[k] \in Key
  BY DEF Approve, NoOrphans, TypeOK
<1>2. f.tokens \in Nat /\ Expiry(f.days) \in Nat /\ keys[k].daily_limit \in Nat
  BY <1>1, FormTypes, ExpiryType DEF Key
<1>3. row \in Key /\ row.type = keys[k].type /\ row.parent = keys[k].parent
  BY <1>1, <1>2 DEF Key
<1>4. SetBudget(k, f.tokens, keys[k].daily_limit, row)
  BY DEF Approve
<1> HIDE DEF row
<1>5. /\ SameFamily /\ keys' \in [DOMAIN keys' -> Key]
      /\ \A x \in DOMAIN keys : x # k => keys'[x] = keys[x]
      /\ rebudgeted' \in SUBSET Keys
  BY <1>1, <1>2, <1>3, <1>4, BudgetSet
<1>6. /\ accounts' = [accounts EXCEPT ![a].status = "active"]
      /\ toggled' = toggled \ {k}
      /\ UNCHANGED <<usage, inflight, form, day, issued>>
  BY DEF Approve
<1>7. /\ DOMAIN accounts' = DOMAIN accounts
      /\ \A b \in DOMAIN accounts : accounts'[b].key = accounts[b].key
      /\ \A b \in DOMAIN accounts : b # a => accounts'[b] = accounts[b]
      /\ accounts'[a].status = "active" /\ accounts' \in [DOMAIN accounts' -> Account]
  BY <1>1, <1>6 DEF TypeOK, Account
<1>8. TypeOK'
  BY <1>5, <1>6, <1>7 DEF TypeOK, SameFamily
<1>9. Linked' /\ NoOrphans'
  BY <1>5, <1>6, <1>7, FamilyKept DEF Total
<1>10. Inactive'
  <2>1. SUFFICES ASSUME NEW b \in DOMAIN accounts, accounts'[b].status # "active",
                        accounts[b].key \notin toggled'
                 PROVE  ~keys'[accounts[b].key].active
    BY <1>7 DEF Inactive
  <2>2. b # a /\ accounts[b].key # k
    BY <1>1, <1>7, <2>1 DEF NoOrphans
  <2>3. keys'[accounts[b].key] = keys[accounts[b].key]
    BY <1>5, <2>2 DEF NoOrphans
  <2> QED
    BY <1>6, <1>7, <2>1, <2>2, <2>3 DEF Inactive
<1> QED
  BY <1>8, <1>9, <1>10

\* set_reseller_status keeps the tables.
LEMMA SetStatusKeeps ==
  ASSUME TablesInv, NEW a \in Accounts, NEW status \in {"active", "suspended"},
         SetStatus(a, status), edits' \in Nat
  PROVE  TablesInv'
<1> USE DEF TablesInv
<1> DEFINE k == accounts[a].key
           row == [keys[k] EXCEPT !.active = status = "active"]
<1>1. a \in DOMAIN accounts /\ k \in DOMAIN keys /\ keys[k] \in Key
  BY DEF SetStatus, NoOrphans, TypeOK
<1>2. /\ row \in Key /\ row.type = keys[k].type /\ row.parent = keys[k].parent
      /\ row.active = (status = "active")
  BY <1>1 DEF Key
<1>3. Update(k, row)
  BY DEF SetStatus
<1> HIDE DEF row
<1>4. /\ SameFamily /\ keys' \in [DOMAIN keys' -> Key] /\ keys'[k] = row
      /\ \A x \in DOMAIN keys : x # k => keys'[x] = keys[x]
  BY <1>1, <1>2, <1>3, Amended
<1>5. /\ accounts' = [accounts EXCEPT ![a].status = status]
      /\ toggled' = toggled \ {k}
      /\ UNCHANGED <<usage, inflight, form, day, issued, rebudgeted>>
  BY DEF SetStatus
<1>6. /\ DOMAIN accounts' = DOMAIN accounts
      /\ \A b \in DOMAIN accounts : accounts'[b].key = accounts[b].key
      /\ \A b \in DOMAIN accounts : b # a => accounts'[b] = accounts[b]
      /\ accounts'[a].status = status /\ accounts' \in [DOMAIN accounts' -> Account]
  BY <1>1, <1>5 DEF TypeOK, Account
<1>7. TypeOK'
  BY <1>4, <1>5, <1>6 DEF TypeOK, SameFamily
<1>8. Linked' /\ NoOrphans'
  BY <1>4, <1>5, <1>6, FamilyKept DEF Total
<1>9. Inactive'
  <2>1. SUFFICES ASSUME NEW b \in DOMAIN accounts, accounts'[b].status # "active",
                        accounts[b].key \notin toggled'
                 PROVE  ~keys'[accounts[b].key].active
    BY <1>6 DEF Inactive
  <2>2. CASE b = a
    BY <1>2, <1>4, <1>6, <2>1, <2>2
  <2>3. CASE b # a
    <3>1. accounts[b].key # k
      BY <1>1, <2>3 DEF NoOrphans
    <3>2. keys'[accounts[b].key] = keys[accounts[b].key]
      BY <1>4, <3>1 DEF NoOrphans
    <3> QED
      BY <1>5, <1>6, <2>1, <2>3, <3>1, <3>2 DEF Inactive
  <2> QED
    BY <2>2, <2>3
<1> QED
  BY <1>7, <1>8, <1>9

\* A step that keeps the accounts, the keys that are on and the keys switched by
\* hand keeps masters suspended.
LEMMA InactiveKept ==
  ASSUME TablesInv, accounts' = accounts, toggled \subseteq toggled',
         \A a \in DOMAIN accounts :
           accounts[a].key \notin toggled' =>
             keys'[accounts[a].key].active = keys[accounts[a].key].active
  PROVE  Inactive'
<1>1. SUFFICES ASSUME NEW a \in DOMAIN accounts, accounts[a].status # "active",
                      accounts[a].key \notin toggled'
               PROVE  ~keys'[accounts[a].key].active
  BY DEF Inactive
<1>2. ~keys[accounts[a].key].active
  BY <1>1 DEF TablesInv, Inactive
<1> QED
  BY <1>1, <1>2

\* The panel's toggle keeps the tables.
LEMMA ToggleKeeps ==
  ASSUME TablesInv, NEW k \in Keys, NEW on \in BOOLEAN, Toggle(k, on), edits' \in Nat
  PROVE  TablesInv'
<1> USE DEF TablesInv
<1> DEFINE row == [keys[k] EXCEPT !.active = on]
<1>1. k \in DOMAIN keys /\ keys[k] \in Key
  BY DEF Toggle, TypeOK
<1>2. row \in Key /\ row.type = keys[k].type /\ row.parent = keys[k].parent
  BY <1>1 DEF Key
<1>3. Update(k, row)
  BY DEF Toggle
<1> HIDE DEF row
<1>4. /\ SameFamily /\ keys' \in [DOMAIN keys' -> Key]
      /\ \A x \in DOMAIN keys : x # k => keys'[x] = keys[x]
  BY <1>1, <1>2, <1>3, Amended
<1>5. /\ toggled' = toggled \cup {k}
      /\ UNCHANGED <<usage, accounts, inflight, form, day, issued, rebudgeted>>
  BY DEF Toggle
<1>6. TypeOK'
  BY <1>4, <1>5 DEF TypeOK, SameFamily
<1>7. Linked' /\ NoOrphans'
  BY <1>4, <1>5, FamilyKept DEF Total
<1>8. Inactive'
  BY <1>4, <1>5, InactiveKept DEF NoOrphans
<1> QED
  BY <1>6, <1>7, <1>8

\* A change of limits keeps the tables.
LEMMA BudgetKeeps ==
  ASSUME TablesInv, NEW k \in DOMAIN keys, NEW tokens \in Nat, NEW daily \in Nat,
         NEW row \in Key, row.type = keys[k].type, row.parent = keys[k].parent,
         row.active = keys[k].active, SetBudget(k, tokens, daily, row),
         form' \in {form, None}, edits' \in Nat,
         UNCHANGED <<usage, accounts, inflight, day, issued, toggled>>
  PROVE  TablesInv'
<1> USE DEF TablesInv
<1>1. /\ SameFamily /\ keys' \in [DOMAIN keys' -> Key]
      /\ keys'[k].active = keys[k].active
      /\ \A x \in DOMAIN keys : x # k => keys'[x] = keys[x]
      /\ rebudgeted' \in SUBSET Keys
  BY BudgetSet
<1>3. TypeOK'
  BY <1>1 DEF TypeOK, SameFamily
<1>4. Linked' /\ NoOrphans'
  BY <1>1, FamilyKept DEF Total
<1>5. Inactive'
  BY <1>1, InactiveKept DEF NoOrphans
<1> QED
  BY <1>3, <1>4, <1>5

\* recharge_reseller sets a budget.
LEMMA RechargeResellerIs ==
  ASSUME TablesInv, NEW a \in Accounts, NEW delta \in Int, RechargeReseller(a, delta)
  PROVE  \E tokens \in Nat :
           /\ a \in DOMAIN accounts /\ accounts[a].key \in DOMAIN keys
           /\ keys[accounts[a].key].type = "reseller"
           /\ keys[accounts[a].key] \in Key
           /\ SetBudget(accounts[a].key, tokens, keys[accounts[a].key].daily_limit,
                        keys[accounts[a].key])
           /\ UNCHANGED <<usage, accounts, inflight, form, day, issued, toggled>>
<1> DEFINE k == accounts[a].key
           tokens == Max({0, keys[k].token_limit + delta})
<1>1. /\ a \in DOMAIN accounts /\ k \in DOMAIN keys
      /\ keys[k].type = "reseller" /\ keys[k] \in Key
  BY DEF RechargeReseller, TablesInv, NoOrphans, TypeOK
<1>2. keys[k].token_limit \in Nat
  BY <1>1 DEF Key
<1>3. keys[k].token_limit + delta \in Int
  BY <1>2
<1>4. tokens \in Nat
  BY <1>3, MaxOfNat
<1>5. SetBudget(k, tokens, keys[k].daily_limit, keys[k])
  BY DEF RechargeReseller
<1>6. UNCHANGED <<usage, accounts, inflight, form, day, issued, toggled>>
  BY DEF RechargeReseller
<1> HIDE DEF tokens
<1> QED
  BY <1>1, <1>4, <1>5, <1>6

LEMMA RechargeResellerKeeps ==
  ASSUME TablesInv, NEW a \in Accounts, NEW delta \in Int, RechargeReseller(a, delta),
         edits' \in Nat
  PROVE  TablesInv'
<1> DEFINE k == accounts[a].key
<1>1. PICK tokens \in Nat :
           /\ a \in DOMAIN accounts /\ k \in DOMAIN keys /\ keys[k].type = "reseller"
           /\ keys[k] \in Key
           /\ SetBudget(k, tokens, keys[k].daily_limit, keys[k])
           /\ UNCHANGED <<usage, accounts, inflight, form, day, issued, toggled>>
  BY RechargeResellerIs
<1>2. keys[k].daily_limit \in Nat
  BY <1>1 DEF Key
<1> HIDE DEF k
<1> QED
  BY <1>1, <1>2, BudgetKeeps

\* recharge_api_key sets a budget that is not smaller.
LEMMA RechargeIs ==
  ASSUME TypeOK, NEW k \in Keys, NEW f \in Forms, Recharge(k, f)
  PROVE  \E row \in Key, tokens \in Nat, daily \in Nat :
           /\ k \in DOMAIN keys
           /\ tokens = keys[k].token_limit + f.tokens
           /\ daily = keys[k].daily_limit + f.daily
           /\ row.type = keys[k].type /\ row.parent = keys[k].parent
           /\ row.active = keys[k].active
           /\ SetBudget(k, tokens, daily, row)
           /\ UNCHANGED <<usage, accounts, inflight, day, issued, toggled>>
<1> DEFINE tokens == keys[k].token_limit + f.tokens
           daily == keys[k].daily_limit + f.daily
           ends == IF f.days > 0 THEN Max({day, keys[k].expires_at}) + f.days
                   ELSE keys[k].expires_at
           row == [keys[k] EXCEPT !.expires_at = ends]
<1>1. k \in DOMAIN keys /\ keys[k] \in Key /\ day \in Nat
  BY DEF Recharge, TypeOK
<1>2. /\ keys[k].token_limit \in Nat /\ keys[k].daily_limit \in Nat
      /\ keys[k].expires_at \in Nat
  BY <1>1 DEF Key
<1>3. f.tokens \in Nat /\ f.daily \in Nat /\ f.days \in Nat
  BY FormTypes
<1>4. Max({day, keys[k].expires_at}) \in Nat
  <2>1. keys[k].expires_at \in Int
    BY <1>2
  <2> QED
    BY <1>1, <2>1, MaxOfNat
<1>5. ends \in Nat
  BY <1>2, <1>3, <1>4
<1>6. tokens \in Nat /\ daily \in Nat
  BY <1>2, <1>3
<1>7. SetBudget(k, tokens, daily, row)
  BY DEF Recharge
<1> HIDE DEF ends
<1>8. /\ row \in Key /\ row.type = keys[k].type /\ row.parent = keys[k].parent
      /\ row.active = keys[k].active
  BY <1>1, <1>5 DEF Key
<1>9. UNCHANGED <<usage, accounts, inflight, day, issued, toggled>>
  BY DEF Recharge
<1> HIDE DEF row
<1> QED
  BY <1>1, <1>6, <1>7, <1>8, <1>9

LEMMA RechargeKeeps ==
  ASSUME TablesInv, NEW k \in Keys, NEW f \in Forms, Recharge(k, f),
         form' \in {form, None}, edits' \in Nat
  PROVE  TablesInv'
<1>1. TypeOK
  BY DEF TablesInv
<1>2. PICK row \in Key, tokens \in Nat, daily \in Nat :
           /\ k \in DOMAIN keys
           /\ row.type = keys[k].type /\ row.parent = keys[k].parent
           /\ row.active = keys[k].active
           /\ SetBudget(k, tokens, daily, row)
           /\ UNCHANGED <<usage, accounts, inflight, day, issued, toggled>>
  BY <1>1, RechargeIs
<1> QED
  BY <1>2, BudgetKeeps

-----------------------------------------------------------------------------
(* New keys and accounts.                                                   *)

\* A key given now: nothing refers to it yet.
LEMMA Inserted ==
  ASSUME TablesInv, NEW k \in Keys, NEW row \in Key, Insert(k, row),
         row.parent # None =>
           row.parent \in DOMAIN keys /\ keys[row.parent].type = "reseller",
         row.type = "reseller" => row.parent = None,
         UNCHANGED <<usage, inflight, day, rebudgeted, toggled>>,
         form' \in {form, None}, edits' \in Nat
  PROVE  /\ DOMAIN keys' = DOMAIN keys \cup {k} /\ k \notin DOMAIN keys
         /\ keys' \in [DOMAIN keys' -> Key] /\ keys'[k] = row
         /\ \A x \in DOMAIN keys : keys'[x] = keys[x]
         /\ issued' = issued \cup {k} /\ k \notin issued
         /\ Linked'
         /\ \A x \in DOMAIN keys' : keys'[x].parent # None =>
              keys'[x].parent \in DOMAIN keys /\ keys'[keys'[x].parent].type = "reseller"
         /\ \A x \in Keys : Total(x)' > 0 => x \in DOMAIN keys
<1> USE DEF TablesInv
<1>1. /\ issued' = issued \cup {k} /\ k \notin issued
      /\ keys' = [x \in DOMAIN keys \cup {k} |-> IF x = k THEN row ELSE keys[x]]
  BY DEF Insert
<1>2. k \notin DOMAIN keys
  BY <1>1 DEF TypeOK
<1>3. /\ DOMAIN keys' = DOMAIN keys \cup {k} /\ keys'[k] = row
      /\ \A x \in DOMAIN keys : keys'[x] = keys[x]
      /\ keys' \in [DOMAIN keys' -> Key]
  BY <1>1, <1>2 DEF TypeOK
<1>4. Linked'
  <2>1. ASSUME NEW t \in Requests, inflight'[t] # None
        PROVE  /\ inflight'[t] \in issued'
               /\ inflight'[t] \in DOMAIN keys' => keys'[inflight'[t]].type = "client"
    BY <1>1, <1>3, <2>1 DEF Linked
  <2>2. ASSUME form' # None
        PROVE  /\ form' \in issued'
               /\ form' \in DOMAIN keys' => keys'[form'].type = "reseller"
    BY <1>1, <1>3, <2>2 DEF Linked
  <2>3. \A x \in DOMAIN keys' : keys'[x].type = "reseller" => keys'[x].parent = None
    BY <1>3 DEF Linked
  <2> QED
    BY <2>1, <2>2, <2>3 DEF Linked
<1>5. ASSUME NEW x \in DOMAIN keys', keys'[x].parent # None
      PROVE  keys'[x].parent \in DOMAIN keys /\ keys'[keys'[x].parent].type = "reseller"
  BY <1>3, <1>5 DEF NoOrphans
<1>6. \A x \in Keys : Total(x)' > 0 => x \in DOMAIN keys
  BY DEF NoOrphans, Total
<1> QED
  BY <1>1, <1>2, <1>3, <1>4, <1>5, <1>6

LEMMA RowType ==
  ASSUME TypeOK, NEW type \in {"client", "reseller"}, NEW parent \in Keys \cup {None},
         NEW f \in [tokens : Nat, daily : Nat, days : Nat]
  PROVE  /\ Row(type, parent, f) \in Key
         /\ Row(type, parent, f).type = type /\ Row(type, parent, f).parent = parent
         /\ Row(type, parent, f).token_limit = f.tokens
         /\ Row(type, parent, f).daily_limit = f.daily
<1>1. Expiry(f.days) \in Nat
  BY ExpiryType
<1> QED
  BY <1>1 DEF Row, Key

\* Keys without an account keep the tables.
LEMMA InsertKeeps ==
  ASSUME TablesInv, NEW k \in Keys, NEW row \in Key, Insert(k, row),
         row.parent # None =>
           row.parent \in DOMAIN keys /\ keys[row.parent].type = "reseller",
         row.type = "reseller" => row.parent = None,
         UNCHANGED <<usage, accounts, inflight, day, rebudgeted, toggled>>,
         form' \in {form, None}, edits' \in Nat
  PROVE  TablesInv'
<1> USE DEF TablesInv
<1>1. /\ DOMAIN keys' = DOMAIN keys \cup {k}
      /\ keys' \in [DOMAIN keys' -> Key] /\ keys'[k] = row
      /\ \A x \in DOMAIN keys : keys'[x] = keys[x]
      /\ issued' = issued \cup {k}
      /\ Linked'
      /\ \A x \in DOMAIN keys' : keys'[x].parent # None =>
           keys'[x].parent \in DOMAIN keys /\ keys'[keys'[x].parent].type = "reseller"
      /\ \A x \in Keys : Total(x)' > 0 => x \in DOMAIN keys
  BY Inserted
<1>2. TypeOK'
  BY <1>1 DEF TypeOK
<1>3. NoOrphans'
  BY <1>1 DEF NoOrphans
<1>4. Inactive'
  BY <1>1, InactiveKept DEF NoOrphans
<1> QED
  BY <1>1, <1>2, <1>3, <1>4

LEMMA CreateKeyIs ==
  ASSUME TypeOK, NEW type \in {"client", "reseller"},
         NEW f \in [tokens : Nat, daily : Nat, days : Nat], CreateKey(type, f)
  PROVE  \E k \in Keys, row \in Key :
           /\ Insert(k, row) /\ row.parent = None /\ row.type = type
           /\ UNCHANGED <<usage, accounts, inflight, form, day, rebudgeted, toggled>>
<1>1. PICK k \in Keys : Insert(k, Row(type, None, f))
  BY DEF CreateKey
<1> QED
  BY <1>1, RowType DEF CreateKey

LEMMA CreateKeyKeeps ==
  ASSUME TablesInv, NEW type \in {"client", "reseller"},
         NEW f \in [tokens : Nat, daily : Nat, days : Nat], CreateKey(type, f),
         edits' \in Nat
  PROVE  TablesInv'
<1>1. PICK k \in Keys, row \in Key :
           /\ Insert(k, row) /\ row.parent = None
           /\ UNCHANGED <<usage, accounts, inflight, form, day, rebudgeted, toggled>>
  BY CreateKeyIs DEF TablesInv
<1> QED
  BY <1>1, InsertKeeps

\* The key of a client is the child of a master that is usable, and distributes no
\* more than the master has.
LEMMA CreateClientIs ==
  ASSUME TablesInv, NEW f \in Forms, CreateClient(f)
  PROVE  \E k \in Keys, row \in Key :
           /\ Insert(k, row) /\ row.parent = form /\ row.type = "client"
           /\ row.token_limit = f.tokens
           /\ form \in DOMAIN keys /\ keys[form].type = "reseller"
           /\ Limited(form) => Allocated(form) + f.tokens <= keys[form].token_limit
           /\ form' = None
           /\ UNCHANGED <<usage, accounts, inflight, day, rebudgeted, toggled>>
<1>1. form \in DOMAIN keys /\ keys[form].type = "reseller" /\ form \in Keys \cup {None}
  BY DEF CreateClient, Usable, TablesInv, Linked, TypeOK
<1>2. PICK k \in Keys : Insert(k, Row("client", form, f))
  BY DEF CreateClient
<1>3. f \in [tokens : Nat, daily : Nat, days : Nat]
  BY KeyConstants
<1>4. /\ Row("client", form, f) \in Key /\ Row("client", form, f).type = "client"
      /\ Row("client", form, f).parent = form
      /\ Row("client", form, f).token_limit = f.tokens
  BY <1>1, <1>3, RowType DEF TablesInv
<1> QED
  BY <1>1, <1>2, <1>4 DEF CreateClient

LEMMA CreateClientKeeps ==
  ASSUME TablesInv, NEW f \in Forms, CreateClient(f), edits' \in Nat
  PROVE  TablesInv'
<1>1. PICK k \in Keys, row \in Key :
           /\ Insert(k, row) /\ row.parent = form /\ row.type = "client"
           /\ form \in DOMAIN keys /\ keys[form].type = "reseller"
           /\ form' = None
           /\ UNCHANGED <<usage, accounts, inflight, day, rebudgeted, toggled>>
  BY CreateClientIs
<1> QED
  BY <1>1, InsertKeeps

\* create_reseller_account gives the account a key that is off.
LEMMA SignupIs ==
  ASSUME TypeOK, NEW a \in Accounts, Signup(a)
  PROVE  \E k \in Keys, row \in Key :
           /\ Insert(k, row) /\ row.parent = None /\ row.type = "reseller"
           /\ row.active = FALSE
           /\ row.token_limit = 0 /\ row.daily_limit = 0
           /\ a \notin DOMAIN accounts
           /\ accounts' = [b \in DOMAIN accounts \cup {a} |->
                             IF b = a THEN [key |-> k, status |-> "pending"]
                             ELSE accounts[b]]
           /\ UNCHANGED <<usage, inflight, form, day, rebudgeted, toggled>>
<1> DEFINE row == [Row("reseller", None, NoLimits) EXCEPT !.active = FALSE]
<1>1. NoLimits \in [tokens : Nat, daily : Nat, days : Nat]
  BY DEF NoLimits
<1>2. /\ Row("reseller", None, NoLimits) \in Key
      /\ Row("reseller", None, NoLimits).type = "reseller"
      /\ Row("reseller", None, NoLimits).parent = None
      /\ Row("reseller", None, NoLimits).token_limit = NoLimits.tokens
      /\ Row("reseller", None, NoLimits).daily_limit = NoLimits.daily
  BY <1>1, RowType
<1>3. /\ row \in Key /\ row.type = "reseller" /\ row.parent = None
      /\ row.active = FALSE /\ row.token_limit = 0 /\ row.daily_limit = 0
  BY <1>2 DEF Key, NoLimits
<1>4. PICK k \in Keys :
        /\ Insert(k, row)
        /\ accounts' = [b \in DOMAIN accounts \cup {a} |->
                          IF b = a THEN [key |-> k, status |-> "pending"]
                          ELSE accounts[b]]
  BY DEF Signup
<1>5. a \notin DOMAIN accounts /\ UNCHANGED <<usage, inflight, form, day, rebudgeted, toggled>>
  BY DEF Signup
<1> HIDE DEF row
<1> QED
  BY <1>3, <1>4, <1>5

LEMMA SignupKeeps ==
  ASSUME TablesInv, NEW a \in Accounts, Signup(a), edits' \in Nat
  PROVE  TablesInv'
<1> USE DEF TablesInv
<1>1. PICK k \in Keys, row \in Key :
           /\ Insert(k, row) /\ row.parent = None /\ row.type = "reseller"
           /\ row.active = FALSE
           /\ a \notin DOMAIN accounts
           /\ accounts' = [b \in DOMAIN accounts \cup {a} |->
                             IF b = a THEN [key |-> k, status |-> "pending"]
                             ELSE accounts[b]]
           /\ UNCHANGED <<usage, inflight, form, day, rebudgeted, toggled>>
  BY SignupIs
<1>2. /\ DOMAIN keys' = DOMAIN keys \cup {k} /\ k \notin DOMAIN keys
      /\ keys' \in [DOMAIN keys' -> Key] /\ keys'[k] = row
      /\ \A x \in DOMAIN keys : keys'[x] = keys[x]
      /\ issued' = issued \cup {k}
      /\ Linked'
      /\ \A x \in DOMAIN keys' : keys'[x].parent # None =>
           keys'[x].parent \in DOMAIN keys /\ keys'[keys'[x].parent].type = "reseller"
      /\ \A x \in Keys : Total(x)' > 0 => x \in DOMAIN keys
  BY <1>1, Inserted
<1>3. /\ DOMAIN accounts' = DOMAIN accounts \cup {a}
      /\ accounts'[a].key = k /\ accounts'[a].status = "pending"
      /\ \A b \in DOMAIN accounts : accounts'[b] = accounts[b]
      /\ accounts' \in [DOMAIN accounts' -> Account]
  BY <1>1 DEF TypeOK, Account
<1>4. TypeOK'
  BY <1>1, <1>2, <1>3 DEF TypeOK
<1>5. NoOrphans'
  <2>1. ASSUME NEW b \in DOMAIN accounts'
        PROVE  accounts'[b].key \in DOMAIN keys' /\ keys'[accounts'[b].key].type = "reseller"
    BY <1>1, <1>2, <1>3 DEF NoOrphans
  <2>2. ASSUME NEW b \in DOMAIN accounts', NEW c \in DOMAIN accounts',
               accounts'[b].key = accounts'[c].key
        PROVE  b = c
    BY <1>2, <1>3, <2>2 DEF NoOrphans
  <2> QED
    BY <1>2, <2>1, <2>2 DEF NoOrphans
<1>6. Inactive'
  <2>1. SUFFICES ASSUME NEW b \in DOMAIN accounts', accounts'[b].status # "active",
                        accounts'[b].key \notin toggled'
                 PROVE  ~keys'[accounts'[b].key].active
    BY DEF Inactive
  <2>2. CASE b = a
    BY <1>1, <1>2, <1>3, <2>2
  <2>3. CASE b # a
    BY <1>1, <1>2, <1>3, <2>1, <2>3 DEF Inactive, NoOrphans
  <2> QED
    BY <2>2, <2>3
<1> QED
  BY <1>2, <1>4, <1>5, <1>6

\* attach_account_to_reseller_key gives a key that has no account to one.
LEMMA AttachKeeps ==
  ASSUME TablesInv, NEW a \in Accounts, NEW k \in Keys, Attach(a, k), edits' \in Nat
  PROVE  TablesInv'
<1> USE DEF TablesInv
<1>1. /\ a \notin DOMAIN accounts /\ k \in DOMAIN keys /\ keys[k].type = "reseller"
      /\ \A b \in DOMAIN accounts : accounts[b].key # k
      /\ accounts' = [b \in DOMAIN accounts \cup {a} |->
                        IF b = a THEN [key |-> k, status |-> "active"] ELSE accounts[b]]
      /\ UNCHANGED <<keys, usage, inflight, form, day, issued, rebudgeted, toggled>>
  BY DEF Attach
<1>2. /\ DOMAIN accounts' = DOMAIN accounts \cup {a}
      /\ accounts'[a].key = k /\ accounts'[a].status = "active"
      /\ \A b \in DOMAIN accounts : accounts'[b] = accounts[b]
      /\ accounts' \in [DOMAIN accounts' -> Account]
  BY <1>1 DEF TypeOK, Account
<1>3. TypeOK'
  BY <1>1, <1>2 DEF TypeOK
<1>4. Linked'
  BY <1>1 DEF Linked
<1>5. NoOrphans'
  <2>1. ASSUME NEW b \in DOMAIN accounts'
        PROVE  accounts'[b].key \in DOMAIN keys' /\ keys'[accounts'[b].key].type = "reseller"
    BY <1>1, <1>2 DEF NoOrphans
  <2>2. ASSUME NEW b \in DOMAIN accounts', NEW c \in DOMAIN accounts',
               accounts'[b].key = accounts'[c].key
        PROVE  b = c
    BY <1>1, <1>2, <2>2 DEF NoOrphans
  <2>3. \A x \in Keys : Total(x)' > 0 => x \in DOMAIN keys'
    BY <1>1 DEF NoOrphans, Total
  <2> QED
    BY <1>1, <2>1, <2>2, <2>3 DEF NoOrphans
<1>6. Inactive'
  BY <1>1, <1>2 DEF Inactive
<1> QED
  BY <1>3, <1>4, <1>5, <1>6

-----------------------------------------------------------------------------
(* Keys that are deleted go with their children.                            *)

LEMMA Deleted ==
  ASSUME TypeOK, NEW gone, Delete(gone)
  PROVE  /\ DOMAIN keys' = DOMAIN keys \ gone
         /\ keys' \in [DOMAIN keys' -> Key]
         /\ \A x \in DOMAIN keys' : keys'[x] = keys[x]
         /\ \A x \in Keys : usage'[x] = IF x \in gone THEN NoUsage ELSE usage[x]
         /\ DOMAIN accounts' = {b \in DOMAIN accounts : accounts[b].key \notin gone}
         /\ \A b \in DOMAIN accounts' : accounts'[b] = accounts[b]
         /\ rebudgeted' = rebudgeted \ gone /\ toggled' = toggled \ gone
<1>1. /\ keys' = [x \in DOMAIN keys \ gone |-> keys[x]]
      /\ usage' = [x \in Keys |-> IF x \in gone THEN NoUsage ELSE usage[x]]
      /\ accounts' = [a \in {b \in DOMAIN accounts : accounts[b].key \notin gone}
                        |-> accounts[a]]
      /\ rebudgeted' = rebudgeted \ gone /\ toggled' = toggled \ gone
  BY DEF Delete
<1>2. /\ DOMAIN keys' = DOMAIN keys \ gone
      /\ \A x \in DOMAIN keys' : keys'[x] = keys[x]
      /\ keys' \in [DOMAIN keys' -> Key]
  BY <1>1 DEF TypeOK
<1> QED
  BY <1>1, <1>2

LEMMA DeleteKeeps ==
  ASSUME TablesInv, NEW k \in DOMAIN keys, Delete({k} \cup Children(k)),
         UNCHANGED <<inflight, form, day, issued>>, edits' \in Nat
  PROVE  TablesInv'
<1> USE DEF TablesInv
<1> DEFINE gone == {k} \cup Children(k)
<1>1. /\ DOMAIN keys' = DOMAIN keys \ gone
      /\ keys' \in [DOMAIN keys' -> Key]
      /\ \A x \in DOMAIN keys' : keys'[x] = keys[x]
      /\ \A x \in Keys : usage'[x] = IF x \in gone THEN NoUsage ELSE usage[x]
      /\ DOMAIN accounts' = {b \in DOMAIN accounts : accounts[b].key \notin gone}
      /\ \A b \in DOMAIN accounts' : accounts'[b] = accounts[b]
      /\ rebudgeted' = rebudgeted \ gone /\ toggled' = toggled \ gone
  BY Deleted
<1>2. \A x \in Children(k) : keys[x].type = "client" /\ x \in DOMAIN keys
  <2>1. SUFFICES ASSUME NEW x \in Children(k) PROVE keys[x].type = "client" /\ x \in DOMAIN keys
    OBVIOUS
  <2>2. x \in DOMAIN keys /\ keys[x].parent = k /\ k \in Keys /\ keys[x] \in Key
    BY DEF Children, TypeOK
  <2>3. keys[x].parent # None
    BY <2>2, KeyConstants
  <2> QED
    BY <2>2, <2>3 DEF Linked, Key
<1>3. \A x \in DOMAIN keys' : keys'[x].parent # None =>
        keys'[x].parent \in DOMAIN keys' /\ keys'[keys'[x].parent].type = "reseller"
  <2>1. SUFFICES ASSUME NEW x \in DOMAIN keys', keys'[x].parent # None
                 PROVE  keys'[x].parent \in DOMAIN keys' /\ keys'[keys'[x].parent].type = "reseller"
    OBVIOUS
  <2>2. x \in DOMAIN keys /\ keys'[x] = keys[x] /\ x \notin Children(k)
    BY <1>1
  <2>3. /\ keys[x].parent \in DOMAIN keys /\ keys[keys[x].parent].type = "reseller"
        /\ keys[x].parent # k
    BY <2>1, <2>2 DEF NoOrphans, Children
  <2>4. keys[x].parent \notin Children(k)
    BY <1>2, <2>3
  <2> QED
    BY <1>1, <2>2, <2>3, <2>4
<1>4. TypeOK'
  <2>1. usage' \in [Keys -> [today : Nat, earlier : Nat]]
    <3>1. usage' = [x \in Keys |-> IF x \in gone THEN NoUsage ELSE usage[x]]
      BY DEF Delete
    <3>2. NoUsage \in [today : Nat, earlier : Nat]
      BY DEF NoUsage
    <3> QED
      BY <3>1, <3>2 DEF TypeOK
  <2>2. accounts' \in [DOMAIN accounts' -> Account]
    <3>1. accounts' = [a \in {b \in DOMAIN accounts : accounts[b].key \notin gone}
                        |-> accounts[a]]
      BY DEF Delete
    <3> QED
      BY <3>1 DEF TypeOK
  <2> HIDE DEF gone
  <2> QED
    BY <1>1, <2>1, <2>2 DEF TypeOK
<1>5. Linked'
  BY <1>1 DEF Linked
<1>6. \A b \in DOMAIN accounts' :
        /\ b \in DOMAIN accounts /\ accounts'[b] = accounts[b]
        /\ accounts[b].key \in DOMAIN keys'
  BY <1>1 DEF NoOrphans
<1>7. NoOrphans'
  <2>1. \A b \in DOMAIN accounts' : keys'[accounts'[b].key].type = "reseller"
    BY <1>1, <1>6 DEF NoOrphans
  <2>2. \A b, c \in DOMAIN accounts' : accounts'[b].key = accounts'[c].key => b = c
    BY <1>6 DEF NoOrphans
  <2>3. ASSUME NEW x \in Keys, Total(x)' > 0 PROVE x \in DOMAIN keys'
    <3>1. x \notin gone
      BY <1>1, <2>3 DEF Total, NoUsage
    <3>2. Total(x) > 0
      BY <1>1, <2>3, <3>1 DEF Total
    <3> QED
      BY <1>1, <3>1, <3>2 DEF NoOrphans
  <2> QED
    BY <1>3, <1>6, <2>1, <2>2, <2>3 DEF NoOrphans
<1>8. Inactive'
  <2>1. \A b \in DOMAIN accounts' : accounts[b].key \notin gone
    BY <1>1
  <2> QED
    BY <1>1, <1>6, <2>1 DEF Inactive
<1> QED
  BY <1>4, <1>5, <1>7, <1>8

-----------------------------------------------------------------------------
(* Forms, requests and days.                                                *)

LEMMA FormKeeps ==
  ASSUME TablesInv, CloseForm \/ \E r \in Keys : OpenForm(r), edits' \in Nat
  PROVE  TablesInv'
<1> USE DEF TablesInv
<1>1. /\ UNCHANGED <<keys, usage, accounts, inflight, day, issued, rebudgeted, toggled>>
      /\ form' # None => form' \in DOMAIN keys /\ keys[form'].type = "reseller"
      /\ form' \in Keys \cup {None}
  BY DEF CloseForm, OpenForm
<1>2. TypeOK'
  BY <1>1 DEF TypeOK
<1>3. Linked'
  <2>1. DOMAIN keys \subseteq issued
    BY DEF TypeOK
  <2> QED
    BY <1>1, <2>1 DEF Linked
<1>4. NoOrphans'
  BY <1>1 DEF NoOrphans, Total
<1>5. Inactive'
  BY <1>1 DEF Inactive
<1> QED
  BY <1>2, <1>3, <1>4, <1>5

LEMMA AdmitKeeps ==
  ASSUME TablesInv, NEW t \in Requests, NEW k \in Keys, Admit(t, k), edits' \in Nat
  PROVE  TablesInv'
<1> USE DEF TablesInv
<1>1. /\ k \in DOMAIN keys /\ keys[k].type = "client"
      /\ inflight' = [inflight EXCEPT ![t] = k]
      /\ UNCHANGED <<keys, usage, accounts, form, day, issued, rebudgeted, toggled>>
  BY DEF Admit, Usable
<1>2. TypeOK'
  BY <1>1 DEF TypeOK
<1>3. Linked'
  <2>1. \A r \in Requests : inflight'[r] = IF r = t THEN k ELSE inflight[r]
    BY <1>1 DEF TypeOK
  <2>2. k \in issued
    BY <1>1 DEF TypeOK
  <2> QED
    BY <1>1, <2>1, <2>2 DEF Linked
<1>4. NoOrphans'
  BY <1>1 DEF NoOrphans, Total
<1>5. Inactive'
  BY <1>1 DEF Inactive
<1> QED
  BY <1>2, <1>3, <1>4, <1>5

LEMMA EndKeeps ==
  ASSUME TablesInv, NEW t \in Requests, edits' \in Nat,
         EndUncharged(t) \/ \E n \in 0..MaxCharge : Charge(t, n)
  PROVE  TablesInv'
<1> USE DEF TablesInv
<1>1. /\ inflight' = [inflight EXCEPT ![t] = None]
      /\ UNCHANGED <<keys, accounts, form, day, issued, rebudgeted, toggled>>
  BY DEF EndUncharged, Charge
<1>2. usage' \in [Keys -> [today : Nat, earlier : Nat]]
  <2>1. CASE EndUncharged(t)
    BY <2>1 DEF EndUncharged, TypeOK
  <2>2. ASSUME NEW n \in 0..MaxCharge, Charge(t, n)
        PROVE  usage' \in [Keys -> [today : Nat, earlier : Nat]]
    <3>1. CASE inflight[t] \notin DOMAIN keys
      BY <2>2, <3>1 DEF Charge, TypeOK
    <3>2. CASE inflight[t] \in DOMAIN keys
      <4> DEFINE c == inflight[t]
      <4>1. c \in Keys /\ usage[c] \in [today : Nat, earlier : Nat]
        BY <3>2 DEF TypeOK
      <4>2. n \in Nat
        BY KeyConstants
      <4>3. usage[c].today + n \in Nat
        BY <4>1, <4>2
      <4>4. usage' = [usage EXCEPT ![c].today = usage[c].today + n]
        BY <2>2, <3>2 DEF Charge
      <4> HIDE DEF c
      <4> QED
        BY <4>1, <4>3, <4>4 DEF TypeOK
    <3> QED
      BY <3>1, <3>2
  <2> QED
    BY <2>1, <2>2
<1>3. \A x \in Keys \ DOMAIN keys : usage'[x] = usage[x]
  BY DEF EndUncharged, Charge, TypeOK
<1>4. \A r \in Requests : inflight'[r] \in {inflight[r], None}
  BY <1>1 DEF TypeOK
<1>5. TypeOK'
  BY <1>1, <1>2 DEF TypeOK
<1>6. Linked' /\ NoOrphans'
  <2>1. SameFamily
    BY <1>1 DEF SameFamily
  <2>2. \A x \in Keys \ DOMAIN keys : Total(x)' = Total(x)
    BY <1>3 DEF Total
  <2> QED
    BY <1>1, <1>4, <2>1, <2>2, FamilyKept
<1>7. Inactive'
  BY <1>1 DEF Inactive
<1> QED
  BY <1>5, <1>6, <1>7

\* A new day forgets no usage: what was of today is of an earlier day.
LEMMA NewDayIs ==
  ASSUME TypeOK, NewDay
  PROVE  /\ usage' \in [Keys -> [today : Nat, earlier : Nat]]
         /\ \A x \in Keys : Total(x)' = Total(x) /\ usage'[x].today = 0
         /\ day' \in Nat
         /\ UNCHANGED <<keys, accounts, inflight, form, issued, rebudgeted, toggled>>
<1>1. \A x \in Keys : usage[x].today \in Nat /\ usage[x].earlier \in Nat
  BY DEF TypeOK
<1>2. \A x \in Keys : Total(x) \in Nat
  BY <1>1 DEF Total
<1>3. usage' = [k \in Keys |-> [today |-> 0, earlier |-> Total(k)]]
  BY DEF NewDay
<1>4. \A x \in Keys : Total(x)' = 0 + Total(x)
  BY <1>3 DEF Total
<1>5. day' \in Nat
  BY DEF NewDay, TypeOK
<1> QED
  BY <1>2, <1>3, <1>4, <1>5 DEF NewDay

LEMMA NewDayKeeps ==
  ASSUME TablesInv, NewDay, edits' \in Nat
  PROVE  TablesInv'
<1> USE DEF TablesInv
<1>1. /\ usage' \in [Keys -> [today : Nat, earlier : Nat]]
      /\ \A x \in Keys : Total(x)' = Total(x)
      /\ day' \in Nat
      /\ UNCHANGED <<keys, accounts, inflight, form, issued, rebudgeted, toggled>>
  BY NewDayIs
<1>2. TypeOK'
  BY <1>1 DEF TypeOK
<1>3. Linked' /\ NoOrphans'
  <2>1. SameFamily
    BY <1>1 DEF SameFamily
  <2> QED
    BY <1>1, <2>1, FamilyKept
<1>4. Inactive'
  BY <1>1 DEF Inactive
<1> QED
  BY <1>2, <1>3, <1>4

-----------------------------------------------------------------------------
(* Budgets.  The two budget properties say the same of a key and of those who *)
(* spend from it.                                                             *)

Spenders(k) == IF keys[k].type = "reseller" THEN Children(k) ELSE {k}
Room(k) == Slack(Spenders(k))
Below(limit, used, room) == limit > 0 => used < limit + room
FitsBudget(k) ==
  /\ Below(keys[k].token_limit, Used(k), Room(k))
  /\ Below(keys[k].daily_limit, UsedToday(k), Room(k))
WithinBudgets == \A k \in DOMAIN keys \ rebudgeted : FitsBudget(k)

KeysInv == TablesInv /\ WithinBudgets /\ NotOversold

LEMMA BudgetsAreWithin ==
  ASSUME TypeOK
  PROVE  ClientBudget /\ MasterBudget <=> WithinBudgets
<1>1. \A k \in DOMAIN keys : keys[k].type \in {"client", "reseller"}
  BY DEF TypeOK, Key
<1>2. ASSUME NEW k \in DOMAIN keys, keys[k].type = "client"
      PROVE  FitsBudget(k) <=> WithinSlack(k, Slack({k}))
  BY <1>2 DEF FitsBudget, Below, Room, Spenders, WithinSlack, Limited
<1>3. ASSUME NEW k \in DOMAIN keys, keys[k].type = "reseller"
      PROVE  FitsBudget(k) <=> WithinSlack(k, Slack(Children(k)))
  BY <1>3 DEF FitsBudget, Below, Room, Spenders, WithinSlack, Limited
<1>4. \A k \in DOMAIN keys : keys[k].type = "client" => keys[k].type # "reseller"
  OBVIOUS
<1>5. ASSUME ClientBudget, MasterBudget, NEW k \in DOMAIN keys \ rebudgeted
      PROVE  FitsBudget(k)
  BY <1>1, <1>2, <1>3, <1>5 DEF ClientBudget, MasterBudget
<1>6. ASSUME WithinBudgets PROVE ClientBudget
  BY <1>2, <1>6 DEF ClientBudget, WithinBudgets
<1>7. ASSUME WithinBudgets PROVE MasterBudget
  BY <1>3, <1>7 DEF MasterBudget, WithinBudgets
<1> QED
  BY <1>5, <1>6, <1>7 DEF WithinBudgets

\* What the requests in R may still cost.
Cost(R) == MaxCharge * Cardinality(R)

LEMMA CostGrows ==
  ASSUME NEW R \in SUBSET Requests, NEW Q \in SUBSET R
  PROVE  Cost(Q) \in Nat /\ Cost(R) \in Nat /\ Cost(Q) <= Cost(R)
<1>1. IsFiniteSet(R) /\ IsFiniteSet(Q)
  BY KeyConstants, FS_Subset
<1>2. Cardinality(Q) \in Nat /\ Cardinality(R) \in Nat /\ Cardinality(Q) <= Cardinality(R)
  BY <1>1, FS_Subset, FS_CardinalityType
<1>3. \A m, i, j \in Nat : i <= j => m * i \in Nat /\ m * j \in Nat /\ m * i <= m * j
  OBVIOUS
<1> QED
  BY <1>2, <1>3, KeyConstants DEF Cost

LEMMA CostOfOne ==
  ASSUME NEW R \in SUBSET Requests, NEW t \in Requests, t \notin R
  PROVE  Cost(R \cup {t}) = Cost(R) + MaxCharge
<1>1. IsFiniteSet(R)
  BY KeyConstants, FS_Subset
<1>2. Cardinality(R) \in Nat /\ Cardinality(R \cup {t}) = Cardinality(R) + 1
  BY <1>1, FS_AddElement, FS_CardinalityType
<1>3. \A m, i \in Nat : m * (i + 1) = m * i + m
  OBVIOUS
<1> QED
  BY <1>2, <1>3, KeyConstants DEF Cost

LEMMA SlackIsCost ==
  ASSUME NEW S
  PROVE  Slack(S) = Cost(Requests \ InFlight(S)) /\ Slack(S) \in Nat
<1>1. Requests \ InFlight(S) \in SUBSET Requests
  OBVIOUS
<1>2. Cost(Requests \ InFlight(S)) \in Nat
  BY <1>1, CostGrows
<1> QED
  BY <1>2 DEF Slack, Cost

\* The numbers of a key are natural numbers.
NumbersTyped ==
  \A k \in DOMAIN keys :
    /\ keys[k] \in Key /\ keys[k].token_limit \in Nat /\ keys[k].daily_limit \in Nat
    /\ Used(k) \in Nat /\ UsedToday(k) \in Nat /\ Room(k) \in Nat /\ Allocated(k) \in Nat
    /\ IsFiniteSet(Children(k)) /\ Children(k) \subseteq DOMAIN keys /\ Children(k) \subseteq Keys

LEMMA TablesCount ==
  TypeOK => NumbersTyped
<1>1. SUFFICES ASSUME TypeOK, NEW k \in DOMAIN keys
               PROVE  /\ keys[k] \in Key /\ keys[k].token_limit \in Nat
                      /\ keys[k].daily_limit \in Nat
                      /\ Used(k) \in Nat /\ UsedToday(k) \in Nat /\ Room(k) \in Nat
                      /\ Allocated(k) \in Nat
                      /\ IsFiniteSet(Children(k)) /\ Children(k) \subseteq DOMAIN keys
                      /\ Children(k) \subseteq Keys
  BY DEF NumbersTyped
<1>2. Children(k) \subseteq DOMAIN keys /\ Children(k) \subseteq Keys
  BY <1>1 DEF TypeOK, Children
<1>3. IsFiniteSet(Children(k))
  BY <1>2, KeyConstants, FS_Subset
<1>4. \A x \in Keys : usage[x].today \in Nat /\ usage[x].earlier \in Nat
  BY <1>1 DEF TypeOK
<1>5. \A x \in Keys : Total(x) \in Nat
  BY <1>4 DEF Total
<1>6. SumFunctionOnSet([c \in Keys |-> Total(c)], Children(k)) \in Nat
  <2>1. \A c \in Children(k) : [d \in Keys |-> Total(d)][c] \in Nat
    BY <1>2, <1>5
  <2> QED
    BY <1>3, <2>1, SumNat
<1>7. SumFunctionOnSet([c \in Keys |-> usage[c].today], Children(k)) \in Nat
  <2>1. \A c \in Children(k) : [d \in Keys |-> usage[d].today][c] \in Nat
    BY <1>2, <1>4
  <2> QED
    BY <1>3, <2>1, SumNat
<1>8. \A c \in DOMAIN keys : keys[c].token_limit \in Nat /\ keys[c].daily_limit \in Nat
  BY <1>1 DEF TypeOK, Key
<1>9. Allocated(k) \in Nat
  <2>1. \A c \in Children(k) : [d \in DOMAIN keys |-> keys[d].token_limit][c] \in Nat
    BY <1>2, <1>8
  <2> QED
    BY <1>3, <2>1, SumNat DEF Allocated
<1>10. k \in Keys /\ keys[k] \in Key
  BY <1>1 DEF TypeOK
<1>11. Used(k) \in Nat
  BY <1>5, <1>6, <1>10 DEF Used
<1>12. UsedToday(k) \in Nat
  BY <1>4, <1>7, <1>10 DEF UsedToday
<1>13. Room(k) \in Nat
  BY SlackIsCost DEF Room
<1> QED
  BY <1>2, <1>3, <1>8, <1>9, <1>10, <1>11, <1>12, <1>13

LEMMA TablesCountNext ==
  TypeOK' => NumbersTyped'
BY TablesCount, PTL

\* A key whose limits grow, or are none as before, whose usage does not grow and
\* whose room does not shrink, still fits.
LEMMA StillFits ==
  ASSUME TypeOK, TypeOK', NEW k \in DOMAIN keys, k \in DOMAIN keys', FitsBudget(k),
         keys'[k].token_limit >= keys[k].token_limit,
         keys[k].token_limit = 0 => keys'[k].token_limit = 0,
         keys'[k].daily_limit >= keys[k].daily_limit,
         keys[k].daily_limit = 0 => keys'[k].daily_limit = 0,
         Used(k)' <= Used(k), UsedToday(k)' <= UsedToday(k), Room(k) <= Room(k)'
  PROVE  FitsBudget(k)'
<1>1. /\ keys[k].token_limit \in Nat /\ keys[k].daily_limit \in Nat
      /\ Used(k) \in Nat /\ UsedToday(k) \in Nat /\ Room(k) \in Nat
  BY TablesCount DEF NumbersTyped
<1>2. /\ keys'[k].token_limit \in Nat /\ keys'[k].daily_limit \in Nat
      /\ Used(k)' \in Nat /\ UsedToday(k)' \in Nat /\ Room(k)' \in Nat
  BY TablesCountNext DEF NumbersTyped
<1>3. Below(keys'[k].token_limit, Used(k)', Room(k)')
  BY <1>1, <1>2 DEF FitsBudget, Below
<1>4. Below(keys'[k].daily_limit, UsedToday(k)', Room(k)')
  BY <1>1, <1>2 DEF FitsBudget, Below
<1> QED
  BY <1>3, <1>4 DEF FitsBudget

-----------------------------------------------------------------------------
(* Budgets and steps.                                                       *)

\* Where the family and the usage stay, the usage that counts for a key stays.
LEMMA SameUse ==
  ASSUME TypeOK, SameFamily,
         \A x \in Keys : Total(x)' = Total(x) /\ usage'[x].today = usage[x].today,
         NEW k \in DOMAIN keys
  PROVE  /\ Children(k)' = Children(k) /\ Spenders(k)' = Spenders(k)
         /\ Used(k)' = Used(k) /\ UsedToday(k)' = UsedToday(k)
         /\ inflight' = inflight => Room(k)' = Room(k)
<1>1. Children(k)' = Children(k)
  BY DEF Children, SameFamily
<1>2. k \in Keys /\ keys'[k].type = keys[k].type
  BY DEF TypeOK, SameFamily
<1>3. [c \in Keys |-> Total(c)]' = [c \in Keys |-> Total(c)]
  OBVIOUS
<1>4. [c \in Keys |-> usage'[c].today] = [c \in Keys |-> usage[c].today]
  OBVIOUS
<1>5. Used(k)' = Used(k)
  BY <1>1, <1>2, <1>3 DEF Used
<1>6. UsedToday(k)' = UsedToday(k)
  BY <1>1, <1>2, <1>4 DEF UsedToday
<1>7. Spenders(k)' = Spenders(k)
  BY <1>1, <1>2 DEF Spenders
<1>8. ASSUME inflight' = inflight PROVE Room(k)' = Room(k)
  BY <1>7, <1>8 DEF Room, Slack, InFlight
<1> QED
  BY <1>1, <1>5, <1>6, <1>7, <1>8

\* A step that changes no limit and no usage.
LEMMA LimitsKept ==
  ASSUME KeysInv, TypeOK', SameFamily, UNCHANGED <<usage, inflight, rebudgeted>>,
         \A x \in DOMAIN keys : /\ keys'[x].token_limit = keys[x].token_limit
                                /\ keys'[x].daily_limit = keys[x].daily_limit
  PROVE  WithinBudgets' /\ NotOversold'
<1> USE DEF KeysInv, TablesInv
<1>1. \A x \in Keys : Total(x)' = Total(x) /\ usage'[x].today = usage[x].today
  BY DEF Total
<1>2. \A k \in DOMAIN keys : /\ Children(k)' = Children(k) /\ Used(k)' = Used(k)
                             /\ UsedToday(k)' = UsedToday(k) /\ Room(k)' = Room(k)
  BY <1>1, SameUse
<1>3. DOMAIN keys' = DOMAIN keys
  BY DEF SameFamily
<1>4. WithinBudgets'
  BY <1>2, <1>3 DEF WithinBudgets, FitsBudget
<1>5. [c \in DOMAIN keys' |-> keys'[c].token_limit] = [c \in DOMAIN keys |-> keys[c].token_limit]
  BY <1>3
<1>6. \A k \in DOMAIN keys : Allocated(k)' = Allocated(k)
  BY <1>2, <1>5 DEF Allocated
<1>7. NotOversold'
  BY <1>3, <1>6 DEF NotOversold, Limited, SameFamily
<1> QED
  BY <1>4, <1>7

\* A step that sets one budget, within what the master has left.
LEMMA BudgetStep ==
  ASSUME KeysInv, TypeOK', NEW k \in DOMAIN keys, NEW tokens \in Nat, NEW daily \in Nat,
         NEW row \in Key, row.type = keys[k].type, row.parent = keys[k].parent,
         SetBudget(k, tokens, daily, row), UNCHANGED <<usage, inflight>>,
         \A r \in DOMAIN keys :
           keys[k].parent = r /\ Limited(r) /\ tokens # keys[k].token_limit =>
             Allocated(r) - keys[k].token_limit + tokens <= keys[r].token_limit
  PROVE  WithinBudgets' /\ NotOversold'
<1> USE DEF KeysInv, TablesInv
<1>1. /\ SameFamily /\ rebudgeted \subseteq rebudgeted'
      /\ keys'[k].token_limit = tokens /\ keys'[k].daily_limit = daily
      /\ \A x \in DOMAIN keys : x # k => keys'[x] = keys[x]
      /\ k \notin rebudgeted' =>
              /\ tokens >= keys[k].token_limit /\ (keys[k].token_limit = 0 => tokens = 0)
              /\ daily >= keys[k].daily_limit /\ (keys[k].daily_limit = 0 => daily = 0)
  BY BudgetSet
<1>2. \A x \in Keys : Total(x)' = Total(x) /\ usage'[x].today = usage[x].today
  BY DEF Total
<1>3. \A x \in DOMAIN keys : /\ Children(x)' = Children(x) /\ Used(x)' = Used(x)
                             /\ UsedToday(x)' = UsedToday(x) /\ Room(x)' = Room(x)
  BY <1>1, <1>2, SameUse
<1>4. DOMAIN keys' = DOMAIN keys
  BY <1>1 DEF SameFamily
<1>5. NumbersTyped /\ NumbersTyped'
  BY TablesCount, TablesCountNext
<1>6. WithinBudgets'
  <2>1. SUFFICES ASSUME NEW x \in DOMAIN keys, x \notin rebudgeted' PROVE FitsBudget(x)'
    BY <1>4 DEF WithinBudgets
  <2>2. FitsBudget(x) /\ x \in DOMAIN keys'
    BY <1>1, <1>4, <2>1 DEF WithinBudgets
  <2>3. /\ keys'[x].token_limit >= keys[x].token_limit
        /\ keys[x].token_limit = 0 => keys'[x].token_limit = 0
        /\ keys'[x].daily_limit >= keys[x].daily_limit
        /\ keys[x].daily_limit = 0 => keys'[x].daily_limit = 0
    <3>1. CASE x = k
      BY <1>1, <2>1, <3>1
    <3>2. CASE x # k
      BY <1>1, <1>5, <2>1, <3>2 DEF NumbersTyped
    <3> QED
      BY <3>1, <3>2
  <2>4. Used(x)' <= Used(x) /\ UsedToday(x)' <= UsedToday(x) /\ Room(x) <= Room(x)'
    BY <1>3, <1>5 DEF NumbersTyped
  <2> QED
    BY <2>2, <2>3, <2>4, StillFits
<1>7. NotOversold'
  <2>1. SUFFICES ASSUME NEW r \in DOMAIN keys, r \notin rebudgeted',
                        keys[r].type = "reseller", Limited(r)'
                 PROVE  Allocated(r)' <= keys'[r].token_limit
    BY <1>1, <1>4 DEF NotOversold, SameFamily
  <2> DEFINE w == [c \in DOMAIN keys |-> keys[c].token_limit]
             v == [c \in DOMAIN keys |-> keys'[c].token_limit]
  <2>2. Allocated(r) = SumFunctionOnSet(w, Children(r))
    BY DEF Allocated
  <2>3. Allocated(r)' = SumFunctionOnSet(v, Children(r))
    BY <1>3, <1>4 DEF Allocated
  <2>4. /\ Limited(r) /\ r \notin rebudgeted
        /\ keys[r].token_limit <= keys'[r].token_limit
    <3>1. CASE r = k
      BY <1>1, <1>5, <2>1, <3>1 DEF Limited, NumbersTyped
    <3>2. CASE r # k
      BY <1>1, <1>5, <2>1, <3>2 DEF Limited, NumbersTyped
    <3> QED
      BY <3>1, <3>2
  <2>5. Allocated(r) <= keys[r].token_limit
    BY <2>1, <2>4 DEF NotOversold
  <2>6. /\ Allocated(r) \in Nat /\ keys[r].token_limit \in Nat
        /\ keys'[r].token_limit \in Nat /\ keys[k].token_limit \in Nat
        /\ IsFiniteSet(Children(r)) /\ Children(r) \subseteq DOMAIN keys
    BY <1>4, <1>5 DEF NumbersTyped
  <2>7. \A y \in DOMAIN keys : w[y] \in Nat /\ v[y] \in Nat
    BY <1>4, <1>5 DEF NumbersTyped
  <2>8. CASE k \notin Children(r) \/ tokens = keys[k].token_limit
    <3>1. \A y \in Children(r) : w[y] = v[y]
      BY <1>1, <2>6, <2>8
    <3>2. Allocated(r)' = Allocated(r)
      BY <2>2, <2>3, <2>6, <3>1, SumAgree
    <3> QED
      BY <2>4, <2>5, <2>6, <3>2
  <2>9. CASE k \in Children(r) /\ tokens # keys[k].token_limit
    <3>1. w[k] = keys[k].token_limit /\ v[k] = tokens
      BY <1>1
    <3>2. \A y \in Children(r) \ {k} : w[y] = v[y]
      BY <1>1, <2>6
    <3>3. \A y \in Children(r) : w[y] \in Nat /\ v[y] \in Nat
      BY <2>6, <2>7
    <3> HIDE DEF w, v
    <3>4. Allocated(r)' = Allocated(r) - keys[k].token_limit + tokens
      <4>1. SumFunctionOnSet(v, Children(r)) =
              SumFunctionOnSet(w, Children(r)) - w[k] + v[k]
        <5>1. k \in Children(r) /\ IsFiniteSet(Children(r))
          BY <2>6, <2>9
        <5> QED
          BY ONLY <3>2, <3>3, <5>1, SumChanges
      <4> QED
        BY <2>2, <2>3, <3>1, <4>1
    <3>5. Allocated(r) - keys[k].token_limit + tokens <= keys[r].token_limit
      BY <2>4, <2>9 DEF Children
    <3> QED
      BY <2>4, <2>6, <3>4, <3>5
  <2> QED
    BY <2>8, <2>9
<1> QED
  BY <1>6, <1>7

\* A key given now has used nothing, and its limit is within what its master has
\* left to distribute.
LEMMA InsertStep ==
  ASSUME KeysInv, TypeOK', NEW k \in Keys, NEW row \in Key, Insert(k, row),
         row.parent # None =>
           /\ row.parent \in DOMAIN keys /\ keys[row.parent].type = "reseller"
           /\ Limited(row.parent) =>
                Allocated(row.parent) + row.token_limit <= keys[row.parent].token_limit,
         row.type = "reseller" => row.parent = None,
         UNCHANGED <<usage, inflight, day, rebudgeted, toggled>>,
         form' \in {form, None}, edits' \in Nat
  PROVE  WithinBudgets' /\ NotOversold'
<1> USE DEF KeysInv, TablesInv
<1>1. /\ DOMAIN keys' = DOMAIN keys \cup {k} /\ k \notin DOMAIN keys
      /\ keys'[k] = row /\ k \notin issued
      /\ \A x \in DOMAIN keys : keys'[x] = keys[x]
      /\ \A x \in DOMAIN keys' : keys'[x].parent # None => keys'[x].parent \in DOMAIN keys
  BY Inserted
<1>2. NumbersTyped /\ NumbersTyped'
  BY TablesCount, TablesCountNext
<1>3. Children(k) = {} /\ Children(k)' = {}
  <2>1. k # None
    BY KeyConstants
  <2> QED
    BY <1>1, <2>1 DEF Children, NoOrphans
<1>4. \A x \in Keys : Total(x)' = Total(x)
  BY DEF Total
<1>5. /\ [c \in Keys |-> Total(c)]' = [c \in Keys |-> Total(c)]
      /\ [c \in Keys |-> usage'[c].today] = [c \in Keys |-> usage[c].today]
  BY <1>4
<1>6. /\ Total(k) = 0 /\ usage[k].today = 0
      /\ \A t \in Requests : inflight[t] # k
  <2>1. usage[k].today \in Nat /\ usage[k].earlier \in Nat /\ ~(Total(k) > 0)
    BY <1>1 DEF TypeOK, NoOrphans
  <2>2. usage[k].today = 0 /\ Total(k) = 0
    BY <2>1 DEF Total
  <2>3. k # None
    BY KeyConstants
  <2> QED
    BY <1>1, <2>2, <2>3 DEF Linked
\* The sums of a key that was there: of its children only k may be new.
<1>7. ASSUME NEW x \in DOMAIN keys
      PROVE  /\ Children(x)' = IF row.parent = x THEN Children(x) \cup {k} ELSE Children(x)
             /\ Used(x)' = Used(x) /\ UsedToday(x)' = UsedToday(x) /\ Room(x)' = Room(x)
             /\ Allocated(x)' =
                  IF row.parent = x THEN row.token_limit + Allocated(x) ELSE Allocated(x)
  <2>1. Children(x)' = IF row.parent = x THEN Children(x) \cup {k} ELSE Children(x)
    BY <1>1 DEF Children
  <2>2. IsFiniteSet(Children(x)) /\ Children(x) \subseteq DOMAIN keys /\ Children(x) \subseteq Keys
    BY <1>2 DEF NumbersTyped
  <2>3. keys'[x] = keys[x] /\ k \notin Children(x) /\ x # k /\ x \in Keys
    BY <1>1, <2>2 DEF TypeOK
  <2> DEFINE totals == [c \in Keys |-> Total(c)]
             today == [c \in Keys |-> usage[c].today]
             limits == [c \in DOMAIN keys' |-> keys'[c].token_limit]
             was == [c \in DOMAIN keys |-> keys[c].token_limit]
  <2>4. \A c \in Keys : totals[c] \in Nat /\ today[c] \in Nat
    <3>1. \A c \in Keys : usage[c].today \in Nat /\ usage[c].earlier \in Nat
      BY DEF TypeOK
    <3> QED
      BY <3>1 DEF Total
  <2>5. totals[k] = 0 /\ today[k] = 0
    BY <1>6
  <2>6. \A c \in Children(x) : limits[c] = was[c] /\ limits[c] \in Nat
    BY <1>1, <1>2, <2>2 DEF NumbersTyped
  <2>7. limits[k] = row.token_limit /\ limits[k] \in Nat
    BY <1>1, <1>2 DEF NumbersTyped
  <2>8. totals' = totals /\ today' = today
    BY <1>5
  <2>9. /\ Used(x) = Total(x) + IF keys[x].type = "reseller"
                                 THEN SumFunctionOnSet(totals, Children(x)) ELSE 0
        /\ UsedToday(x) = usage[x].today + IF keys[x].type = "reseller"
                                 THEN SumFunctionOnSet(today, Children(x)) ELSE 0
        /\ Allocated(x) = SumFunctionOnSet(was, Children(x))
    BY DEF Used, UsedToday, Allocated
  <2>10. /\ Used(x)' = Total(x) + IF keys[x].type = "reseller"
                                 THEN SumFunctionOnSet(totals, Children(x)') ELSE 0
         /\ UsedToday(x)' = usage[x].today + IF keys[x].type = "reseller"
                                 THEN SumFunctionOnSet(today, Children(x)') ELSE 0
         /\ Allocated(x)' = SumFunctionOnSet(limits, Children(x)')
    BY <1>4, <2>3, <2>8 DEF Used, UsedToday, Allocated
  <2> HIDE DEF totals, today, limits, was
  <2>11. SumFunctionOnSet(limits, Children(x)) = SumFunctionOnSet(was, Children(x))
    BY <2>2, <2>6, SumAgree
  <2>12. InFlight(Spenders(x)') = InFlight(Spenders(x))
    <3>1. Spenders(x)' = Spenders(x) \/ Spenders(x)' = Spenders(x) \cup {k}
      BY <2>1, <2>3 DEF Spenders
    <3> QED
      BY <1>6, <3>1 DEF InFlight
  <2>13. Room(x)' = Room(x)
    <3>1. Room(x)' = MaxCharge * Cardinality(Requests \ InFlight(Spenders(x)'))
      BY DEF Room, Slack, InFlight
    <3> QED
      BY <2>12, <3>1 DEF Room, Slack
  <2>14. CASE row.parent # x
    BY <2>1, <2>3, <2>9, <2>10, <2>11, <2>13, <2>14
  <2>15. CASE row.parent = x
    <3>1. Children(x)' = Children(x) \cup {k}
      BY <2>1, <2>15
    <3>2. \A c \in Children(x) \cup {k} : totals[c] \in Nat /\ today[c] \in Nat /\ limits[c] \in Nat
      BY <2>2, <2>4, <2>6, <2>7
    <3>3. SumFunctionOnSet(totals, Children(x) \cup {k}) = totals[k] + SumFunctionOnSet(totals, Children(x))
      BY <2>2, <2>3, <3>2, SumAdded
    <3>4. SumFunctionOnSet(today, Children(x) \cup {k}) = today[k] + SumFunctionOnSet(today, Children(x))
      BY <2>2, <2>3, <3>2, SumAdded
    <3>5. SumFunctionOnSet(limits, Children(x) \cup {k}) = limits[k] + SumFunctionOnSet(limits, Children(x))
      BY <2>2, <2>3, <3>2, SumAdded
    <3>6. /\ SumFunctionOnSet(totals, Children(x)) \in Nat
          /\ SumFunctionOnSet(today, Children(x)) \in Nat
      BY <2>2, <3>2, SumNat
    <3>7. Used(x)' = Used(x) /\ UsedToday(x)' = UsedToday(x)
      BY <2>5, <2>9, <2>10, <3>1, <3>3, <3>4, <3>6
    <3>8. Allocated(x)' = row.token_limit + Allocated(x)
      BY <2>7, <2>9, <2>10, <2>11, <3>1, <3>5
    <3> QED
      BY <2>1, <2>13, <2>15, <3>7, <3>8
  <2> QED
    BY <2>14, <2>15
<1>8. Used(k)' = 0 /\ UsedToday(k)' = 0 /\ Allocated(k)' = 0
  <2>1. Total(k)' = 0 /\ usage'[k].today = 0
    BY <1>4, <1>6
  <2> QED
    BY <1>3, <2>1, SumNone DEF Used, UsedToday, Allocated
<1>9. WithinBudgets'
  <2>1. SUFFICES ASSUME NEW x \in DOMAIN keys', x \notin rebudgeted PROVE FitsBudget(x)'
    BY DEF WithinBudgets
  <2>2. CASE x = k
    <3>1. /\ keys'[k].token_limit \in Nat /\ keys'[k].daily_limit \in Nat /\ Room(k)' \in Nat
      BY <1>2, <2>2 DEF NumbersTyped
    <3>2. FitsBudget(k)'
      BY <1>8, <3>1 DEF FitsBudget, Below
    <3> QED
      BY <2>2, <3>2
  <2>3. CASE x # k
    <3>1. x \in DOMAIN keys /\ keys'[x] = keys[x] /\ FitsBudget(x)
      BY <1>1, <2>1, <2>3 DEF WithinBudgets
    <3> QED
      BY <1>7, <3>1 DEF FitsBudget
  <2> QED
    BY <2>2, <2>3
<1>10. NotOversold'
  <2>1. SUFFICES ASSUME NEW r \in DOMAIN keys', r \notin rebudgeted,
                        keys'[r].type = "reseller", Limited(r)'
                 PROVE  Allocated(r)' <= keys'[r].token_limit
    BY DEF NotOversold
  <2>2. CASE r = k
    BY <1>2, <1>8, <2>2 DEF NumbersTyped
  <2>3. CASE r # k
    <3>1. r \in DOMAIN keys /\ keys'[r] = keys[r] /\ Limited(r) /\ r # None
      BY <1>1, <2>1, <2>3, KeyConstants DEF Limited, TypeOK
    <3>2. Allocated(r) <= keys[r].token_limit
      BY <2>1, <3>1 DEF NotOversold
    <3>3. Allocated(r) \in Nat /\ row.token_limit \in Nat
      BY <1>2, <3>1 DEF NumbersTyped, Key
    <3> QED
      BY <1>7, <3>1, <3>2, <3>3
  <2> QED
    BY <2>2, <2>3
<1> QED
  BY <1>9, <1>10

\* Fewer spenders or fewer requests of theirs leave no less room.
LEMMA RoomGrows ==
  ASSUME NEW k, Spenders(k)' \subseteq Spenders(k),
         \A t \in Requests : inflight'[t] \in Spenders(k)' => inflight[t] \in Spenders(k)
  PROVE  Room(k) <= Room(k)'
<1> DEFINE Q == Requests \ InFlight(Spenders(k))
           R == Requests \ InFlight(Spenders(k))'
<1>1. Q \in SUBSET R /\ R \in SUBSET Requests
  BY DEF InFlight
<1>2. Cost(Q) <= Cost(R)
  BY <1>1, CostGrows
<1>3. Room(k) = Cost(Q) /\ Room(k)' = Cost(R)
  BY DEF Room, Slack, Cost
<1> QED
  BY <1>2, <1>3

\* A sum over fewer children of what they had.
LEMMA SumOfFewer ==
  ASSUME NEW S, IsFiniteSet(S), NEW w, NEW v, \A y \in S : w[y] \in Nat,
         NEW T, T = S \/ \E x \in S : T = S \ {x}, \A y \in T : v[y] = w[y]
  PROVE  SumFunctionOnSet(v, T) <= SumFunctionOnSet(w, S)
<1>1. T \subseteq S /\ IsFiniteSet(T)
  BY FS_Subset
<1>2. SumFunctionOnSet(v, T) = SumFunctionOnSet(w, T)
  BY <1>1, SumAgree
<1>3. SumFunctionOnSet(w, T) \in Nat /\ SumFunctionOnSet(w, S) \in Nat
  <2>1. \A y \in T : w[y] \in Nat
    BY <1>1
  <2> QED
    BY <1>1, <2>1, SumNat
<1>4. CASE T = S
  BY <1>2, <1>3, <1>4
<1>5. CASE \E x \in S : T = S \ {x}
  BY <1>2, <1>5, SumLess
<1> QED
  BY <1>4, <1>5

\* What is deleted took its usage and its part of a balance with it.
LEMMA DeleteStep ==
  ASSUME KeysInv, TypeOK', NEW k \in DOMAIN keys, Delete({k} \cup Children(k)),
         UNCHANGED <<inflight, form, day, issued>>
  PROVE  WithinBudgets' /\ NotOversold'
<1> USE DEF KeysInv, TablesInv
<1> DEFINE gone == {k} \cup Children(k)
<1>1. /\ DOMAIN keys' = DOMAIN keys \ gone
      /\ \A x \in DOMAIN keys' : keys'[x] = keys[x]
      /\ \A x \in Keys : usage'[x] = IF x \in gone THEN NoUsage ELSE usage[x]
      /\ rebudgeted' = rebudgeted \ gone
  BY Deleted
<1>2. NumbersTyped /\ NumbersTyped'
  BY TablesCount, TablesCountNext
<1>3. ASSUME NEW x \in DOMAIN keys'
      PROVE  /\ x \in DOMAIN keys /\ x \in Keys /\ keys'[x] = keys[x] /\ usage'[x] = usage[x]
             /\ Used(x)' <= Used(x) /\ UsedToday(x)' <= UsedToday(x) /\ Room(x) <= Room(x)'
             /\ Allocated(x)' <= Allocated(x)
  <2>1. x \in DOMAIN keys /\ x \notin gone /\ x \in Keys /\ keys'[x] = keys[x]
    BY <1>1 DEF TypeOK
  <2>2. usage'[x] = usage[x]
    BY <1>1, <2>1
  <2>3. Children(x)' = Children(x) \ gone
    BY <1>1 DEF Children
  <2>4. Children(x)' = Children(x) \/ \E y \in Children(x) : Children(x)' = Children(x) \ {y}
    <3>1. CASE k \in Children(x)
      <4>1. keys[k].type = "client"
        <5>1. keys[k].parent = x /\ x # None /\ keys[k] \in Key
          BY <2>1, <3>1, KeyConstants DEF Children, TypeOK
        <5> QED
          BY <5>1 DEF Linked, Key
      <4>2. Children(k) = {}
        BY <4>1, ChildrenOfMasters
      <4> QED
        BY <2>3, <3>1, <4>2
    <3>2. CASE k \notin Children(x)
      <4>1. Children(x) \cap Children(k) = {}
        BY <2>1 DEF Children
      <4> QED
        BY <2>3, <3>2, <4>1
    <3> QED
      BY <3>1, <3>2
  <2>5. IsFiniteSet(Children(x)) /\ Children(x) \subseteq DOMAIN keys /\ Children(x) \subseteq Keys
    BY <1>2, <2>1 DEF NumbersTyped
  <2>6. \A c \in Children(x)' : usage'[c] = usage[c] /\ c \in DOMAIN keys' /\ c \in Children(x)
    BY <1>1, <2>3, <2>5
  <2> DEFINE totals == [c \in Keys |-> Total(c)]
             today == [c \in Keys |-> usage[c].today]
             limits == [c \in DOMAIN keys |-> keys[c].token_limit]
             totals2 == [c \in Keys |-> Total(c)']
             today2 == [c \in Keys |-> usage'[c].today]
             limits2 == [c \in DOMAIN keys' |-> keys'[c].token_limit]
  <2>7. \A c \in Children(x) : totals[c] \in Nat /\ today[c] \in Nat /\ limits[c] \in Nat
    <3>1. \A c \in Keys : usage[c].today \in Nat /\ usage[c].earlier \in Nat
      BY DEF TypeOK
    <3> QED
      BY <1>2, <2>5, <3>1 DEF Total, NumbersTyped
  <2>8. \A c \in Children(x)' :
          totals2[c] = totals[c] /\ today2[c] = today[c] /\ limits2[c] = limits[c]
    <3>1. \A c \in Children(x)' : Total(c)' = Total(c)
      BY <2>6 DEF Total
    <3> QED
      BY <1>1, <2>5, <2>6, <3>1
  <2>9. /\ Used(x) = Total(x) + IF keys[x].type = "reseller"
                                 THEN SumFunctionOnSet(totals, Children(x)) ELSE 0
        /\ UsedToday(x) = usage[x].today + IF keys[x].type = "reseller"
                                 THEN SumFunctionOnSet(today, Children(x)) ELSE 0
        /\ Allocated(x) = SumFunctionOnSet(limits, Children(x))
    BY DEF Used, UsedToday, Allocated
  <2>10. Total(x)' = Total(x)
    BY <2>2 DEF Total
  <2>11. /\ Used(x)' = Total(x) + IF keys[x].type = "reseller"
                                 THEN SumFunctionOnSet(totals2, Children(x)') ELSE 0
         /\ UsedToday(x)' = usage[x].today + IF keys[x].type = "reseller"
                                 THEN SumFunctionOnSet(today2, Children(x)') ELSE 0
         /\ Allocated(x)' = SumFunctionOnSet(limits2, Children(x)')
    BY <2>1, <2>2, <2>10 DEF Used, UsedToday, Allocated
  <2> HIDE DEF totals, today, limits, totals2, today2, limits2
  <2>12. \A S, T, f, g :
           /\ IsFiniteSet(S) /\ \A y \in S : f[y] \in Nat
           /\ T = S \/ \E y \in S : T = S \ {y}
           /\ \A y \in T : g[y] = f[y]
           => SumFunctionOnSet(g, T) <= SumFunctionOnSet(f, S)
    BY SumOfFewer
  <2>13. SumFunctionOnSet(totals2, Children(x)') <= SumFunctionOnSet(totals, Children(x))
    BY <2>4, <2>5, <2>7, <2>8, <2>12
  <2>14. SumFunctionOnSet(today2, Children(x)') <= SumFunctionOnSet(today, Children(x))
    BY <2>4, <2>5, <2>7, <2>8, <2>12
  <2>15. SumFunctionOnSet(limits2, Children(x)') <= SumFunctionOnSet(limits, Children(x))
    BY <2>4, <2>5, <2>7, <2>8, <2>12
  <2>16. /\ SumFunctionOnSet(totals, Children(x)) \in Nat
         /\ SumFunctionOnSet(today, Children(x)) \in Nat
         /\ SumFunctionOnSet(totals2, Children(x)') \in Nat
         /\ SumFunctionOnSet(today2, Children(x)') \in Nat
         /\ Total(x) \in Nat /\ usage[x].today \in Nat
    <3>1. IsFiniteSet(Children(x)') /\ Children(x)' \subseteq Children(x)
      BY <2>4, <2>5, FS_Subset
    <3>2. \A c \in Children(x)' : totals2[c] \in Nat /\ today2[c] \in Nat
      BY <2>7, <2>8, <3>1
    <3>3. usage[x].today \in Nat /\ usage[x].earlier \in Nat
      BY <2>1 DEF TypeOK
    <3> QED
      BY <2>5, <2>7, <3>1, <3>2, <3>3, SumNat DEF Total
  <2>17. Used(x)' <= Used(x) /\ UsedToday(x)' <= UsedToday(x)
    BY <2>9, <2>11, <2>13, <2>14, <2>16
  <2>18. Allocated(x)' <= Allocated(x)
    BY <2>9, <2>11, <2>15
  <2>19. Room(x) <= Room(x)'
    <3>1. Spenders(x)' \subseteq Spenders(x)
      BY <2>1, <2>3 DEF Spenders
    <3> QED
      BY <3>1, RoomGrows
  <2> QED
    BY <2>1, <2>2, <2>17, <2>18, <2>19
<1>4. WithinBudgets'
  <2>1. SUFFICES ASSUME NEW x \in DOMAIN keys', x \notin rebudgeted' PROVE FitsBudget(x)'
    BY DEF WithinBudgets
  <2>2. x \notin gone /\ x \in DOMAIN keys /\ x \notin rebudgeted
    BY <1>1, <2>1
  <2>3. FitsBudget(x)
    BY <2>2 DEF WithinBudgets
  <2>4. /\ keys'[x].token_limit >= keys[x].token_limit
        /\ keys[x].token_limit = 0 => keys'[x].token_limit = 0
        /\ keys'[x].daily_limit >= keys[x].daily_limit
        /\ keys[x].daily_limit = 0 => keys'[x].daily_limit = 0
    BY <1>2, <1>3, <2>2 DEF NumbersTyped
  <2> QED
    BY <1>3, <2>2, <2>3, <2>4, StillFits
<1>5. NotOversold'
  <2>1. SUFFICES ASSUME NEW x \in DOMAIN keys', x \notin rebudgeted',
                        keys'[x].type = "reseller", Limited(x)'
                 PROVE  Allocated(x)' <= keys'[x].token_limit
    BY DEF NotOversold
  <2>2. x \notin rebudgeted /\ x \in DOMAIN keys /\ keys'[x] = keys[x]
    BY <1>1, <1>3, <2>1
  <2>3. Allocated(x) <= keys[x].token_limit
    BY <2>1, <2>2 DEF NotOversold, Limited
  <2>4. Allocated(x) \in Nat /\ Allocated(x)' \in Nat /\ keys[x].token_limit \in Nat
    BY <1>2, <2>2 DEF NumbersTyped
  <2> QED
    BY <1>3, <2>2, <2>3, <2>4
<1> QED
  BY <1>4, <1>5

\* Nobody who has used up what is his is admitted, so one request more fits.
LEMMA AdmitStep ==
  ASSUME KeysInv, TypeOK', NEW t \in Requests, NEW k \in Keys, Admit(t, k)
  PROVE  WithinBudgets' /\ NotOversold'
<1> USE DEF KeysInv, TablesInv
<1>1. /\ k \in DOMAIN keys /\ keys[k].type = "client" /\ Usable(k)
      /\ inflight' = [inflight EXCEPT ![t] = k]
      /\ UNCHANGED <<keys, usage, accounts, form, day, issued, rebudgeted, toggled>>
  BY DEF Admit, Usable
<1>2. SameFamily /\ \A x \in Keys : Total(x)' = Total(x) /\ usage'[x].today = usage[x].today
  BY <1>1 DEF SameFamily, Total
<1>3. \A x \in DOMAIN keys : /\ Spenders(x)' = Spenders(x)
                             /\ Used(x)' = Used(x) /\ UsedToday(x)' = UsedToday(x)
  BY <1>2, SameUse
<1>4. NumbersTyped /\ NumbersTyped'
  BY TablesCount, TablesCountNext
<1>5. ASSUME NEW x \in DOMAIN keys, x \notin rebudgeted, k \in Spenders(x)
      PROVE  FitsBudget(x)'
  <2>1. Open(x)
    <3>1. CASE keys[x].type = "reseller"
      <4>1. keys[k].parent = x /\ x # None
        BY <1>5, <3>1, KeyConstants DEF Spenders, Children, TypeOK
      <4> QED
        BY <1>1, <4>1 DEF Usable
    <3>2. CASE keys[x].type # "reseller"
      BY <1>1, <1>5, <3>2 DEF Spenders, Usable
    <3> QED
      BY <3>1, <3>2
  <2>2. /\ keys[x].token_limit \in Nat /\ keys[x].daily_limit \in Nat
        /\ Used(x) \in Nat /\ UsedToday(x) \in Nat /\ Room(x)' \in Nat
    BY <1>1, <1>4 DEF NumbersTyped
  <2>3. /\ keys[x].token_limit > 0 => Used(x) < keys[x].token_limit
        /\ keys[x].daily_limit > 0 => UsedToday(x) < keys[x].daily_limit
    BY <2>1 DEF Open, Limited
  <2> QED
    BY <1>1, <1>3, <2>2, <2>3 DEF FitsBudget, Below
<1>6. ASSUME NEW x \in DOMAIN keys, x \notin rebudgeted, k \notin Spenders(x)
      PROVE  FitsBudget(x)'
  <2>1. \A r \in Requests : inflight'[r] \in Spenders(x) => inflight[r] \in Spenders(x)
    BY <1>1, <1>6 DEF TypeOK
  <2>2. Room(x) <= Room(x)'
    BY <1>3, <2>1, RoomGrows
  <2>3. FitsBudget(x)
    BY <1>6 DEF WithinBudgets
  <2>4. /\ keys[x].token_limit >= keys[x].token_limit /\ keys[x].daily_limit >= keys[x].daily_limit
        /\ Used(x)' <= Used(x) /\ UsedToday(x)' <= UsedToday(x)
    BY <1>3, <1>4 DEF NumbersTyped
  <2> QED
    BY <1>1, <2>2, <2>3, <2>4, StillFits
<1>7. WithinBudgets'
  BY <1>1, <1>5, <1>6 DEF WithinBudgets
<1>8. NotOversold'
  BY <1>1 DEF NotOversold, Allocated, Limited, Children
<1> QED
  BY <1>7, <1>8

\* A request that ends without a charge leaves its room to the others.
LEMMA EndStep ==
  ASSUME KeysInv, TypeOK', NEW t \in Requests,
         inflight' = [inflight EXCEPT ![t] = None],
         UNCHANGED <<keys, usage, rebudgeted>>
  PROVE  WithinBudgets' /\ NotOversold'
<1> USE DEF KeysInv, TablesInv
<1>1. SameFamily /\ \A x \in Keys : Total(x)' = Total(x) /\ usage'[x].today = usage[x].today
  BY DEF SameFamily, Total
<1>2. \A x \in DOMAIN keys : /\ Spenders(x)' = Spenders(x)
                             /\ Used(x)' = Used(x) /\ UsedToday(x)' = UsedToday(x)
  BY <1>1, SameUse
<1>3. NumbersTyped
  BY TablesCount
<1>4. ASSUME NEW x \in DOMAIN keys, x \notin rebudgeted PROVE FitsBudget(x)'
  <2>1. None \notin Spenders(x)
    BY <1>3, KeyConstants DEF NumbersTyped, Spenders, TypeOK
  <2>2. \A r \in Requests : inflight'[r] \in Spenders(x) => inflight[r] \in Spenders(x)
    BY <2>1 DEF TypeOK
  <2>3. Room(x) <= Room(x)'
    BY <1>2, <2>2, RoomGrows
  <2>4. FitsBudget(x)
    BY <1>4 DEF WithinBudgets
  <2>5. /\ keys[x].token_limit >= keys[x].token_limit /\ keys[x].daily_limit >= keys[x].daily_limit
        /\ Used(x)' <= Used(x) /\ UsedToday(x)' <= UsedToday(x)
    BY <1>2, <1>3 DEF NumbersTyped
  <2> QED
    BY <2>3, <2>4, <2>5, StillFits
<1>5. WithinBudgets'
  BY <1>4 DEF WithinBudgets
<1>6. NotOversold'
  BY DEF NotOversold, Allocated, Limited, Children
<1> QED
  BY <1>5, <1>6

\* A charge uses up the room its request had kept.
LEMMA ChargeStep ==
  ASSUME KeysInv, TypeOK', NEW t \in Requests, NEW n \in 0..MaxCharge, Charge(t, n)
  PROVE  WithinBudgets' /\ NotOversold'
<1> USE DEF KeysInv, TablesInv
<1>1. /\ inflight[t] # None /\ inflight' = [inflight EXCEPT ![t] = None]
      /\ UNCHANGED <<keys, accounts, form, day, issued, rebudgeted, toggled>>
  BY DEF Charge
<1>2. CASE inflight[t] \notin DOMAIN keys
  <2>1. usage' = usage
    BY <1>2 DEF Charge
  <2> QED
    BY <1>1, <2>1, EndStep
<1>3. ASSUME NEW c \in DOMAIN keys, c = inflight[t]
      PROVE  WithinBudgets' /\ NotOversold'
  <2>1. c \in Keys /\ keys[c].type = "client" /\ n \in Nat /\ n <= MaxCharge
    BY <1>1, <1>3, KeyConstants DEF Linked, TypeOK
  <2>2. \A x \in Keys : usage[x].today \in Nat /\ usage[x].earlier \in Nat
    BY DEF TypeOK
  <2>3. usage' = [usage EXCEPT ![c].today = usage[c].today + n]
    BY <1>3 DEF Charge
  <2>4. /\ usage'[c].today = usage[c].today + n /\ usage'[c].earlier = usage[c].earlier
        /\ \A x \in Keys : x # c => usage'[x] = usage[x]
    BY <2>1, <2>3 DEF TypeOK
  <2>5. /\ Total(c)' = Total(c) + n
        /\ \A x \in Keys : x # c => Total(x)' = Total(x)
        /\ \A x \in Keys : Total(x) \in Nat /\ Total(x)' \in Nat
    <3>1. \A x \in Keys : Total(x) \in Nat
      BY <2>2 DEF Total
    <3>2. \A x \in Keys : usage'[x].today \in Nat /\ usage'[x].earlier \in Nat
      BY DEF TypeOK
    <3>3. \A x \in Keys : Total(x)' \in Nat
      BY <3>2 DEF Total
    <3>4. \A x \in Keys : x # c => Total(x)' = Total(x)
      BY <2>4 DEF Total
    <3>5. usage[c].today \in Nat /\ usage[c].earlier \in Nat
      BY <2>1, <2>2
    <3>6. Total(c)' = usage[c].today + n + usage[c].earlier
      BY <2>4 DEF Total
    <3>7. Total(c)' = Total(c) + n
      BY <2>1, <3>5, <3>6 DEF Total
    <3> QED
      BY <3>1, <3>3, <3>4, <3>7
  <2>6. NumbersTyped /\ NumbersTyped'
    BY TablesCount, TablesCountNext
  <2>7. \A x \in DOMAIN keys : Children(x)' = Children(x) /\ Spenders(x)' = Spenders(x)
    BY <1>1 DEF Children, Spenders
  <2> DEFINE totals == [x \in Keys |-> Total(x)]
             today == [x \in Keys |-> usage[x].today]
             totals2 == [x \in Keys |-> Total(x)']
             today2 == [x \in Keys |-> usage'[x].today]
  <2>8. /\ totals2[c] = totals[c] + n /\ today2[c] = today[c] + n
        /\ \A x \in Keys : /\ totals[x] \in Nat /\ today[x] \in Nat
                           /\ totals2[x] \in Nat /\ today2[x] \in Nat
                           /\ x # c => totals2[x] = totals[x] /\ today2[x] = today[x]
    <3>1. \A x \in Keys : usage'[x].today \in Nat
      BY DEF TypeOK
    <3>2. \A x \in Keys : x # c => usage'[x].today = usage[x].today
      BY <2>4
    <3>3. /\ \A x \in Keys : totals[x] = Total(x) /\ today[x] = usage[x].today
          /\ \A x \in Keys : totals2[x] = Total(x)' /\ today2[x] = usage'[x].today
      OBVIOUS
    <3> HIDE DEF totals, today, totals2, today2
    <3> QED
      BY <2>1, <2>2, <2>4, <2>5, <3>1, <3>2, <3>3
  <2>9. \A x \in DOMAIN keys :
          /\ Used(x) = Total(x) + IF keys[x].type = "reseller"
                                   THEN SumFunctionOnSet(totals, Children(x)) ELSE 0
          /\ UsedToday(x) = usage[x].today + IF keys[x].type = "reseller"
                                   THEN SumFunctionOnSet(today, Children(x)) ELSE 0
    BY DEF Used, UsedToday
  <2>10. \A x \in DOMAIN keys :
          /\ Used(x)' = Total(x)' + IF keys[x].type = "reseller"
                                   THEN SumFunctionOnSet(totals2, Children(x)) ELSE 0
          /\ UsedToday(x)' = usage'[x].today + IF keys[x].type = "reseller"
                                   THEN SumFunctionOnSet(today2, Children(x)) ELSE 0
    BY <1>1, <2>7 DEF Used, UsedToday
  <2> HIDE DEF totals, today, totals2, today2
  <2>11. ASSUME NEW x \in DOMAIN keys, x \notin rebudgeted, c \notin Spenders(x)
         PROVE  FitsBudget(x)'
    <3>1. keys[x].type = "reseller" => c \notin Children(x)
      BY <2>1, <2>11 DEF Spenders, TypeOK
    <3>2. x \in Keys /\ x # c
      BY <2>1, <2>11 DEF Spenders, TypeOK
    <3>5. Used(x)' = Used(x) /\ UsedToday(x)' = UsedToday(x)
      <4>1. CASE keys[x].type = "reseller"
        <5>1. IsFiniteSet(Children(x)) /\ \A y \in Children(x) : y \in Keys /\ y # c
          BY <2>6, <3>1, <4>1 DEF NumbersTyped
        <5>2. \A y \in Children(x) : totals2[y] = totals[y] /\ today2[y] = today[y]
          BY <2>8, <5>1
        <5>3. /\ SumFunctionOnSet(totals2, Children(x)) = SumFunctionOnSet(totals, Children(x))
              /\ SumFunctionOnSet(today2, Children(x)) = SumFunctionOnSet(today, Children(x))
          BY <5>1, <5>2, SumAgree
        <5> QED
          BY <2>4, <2>5, <2>9, <2>10, <3>2, <5>3
      <4>2. CASE keys[x].type # "reseller"
        BY <2>4, <2>5, <2>9, <2>10, <3>2, <4>2
      <4> QED
        BY <4>1, <4>2
    <3>6. Room(x) <= Room(x)'
      <4>1. None \notin Spenders(x)
        BY <2>6, <3>2, KeyConstants DEF NumbersTyped, Spenders
      <4>2. \A r \in Requests : inflight'[r] \in Spenders(x) => inflight[r] \in Spenders(x)
        BY <1>1, <4>1 DEF TypeOK
      <4> QED
        BY <2>7, <4>2, RoomGrows
    <3>7. FitsBudget(x)
      BY <2>11 DEF WithinBudgets
    <3>8. /\ keys[x].token_limit >= keys[x].token_limit /\ keys[x].daily_limit >= keys[x].daily_limit
          /\ Used(x)' <= Used(x) /\ UsedToday(x)' <= UsedToday(x)
      BY <2>6, <3>5 DEF NumbersTyped
    <3> QED
      BY <1>1, <3>6, <3>7, <3>8, StillFits
  <2>12. ASSUME NEW x \in DOMAIN keys, x \notin rebudgeted, c \in Spenders(x)
         PROVE  FitsBudget(x)'
    <3>1. Used(x)' = Used(x) + n /\ UsedToday(x)' = UsedToday(x) + n
      <4>1. CASE keys[x].type = "reseller"
        <5>1. c \in Children(x) /\ x # c /\ x \in Keys /\ IsFiniteSet(Children(x))
              /\ Children(x) \subseteq Keys
          BY <2>1, <2>6, <2>12, <4>1 DEF NumbersTyped, Spenders, TypeOK
        <5>3. /\ \A z \in Children(x) \ {c} : totals[z] = totals2[z]
              /\ \A z \in Children(x) \ {c} : today[z] = today2[z]
          BY <2>8, <5>1
        <5>4. /\ \A z \in Children(x) : totals[z] \in Nat /\ totals2[z] \in Nat
              /\ \A z \in Children(x) : today[z] \in Nat /\ today2[z] \in Nat
          BY <2>8, <5>1
        <5>5. SumFunctionOnSet(totals2, Children(x)) =
                SumFunctionOnSet(totals, Children(x)) - totals[c] + totals2[c]
          BY ONLY <5>1, <5>3, <5>4, SumChanges
        <5>6. SumFunctionOnSet(today2, Children(x)) =
                SumFunctionOnSet(today, Children(x)) - today[c] + today2[c]
          BY ONLY <5>1, <5>3, <5>4, SumChanges
        <5>7. /\ SumFunctionOnSet(totals, Children(x)) \in Nat
              /\ SumFunctionOnSet(today, Children(x)) \in Nat
          BY <5>1, <5>4, SumNat
        <5>8. totals[c] \in Nat /\ today[c] \in Nat /\ Total(x) \in Nat /\ usage[x].today \in Nat
          BY <2>1, <2>2, <2>5, <2>8, <5>1
        <5>9. Total(x)' = Total(x) /\ usage'[x].today = usage[x].today
          BY <2>4, <2>5, <5>1
        <5> QED
          BY <2>1, <2>8, <2>9, <2>10, <4>1, <5>5, <5>6, <5>7, <5>8, <5>9
      <4>2. CASE keys[x].type # "reseller"
        <5>1. x = c
          BY <2>12, <4>2 DEF Spenders
        <5>2. Total(c) \in Nat /\ usage[c].today \in Nat
          BY <2>1, <2>2, <2>5
        <5>3. Used(c) = Total(c) /\ UsedToday(c) = usage[c].today
          BY <2>9, <4>2, <5>1, <5>2
        <5>4. Used(c)' = Total(c)' + 0 /\ UsedToday(c)' = usage'[c].today + 0
          BY <2>10, <4>2, <5>1
        <5>5. Used(c)' = Used(c) + n /\ UsedToday(c)' = UsedToday(c) + n
          BY <2>1, <2>4, <2>5, <5>2, <5>3, <5>4
        <5> QED
          BY <5>1, <5>5
      <4> QED
        BY <4>1, <4>2
    <3>2. Room(x)' = Room(x) + MaxCharge
      <4> DEFINE R == Requests \ InFlight(Spenders(x))
      <4>1. None \notin Spenders(x)
        BY <2>6, KeyConstants DEF NumbersTyped, Spenders, TypeOK
      <4>2. t \notin R /\ R \in SUBSET Requests
        BY <1>3, <2>12 DEF InFlight
      <4>3. Requests \ InFlight(Spenders(x))' = R \cup {t}
        BY <1>1, <2>7, <4>1 DEF InFlight, TypeOK
      <4>4. Room(x) = Cost(R) /\ Room(x)' = Cost(R \cup {t})
        BY <4>3 DEF Room, Slack, Cost
      <4> HIDE DEF R
      <4> QED
        BY <4>2, <4>4, CostOfOne
    <3>3. FitsBudget(x)
      BY <2>12 DEF WithinBudgets
    <3>4. /\ keys[x].token_limit \in Nat /\ keys[x].daily_limit \in Nat
          /\ Used(x) \in Nat /\ UsedToday(x) \in Nat /\ Room(x) \in Nat
      BY <2>6 DEF NumbersTyped
    <3>5. Below(keys[x].token_limit, Used(x) + n, Room(x) + MaxCharge)
      BY <2>1, <3>3, <3>4, KeyConstants DEF FitsBudget, Below
    <3>6. Below(keys[x].daily_limit, UsedToday(x) + n, Room(x) + MaxCharge)
      BY <2>1, <3>3, <3>4, KeyConstants DEF FitsBudget, Below
    <3> QED
      BY <1>1, <3>1, <3>2, <3>5, <3>6 DEF FitsBudget
  <2>13. WithinBudgets'
    BY <1>1, <2>11, <2>12 DEF WithinBudgets
  <2>14. NotOversold'
    BY <1>1 DEF NotOversold, Allocated, Limited, Children
  <2> QED
    BY <2>13, <2>14
<1> QED
  BY <1>2, <1>3

\* A new day gives back what the daily limits take, and nothing else.
LEMMA NewDayStep ==
  ASSUME KeysInv, TypeOK', NewDay
  PROVE  WithinBudgets' /\ NotOversold'
<1> USE DEF KeysInv, TablesInv
<1>1. /\ \A x \in Keys : Total(x)' = Total(x) /\ usage'[x].today = 0
      /\ UNCHANGED <<keys, accounts, inflight, form, issued, rebudgeted, toggled>>
  BY NewDayIs
<1>2. NumbersTyped
  BY TablesCount
<1>3. ASSUME NEW x \in DOMAIN keys
      PROVE  Used(x)' = Used(x) /\ UsedToday(x)' = 0 /\ Room(x)' = Room(x)
  <2>1. /\ Children(x)' = Children(x) /\ Spenders(x)' = Spenders(x) /\ x \in Keys
        /\ IsFiniteSet(Children(x)) /\ Children(x) \subseteq Keys
    BY <1>1, <1>2 DEF Children, Spenders, NumbersTyped, TypeOK
  <2>2. [c \in Keys |-> Total(c)]' = [c \in Keys |-> Total(c)]
    BY <1>1
  <2>3. Used(x)' = Used(x)
    BY <1>1, <2>1, <2>2 DEF Used
  <2>4. \A y \in Children(x) : [c \in Keys |-> usage'[c].today][y] = 0
    BY <1>1, <2>1
  <2>5. SumFunctionOnSet([c \in Keys |-> usage'[c].today], Children(x)) = 0
    BY <2>1, <2>4, SumZero
  <2>6. UsedToday(x)' = 0
    BY <1>1, <2>1, <2>5 DEF UsedToday
  <2>7. Room(x)' = Room(x)
    BY <1>1, <2>1 DEF Room, Slack, InFlight
  <2> QED
    BY <2>3, <2>6, <2>7
<1>4. WithinBudgets'
  <2>1. SUFFICES ASSUME NEW x \in DOMAIN keys, x \notin rebudgeted PROVE FitsBudget(x)'
    BY <1>1 DEF WithinBudgets
  <2>2. FitsBudget(x)
    BY <2>1 DEF WithinBudgets
  <2>3. /\ keys[x].token_limit >= keys[x].token_limit /\ keys[x].daily_limit >= keys[x].daily_limit
        /\ Used(x)' <= Used(x) /\ UsedToday(x)' <= UsedToday(x) /\ Room(x) <= Room(x)'
    BY <1>2, <1>3 DEF NumbersTyped
  <2> QED
    BY <1>1, <2>2, <2>3, StillFits
<1>5. NotOversold'
  BY <1>1 DEF NotOversold, Allocated, Limited, Children
<1> QED
  BY <1>4, <1>5

\* recharge_api_key gives a client no more than its master has left.
LEMMA RechargeStep ==
  ASSUME KeysInv, NEW k \in Keys, NEW f \in Forms, Recharge(k, f),
         form' \in {form, None}, edits' \in Nat
  PROVE  KeysInv'
<1> USE DEF KeysInv
<1>1. TablesInv' /\ TypeOK /\ TypeOK'
  BY RechargeKeeps DEF TablesInv
<1>2. PICK row \in Key, tokens \in Nat, daily \in Nat :
           /\ k \in DOMAIN keys
           /\ tokens = keys[k].token_limit + f.tokens
           /\ row.type = keys[k].type /\ row.parent = keys[k].parent
           /\ SetBudget(k, tokens, daily, row)
           /\ UNCHANGED <<usage, accounts, inflight, day, issued, toggled>>
  BY <1>1, RechargeIs
<1>3. ASSUME NEW r \in DOMAIN keys, keys[k].parent = r, Limited(r),
             tokens # keys[k].token_limit
      PROVE  Allocated(r) - keys[k].token_limit + tokens <= keys[r].token_limit
  <2>1. r # None /\ r \in Keys
    BY <1>1, KeyConstants DEF TypeOK
  <2>2. /\ Allocated(r) \in Nat /\ keys[r].token_limit \in Nat /\ keys[k].token_limit \in Nat
        /\ f.tokens \in Nat
    BY <1>1, <1>2, TablesCount, FormTypes DEF NumbersTyped
  <2>3. f.tokens > 0
    BY <1>2, <1>3, <2>2
  <2>4. Allocated(r) + f.tokens <= keys[r].token_limit
    BY <1>3, <2>1, <2>3 DEF Recharge
  <2> QED
    BY <1>2, <2>2, <2>4
<1> QED
  BY <1>1, <1>2, <1>3, BudgetStep

-----------------------------------------------------------------------------
(* The invariant.                                                           *)

\* Keys, accounts and limits: what operators and resellers do.
LEMMA OperatorStep ==
  ASSUME KeysInv, Operator, edits' \in Nat
  PROVE  KeysInv'
<1> USE DEF KeysInv
<1>1. ASSUME TablesInv', WithinBudgets' /\ NotOversold' PROVE KeysInv'
  BY <1>1
<1>2. TypeOK /\ (TablesInv' => TypeOK')
  BY DEF TablesInv
<1>3. ASSUME NEW f \in Forms, CreateKey("client", f) PROVE KeysInv'
  <2>1. f \in [tokens : Nat, daily : Nat, days : Nat]
    BY KeyConstants
  <2>2. TablesInv'
    BY <1>3, <2>1, CreateKeyKeeps
  <2>3. PICK k \in Keys, row \in Key :
          /\ Insert(k, row) /\ row.parent = None /\ row.type = "client"
          /\ UNCHANGED <<usage, accounts, inflight, form, day, rebudgeted, toggled>>
    BY <1>2, <1>3, <2>1, CreateKeyIs
  <2> QED
    BY <1>1, <1>2, <2>2, <2>3, InsertStep
<1>4. ASSUME NEW f \in Forms, CreateKey("reseller", [f EXCEPT !.daily = 0])
      PROVE  KeysInv'
  <2>1. [f EXCEPT !.daily = 0] \in [tokens : Nat, daily : Nat, days : Nat]
    BY KeyConstants
  <2>2. TablesInv'
    BY <1>4, <2>1, CreateKeyKeeps
  <2>3. PICK k \in Keys, row \in Key :
          /\ Insert(k, row) /\ row.parent = None /\ row.type = "reseller"
          /\ UNCHANGED <<usage, accounts, inflight, form, day, rebudgeted, toggled>>
    BY <1>2, <1>4, <2>1, CreateKeyIs
  <2> QED
    BY <1>1, <1>2, <2>2, <2>3, InsertStep
<1>5. ASSUME NEW k \in Keys, NEW f \in Forms, RechargeKey(k, f) PROVE KeysInv'
  BY <1>5, RechargeStep DEF RechargeKey
<1>6. ASSUME NEW a \in Accounts, NEW f \in Forms, Approve(a, f) PROVE KeysInv'
  <2> DEFINE k == accounts[a].key
             row == [keys[k] EXCEPT !.active = TRUE, !.expires_at = Expiry(f.days)]
  <2>1. TablesInv'
    BY <1>6, ApproveKeeps
  <2>2. k \in DOMAIN keys /\ keys[k] \in Key /\ keys[k].type = "reseller"
    BY <1>6 DEF Approve, TablesInv, NoOrphans, TypeOK
  <2>3. f.tokens \in Nat /\ Expiry(f.days) \in Nat /\ keys[k].daily_limit \in Nat
    BY <1>2, <2>2, FormTypes, ExpiryType DEF Key
  <2>4. row \in Key /\ row.type = keys[k].type /\ row.parent = keys[k].parent
    BY <2>2, <2>3 DEF Key
  <2>5. SetBudget(k, f.tokens, keys[k].daily_limit, row) /\ UNCHANGED <<usage, inflight>>
    BY <1>6 DEF Approve
  <2> HIDE DEF row
  <2>6. \A r \in DOMAIN keys : keys[k].parent # r
    BY <2>2, KeyConstants DEF TablesInv, Linked, TypeOK
  <2> HIDE DEF k
  <2> QED
    BY <1>1, <1>2, <2>1, <2>2, <2>3, <2>4, <2>5, <2>6, BudgetStep
<1>7. ASSUME NEW a \in Accounts, Signup(a) PROVE KeysInv'
  <2>1. TablesInv'
    BY <1>7, SignupKeeps
  <2>2. PICK k \in Keys, row \in Key :
          /\ Insert(k, row) /\ row.parent = None
          /\ UNCHANGED <<usage, inflight, form, day, rebudgeted, toggled>>
    BY <1>2, <1>7, SignupIs
  <2> QED
    BY <1>1, <1>2, <2>1, <2>2, InsertStep
<1>8. ASSUME NEW a \in Accounts, DeleteAccount(a) PROVE KeysInv'
  <2>1. accounts[a].key \in DOMAIN keys
    BY <1>8 DEF DeleteAccount, TablesInv, NoOrphans
  <2>2. /\ Delete({accounts[a].key} \cup Children(accounts[a].key))
        /\ UNCHANGED <<inflight, form, day, issued>>
    BY <1>8 DEF DeleteAccount
  <2> QED
    BY <1>1, <1>2, <2>1, <2>2, DeleteKeeps, DeleteStep
<1>9. ASSUME NEW a \in Accounts, NEW k \in Keys, Attach(a, k) PROVE KeysInv'
  <2>1. TablesInv'
    BY <1>9, AttachKeeps
  <2>2. UNCHANGED <<keys, usage, inflight, rebudgeted>>
    BY <1>9 DEF Attach
  <2>3. SameFamily
    BY <2>2 DEF SameFamily
  <2> QED
    BY <1>1, <1>2, <2>1, <2>2, <2>3, LimitsKept
<1>10. ASSUME NEW a \in Accounts, NEW status \in {"active", "suspended"}, SetStatus(a, status)
       PROVE  KeysInv'
  <2> DEFINE k == accounts[a].key
             row == [keys[k] EXCEPT !.active = status = "active"]
  <2>1. TablesInv'
    BY <1>10, SetStatusKeeps
  <2>2. k \in DOMAIN keys /\ keys[k] \in Key
    BY <1>10 DEF SetStatus, TablesInv, NoOrphans, TypeOK
  <2>3. /\ row \in Key /\ row.type = keys[k].type /\ row.parent = keys[k].parent
        /\ row.token_limit = keys[k].token_limit /\ row.daily_limit = keys[k].daily_limit
    BY <2>2 DEF Key
  <2>4. Update(k, row) /\ UNCHANGED <<usage, inflight, rebudgeted>>
    BY <1>10 DEF SetStatus
  <2> HIDE DEF row
  <2>5. /\ SameFamily /\ keys'[k] = row
        /\ \A x \in DOMAIN keys : x # k => keys'[x] = keys[x]
    BY <1>2, <2>2, <2>3, <2>4, Amended
  <2> QED
    BY <1>1, <1>2, <2>1, <2>3, <2>4, <2>5, LimitsKept
<1>11. ASSUME NEW a \in Accounts, NEW delta \in Int, RechargeReseller(a, delta)
       PROVE  KeysInv'
  <2> DEFINE k == accounts[a].key
  <2>1. TablesInv'
    BY <1>11, RechargeResellerKeeps
  <2>2. PICK tokens \in Nat :
           /\ k \in DOMAIN keys /\ keys[k].type = "reseller" /\ keys[k] \in Key
           /\ SetBudget(k, tokens, keys[k].daily_limit, keys[k])
           /\ UNCHANGED <<usage, accounts, inflight, form, day, issued, toggled>>
    BY <1>11, RechargeResellerIs
  <2>3. keys[k].daily_limit \in Nat
    BY <2>2 DEF Key
  <2>4. \A r \in DOMAIN keys : keys[k].parent # r
    BY <2>2, KeyConstants DEF TablesInv, Linked, TypeOK
  <2> HIDE DEF k
  <2> QED
    BY <1>1, <1>2, <2>1, <2>2, <2>3, <2>4, BudgetStep
<1>12. ASSUME NEW k \in Keys, DeleteKey(k) PROVE KeysInv'
  <2>1. /\ k \in DOMAIN keys /\ Delete({k} \cup Children(k))
        /\ UNCHANGED <<inflight, form, day, issued>>
    BY <1>12 DEF DeleteKey
  <2> QED
    BY <1>1, <1>2, <2>1, DeleteKeeps, DeleteStep
<1>13. ASSUME NEW k \in Keys, NEW on \in BOOLEAN, Toggle(k, on) PROVE KeysInv'
  <2> DEFINE row == [keys[k] EXCEPT !.active = on]
  <2>1. TablesInv'
    BY <1>13, ToggleKeeps
  <2>2. k \in DOMAIN keys /\ keys[k] \in Key
    BY <1>2, <1>13 DEF Toggle, TypeOK
  <2>3. /\ row \in Key /\ row.type = keys[k].type /\ row.parent = keys[k].parent
        /\ row.token_limit = keys[k].token_limit /\ row.daily_limit = keys[k].daily_limit
    BY <2>2 DEF Key
  <2>4. Update(k, row) /\ UNCHANGED <<usage, inflight, rebudgeted>>
    BY <1>13 DEF Toggle
  <2> HIDE DEF row
  <2>5. /\ SameFamily /\ keys'[k] = row
        /\ \A x \in DOMAIN keys : x # k => keys'[x] = keys[x]
    BY <1>2, <2>2, <2>3, <2>4, Amended
  <2> QED
    BY <1>1, <1>2, <2>1, <2>3, <2>4, <2>5, LimitsKept
<1>14. \A f \in Forms : f.tokens \in Int
  BY FormTypes
<1>15. \A n \in Removals : -n \in Int
  BY KeyConstants
<1>16. CASE \E f \in Forms :
              \/ CreateKey("client", f)
              \/ CreateKey("reseller", [f EXCEPT !.daily = 0])
              \/ \E k \in Keys : RechargeKey(k, f)
              \/ \E a \in Accounts : Approve(a, f)
  BY <1>3, <1>4, <1>5, <1>6, <1>16
<1>17. CASE \E a \in Accounts :
              \/ Signup(a)
              \/ DeleteAccount(a)
              \/ \E k \in Keys : Attach(a, k)
              \/ \E status \in {"active", "suspended"} : SetStatus(a, status)
              \/ \E f \in Forms : RechargeReseller(a, f.tokens)
              \/ \E n \in Removals : RechargeReseller(a, -n)
  BY <1>7, <1>8, <1>9, <1>10, <1>11, <1>14, <1>15, <1>17
<1>18. CASE \E k \in Keys : DeleteKey(k) \/ \E on \in BOOLEAN : Toggle(k, on)
  BY <1>12, <1>13, <1>18
<1> QED
  BY <1>16, <1>17, <1>18 DEF Operator

LEMMA ResellerStep ==
  ASSUME KeysInv, Reseller, edits' \in Nat
  PROVE  KeysInv'
<1> USE DEF KeysInv
<1>1. CASE \E r \in Keys : OpenForm(r)
  <2>1. TablesInv'
    BY <1>1, FormKeeps
  <2>2. UNCHANGED <<keys, usage, inflight, rebudgeted>>
    BY <1>1 DEF OpenForm
  <2>3. SameFamily
    BY <2>2 DEF SameFamily
  <2> QED
    BY <2>1, <2>2, <2>3, LimitsKept DEF TablesInv
<1>2. ASSUME NEW f \in Forms, CreateClient(f) PROVE KeysInv'
  <2>1. TablesInv'
    BY <1>2, CreateClientKeeps
  <2>2. PICK k \in Keys, row \in Key :
           /\ Insert(k, row) /\ row.parent = form /\ row.type = "client"
           /\ row.token_limit = f.tokens
           /\ form \in DOMAIN keys /\ keys[form].type = "reseller"
           /\ Limited(form) => Allocated(form) + f.tokens <= keys[form].token_limit
           /\ form' = None
           /\ UNCHANGED <<usage, accounts, inflight, day, rebudgeted, toggled>>
    BY <1>2, CreateClientIs
  <2> QED
    BY <2>1, <2>2, InsertStep DEF TablesInv
<1>3. ASSUME NEW k \in Keys, NEW f \in Forms, RechargeClient(k, f) PROVE KeysInv'
  BY <1>3, RechargeStep DEF RechargeClient
<1> QED
  BY <1>1, <1>2, <1>3 DEF Reseller

LEMMA TrafficStep ==
  ASSUME KeysInv, CloseForm \/ Traffic \/ NewDay, edits' \in Nat
  PROVE  KeysInv'
<1> USE DEF KeysInv
<1>1. CASE CloseForm
  <2>1. TablesInv'
    BY <1>1, FormKeeps
  <2>2. UNCHANGED <<keys, usage, inflight, rebudgeted>>
    BY <1>1 DEF CloseForm
  <2>3. SameFamily
    BY <2>2 DEF SameFamily
  <2> QED
    BY <2>1, <2>2, <2>3, LimitsKept DEF TablesInv
<1>2. ASSUME NEW t \in Requests, NEW k \in Keys, Admit(t, k) PROVE KeysInv'
  BY <1>2, AdmitKeeps, AdmitStep DEF TablesInv
<1>3. ASSUME NEW t \in Requests, NEW n \in 0..MaxCharge, Charge(t, n) PROVE KeysInv'
  BY <1>3, EndKeeps, ChargeStep DEF TablesInv
<1>4. ASSUME NEW t \in Requests, EndUncharged(t) PROVE KeysInv'
  <2>1. TablesInv'
    BY <1>4, EndKeeps
  <2>2. inflight' = [inflight EXCEPT ![t] = None] /\ UNCHANGED <<keys, usage, rebudgeted>>
    BY <1>4 DEF EndUncharged
  <2> QED
    BY <2>1, <2>2, EndStep DEF TablesInv
<1>5. CASE NewDay
  BY <1>5, NewDayKeeps, NewDayStep DEF TablesInv
<1> QED
  BY <1>1, <1>2, <1>3, <1>4, <1>5 DEF Traffic

LEMMA KeysStart ==
  ASSUME Init
  PROVE  KeysInv
<1>1. TablesInv
  BY TablesStart
<1>2. DOMAIN keys = {}
  BY DEF Init
<1> QED
  BY <1>1, <1>2 DEF KeysInv, WithinBudgets, NotOversold

THEOREM KeysInvInductive == Spec => []KeysInv
<1>1. ASSUME KeysInv, [Next]_vars PROVE KeysInv'
  <2>1. edits \in Nat
    BY <1>1 DEF KeysInv, TablesInv, TypeOK
  <2>2. CASE edits < MaxEdits /\ (Operator \/ Reseller) /\ edits' = edits + 1
    <3>1. edits' \in Nat
      BY <2>1, <2>2
    <3> QED
      BY <1>1, <2>2, <3>1, OperatorStep, ResellerStep
  <2>3. CASE (CloseForm \/ Traffic \/ NewDay) /\ UNCHANGED edits
    <3>1. edits' \in Nat
      BY <2>1, <2>3
    <3> QED
      BY <1>1, <2>3, <3>1, TrafficStep
  <2>4. CASE UNCHANGED vars
    <3> USE DEF KeysInv, TablesInv
    <3>1. UNCHANGED <<keys, usage, accounts, inflight, form, day, issued, rebudgeted, toggled, edits>>
      BY <2>4 DEF vars
    <3>2. TypeOK' /\ Linked'
      BY <1>1, <3>1 DEF TypeOK, Linked
    <3>3. NoOrphans' /\ Inactive'
      BY <1>1, <3>1 DEF NoOrphans, Inactive, Total
    <3>4. SameFamily
      BY <3>1 DEF SameFamily
    <3>5. WithinBudgets' /\ NotOversold'
      BY <1>1, <3>1, <3>2, <3>4, LimitsKept
    <3> QED
      BY <3>2, <3>3, <3>5
  <2> QED
    BY <1>1, <2>2, <2>3, <2>4 DEF Next
<1> QED
  BY <1>1, KeysStart, PTL DEF Spec

-----------------------------------------------------------------------------
(* Results.                                                                 *)

\* Whatever operators, resellers and requests do, in any order: parents,
\* accounts and usage refer to keys that exist, a master belongs to one account,
\* and no client of a pending or suspended reseller is admitted unless the
\* master key was switched on by hand.
THEOREM TablesFitTogether == Spec => []KeysSound
<1>1. KeysInv => KeysSound
  BY InactiveSuspends DEF KeysInv, TablesInv, KeysSound
<1> QED
  BY <1>1, KeysInvInductive, PTL

\* A client key, and a reseller with all its clients, goes over a balance or a
\* daily limit by less than what the requests in flight may cost, however many
\* there are; and no reseller distributes more than its balance.
THEOREM BudgetsAreKept == Spec => []BudgetsHold
<1>1. KeysInv => BudgetsHold
  BY BudgetsAreWithin DEF KeysInv, TablesInv, BudgetsHold
<1> QED
  BY <1>1, KeysInvInductive, PTL

-----------------------------------------------------------------------------
(* The providers' cache.  Values are numbered in the order of the calls of      *)
(* store, so that "newer" is "larger".                                          *)

Entry == [val : Nat, ts : Nat]
Slot == Entry \cup {NoEntry}
CacheTask == [op : {"store", "lookup"}, key : CacheKeys, val : Nat]

CacheTypeOK ==
  /\ proc \in {"down", "starting", "loading", "on"}
  /\ mem \in [CacheKeys -> Slot] /\ file \in [CacheKeys -> Slot]
  /\ latest \in [CacheKeys -> Slot]
  /\ dirty \in BOOLEAN /\ ready \in Seq(CacheTask) /\ waiting \subseteq CacheKeys
  /\ now \in Nat /\ stored \in Nat /\ overtaken \subseteq CacheKeys

\* The stores that wait to be run bring newer values than any that were run, in
\* the order they were made.
Queued ==
  \A i \in 1..Len(ready) : ready[i].op = "store" =>
    /\ ready[i].val <= stored
    /\ \A k \in CacheKeys : latest[k] # NoEntry => latest[k].val < ready[i].val
    /\ \A j \in 1..(i - 1) : ready[j].op = "store" => ready[j].val < ready[i].val

\* e is no newer than f, and is f if it is as new.
NotNewer(e, f) ==
  e # NoEntry => f # NoEntry /\ e.val <= f.val /\ (e.val = f.val => e = f)

\* The file is never ahead of memory, nor memory of the newest value.
Aged(k) ==
  /\ NotNewer(mem[k], latest[k]) /\ NotNewer(file[k], latest[k])
  /\ mem[k] # NoEntry => NotNewer(file[k], mem[k])
  /\ latest[k] # NoEntry => latest[k].val <= stored

\* What memory, or the file when memory has nothing, has of a key nobody overtook.
Newest(k) ==
  IF mem[k] # NoEntry THEN mem[k] = latest[k] ELSE file[k] \in {NoEntry, latest[k]}

CacheInv ==
  /\ CacheTypeOK /\ CleanMeansSaved /\ Queued
  /\ \A k \in CacheKeys : Aged(k) /\ (k \notin overtaken => Newest(k))

KeysOK == \A k \in CacheKeys : Aged(k) /\ (k \notin overtaken => Newest(k))

\* A step that leaves the entries, the tasks and the history alone.
LEMMA CacheQuiet ==
  ASSUME CacheInv, CacheTypeOK',
         UNCHANGED <<mem, file, latest, stored, overtaken, ready>>,
         dirty' = dirty
  PROVE  CacheInv'
<1>1. CleanMeansSaved' /\ Queued'
  BY DEF CacheInv, CleanMeansSaved, Queued
<1>2. KeysOK'
  BY DEF CacheInv, KeysOK, Aged, NotNewer, Newest
<1> QED BY <1>1, <1>2 DEF CacheInv, KeysOK

\* Entries of memory that are dropped, or taken from the file, for the keys of
\* some set; what was lost or overtaken is marked.
LEMMA EntriesMove ==
  ASSUME CacheInv, mem' \in [CacheKeys -> Slot], overtaken' \in SUBSET CacheKeys,
         \A k \in CacheKeys :
           \/ mem'[k] = mem[k]
           \/ mem'[k] = NoEntry /\ (k \in overtaken' \/ mem[k] \in {NoEntry, file[k]})
           \/ /\ mem'[k] = file[k] /\ file[k] # NoEntry
              /\ k \in overtaken' \/ ~Older(file[k], mem[k]),
         overtaken \subseteq overtaken',
         UNCHANGED <<file, latest, stored, dirty>>
  PROVE  CleanMeansSaved' /\ KeysOK'
<1>1. /\ mem \in [CacheKeys -> Slot] /\ file \in [CacheKeys -> Slot]
      /\ latest \in [CacheKeys -> Slot]
  BY DEF CacheInv, CacheTypeOK
<1>2. CleanMeansSaved'
  BY DEF CacheInv, CleanMeansSaved
<1>3. ASSUME NEW k \in CacheKeys PROVE Aged(k)' /\ (k \notin overtaken' => Newest(k)')
  <2> DEFINE m == mem[k]  f == file[k]  l == latest[k]
  <2>1. m \in Slot /\ f \in Slot /\ l \in Slot
    BY <1>1
  <2>2. Aged(k) /\ (k \notin overtaken => Newest(k))
    BY DEF CacheInv
  <2>3. CASE mem'[k] = m
    BY <2>2, <2>3 DEF Aged, Newest, NotNewer
  <2>4. CASE mem'[k] = NoEntry /\ (k \in overtaken' \/ m \in {NoEntry, f})
    BY <2>2, <2>4 DEF Aged, Newest, NotNewer
  <2>5. CASE mem'[k] = f /\ f # NoEntry /\ (k \in overtaken' \/ ~Older(f, m))
    <3>1. Aged(k)'
      BY <2>1, <2>2, <2>5 DEF Aged, NotNewer, Slot, Entry
    <3>2. ASSUME k \notin overtaken' PROVE f = l
      <4>1. CASE m = NoEntry
        BY <2>2, <2>5, <3>2, <4>1 DEF Newest
      <4>2. CASE m # NoEntry
        <5>1. f \in Entry /\ m \in Entry
          BY <2>1, <2>5, <4>2 DEF Slot
        <5>2. ~(f.val < m.val) /\ f.val <= m.val /\ (f.val = m.val => f = m)
          BY <2>2, <2>5, <3>2, <4>2 DEF Aged, NotNewer, Older
        <5>3. f = m
          BY <5>1, <5>2 DEF Entry
        <5> QED BY <2>2, <3>2, <4>2, <5>3 DEF Newest
      <4> QED BY <4>1, <4>2
    <3> QED BY <2>5, <3>1, <3>2 DEF Newest
  <2> QED BY <2>3, <2>4, <2>5
<1> QED BY <1>2, <1>3 DEF KeysOK

LEMMA CacheInitial == CacheInit => CacheInv
<1> SUFFICES ASSUME CacheInit PROVE CacheInv
  OBVIOUS
<1>1. CacheTypeOK
  <2>1. NoEntries(CacheKeys) \in [CacheKeys -> Slot] /\ <<>> \in Seq(CacheTask)
    BY DEF NoEntries, Slot
  <2> QED BY <2>1 DEF CacheInit, CacheTypeOK
<1>2. CleanMeansSaved /\ Queued
  BY DEF CacheInit, CleanMeansSaved, NoEntries, Queued
<1>3. \A k \in CacheKeys : Aged(k) /\ Newest(k)
  BY DEF CacheInit, NoEntries, Aged, Newest, NotNewer
<1> QED BY <1>1, <1>2, <1>3 DEF CacheInv

LEMMA ProcessKeeps ==
  ASSUME CacheInv, Start \/ Clock \/ DiskTurns \/ BeginLoad
  PROVE  CacheInv'
<1>1. UNCHANGED <<mem, file, latest, stored, overtaken, ready, dirty>>
  BY DEF Start, Clock, DiskTurns, BeginLoad
<1>2. CacheTypeOK'
  BY DEF CacheInv, CacheTypeOK, Start, Clock, DiskTurns, BeginLoad
<1> QED BY <1>1, <1>2, CacheQuiet

LEMMA CrashKeeps ==
  ASSUME CacheInv, Crash
  PROVE  CacheInv'
<1>1. /\ mem' = NoEntries(CacheKeys) /\ latest' = file /\ overtaken' = {} /\ ready' = <<>>
      /\ dirty' = FALSE /\ UNCHANGED <<file, stored>>
  BY DEF Crash
<1>2. CacheTypeOK'
  <2>1. NoEntries(CacheKeys) \in [CacheKeys -> Slot] /\ <<>> \in Seq(CacheTask)
    BY DEF NoEntries, Slot
  <2> QED BY <2>1 DEF CacheInv, CacheTypeOK, Crash
<1>3. CleanMeansSaved' /\ Queued'
  BY <1>1 DEF CleanMeansSaved, NoEntries, Queued
<1>4. \A k \in CacheKeys : Aged(k)' /\ Newest(k)'
  <2>1. \A k \in CacheKeys : file[k] # NoEntry => file[k].val \in Nat
    BY DEF CacheInv, CacheTypeOK, Slot, Entry
  <2>2. \A k \in CacheKeys : file[k] # NoEntry => file[k].val <= stored
    BY <2>1 DEF CacheInv, CacheTypeOK, Aged, NotNewer, Slot, Entry
  <2> QED BY <1>1, <2>1, <2>2 DEF NoEntries, Aged, Newest, NotNewer
<1> QED BY <1>2, <1>3, <1>4 DEF CacheInv

LEMMA EndLoadKeeps ==
  ASSUME CacheInv, NEW readable \in BOOLEAN, EndLoad(readable)
  PROVE  CacheInv'
<1>1. /\ mem' = [k \in CacheKeys |-> IF OnDisk(k, readable) # NoEntry THEN file[k] ELSE mem[k]]
      /\ overtaken' = overtaken \cup {k \in CacheKeys : Older(mem'[k], mem[k])}
      /\ UNCHANGED <<file, dirty, ready, waiting, diskOk, now, stored, latest>>
      /\ proc' = "on"
  BY DEF EndLoad, LoadedEntries
<1>2. mem' \in [CacheKeys -> Slot] /\ overtaken' \in SUBSET CacheKeys
  BY <1>1 DEF CacheInv, CacheTypeOK
<1>3. CacheTypeOK'
  BY <1>1, <1>2 DEF CacheInv, CacheTypeOK
<1>4. \A k \in CacheKeys : OnDisk(k, readable) # NoEntry => file[k] # NoEntry
  BY DEF OnDisk
<1>5. CleanMeansSaved' /\ KeysOK'
  BY <1>1, <1>2, <1>4, EntriesMove
<1>6. Queued'
  BY <1>1 DEF CacheInv, Queued
<1> QED BY <1>3, <1>5, <1>6 DEF CacheInv, KeysOK

LEMMA CleanupKeeps ==
  ASSUME CacheInv, Cleanup
  PROVE  CacheInv'
<1>1. /\ mem' = [k \in CacheKeys |-> IF Valid(mem[k], MemoryTTL) THEN mem[k] ELSE NoEntry]
      /\ overtaken' = overtaken \cup {k \in CacheKeys : Unsaved(k) /\ mem'[k] = NoEntry}
      /\ UNCHANGED <<proc, file, dirty, ready, waiting, diskOk, now, stored, latest>>
  BY DEF Cleanup
<1>2. mem' \in [CacheKeys -> Slot] /\ overtaken' \in SUBSET CacheKeys
  BY <1>1 DEF CacheInv, CacheTypeOK, Slot
<1>3. CacheTypeOK'
  BY <1>1, <1>2 DEF CacheInv, CacheTypeOK
<1>4. CleanMeansSaved' /\ KeysOK'
  BY <1>1, <1>2, EntriesMove DEF Unsaved
<1>5. Queued'
  BY <1>1 DEF CacheInv, Queued
<1> QED BY <1>3, <1>4, <1>5 DEF CacheInv, KeysOK

LEMMA SaveKeeps ==
  ASSUME CacheInv, NEW readable \in BOOLEAN, Save(readable)
  PROVE  CacheInv'
<1>1. /\ file' = [k \in CacheKeys |-> IF mem[k] # NoEntry THEN mem[k] ELSE OnDisk(k, readable)]
      /\ dirty' = FALSE
      /\ UNCHANGED <<proc, mem, ready, waiting, diskOk, now, stored, latest, overtaken>>
  BY DEF Save, SavedEntries
<1>2. \A k \in CacheKeys : OnDisk(k, readable) \in {NoEntry, file[k]}
  BY DEF OnDisk
<1>3. file' \in [CacheKeys -> Slot]
  BY <1>1, <1>2 DEF CacheInv, CacheTypeOK, Slot
<1>4. CacheTypeOK'
  BY <1>1, <1>3 DEF CacheInv, CacheTypeOK
<1>5. CleanMeansSaved' /\ Queued'
  BY <1>1 DEF CacheInv, CleanMeansSaved, Queued
<1>6. ASSUME NEW k \in CacheKeys PROVE Aged(k)' /\ (k \notin overtaken' => Newest(k)')
  <2>1. Aged(k) /\ (k \notin overtaken => Newest(k)) /\ mem[k] \in Slot
    BY DEF CacheInv, CacheTypeOK
  <2>2. CASE mem[k] # NoEntry
    <3>1. file'[k] = mem[k] /\ mem[k].val \in Nat
      BY <1>1, <2>1, <2>2 DEF Slot, Entry
    <3> QED BY <1>1, <2>1, <2>2, <3>1 DEF Aged, Newest, NotNewer
  <2>3. CASE mem[k] = NoEntry
    <3>1. file'[k] \in {NoEntry, file[k]}
      BY <1>1, <1>2, <2>3
    <3> QED BY <1>1, <2>1, <2>3, <3>1 DEF Aged, Newest, NotNewer
  <2> QED BY <2>2, <2>3
<1> QED BY <1>4, <1>5, <1>6 DEF CacheInv

LEMMA StoreKeeps ==
  ASSUME CacheInv, NEW k \in CacheKeys, Store(k)
  PROVE  CacheInv'
<1> DEFINE t == [op |-> "store", key |-> k, val |-> stored + 1]
<1>1. /\ stored' = stored + 1 /\ ready' = Append(ready, t)
      /\ UNCHANGED <<proc, mem, file, dirty, waiting, diskOk, now, latest, overtaken>>
  BY DEF Store
<1>2. stored \in Nat /\ ready \in Seq(CacheTask)
  BY DEF CacheInv, CacheTypeOK
<1>3. t \in CacheTask /\ t.val = stored + 1
  BY <1>2 DEF CacheTask
<1> HIDE DEF t
<1>4. ready' \in Seq(CacheTask) /\ stored' \in Nat
  BY <1>1, <1>2, <1>3
<1>5. CacheTypeOK'
  BY <1>1, <1>4 DEF CacheInv, CacheTypeOK
<1>6. \A j \in CacheKeys : latest[j] # NoEntry => latest[j].val \in Nat /\ latest[j].val <= stored
  BY DEF CacheInv, CacheTypeOK, Aged, Slot, Entry
<1>7. Queued'
  <2>1. Len(ready') = Len(ready) + 1 /\ Len(ready) \in Nat
    BY <1>1, <1>2
  <2>2. \A i \in 1..Len(ready) : ready'[i] = ready[i] /\ ready[i].val \in Nat
    <3>1. \A i \in 1..Len(ready) : ready'[i] = ready[i] /\ ready[i] \in CacheTask
      BY <1>1, <1>2
    <3> QED BY <3>1 DEF CacheTask
  <2>3. ready'[Len(ready) + 1] = t
    BY <1>1, <1>2
  <2>4. ASSUME NEW i \in 1..Len(ready'), ready'[i].op = "store"
        PROVE  /\ ready'[i].val <= stored'
               /\ \A j \in CacheKeys : latest'[j] # NoEntry => latest'[j].val < ready'[i].val
               /\ \A j \in 1..(i - 1) : ready'[j].op = "store" => ready'[j].val < ready'[i].val
    <3>1. CASE i \in 1..Len(ready)
      <4>1. \A j \in 1..(i - 1) : j \in 1..Len(ready)
        BY <2>1, <3>1
      <4> QED BY <1>1, <1>2, <2>2, <2>4, <3>1, <4>1 DEF CacheInv, Queued
    <3>2. CASE i = Len(ready) + 1
      <4>1. \A j \in 1..(i - 1) : ready'[j].op = "store" => ready'[j].val <= stored
        BY <2>1, <2>2, <3>2 DEF CacheInv, Queued
      <4>2. \A j \in 1..(i - 1) : ready'[j].val \in Nat
        BY <2>1, <2>2, <3>2
      <4> QED BY <1>1, <1>2, <1>3, <1>6, <2>3, <3>2, <4>1, <4>2
    <3> QED BY <2>1, <3>1, <3>2
  <2> QED BY <2>4 DEF Queued
<1>8. KeysOK'
  BY <1>1, <1>2, <1>6 DEF CacheInv, KeysOK, Aged, NotNewer, Newest
<1>9. CleanMeansSaved'
  BY <1>1 DEF CacheInv, CleanMeansSaved
<1> QED BY <1>5, <1>7, <1>8, <1>9 DEF CacheInv, KeysOK

LEMMA RetrieveKeeps ==
  ASSUME CacheInv, NEW k \in CacheKeys, RetrieveMisses(k)
  PROVE  CacheInv'
<1> DEFINE t == [op |-> "lookup", key |-> k, val |-> 0]
<1>1. /\ mem' = [mem EXCEPT ![k] = NoEntry] /\ ready' = Append(ready, t)
      /\ overtaken' = IF Unsaved(k) THEN overtaken \cup {k} ELSE overtaken
      /\ UNCHANGED <<proc, file, dirty, waiting, diskOk, now, stored, latest>>
  BY DEF RetrieveMisses
<1>2. ready \in Seq(CacheTask) /\ mem \in [CacheKeys -> Slot]
  BY DEF CacheInv, CacheTypeOK
<1>3. t \in CacheTask /\ t.op = "lookup"
  BY DEF CacheTask
<1> HIDE DEF t
<1>4. ready' \in Seq(CacheTask) /\ mem' \in [CacheKeys -> Slot] /\ overtaken' \in SUBSET CacheKeys
  BY <1>1, <1>2, <1>3 DEF Slot, CacheInv, CacheTypeOK
<1>5. CacheTypeOK'
  BY <1>1, <1>4 DEF CacheInv, CacheTypeOK
<1>6. CleanMeansSaved' /\ KeysOK'
  <2>1. \A j \in CacheKeys : mem'[j] = mem[j] \/ (j = k /\ mem'[j] = NoEntry)
    BY <1>1, <1>2
  <2>2. k \in overtaken' \/ mem[k] \in {NoEntry, file[k]}
    BY <1>1 DEF Unsaved
  <2> QED BY <1>1, <1>4, <2>1, <2>2, EntriesMove
<1>7. Queued'
  <2>1. Len(ready') = Len(ready) + 1 /\ Len(ready) \in Nat
    BY <1>1, <1>2
  <2>2. \A i \in 1..Len(ready) : ready'[i] = ready[i]
    BY <1>1, <1>2
  <2>3. ready'[Len(ready) + 1].op = "lookup"
    BY <1>1, <1>2, <1>3
  <2>4. ASSUME NEW i \in 1..Len(ready'), ready'[i].op = "store"
        PROVE  i \in 1..Len(ready) /\ \A j \in 1..(i - 1) : j \in 1..Len(ready)
    BY <2>1, <2>3, <2>4
  <2> QED BY <1>1, <2>2, <2>4 DEF CacheInv, Queued
<1> QED BY <1>5, <1>6, <1>7 DEF CacheInv, KeysOK

\* The stores that are left bring newer values than those that were run before the
\* step, in the order they were made.
QueuedAfter ==
  \A i \in 1..Len(ready') : ready'[i].op = "store" =>
    /\ ready'[i].val <= stored
    /\ \A k \in CacheKeys : latest[k] # NoEntry => latest[k].val < ready'[i].val
    /\ \A j \in 1..(i - 1) : ready'[j].op = "store" => ready'[j].val < ready'[i].val

\* The task at the head of the loop is taken from it.
LEMMA HeadTaken ==
  ASSUME CacheInv, ready # <<>>, ready' = Tail(ready)
  PROVE  /\ ready' \in Seq(CacheTask) /\ QueuedAfter
         /\ Head(ready) \in CacheTask
         /\ Head(ready).op = "store" =>
              /\ Head(ready).val <= stored
              /\ \A k \in CacheKeys : latest[k] # NoEntry => latest[k].val < Head(ready).val
              /\ \A i \in 1..Len(ready') : ready'[i].op = "store" =>
                   Head(ready).val < ready'[i].val
<1>1. ready \in Seq(CacheTask)
  BY DEF CacheInv, CacheTypeOK
<1>2. /\ Head(ready) = ready[1] /\ Len(ready) \in Nat /\ Len(ready) > 0
      /\ Len(ready') = Len(ready) - 1
      /\ \A i \in 1..Len(ready') : i + 1 \in 1..Len(ready) /\ ready'[i] = ready[i + 1]
  BY <1>1
<1>3. \A i \in 1..Len(ready) : ready[i].op = "store" =>
        \A j \in 1..(i - 1) : ready[j].op = "store" => ready[j].val < ready[i].val
  BY DEF CacheInv, Queued
<1>4. ready' \in Seq(CacheTask) /\ Head(ready) \in CacheTask
  BY <1>1
<1>5. QueuedAfter
  <2>1. ASSUME NEW i \in 1..Len(ready'), ready'[i].op = "store"
        PROVE  \A j \in 1..(i - 1) : ready'[j].op = "store" => ready'[j].val < ready'[i].val
    <3>1. ASSUME NEW j \in 1..(i - 1) PROVE j + 1 \in 1..(i + 1 - 1) /\ j \in 1..Len(ready')
      BY <1>2
    <3> QED BY <1>2, <1>3, <2>1, <3>1
  <2>2. ASSUME NEW i \in 1..Len(ready'), ready'[i].op = "store"
        PROVE  /\ ready'[i].val <= stored
               /\ \A k \in CacheKeys : latest[k] # NoEntry => latest[k].val < ready'[i].val
    BY <1>2, <2>2 DEF CacheInv, Queued
  <2> QED BY <2>1, <2>2 DEF QueuedAfter
<1>6. Head(ready).op = "store" =>
        /\ Head(ready).val <= stored
        /\ \A k \in CacheKeys : latest[k] # NoEntry => latest[k].val < Head(ready).val
  BY <1>2 DEF CacheInv, Queued
<1>7. ASSUME Head(ready).op = "store", NEW i \in 1..Len(ready'), ready'[i].op = "store"
      PROVE  Head(ready).val < ready'[i].val
  <2>1. i + 1 \in 1..Len(ready) /\ 1 \in 1..(i + 1 - 1) /\ ready'[i] = ready[i + 1]
    BY <1>2
  <2> QED BY <1>2, <1>3, <1>7, <2>1
<1> QED BY <1>4, <1>5, <1>6, <1>7

LEMMA RunStoreKeeps ==
  ASSUME CacheInv, RunStore
  PROVE  CacheInv'
<1> DEFINE t == Head(ready)
           e == [val |-> t.val, ts |-> now]
<1>1. /\ ready # <<>> /\ t.op = "store" /\ ready' = Tail(ready)
      /\ mem' = [mem EXCEPT ![t.key] = e]
      /\ latest' = [latest EXCEPT ![t.key] = mem'[t.key]]
      /\ overtaken' = overtaken \ {t.key} /\ dirty' = TRUE
      /\ UNCHANGED <<proc, file, waiting, diskOk, now, stored>>
  BY DEF RunStore
<1>2. /\ mem \in [CacheKeys -> Slot] /\ latest \in [CacheKeys -> Slot]
      /\ file \in [CacheKeys -> Slot] /\ now \in Nat /\ stored \in Nat
  BY DEF CacheInv, CacheTypeOK
<1>3. /\ t \in CacheTask /\ t.val <= stored
      /\ \A k \in CacheKeys : latest[k] # NoEntry => latest[k].val < t.val
      /\ ready' \in Seq(CacheTask)
      /\ \A i \in 1..Len(ready') : ready'[i].op = "store" => t.val < ready'[i].val
      /\ QueuedAfter
  BY <1>1, HeadTaken
<1>4. t.key \in CacheKeys /\ t.val \in Nat
  BY <1>3 DEF CacheTask
<1>5. e \in Entry /\ e # NoEntry /\ e \in Slot /\ e.val = t.val
  BY <1>2, <1>4, CacheConstants DEF Entry, Slot
<1> HIDE DEF t, e
<1>6. /\ mem'[t.key] = e /\ latest'[t.key] = e
      /\ \A k \in CacheKeys : k # t.key => mem'[k] = mem[k] /\ latest'[k] = latest[k]
      /\ mem' \in [CacheKeys -> Slot] /\ latest' \in [CacheKeys -> Slot]
  BY <1>1, <1>2, <1>4, <1>5
<1>7. CacheTypeOK'
  BY <1>1, <1>3, <1>6 DEF CacheInv, CacheTypeOK
<1>8. CleanMeansSaved'
  BY <1>1 DEF CleanMeansSaved
<1>9. Queued'
  <2>1. ASSUME NEW i \in 1..Len(ready'), ready'[i].op = "store", NEW k \in CacheKeys,
               latest'[k] # NoEntry
        PROVE  latest'[k].val < ready'[i].val
    <3>1. CASE k = t.key
      BY <1>3, <1>5, <1>6, <2>1, <3>1
    <3>2. CASE k # t.key
      BY <1>3, <1>6, <2>1, <3>2 DEF QueuedAfter
    <3> QED BY <3>1, <3>2
  <2> QED BY <1>1, <1>3, <2>1 DEF Queued, QueuedAfter
<1>10. ASSUME NEW k \in CacheKeys PROVE Aged(k)' /\ (k \notin overtaken' => Newest(k)')
  <2>1. Aged(k) /\ (k \notin overtaken => Newest(k))
    BY DEF CacheInv
  <2>2. CASE k # t.key
    BY <1>1, <1>6, <2>1, <2>2 DEF Aged, Newest, NotNewer
  <2>3. CASE k = t.key
    <3>1. mem'[k] = e /\ latest'[k] = e /\ file'[k] = file[k]
      BY <1>1, <1>6, <2>3
    <3>2. file[k] # NoEntry => file[k].val < e.val /\ file[k].val \in Nat
      <4>1. file[k] # NoEntry => latest[k] # NoEntry /\ file[k].val <= latest[k].val
        BY <2>1 DEF Aged, NotNewer
      <4>2. file[k] \in Slot /\ latest[k] \in Slot
        BY <1>2
      <4> QED BY <1>3, <1>4, <1>5, <4>1, <4>2 DEF Slot, Entry
    <3>3. e.val \in Nat /\ e.val <= stored'
      BY <1>1, <1>3, <1>4, <1>5
    <3> QED BY <1>5, <3>1, <3>2, <3>3 DEF Aged, Newest, NotNewer
  <2> QED BY <2>2, <2>3
<1> QED BY <1>7, <1>8, <1>9, <1>10 DEF CacheInv

LEMMA LoadKeyKeeps ==
  ASSUME CacheInv, NEW k \in CacheKeys, NEW readable \in BOOLEAN, LoadKey(k, readable),
         ready' \in Seq(CacheTask), Queued', waiting' \in SUBSET CacheKeys
  PROVE  CacheInv'
<1>1. /\ mem' = IF OnDisk(k, readable) = NoEntry THEN mem ELSE [mem EXCEPT ![k] = file[k]]
      /\ overtaken' = IF Older(mem'[k], mem[k]) THEN overtaken \cup {k} ELSE overtaken
      /\ UNCHANGED <<proc, file, dirty, diskOk, now, stored, latest>>
  BY DEF LoadKey
<1>2. OnDisk(k, readable) # NoEntry => file[k] # NoEntry
  BY DEF OnDisk
<1>3. overtaken' \in SUBSET CacheKeys
  BY <1>1 DEF CacheInv, CacheTypeOK
<1>4. /\ mem' \in [CacheKeys -> Slot]
      /\ \A j \in CacheKeys :
           \/ mem'[j] = mem[j]
           \/ j = k /\ mem'[j] = file[j] /\ file[j] # NoEntry
  <2>1. mem \in [CacheKeys -> Slot]
    BY DEF CacheInv, CacheTypeOK
  <2>2. file[k] \in Slot
    BY DEF CacheInv, CacheTypeOK
  <2>3. CASE OnDisk(k, readable) = NoEntry
    BY <1>1, <2>1, <2>3
  <2>4. CASE OnDisk(k, readable) # NoEntry
    <3>1. mem' = [mem EXCEPT ![k] = file[k]] /\ file[k] # NoEntry
      BY <1>1, <1>2, <2>4
    <3> QED BY <2>1, <2>2, <3>1
  <2> QED BY <2>3, <2>4
<1>5. CacheTypeOK'
  BY <1>1, <1>3, <1>4 DEF CacheInv, CacheTypeOK
<1>6. CleanMeansSaved' /\ KeysOK'
  BY <1>1, <1>3, <1>4, EntriesMove
<1> QED BY <1>5, <1>6 DEF CacheInv, KeysOK

LEMMA LookupsKeep ==
  ASSUME CacheInv, NEW readable \in BOOLEAN,
         RunLookup(readable) \/ \E k \in CacheKeys : Wake(k, readable)
  PROVE  CacheInv'
<1>1. waiting \subseteq CacheKeys /\ ready \in Seq(CacheTask)
  BY DEF CacheInv, CacheTypeOK
<1>2. CASE RunLookup(readable)
  <2>1. ready # <<>> /\ ready' = Tail(ready) /\ UNCHANGED <<latest, stored>>
    BY <1>2 DEF RunLookup, LoadKey
  <2>2. ready' \in Seq(CacheTask) /\ QueuedAfter /\ Head(ready) \in CacheTask
    BY <2>1, HeadTaken
  <2>3. Queued' /\ Head(ready).key \in CacheKeys
    BY <2>1, <2>2 DEF Queued, QueuedAfter, CacheTask
  <2>4. CASE proc = "loading"
    <3>1. /\ waiting' = waiting \cup {Head(ready).key}
          /\ UNCHANGED <<proc, mem, file, dirty, diskOk, now, stored, latest, overtaken>>
      BY <1>2, <2>4 DEF RunLookup
    <3>2. CacheTypeOK' /\ CleanMeansSaved'
      BY <2>2, <2>3, <3>1 DEF CacheInv, CacheTypeOK, CleanMeansSaved
    <3>3. KeysOK'
      BY <3>1 DEF CacheInv, KeysOK, Aged, NotNewer, Newest
    <3> QED BY <2>3, <3>2, <3>3 DEF CacheInv, KeysOK
  <2>5. CASE proc # "loading"
    <3>1. LoadKey(Head(ready).key, readable) /\ waiting' = waiting
      BY <1>2, <2>5 DEF RunLookup
    <3> QED BY <1>1, <2>2, <2>3, <3>1, LoadKeyKeeps
  <2> QED BY <2>4, <2>5
<1>3. CASE \E k \in CacheKeys : Wake(k, readable)
  <2>1. PICK k \in CacheKeys : Wake(k, readable)
    BY <1>3
  <2>2. LoadKey(k, readable) /\ ready' = ready /\ waiting' = waiting \ {k}
    BY <2>1 DEF Wake
  <2>3. Queued'
    BY <2>2 DEF CacheInv, Queued, LoadKey
  <2> QED BY <1>1, <2>2, <2>3, LoadKeyKeeps
<1> QED BY <1>2, <1>3

LEMMA CachePreserved == CacheInv /\ [CacheNext]_cacheVars => CacheInv'
<1> SUFFICES ASSUME CacheInv, [CacheNext]_cacheVars PROVE CacheInv'
  OBVIOUS
<1>1. CASE UNCHANGED cacheVars
  <2>1. CacheTypeOK'
    BY <1>1 DEF CacheInv, CacheTypeOK, cacheVars
  <2> QED BY <1>1, <2>1, CacheQuiet DEF cacheVars
<1>2. CASE CacheNext
  BY <1>2, ProcessKeeps, CrashKeeps, EndLoadKeeps, CleanupKeeps, SaveKeeps, StoreKeeps,
     RetrieveKeeps, RunStoreKeeps, LookupsKeep
     DEF CacheNext, CacheBackground
<1> QED BY <1>1, <1>2

\* Only a save writes the file, and memory is never behind the file it merges.
LEMMA YoungStay == CacheInv /\ [CacheNext]_cacheVars => [KeepsYoung]_file
<1> SUFFICES ASSUME CacheInv, CacheNext, file' # file PROVE KeepsYoung
  BY DEF cacheVars
<1>1. PICK readable \in BOOLEAN : Save(readable)
  BY DEF CacheNext, CacheBackground, Start, Crash, Clock, DiskTurns, BeginLoad, Cleanup,
         EndLoad, RunStore, Store, RetrieveMisses, RunLookup, Wake, LoadKey
<1>2. file' = [k \in CacheKeys |-> IF mem[k] # NoEntry THEN mem[k] ELSE OnDisk(k, readable)]
  BY <1>1 DEF Save, SavedEntries
<1>3. mem \in [CacheKeys -> Slot] /\ file \in [CacheKeys -> Slot]
  BY DEF CacheInv, CacheTypeOK
<1>4. ASSUME NEW k \in CacheKeys, Valid(file[k], DiskTTL)
      PROVE  \/ file'[k] # NoEntry /\ file'[k].val >= file[k].val
             \/ file' = mem /\ mem[k] = NoEntry
  <2>1. file[k] # NoEntry /\ file[k].val \in Nat
    BY <1>3, <1>4 DEF Valid, Slot, Entry
  <2>2. CASE mem[k] # NoEntry
    <3>1. file[k].val <= mem[k].val /\ mem[k].val \in Nat
      BY <1>3, <2>1, <2>2 DEF CacheInv, Aged, NotNewer, Slot, Entry
    <3> QED BY <1>2, <2>1, <2>2, <3>1
  <2>3. CASE mem[k] = NoEntry /\ readable
    <3>1. file'[k] = file[k]
      BY <1>2, <1>4, <2>3 DEF OnDisk
    <3> QED BY <2>1, <3>1
  <2>4. CASE mem[k] = NoEntry /\ ~readable
    <3>1. \A j \in CacheKeys : file'[j] = mem[j]
      BY <1>2, <2>4 DEF OnDisk
    <3>2. file' = mem
      BY <1>2, <1>3, <3>1
    <3> QED BY <2>4, <3>2
  <2> QED BY <2>2, <2>3, <2>4
<1> QED BY <1>4 DEF KeepsYoung

\* For any keys, lives and interleavings of loads, look-ups, saves, expiries, failed
\* writes and crashes: a cache that is not dirty has all of its memory on file, memory
\* holds the newest value of a key unless the file overtook it, and no save makes a
\* young entry of the file older or drops it (provider_cache.py).
THEOREM CacheStaysSound == CacheSpec => CacheSound
<1>1. CacheInv => CleanMeansSaved /\ MemoryIsNewest
  BY DEF CacheInv, Newest, MemoryIsNewest
<1> QED BY <1>1, CacheInitial, CachePreserved, YoungStay, PTL DEF CacheSpec, CacheSound

-----------------------------------------------------------------------------
(* Summaries of long conversations.                                          *)

Summary == [key : Messages, summary : Messages]
Job == [key : [base : Messages, new : Messages], middle : Messages, conv : Messages,
        sync : BOOLEAN]
Request == [conv : Messages, zone : {"fits", "cut", "reused", "fallback", "summarised"},
            base : Messages, from : Nat, cut : BOOLEAN]

\* Different summaries are cached for different messages, each made from them.
CacheExact(c) ==
  /\ c \in Seq(Summary)
  /\ \A i, j \in DOMAIN c : i # j => c[i].key # c[j].key
  /\ \A i \in DOMAIN c : c[i].summary = c[i].key

\* A summary being produced and the one it starts from cover the beginning of a
\* history, and the tail of that is not empty.
JobSound(t) ==
  /\ t \in Job
  /\ t.middle = t.key.base \o t.key.new
  /\ IsPrefix(t.middle, t.conv) /\ Len(t.middle) < Len(t.conv)

JobsSound(q) ==
  /\ q \in Seq(Job)
  /\ \A i \in DOMAIN q : JobSound(q[i])
  /\ background => \A i, j \in DOMAIN q : i # j => q[i].key # q[j].key

\* What SummariesSound asks of the request that was sent last.
RequestSound(s) ==
  /\ s \in Request
  /\ s.conv # <<>> => s.from \in DOMAIN s.conv
  /\ IsPrefix(s.base, s.conv) /\ Len(s.base) < s.from
  /\ s.zone = "reused" =>
       LET lost == SubSeq(s.conv, Len(s.base) + 1, s.from - 1)
       IN lost = <<>> \/ SizeSum(lost) < RefreshMin
  /\ s.zone \in {"reused", "fallback", "summarised"} =>
       LET kept == SubSeq(s.conv, s.from, Len(s.conv))
       IN /\ s.cut \/ SummarySize + SizeSum(kept) <= Budget - Tools \/ Len(kept) = 1
          /\ s.cut /\ Len(kept) = 1 => SummarySize + SizeSum(kept) > TailBudget

CompactInv ==
  /\ background \in BOOLEAN /\ conv \in Messages
  /\ clock \in 0..LastTick /\ forks \in 0..MaxForks
  /\ CacheExact(cache) /\ Len(cache) <= CacheMax
  /\ JobsSound(tasks)
  /\ RequestSound(sent)

THEOREM CompactInvSuffices == ASSUME CompactInv PROVE SummariesSound
<1>1. CompactTypeOK
  BY DEF CompactInv, CompactTypeOK, CacheExact, JobsSound, RequestSound, Request
<1>2. SummaryExact
  BY DEF CompactInv, SummaryExact, CacheExact
<1>3. SentSound
  BY DEF CompactInv, SentSound, RequestSound
<1>4. Bounded
  BY DEF CompactInv, Bounded, Kept, RequestSound
<1> QED
  BY <1>1, <1>2, <1>3, <1>4 DEF SummariesSound

\* A set of positions has a first one, and a last one if it is bounded.
LEMMA LeastPosition ==
  ASSUME NEW T \in SUBSET Nat, T # {}
  PROVE  \E m \in T : \A n \in T : m <= n
<1> DEFINE R == OpToRel(<, Nat)
<1>1. IsWellFoundedOn(R, Nat)
  BY NatLessThanWellFounded
<1>2. \A x, y \in Nat : <<y, x>> \in R <=> y < x
  BY DEF OpToRel
<1> HIDE DEF R
<1>3. PICK x \in T : \A y \in T : ~ (<<y, x>> \in R)
  BY <1>1, WFMin
<1>4. ASSUME NEW y \in T PROVE x <= y
  <2>1. x \in Nat /\ y \in Nat /\ ~(y < x)
    BY <1>2, <1>3
  <2> QED
    BY <2>1
<1> QED
  BY <1>4

LEMMA LastPosition ==
  ASSUME NEW n \in Nat, NEW T \in SUBSET (0..n), T # {}
  PROVE  \E m \in T : \A k \in T : k <= m
<1> DEFINE U == {n - k : k \in T}
<1>1. U \in SUBSET Nat /\ U # {}
  <2>1. \A k \in T : n - k \in Nat
    OBVIOUS
  <2> QED
    BY <2>1
<1> HIDE DEF U
<1>2. PICK m \in U : \A k \in U : m <= k
  BY <1>1, LeastPosition
<1>3. PICK l \in T : m = n - l
  BY DEF U
<1>4. ASSUME NEW k \in T PROVE k <= l
  <2>1. n - k \in U
    BY DEF U
  <2>2. m <= n - k
    BY <1>2, <2>1
  <2> QED
    BY <1>3, <2>2
<1> QED
  BY <1>4

LEMMA SizeSumNat ==
  ASSUME NEW c \in Messages
  PROVE  SizeSum(c) \in Nat
<1> DEFINE w == [i \in DOMAIN c |-> SizeOf[c[i]]]
<1>1. IsFiniteSet(DOMAIN c)
  <2>1. DOMAIN c = 1..Len(c) /\ Len(c) \in Nat
    BY DEF Messages
  <2> QED
    BY <2>1, FS_Interval
<1>2. \A i \in DOMAIN c : w[i] \in Nat
  BY CompactionConstants DEF Messages
<1>3. DOMAIN w = DOMAIN c
  OBVIOUS
<1>4. SizeSum(c) = SumFunctionOnSet(w, DOMAIN c)
  BY <1>3 DEF SizeSum, SumFunction
<1> HIDE DEF w
<1> QED
  BY <1>1, <1>2, <1>4, SumNat

-----------------------------------------------------------------------------
(* Sequences of messages.                                                     *)

LEMMA SameSeq ==
  ASSUME NEW A, NEW a \in Seq(A), NEW b \in Seq(A), Len(a) = Len(b),
         \A k \in 1..Len(a) : a[k] = b[k]
  PROVE  a = b
OBVIOUS

LEMMA PrefixIs ==
  ASSUME NEW A, NEW a \in Seq(A), NEW b \in Seq(A)
  PROVE  IsPrefix(a, b) <=> Len(a) <= Len(b) /\ \A k \in 1..Len(a) : a[k] = b[k]
<1>1. ASSUME Len(a) <= Len(b)
      PROVE  SubSeq(a, 1, Len(a)) = SubSeq(b, 1, Len(a)) <=> \A k \in 1..Len(a) : a[k] = b[k]
  <2> DEFINE x == SubSeq(a, 1, Len(a))
             y == SubSeq(b, 1, Len(a))
  <2>1. x \in Seq(A) /\ Len(x) = Len(a) /\ \A k \in 1..Len(a) : x[k] = a[k]
    BY Len(a) \in Nat
  <2>2. y \in Seq(A) /\ Len(y) = Len(a) /\ \A k \in 1..Len(a) : y[k] = b[k]
    BY <1>1, Len(a) \in Nat, Len(b) \in Nat
  <2> HIDE DEF x, y
  <2>3. x = y => \A k \in 1..Len(a) : a[k] = b[k]
    BY <2>1, <2>2
  <2>4. (\A k \in 1..Len(a) : a[k] = b[k]) => x = y
    BY <2>1, <2>2, SameSeq
  <2> QED
    BY <2>3, <2>4 DEF x, y
<1> QED
  BY <1>1 DEF IsPrefix

\* The beginning of a sequence and what follows it.
LEMMA Beginning ==
  ASSUME NEW A, NEW c \in Seq(A), NEW n \in 0..Len(c)
  PROVE  /\ SubSeq(c, 1, n) \in Seq(A) /\ Len(SubSeq(c, 1, n)) = n
         /\ IsPrefix(SubSeq(c, 1, n), c)
<1> DEFINE a == SubSeq(c, 1, n)
<1>1. a \in Seq(A) /\ Len(a) = n /\ \A k \in 1..n : a[k] = c[k]
  BY Len(c) \in Nat
<1> HIDE DEF a
<1>2. IsPrefix(a, c)
  BY <1>1, PrefixIs
<1> QED
  BY <1>1, <1>2 DEF a

LEMMA Completed ==
  ASSUME NEW A, NEW a \in Seq(A), NEW b \in Seq(A), IsPrefix(a, b)
  PROVE  a \o SubSeq(b, Len(a) + 1, Len(b)) = b
<1> DEFINE rest == SubSeq(b, Len(a) + 1, Len(b))
           both == a \o rest
<1>1. Len(a) <= Len(b) /\ \A k \in 1..Len(a) : a[k] = b[k]
  BY PrefixIs
<1>2. /\ rest \in Seq(A) /\ Len(rest) = Len(b) - Len(a)
      /\ \A k \in 1..Len(rest) : rest[k] = b[Len(a) + k]
  BY <1>1, Len(a) \in Nat, Len(b) \in Nat
<1> HIDE DEF rest
<1>3. /\ both \in Seq(A) /\ Len(both) = Len(b)
      /\ \A k \in 1..Len(b) : both[k] = IF k <= Len(a) THEN a[k] ELSE rest[k - Len(a)]
  BY <1>1, <1>2
<1>4. \A k \in 1..Len(b) : both[k] = b[k]
  BY <1>1, <1>2, <1>3
<1> HIDE DEF both
<1>5. both = b
  BY <1>3, <1>4, SameSeq
<1> QED
  BY <1>5 DEF both, rest

LEMMA EmptyPrefix ==
  ASSUME NEW A, NEW c \in Seq(A)
  PROVE  <<>> \in Seq(A) /\ Len(<<>>) = 0 /\ IsPrefix(<<>>, c)
<1>1. <<>> \in Seq(A) /\ Len(<<>>) = 0
  OBVIOUS
<1> DEFINE e == <<>>
<1>2. e \in Seq(A) /\ Len(e) = 0 /\ Len(c) \in Nat
  BY <1>1
<1> HIDE DEF e
<1>3. IsPrefix(e, c)
  <2>1. Len(e) <= Len(c) /\ \A k \in 1..Len(e) : e[k] = c[k]
    BY <1>2
  <2> QED
    BY <1>2, <2>1, PrefixIs
<1> QED
  BY <1>1, <1>3 DEF e

LEMMA PrefixOfPrefix ==
  ASSUME NEW A, NEW a \in Seq(A), NEW b \in Seq(A), NEW c \in Seq(A),
         IsPrefix(a, b), IsPrefix(b, c)
  PROVE  IsPrefix(a, c)
BY PrefixIs

LEMMA Joined ==
  ASSUME NEW A, NEW a \in Seq(A), NEW b \in Seq(A)
  PROVE  a \o b \in Seq(A) /\ IsPrefix(a, a \o b)
<1>1. /\ a \o b \in Seq(A) /\ Len(a) <= Len(a \o b)
      /\ \A k \in 1..Len(a) : (a \o b)[k] = a[k]
  OBVIOUS
<1> QED
  BY <1>1, PrefixIs

\* A sequence without one of its elements.
LEMMA Removed ==
  ASSUME NEW A, NEW c \in Seq(A), NEW i \in DOMAIN c
  PROVE  /\ RemoveAt(c, i) \in Seq(A) /\ Len(RemoveAt(c, i)) = Len(c) - 1
         /\ \A k \in DOMAIN RemoveAt(c, i) : RemoveAt(c, i)[k] = IF k < i THEN c[k] ELSE c[k + 1]
<1> DEFINE a == SubSeq(c, 1, i - 1)
           b == SubSeq(c, i + 1, Len(c))
<1>1. i \in 1..Len(c)
  OBVIOUS
<1>2. /\ a \in Seq(A) /\ Len(a) = i - 1
      /\ \A k \in 1..Len(a) : a[k] = c[k]
  BY <1>1, Len(c) \in Nat
<1>3. /\ b \in Seq(A) /\ Len(b) = Len(c) - i
      /\ \A k \in 1..Len(b) : b[k] = c[i + k]
  BY <1>1, Len(c) \in Nat
<1> HIDE DEF a, b
<1>4. /\ a \o b \in Seq(A) /\ Len(a \o b) = Len(c) - 1
      /\ \A k \in 1..Len(a \o b) : (a \o b)[k] = IF k <= Len(a) THEN a[k] ELSE b[k - Len(a)]
  BY <1>1, <1>2, <1>3
<1> DEFINE d == a \o b
<1>5. d \in Seq(A) /\ Len(d) = Len(c) - 1 /\ DOMAIN d = 1..(Len(c) - 1)
  BY <1>4
<1>6. RemoveAt(c, i) = d
  BY DEF RemoveAt, a, b
<1> HIDE DEF d
<1>7. ASSUME NEW k \in DOMAIN d PROVE d[k] = IF k < i THEN c[k] ELSE c[k + 1]
  <2>1. k \in 1..(Len(c) - 1) /\ Len(c) \in Nat
    BY <1>5
  <2>2. d[k] = IF k <= Len(a) THEN a[k] ELSE b[k - Len(a)]
    BY <1>4, <1>5, <2>1 DEF d
  <2>3. CASE k < i
    BY <1>1, <1>2, <2>1, <2>2, <2>3
  <2>4. CASE k >= i
    <3>1. k - Len(a) \in 1..Len(b) /\ i + (k - Len(a)) = k + 1
      BY <1>1, <1>2, <1>3, <2>1, <2>4
    <3>2. b[k - Len(a)] = c[k + 1]
      BY <1>3, <3>1
    <3> QED
      BY <1>1, <1>2, <2>1, <2>2, <2>4, <3>2
  <2> QED
    BY <1>1, <2>1, <2>3, <2>4
<1> QED
  BY <1>5, <1>6, <1>7

-----------------------------------------------------------------------------
(* The cache of summaries.                                                    *)

LEMMA TouchKeeps ==
  ASSUME NEW c, CacheExact(c), NEW i \in 0..Len(c)
  PROVE  CacheExact(Touch(c, i)) /\ Len(Touch(c, i)) = Len(c)
<1>1. c \in Seq(Summary) /\ Len(c) \in Nat
  BY DEF CacheExact
<1>2. CASE i = 0
  BY <1>2 DEF Touch
<1>3. CASE i # 0
  <2> DEFINE r == RemoveAt(c, i)
             d == Append(r, c[i])
  <2>1. i \in DOMAIN c
    BY <1>1, <1>3
  <2>2. /\ r \in Seq(Summary) /\ Len(r) = Len(c) - 1
        /\ \A k \in DOMAIN r : r[k] = IF k < i THEN c[k] ELSE c[k + 1]
    BY <1>1, <2>1, Removed
  <2>3. Touch(c, i) = d
    BY <1>3 DEF Touch
  <2> HIDE DEF r
  <2>4. c[i] \in Summary
    BY <1>1, <2>1
  <2>5. d \in Seq(Summary) /\ Len(d) = Len(c) /\ DOMAIN d = 1..Len(c)
    BY <1>1, <2>2, <2>4
  <2>6. d[Len(c)] = c[i] /\ \A k \in 1..(Len(c) - 1) : d[k] = r[k]
    BY <1>1, <2>2, <2>4
  <2> HIDE DEF d
  <2> DEFINE old(k) == IF k = Len(c) THEN i ELSE IF k < i THEN k ELSE k + 1
  <2>7. ASSUME NEW k \in DOMAIN d PROVE old(k) \in DOMAIN c /\ d[k] = c[old(k)]
    <3>1. k \in 1..Len(c) /\ DOMAIN c = 1..Len(c) /\ DOMAIN r = 1..(Len(c) - 1)
      BY <1>1, <2>2, <2>5
    <3>2. old(k) \in DOMAIN c
      BY <1>1, <2>1, <3>1
    <3>3. CASE k = Len(c)
      BY <2>6, <3>2, <3>3
    <3>4. CASE k # Len(c)
      <4>1. k \in 1..(Len(c) - 1)
        BY <1>1, <3>1, <3>4
      <4> QED
        BY <2>2, <2>6, <3>1, <3>2, <3>4, <4>1
    <3> QED
      BY <3>3, <3>4
  <2>8. \A j, k \in DOMAIN d : j # k => old(j) # old(k)
    BY <1>1, <2>1, <2>5
  <2> HIDE DEF old
  <2>9. \A j, k \in DOMAIN d : j # k => d[j].key # d[k].key
    BY <2>7, <2>8 DEF CacheExact
  <2>10. \A k \in DOMAIN d : d[k].summary = d[k].key
    BY <2>7 DEF CacheExact
  <2> QED
    BY <2>3, <2>5, <2>9, <2>10 DEF CacheExact
<1> QED
  BY <1>2, <1>3

LEMMA PutKeeps ==
  ASSUME NEW c, CacheExact(c), Len(c) <= CacheMax, NEW key \in Messages
  PROVE  CacheExact(Put(c, key, key)) /\ Len(Put(c, key, key)) <= CacheMax
<1> DEFINE old == {i \in DOMAIN c : c[i].key = key}
           others == IF old = {} THEN c ELSE RemoveAt(c, CHOOSE i \in old : TRUE)
           e == [key |-> key, summary |-> key]
           all == Append(others, e)
<1>1. c \in Seq(Summary) /\ Len(c) \in Nat /\ DOMAIN c = 1..Len(c)
  BY DEF CacheExact
<1>2. e \in Summary
  BY DEF Summary
<1>3. /\ others \in Seq(Summary) /\ Len(others) <= Len(c)
      /\ \A i, j \in DOMAIN others : i # j => others[i].key # others[j].key
      /\ \A i \in DOMAIN others : others[i].summary = others[i].key /\ others[i].key # key
  <2>1. CASE old = {}
    BY <1>1, <2>1 DEF CacheExact
  <2>2. CASE old # {}
    <3> DEFINE p == CHOOSE i \in old : TRUE
               r == RemoveAt(c, p)
    <3>1. p \in DOMAIN c /\ c[p].key = key
      BY <2>2
    <3> HIDE DEF p
    <3>2. /\ r \in Seq(Summary) /\ Len(r) = Len(c) - 1
          /\ \A k \in DOMAIN r : r[k] = IF k < p THEN c[k] ELSE c[k + 1]
      BY <1>1, <3>1, Removed
    <3>3. others = r
      BY <2>2 DEF p
    <3> HIDE DEF r, others, old
    <3> DEFINE at(k) == IF k < p THEN k ELSE k + 1
    <3>4. ASSUME NEW k \in DOMAIN r
          PROVE  at(k) \in DOMAIN c /\ at(k) # p /\ r[k] = c[at(k)]
      <4>1. DOMAIN r = 1..(Len(c) - 1)
        BY <1>1, <3>2
      <4> QED
        BY <1>1, <3>1, <3>2, <4>1
    <3>5. \A j, k \in DOMAIN r : j # k => at(j) # at(k)
      BY <1>1, <3>1, <3>2
    <3> HIDE DEF at
    <3>6. \A j, k \in DOMAIN r : j # k => r[j].key # r[k].key
      BY <3>4, <3>5 DEF CacheExact
    <3>7. \A k \in DOMAIN r : r[k].summary = r[k].key /\ r[k].key # key
      BY <3>1, <3>4 DEF CacheExact
    <3> QED
      BY <1>1, <3>2, <3>3, <3>6, <3>7
  <2> QED
    BY <2>1, <2>2
<1> HIDE DEF others
<1>4. /\ all \in Seq(Summary) /\ Len(all) = Len(others) + 1 /\ all # <<>>
      /\ DOMAIN all = 1..(Len(others) + 1)
      /\ \A k \in DOMAIN others : all[k] = others[k]
      /\ all[Len(others) + 1] = e
  BY <1>2, <1>3
<1> HIDE DEF all
<1>5. \A k \in DOMAIN all : k = Len(others) + 1 \/ k \in DOMAIN others
  BY <1>3, <1>4
<1>6. \A i, j \in DOMAIN all : i # j => all[i].key # all[j].key
  BY <1>3, <1>4, <1>5
<1>7. \A i \in DOMAIN all : all[i].summary = all[i].key
  BY <1>3, <1>4, <1>5
<1>8. Put(c, key, key) = IF Len(all) > CacheMax THEN Tail(all) ELSE all
  BY DEF Put, all, others
<1>9. CASE Len(all) > CacheMax
  <2> DEFINE t == Tail(all)
  <2>1. /\ t \in Seq(Summary) /\ Len(t) = Len(others)
        /\ DOMAIN t = 1..Len(others)
        /\ \A k \in DOMAIN t : t[k] = all[k + 1] /\ k + 1 \in DOMAIN all
    BY <1>3, <1>4
  <2> HIDE DEF t
  <2>2. \A i, j \in DOMAIN t : i # j => t[i].key # t[j].key
    <3> TAKE i, j \in DOMAIN t
    <3>1. i \in Int /\ j \in Int
      BY <2>1
    <3>2. i # j => i + 1 # j + 1
      BY <3>1
    <3> QED
      BY <1>6, <2>1, <3>2
  <2>3. \A i \in DOMAIN t : t[i].summary = t[i].key
    BY <1>7, <2>1
  <2>4. Len(t) <= CacheMax
    BY <1>1, <1>3, <2>1, CompactionConstants
  <2> QED
    BY <1>8, <1>9, <2>1, <2>2, <2>3, <2>4 DEF CacheExact, t
<1>10. CASE ~(Len(all) > CacheMax)
  <2>1. Len(all) <= CacheMax
    BY <1>3, <1>4, <1>10, CompactionConstants
  <2> QED
    BY <1>4, <1>6, <1>7, <1>8, <1>10, <2>1 DEF CacheExact
<1> QED
  BY <1>9, <1>10

\* A summary that is found is of the first messages.
LEMMA FoundIsPrefix ==
  ASSUME NEW c, CacheExact(c), NEW middle \in Messages
  PROVE  /\ Find(c, middle) \in 0..Len(c)
         /\ Find(c, middle) # 0 => IsPrefix(c[Find(c, middle)].key, middle)
<1> DEFINE hits == {i \in DOMAIN c : Matches(c[i].key, middle)}
           best(i) == \A j \in hits : Len(c[j].key) <= Len(c[i].key)
           lengths == {Len(c[j].key) : j \in hits}
<1>1. c \in Seq(Summary) /\ Len(c) \in Nat /\ DOMAIN c = 1..Len(c)
  BY DEF CacheExact
<1>2. CASE hits = {}
  BY <1>1, <1>2 DEF Find
<1>3. CASE hits # {}
  <2>1. ASSUME NEW j \in hits PROVE IsPrefix(c[j].key, middle) /\ c[j].key \in Messages
    <3>1. c[j] \in Summary
      BY <1>1
    <3> QED
      BY <3>1 DEF Matches, Summary
  <2>2. \A j \in hits : Len(c[j].key) \in 0..Len(middle)
    BY <2>1, PrefixIs DEF Messages
  <2>3. lengths \in SUBSET (0..Len(middle)) /\ lengths # {}
    BY <1>3, <2>2
  <2>4. Len(middle) \in Nat
    BY DEF Messages
  <2> HIDE DEF lengths
  <2>5. PICK n \in lengths : \A k \in lengths : k <= n
    BY <2>3, <2>4, LastPosition
  <2>6. \E i \in hits : best(i)
    BY <2>5 DEF lengths
  <2> DEFINE h == CHOOSE i \in hits : best(i)
  <2>7. h \in hits
    BY <2>6
  <2>8. Find(c, middle) = h
    BY <1>3 DEF Find
  <2> HIDE DEF h
  <2> QED
    BY <1>1, <2>1, <2>7, <2>8
<1> QED
  BY <1>2, <1>3

-----------------------------------------------------------------------------
(* Requests.                                                                  *)

LEMMA TailIsKept ==
  ASSUME NEW c \in Messages, Len(c) > 2
  PROVE  /\ TailStart(c) \in 2..Len(c)
         /\ \/ TailStart(c) = Len(c)
            \/ SizeSum(SubSeq(c, TailStart(c), Len(c))) <= EffectiveKeepTail
<1> DEFINE fits(i) == i = Len(c)
                        \/ (i > 1 /\ SizeSum(SubSeq(c, i, Len(c))) <= EffectiveKeepTail)
           right(i) == /\ \A j \in i..Len(c) : fits(j)
                       /\ i = 1 \/ ~fits(i - 1)
           good == {i \in 1..Len(c) : \A j \in i..Len(c) : fits(j)}
<1>1. Len(c) \in Nat /\ DOMAIN c = 1..Len(c)
  BY DEF Messages
<1>2. ~fits(1)
  BY <1>1
<1>3. fits(Len(c))
  OBVIOUS
<1>4. TailStart(c) = CHOOSE i \in DOMAIN c : right(i)
  BY DEF TailStart
<1> HIDE DEF fits
<1>5. Len(c) \in good
  BY <1>1, <1>3
<1>6. good \in SUBSET Nat /\ good # {}
  BY <1>1, <1>5
<1> HIDE DEF good
<1>7. PICK m \in good : \A n \in good : m <= n
  BY <1>6, LeastPosition
<1>8. m \in 1..Len(c) /\ \A j \in m..Len(c) : fits(j)
  BY DEF good
<1>9. m = 1 \/ ~fits(m - 1)
  <2>1. SUFFICES ASSUME m # 1, fits(m - 1) PROVE FALSE
    OBVIOUS
  <2>2. m - 1 \in 1..Len(c)
    BY <1>1, <1>8, <2>1
  <2>3. ASSUME NEW j \in (m - 1)..Len(c) PROVE fits(j)
    <3>1. j = m - 1 \/ j \in m..Len(c)
      BY <1>1, <1>8
    <3> QED
      BY <1>8, <2>1, <3>1
  <2>4. m - 1 \in good
    BY <2>2, <2>3 DEF good
  <2> QED
    BY <1>1, <1>7, <1>8, <2>4
<1>10. \E i \in DOMAIN c : right(i)
  BY <1>1, <1>8, <1>9
<1> DEFINE t == TailStart(c)
<1>11. t \in DOMAIN c /\ right(t)
  BY <1>4, <1>10
<1> HIDE DEF t
<1>12. fits(t)
  BY <1>1, <1>11
<1>13. t \in 2..Len(c)
  BY <1>1, <1>2, <1>11, <1>12
<1> QED
  BY <1>12, <1>13 DEF fits, t

\* What is planned for a history: the summary that is known and the messages
\* after it make up the middle, and the tail that follows is short.
LEMMA PlanIsSound ==
  ASSUME NEW c \in Messages, Len(c) > 2, CacheExact(cache)
  PROVE  /\ Plan(c).tail \in 2..Len(c)
         /\ \/ Plan(c).tail = Len(c)
            \/ SizeSum(SubSeq(c, Plan(c).tail, Len(c))) <= EffectiveKeepTail
         /\ Plan(c).middle = SubSeq(c, 1, Plan(c).tail - 1)
         /\ Plan(c).hit \in 0..Len(cache)
         /\ Plan(c).base \in Messages /\ Len(Plan(c).base) < Plan(c).tail
         /\ Plan(c).new = SubSeq(c, Len(Plan(c).base) + 1, Plan(c).tail - 1)
         /\ Plan(c).new \in Messages
         /\ Plan(c).middle = Plan(c).base \o Plan(c).new
<1> DEFINE tail == TailStart(c)
           middle == SubSeq(c, 1, tail - 1)
           hit == Find(cache, middle)
           base == IF hit = 0 THEN <<>> ELSE cache[hit].summary
           known == IF hit = 0 THEN 0 ELSE Len(cache[hit].key)
           new == SubSeq(middle, known + 1, Len(middle))
<1>1. Plan(c) = [tail |-> tail, middle |-> middle, hit |-> hit, base |-> base, new |-> new]
  BY DEF Plan
<1>2. tail \in 2..Len(c) /\ (tail = Len(c) \/ SizeSum(SubSeq(c, tail, Len(c))) <= EffectiveKeepTail)
  BY TailIsKept
<1> HIDE DEF tail
<1>3. /\ middle \in Messages /\ Len(middle) = tail - 1
      /\ \A k \in 1..Len(middle) : middle[k] = c[k]
  BY <1>2, Len(c) \in Nat DEF Messages
<1> HIDE DEF middle
<1>4. hit \in 0..Len(cache) /\ (hit # 0 => IsPrefix(cache[hit].key, middle))
  BY <1>3, FoundIsPrefix
<1> HIDE DEF hit
<1>5. base \in Messages /\ IsPrefix(base, middle) /\ known = Len(base)
  <2>1. CASE hit = 0
    <3>1. base = <<>> /\ known = 0
      BY <2>1
    <3> QED
      BY <1>3, <3>1, EmptyPrefix DEF Messages
  <2>2. CASE hit # 0
    <3>1. hit \in DOMAIN cache /\ cache \in Seq(Summary)
      BY <1>4, <2>2 DEF CacheExact
    <3>2. cache[hit] \in Summary /\ cache[hit].summary = cache[hit].key
      BY <3>1 DEF CacheExact
    <3> QED
      BY <1>4, <2>2, <3>2 DEF Summary
  <2> QED
    BY <2>1, <2>2
<1>6. middle = base \o SubSeq(middle, Len(base) + 1, Len(middle))
  BY <1>3, <1>5, Completed DEF Messages
<1>7. new = SubSeq(middle, Len(base) + 1, Len(middle))
  BY <1>5
<1> HIDE DEF known, base
<1>8. Len(base) \in Nat /\ Len(base) < tail
  BY <1>2, <1>3, <1>5, PrefixIs DEF Messages
<1> HIDE DEF new
<1> DEFINE part == SubSeq(c, Len(base) + 1, tail - 1)
<1>9. /\ new \in Messages /\ Len(new) = tail - 1 - Len(base)
      /\ \A k \in 1..Len(new) : new[k] = middle[Len(base) + k]
  BY <1>2, <1>3, <1>7, <1>8 DEF Messages
<1>10. /\ part \in Messages /\ Len(part) = tail - 1 - Len(base)
       /\ \A k \in 1..Len(part) : part[k] = c[Len(base) + k]
  BY <1>2, <1>8, Len(c) \in Nat DEF Messages
<1> HIDE DEF part
<1>11. \A k \in 1..Len(new) : new[k] = part[k]
  BY <1>2, <1>3, <1>8, <1>9, <1>10
<1>12. new = part
  BY <1>9, <1>10, <1>11, SameSeq DEF Messages
<1> QED
  BY <1>1, <1>2, <1>4, <1>5, <1>6, <1>7, <1>8, <1>9, <1>12 DEF middle, part

LEMMA PartIsMessages ==
  ASSUME NEW c \in Messages, NEW i \in 1..Len(c)
  PROVE  /\ SubSeq(c, i, Len(c)) \in Messages
         /\ Len(SubSeq(c, i, Len(c))) = Len(c) - i + 1
         /\ SizeSum(SubSeq(c, i, Len(c))) \in Nat
<1>1. /\ SubSeq(c, i, Len(c)) \in Messages
      /\ Len(SubSeq(c, i, Len(c))) = Len(c) - i + 1
  BY Len(c) \in Nat DEF Messages
<1> QED
  BY <1>1, SizeSumNat

LEMMA Budgets ==
  /\ SummarySize \in Nat /\ Tools \in Nat /\ Budget \in Nat /\ TailBudget \in Int
  /\ EffectiveKeepTail \in Int
  /\ EffectiveKeepTail <= TailBudget /\ TailBudget = Budget - Tools - SummarySize
BY CompactionConstants DEF TailBudget, EffectiveKeepTail

\* A history that is sent as it is.
LEMMA WholeIsSound ==
  ASSUME NEW c \in Messages
  PROVE  RequestSound(Whole(c)) /\ RequestSound([Whole(c) EXCEPT !.zone = "cut", !.cut = TRUE])
<1>1. c # <<>> => 1 \in DOMAIN c
  BY DEF Messages
<1>2. <<>> \in Messages /\ Len(<<>>) = 0 /\ IsPrefix(<<>>, c)
  BY EmptyPrefix DEF Messages
<1> DEFINE s == Whole(c)
           t == [s EXCEPT !.zone = "cut", !.cut = TRUE]
<1>3. s \in Request /\ s.conv = c /\ s.zone = "fits" /\ s.base = <<>> /\ s.from = 1
  BY <1>2 DEF Request, Whole
<1> HIDE DEF s
<1>4. t \in Request /\ t.conv = c /\ t.zone = "cut" /\ t.base = <<>> /\ t.from = 1
  BY <1>3 DEF Request
<1> HIDE DEF t
<1>5. RequestSound(s)
  BY <1>1, <1>2, <1>3 DEF RequestSound
<1>6. RequestSound(t)
  BY <1>1, <1>2, <1>4 DEF RequestSound
<1> QED
  BY <1>5, <1>6 DEF s, t

\* A history that is cut down to its recent messages.
LEMMA FallbackIsSound ==
  ASSUME NEW c \in Messages, NEW base \in Messages, NEW tail \in 1..Len(c),
         IsPrefix(base, c), Len(base) < tail
  PROVE  RequestSound(Fallback(c, base, tail))
<1> DEFINE over(i) == SummarySize + SizeSum(SubSeq(c, i, Len(c))) > TailBudget
           kept == {i \in tail..Len(c) :
                      \A j \in tail..i-1 : /\ over(j)
                                           /\ Len(c) - j + 1 > (IF MinKeep > 1 THEN MinKeep ELSE 1)}
           from == CHOOSE i \in kept : \A j \in kept : j <= i
<1>1. Fallback(c, base, tail) = Summarised(c, base, from, "fallback", over(from))
  BY DEF Fallback
<1>2. Len(c) \in Nat /\ DOMAIN c = 1..Len(c) /\ Len(base) \in Nat
  BY DEF Messages
<1>3. tail \in kept
  BY <1>2
<1>4. kept \in SUBSET (0..Len(c)) /\ kept # {} /\ kept \subseteq tail..Len(c)
  BY <1>2, <1>3
<1> HIDE DEF kept
<1>5. \E i \in kept : \A j \in kept : j <= i
  BY <1>2, <1>4, LastPosition
<1>6. from \in tail..Len(c)
  BY <1>4, <1>5
<1> HIDE DEF from
<1> DEFINE rest == SubSeq(c, from, Len(c))
<1>7. rest \in Messages /\ SizeSum(rest) \in Nat
  BY <1>2, <1>6, PartIsMessages
<1>8. over(from) = (SummarySize + SizeSum(rest) > TailBudget)
  OBVIOUS
<1> HIDE DEF rest
<1>9. ~over(from) => SummarySize + SizeSum(rest) <= Budget - Tools
  BY <1>7, <1>8, Budgets
<1> DEFINE s == Summarised(c, base, from, "fallback", over(from))
<1>10. s = [conv |-> c, zone |-> "fallback", base |-> base, from |-> from, cut |-> over(from)]
  BY DEF Summarised
<1> DEFINE b == over(from)
<1>11. b \in BOOLEAN
  OBVIOUS
<1>12. b => SummarySize + SizeSum(rest) > TailBudget
  BY <1>8
<1>13. ~b => SummarySize + SizeSum(rest) <= Budget - Tools
  BY <1>9
<1>14. s = [conv |-> c, zone |-> "fallback", base |-> base, from |-> from, cut |-> b]
  BY <1>10
<1> HIDE DEF b, s
<1>15. s \in Request /\ from \in DOMAIN c /\ Len(base) < from
  BY <1>2, <1>6, <1>11, <1>14 DEF Request
<1>16. RequestSound(s)
  BY <1>12, <1>13, <1>14, <1>15 DEF RequestSound, rest
<1> QED
  BY <1>1, <1>16 DEF s

-----------------------------------------------------------------------------
(* Steps.                                                                     *)

\* A summary that is begun is sound, and begun once in the background.
LEMMA SpawnKeeps ==
  ASSUME CompactInv, background' = background, NEW c \in Messages, Len(c) > 2,
         background \/ tasks = <<>>
  PROVE  JobsSound(Spawn(c, Plan(c)))
<1> DEFINE p == Plan(c)
           t == Task(c, p)
           all == Append(tasks, t)
<1>1. /\ p.tail \in 2..Len(c) /\ p.middle = SubSeq(c, 1, p.tail - 1)
      /\ p.base \in Messages /\ p.new \in Messages /\ p.middle = p.base \o p.new
  BY PlanIsSound DEF CompactInv
<1> HIDE DEF p
<1>2. p.tail - 1 \in 0..Len(c) /\ p.tail - 1 < Len(c) /\ c \in Seq(Texts)
  BY <1>1, Len(c) \in Nat DEF Messages
<1>3. /\ p.middle \in Messages /\ Len(p.middle) < Len(c) /\ IsPrefix(p.middle, c)
  BY <1>1, <1>2, Beginning DEF Messages
<1>4. /\ t.key = [base |-> p.base, new |-> p.new] /\ t.middle = p.middle /\ t.conv = c
      /\ t \in Job
  BY <1>1, <1>3 DEF Task, SummaryKey, Job, CompactInv
<1>5. JobSound(t)
  <2>1. t.key.base = p.base /\ t.key.new = p.new
    BY <1>4
  <2>2. t.middle = t.key.base \o t.key.new /\ IsPrefix(t.middle, t.conv)
    BY <1>1, <1>3, <1>4, <2>1
  <2> QED
    BY <1>3, <1>4, <2>2 DEF JobSound
<1> HIDE DEF t
<1>6. JobsSound(tasks)
  BY DEF CompactInv
<1>7. /\ all \in Seq(Job) /\ DOMAIN all = 1..(Len(tasks) + 1) /\ Len(tasks) \in Nat
      /\ \A k \in DOMAIN tasks : all[k] = tasks[k]
      /\ all[Len(tasks) + 1] = t /\ DOMAIN tasks = 1..Len(tasks)
  BY <1>4, <1>6 DEF JobsSound
<1> HIDE DEF all
<1>8. \A k \in DOMAIN all : k = Len(tasks) + 1 \/ k \in DOMAIN tasks
  BY <1>7
<1>9. \A k \in DOMAIN all : JobSound(all[k])
  BY <1>5, <1>6, <1>7, <1>8 DEF JobsSound
<1>10. Spawn(c, p) = IF background /\ \E i \in DOMAIN tasks : tasks[i].key = t.key
                     THEN tasks ELSE all
  BY DEF Spawn, t, all
<1>11. CASE background /\ \E i \in DOMAIN tasks : tasks[i].key = t.key
  BY <1>6, <1>10, <1>11 DEF p
<1>12. CASE ~(background /\ \E i \in DOMAIN tasks : tasks[i].key = t.key)
  <2>1. background => \A i, j \in DOMAIN all : i # j => all[i].key # all[j].key
    BY <1>6, <1>7, <1>8, <1>12 DEF JobsSound
  <2> QED
    BY <1>7, <1>9, <1>10, <1>12, <2>1 DEF JobsSound, p
<1> QED
  BY <1>11, <1>12

\* A request that is compacted, or sent as it is.
LEMMA ReusedIsSound ==
  ASSUME CompactInv, NEW c \in Messages, Len(c) > 2,
         Plan(c).new = <<>> \/ StaleSmall(Plan(c))
  PROVE  RequestSound(Summarised(c, Plan(c).base, Plan(c).tail, "reused", FALSE))
<1> DEFINE p == Plan(c)
           s == Summarised(c, p.base, p.tail, "reused", FALSE)
           rest == SubSeq(c, p.tail, Len(c))
<1>1. /\ p.tail \in 2..Len(c)
      /\ p.tail = Len(c) \/ SizeSum(rest) <= EffectiveKeepTail
      /\ p.base \in Messages /\ Len(p.base) < p.tail
      /\ p.new = SubSeq(c, Len(p.base) + 1, p.tail - 1) /\ p.new \in Messages
      /\ p.middle = SubSeq(c, 1, p.tail - 1) /\ p.middle = p.base \o p.new
  BY PlanIsSound DEF CompactInv
<1>2. p.new = <<>> \/ SizeSum(p.new) < RefreshMin
  BY DEF StaleSmall
<1> HIDE DEF p
<1>3. Len(c) \in Nat /\ DOMAIN c = 1..Len(c)
  BY DEF Messages
<1>4. p.tail \in 1..Len(c) /\ p.tail \in Nat
  BY <1>1, <1>3
<1>5. rest \in Messages /\ SizeSum(rest) \in Nat /\ Len(rest) = Len(c) - p.tail + 1
  BY <1>4, PartIsMessages
<1>6. IsPrefix(p.base, c)
  <2>1. p.middle \in Messages /\ IsPrefix(p.middle, c)
    BY <1>1, <1>3, <1>4, Beginning DEF Messages
  <2>2. IsPrefix(p.base, p.middle)
    BY <1>1, Joined DEF Messages
  <2> QED
    BY <1>1, <2>1, <2>2, PrefixOfPrefix DEF Messages
<1> HIDE DEF rest
<1>7. SummarySize + SizeSum(rest) <= Budget - Tools \/ Len(rest) = 1
  <2>1. CASE p.tail = Len(c)
    BY <1>3, <1>5, <2>1
  <2>2. CASE SizeSum(rest) <= EffectiveKeepTail
    BY <1>5, <2>2, Budgets
  <2> QED
    BY <1>1, <2>1, <2>2
<1>8. s = [conv |-> c, zone |-> "reused", base |-> p.base, from |-> p.tail, cut |-> FALSE]
  BY DEF Summarised
<1> HIDE DEF s
<1>9. s \in Request
  BY <1>1, <1>4, <1>8 DEF Request
<1>10. RequestSound(s)
  BY <1>1, <1>2, <1>3, <1>4, <1>6, <1>7, <1>8, <1>9 DEF RequestSound, rest
<1> QED
  BY <1>10 DEF s, p

\* The recent messages of a history that has a middle.
LEMMA PlannedFallback ==
  ASSUME CompactInv, NEW c \in Messages, Len(c) > 2
  PROVE  RequestSound(Fallback(c, Plan(c).base, Plan(c).tail))
<1> DEFINE p == Plan(c)
<1>1. /\ p.tail \in 2..Len(c) /\ p.base \in Messages /\ Len(p.base) < p.tail
      /\ p.new \in Messages
      /\ p.middle = SubSeq(c, 1, p.tail - 1) /\ p.middle = p.base \o p.new
  BY PlanIsSound DEF CompactInv
<1> HIDE DEF p
<1>2. Len(c) \in Nat /\ p.tail \in 1..Len(c) /\ p.tail - 1 \in 0..Len(c) /\ c \in Seq(Texts)
  BY <1>1 DEF Messages
<1>3. p.middle \in Messages /\ IsPrefix(p.middle, c)
  BY <1>1, <1>2, Beginning DEF Messages
<1>4. IsPrefix(p.base, p.middle)
  BY <1>1, Joined DEF Messages
<1>5. IsPrefix(p.base, c)
  BY <1>1, <1>2, <1>3, <1>4, PrefixOfPrefix DEF Messages
<1> QED
  BY <1>1, <1>2, <1>5, FallbackIsSound DEF p

LEMMA CompactInit_Inv == CompactInit => CompactInv
<1> SUFFICES ASSUME CompactInit PROVE CompactInv
  OBVIOUS
<1>1. <<>> \in Messages /\ Len(<<>>) = 0
  BY EmptyPrefix DEF Messages
<1>2. CacheExact(<<>>) /\ JobsSound(<<>>)
  BY DEF CacheExact, JobsSound
<1>3. RequestSound(Whole(<<>>))
  BY <1>1, WholeIsSound
<1>4. LastTick \in Nat /\ MaxForks \in Nat /\ CacheMax \in Nat
  BY CompactionConstants
<1> QED
  BY <1>1, <1>2, <1>3, <1>4 DEF CompactInit, CompactInv

\* A turn of the client.
LEMMA TurnKeeps ==
  ASSUME CompactInv, NEW keep \in 0..Len(conv), NEW x \in Texts, Turn(keep, x)
  PROVE  CompactInv'
<1> DEFINE c == conv'
           p == Plan(c)
<1>1. c \in Messages
  <2>1. SubSeq(conv, 1, keep) \in Messages
    BY Beginning DEF CompactInv, Messages
  <2> QED
    BY <2>1 DEF Turn, Messages
<1>2. background' = background /\ clock' = clock /\ (background \/ tasks = <<>>)
  BY DEF Turn
<1>3. forks' \in 0..MaxForks
  <2>1. forks \in Nat /\ forks <= MaxForks /\ MaxForks \in Nat
    BY CompactionConstants DEF CompactInv
  <2>2. keep = Len(conv) \/ forks < MaxForks
    BY DEF Turn
  <2>3. forks' = IF keep = Len(conv) THEN forks ELSE forks + 1
    BY DEF Turn
  <2> QED
    BY <2>1, <2>2, <2>3
<1>4. Fits(c) \/ Warm(c) \/ CutAll(c) \/ Compact(c)
  BY DEF Turn
<1> HIDE DEF c
<1>5. RequestSound(Whole(c)) /\ RequestSound([Whole(c) EXCEPT !.zone = "cut", !.cut = TRUE])
  BY <1>1, WholeIsSound
<1>6. CacheExact(cache) /\ Len(cache) <= CacheMax /\ JobsSound(tasks) /\ RequestSound(sent)
  BY DEF CompactInv
<1>7. ASSUME Len(c) > 2
      PROVE  CacheExact(Touch(cache, p.hit)) /\ Len(Touch(cache, p.hit)) = Len(cache)
  <2>1. p.hit \in 0..Len(cache)
    BY <1>1, <1>6, <1>7, PlanIsSound
  <2> HIDE DEF p
  <2> QED
    BY <1>6, <2>1, TouchKeeps
<1>8. ASSUME Len(c) > 2 PROVE JobsSound(Spawn(c, p))
  BY <1>1, <1>2, <1>8, SpawnKeeps
<1>9. /\ CacheExact(cache') /\ Len(cache') <= CacheMax /\ JobsSound(tasks')
      /\ RequestSound(sent')
  <2>1. CASE Fits(c)
    BY <1>5, <1>6, <2>1 DEF Fits
  <2>2. CASE Warm(c)
    <3>1. sent' = Whole(c)
      BY <2>2 DEF Warm
    <3>2. CASE UNCHANGED <<cache, tasks>>
      BY <1>5, <1>6, <3>1, <3>2
    <3>3. CASE ~UNCHANGED <<cache, tasks>>
      <4>1. ~(~background \/ Len(c) <= 2 \/ p.middle = <<>>)
        BY <2>2, <3>3 DEF Warm
      <4>2. Len(c) > 2
        BY <1>1, <4>1, Len(c) \in Nat DEF Messages
      <4>3. cache' = Touch(cache, p.hit) /\ (tasks' = tasks \/ tasks' = Spawn(c, p))
        BY <2>2, <4>1 DEF Warm
      <4> HIDE DEF p
      <4> QED
        BY <1>5, <1>6, <1>7, <1>8, <3>1, <4>2, <4>3
    <3> QED
      BY <3>2, <3>3
  <2>3. CASE CutAll(c)
    BY <1>5, <1>6, <2>3 DEF CutAll
  <2>4. CASE Compact(c)
    <3>1. Len(c) > 2 /\ cache' = Touch(cache, p.hit)
      BY <2>4 DEF Compact
    <3>2. RequestSound(Fallback(c, p.base, p.tail))
      BY <1>1, <3>1, PlannedFallback
    <3>3. CASE p.new = <<>> \/ StaleSmall(p)
      <4>1. sent' = Summarised(c, p.base, p.tail, "reused", FALSE) /\ tasks' = tasks
        BY <2>4, <3>3 DEF Compact
      <4>2. RequestSound(Summarised(c, p.base, p.tail, "reused", FALSE))
        BY <1>1, <3>1, <3>3, ReusedIsSound
      <4> HIDE DEF p
      <4> QED
        BY <1>6, <1>7, <3>1, <4>1, <4>2
    <3>4. CASE ~(p.new = <<>> \/ StaleSmall(p))
      <4>1. /\ tasks' = tasks \/ tasks' = Spawn(c, p)
            /\ sent' = Fallback(c, p.base, p.tail) \/ sent' = sent
        BY <2>4, <3>4 DEF Compact
      <4> HIDE DEF p
      <4> QED
        BY <1>6, <1>7, <1>8, <3>1, <3>2, <4>1
    <3> QED
      BY <3>3, <3>4
  <2> QED
    BY <1>4, <2>1, <2>2, <2>3, <2>4
<1> QED
  BY <1>1, <1>2, <1>3, <1>9 DEF CompactInv, c, JobsSound

\* The answer to a request that waited for its summary.
LEMMA AnswerIsSound ==
  ASSUME NEW t, JobSound(t), NEW ok \in BOOLEAN
  PROVE  RequestSound(Answer(t, ok))
<1> DEFINE c == t.conv
           tail == Len(t.middle) + 1
           base == t.key.base
           summary == t.key.base \o t.key.new
           rest == SubSeq(c, tail, Len(c))
           fits == SummarySize + SizeSum(rest) <= TailBudget
           s == Summarised(c, summary, tail, "summarised", FALSE)
<1>1. /\ t.middle \in Messages /\ c \in Messages /\ base \in Messages /\ t.key.new \in Messages
      /\ t.middle = summary /\ IsPrefix(t.middle, c) /\ Len(t.middle) < Len(c)
  BY DEF JobSound, Job
<1>2. Len(t.middle) \in Nat /\ Len(c) \in Nat /\ DOMAIN c = 1..Len(c)
  <2> DEFINE m == t.middle
  <2>1. m \in Messages /\ c \in Messages
    BY <1>1
  <2> HIDE DEF m, c
  <2> QED
    BY <2>1 DEF Messages, m
<1>3. IsPrefix(base, t.middle)
  BY <1>1, Joined DEF Messages
<1>4. Answer(t, ok) = IF ~ok THEN Fallback(c, base, tail)
                      ELSE IF fits THEN s ELSE Fallback(c, summary, tail)
  BY DEF Answer
<1> HIDE DEF summary, base, c
<1>5. IsPrefix(base, c) /\ Len(base) <= Len(t.middle)
  BY <1>1, <1>2, <1>3, PrefixOfPrefix, PrefixIs DEF Messages
<1>6. tail \in 1..Len(c) /\ tail \in Nat
  BY <1>1, <1>2
<1>7. Len(base) < tail /\ Len(summary) < tail /\ summary \in Messages /\ IsPrefix(summary, c)
  BY <1>1, <1>2, <1>5 DEF Messages
<1>8. rest \in Messages /\ SizeSum(rest) \in Nat
  BY <1>1, <1>6, PartIsMessages
<1> HIDE DEF tail
<1>9. RequestSound(Fallback(c, base, tail)) /\ RequestSound(Fallback(c, summary, tail))
  BY <1>1, <1>5, <1>6, <1>7, FallbackIsSound
<1>10. ASSUME fits PROVE RequestSound(s)
  <2>1. SummarySize + SizeSum(rest) <= Budget - Tools
    BY <1>8, <1>10, Budgets
  <2> HIDE DEF rest
  <2>2. s = [conv |-> c, zone |-> "summarised", base |-> summary, from |-> tail, cut |-> FALSE]
    BY DEF Summarised
  <2> HIDE DEF s
  <2>3. s \in Request
    BY <1>1, <1>6, <1>7, <2>2 DEF Request
  <2> QED
    BY <1>2, <1>6, <1>7, <2>1, <2>2, <2>3 DEF RequestSound, rest
<1> HIDE DEF fits, s
<1> QED
  BY <1>4, <1>9, <1>10

\* The end of a summary.
LEMMA SummaryEndsKeeps ==
  ASSUME CompactInv, NEW i \in 1..SummaryCap, NEW ok \in BOOLEAN, SummaryEnds(i, ok)
  PROVE  CompactInv'
<1> DEFINE t == tasks[i]
           rest == RemoveAt(tasks, i)
<1>1. JobsSound(tasks) /\ tasks \in Seq(Job) /\ i \in DOMAIN tasks
  BY DEF CompactInv, JobsSound, SummaryEnds, Running
<1>2. JobSound(t) /\ t \in Job
  BY <1>1 DEF JobsSound
<1>3. /\ rest \in Seq(Job) /\ Len(rest) = Len(tasks) - 1
      /\ \A k \in DOMAIN rest : rest[k] = IF k < i THEN tasks[k] ELSE tasks[k + 1]
  BY <1>1, Removed
<1>4. background' = background /\ tasks' = rest
  BY DEF SummaryEnds
<1> HIDE DEF rest
<1>5. JobsSound(tasks')
  <2> DEFINE at(k) == IF k < i THEN k ELSE k + 1
  <2>1. DOMAIN tasks = 1..Len(tasks) /\ DOMAIN rest = 1..(Len(tasks) - 1) /\ Len(tasks) \in Nat
    BY <1>1, <1>3
  <2>2. \A k \in DOMAIN rest : at(k) \in DOMAIN tasks /\ rest[k] = tasks[at(k)]
    BY <1>1, <1>3, <2>1
  <2>3. \A j, k \in DOMAIN rest : j # k => at(j) # at(k)
    BY <1>1, <2>1
  <2> HIDE DEF at
  <2>4. \A k \in DOMAIN rest : JobSound(rest[k])
    BY <1>1, <2>2 DEF JobsSound
  <2>5. background => \A j, k \in DOMAIN rest : j # k => rest[j].key # rest[k].key
    BY <1>1, <2>2, <2>3 DEF JobsSound
  <2> QED
    BY <1>3, <1>4, <2>4, <2>5 DEF JobsSound
<1>6. CacheExact(cache') /\ Len(cache') <= CacheMax
  <2>1. CacheExact(cache) /\ Len(cache) <= CacheMax
    BY DEF CompactInv
  <2>2. t.middle \in Messages /\ t.key.base \o t.key.new = t.middle
    BY <1>2 DEF JobSound, Job
  <2>3. cache' = cache \/ cache' = Put(cache, t.middle, t.middle)
    BY <2>2 DEF SummaryEnds, CachedFor
  <2> HIDE DEF t
  <2> QED
    BY <2>1, <2>2, <2>3, PutKeeps
<1>7. RequestSound(sent')
  <2>1. sent' = sent \/ sent' = Answer(t, ok)
    BY DEF SummaryEnds
  <2>2. RequestSound(sent)
    BY DEF CompactInv
  <2> QED
    BY <1>2, <2>1, <2>2, AnswerIsSound
<1>8. background' = background /\ conv' = conv /\ clock' = clock /\ forks' = forks
  BY DEF SummaryEnds
<1> QED
  BY <1>5, <1>6, <1>7, <1>8 DEF CompactInv, JobsSound

LEMMA CompactInv_Step == CompactInv /\ [CompactNext]_compactVars => CompactInv'
<1> SUFFICES ASSUME CompactInv, [CompactNext]_compactVars PROVE CompactInv'
  OBVIOUS
<1>1. CASE Tick
  <2>1. clock' \in 0..LastTick
    BY <1>1, CompactionConstants DEF Tick, CompactInv
  <2> QED
    BY <1>1, <2>1 DEF Tick, CompactInv, JobsSound
<1>2. CASE \E keep \in 0..Len(conv), x \in Texts : Turn(keep, x)
  BY <1>2, TurnKeeps
<1>3. CASE \E i \in 1..SummaryCap, ok \in BOOLEAN : SummaryEnds(i, ok)
  BY <1>3, SummaryEndsKeeps
<1>4. CASE UNCHANGED compactVars
  BY <1>4 DEF compactVars, CompactInv, JobsSound
<1> QED
  BY <1>1, <1>2, <1>3, <1>4 DEF CompactNext

\* Summaries are sound for any messages and sizes, any budgets, any histories a
\* client may send and any number of summaries in flight: a cached summary was
\* made from exactly the messages it is cached for, a request gets a summary of
\* the beginning of its own history only, loses at most what is too little for a
\* refresh between the summary and its tail, and fits its budget but for the
\* messages that are kept in any case.
THEOREM SummariesStaySound == CompactSpec => []SummariesSound
<1>1. CompactInv => SummariesSound
  BY CompactInvSuffices
<1> QED
  BY CompactInit_Inv, CompactInv_Step, <1>1, PTL DEF CompactSpec

-----------------------------------------------------------------------------
(* An answer of Gemini.  What is in the deltas is stated delta by delta, in   *)
(* positions, so that a chunk only adds positions.                            *)

PartKinds == {"text", "thought", "call", "end"}
Counts == [prompt : Nat, cached : Nat, completion : Nat, thinking : Nat]
Reason == {Unsaid, "stop", "tool_calls"}
Delta == [kind : PartKinds, index : Nat, usage : Counts \cup {Unsaid}, finish : Reason]
NewDelta == [kind : PartKinds, index : Nat, usage : Counts \cup {Unsaid}]

StreamTypes ==
  /\ reported \in Metadata \cup {Unsaid} /\ (reported # Unsaid => reported.cached <= reported.prompt)
  /\ toolIdx \in Nat /\ complete \in BOOLEAN /\ deltas \in Seq(Delta)
  /\ hasCalls \in BOOLEAN /\ counted \in Counts /\ replayed \in BOOLEAN

\* A call is among the first n deltas.
Called(given, n) == \E j \in 1..n : given[j].kind = "call"

\* A delta names the reason that what was given so far calls for.
ReasonsGiven ==
  /\ hasCalls = Called(deltas, Len(deltas))
  /\ \A i \in 1..Len(deltas) : deltas[i].finish = Finish(Called(deltas, i), deltas[i])

\* Calls among the first n deltas.
CallsTo(given, n) == {i \in 1..n : given[i].kind = "call"}

\* A call has as its number how many came before it.
NumbersGiven ==
  /\ toolIdx = Cardinality(CallsTo(deltas, Len(deltas)))
  /\ \A i \in 1..Len(deltas) :
       deltas[i].kind = "call" => deltas[i].index = Cardinality(CallsTo(deltas, i - 1))

\* Usage is known to have gone by; of one endpoint, the last delta has it.
UsageGiven ==
  /\ phase # "done" => complete = (WithUsage(deltas) # {})
  /\ phase = "done" => WithUsage(deltas) # {}
  /\ ~replayed =>
       /\ WithUsage(deltas) # {} => deltas[Len(deltas)].usage # Unsaid
       /\ phase = "connect" => deltas = <<>>
       /\ phase = "reading" /\ reported = Unsaid => WithUsage(deltas) = {}

\* Tokens t tell the usage v.
Tells(t, v) ==
  /\ t.prompt = v.prompt /\ t.cached <= v.prompt /\ t.thinking = v.thinking
  /\ t.completion + t.thinking = v.completion

\* What is counted is the usage of the last delta, which Gemini's last report
\* does not fall behind.
TokensGiven ==
  ~replayed /\ phase \in {"connect", "reading"} =>
    /\ WithUsage(deltas) = {} => counted = NoTokens
    /\ WithUsage(deltas) # {} =>
         /\ Tells(counted, deltas[Len(deltas)].usage)
         /\ reported # Unsaid /\ reported.prompt = counted.prompt
         /\ counted.thinking <= reported.thoughts

\* What is recorded at the end tells the usage of the last delta.
RecordGiven ==
  phase = "done" /\ ~replayed =>
    /\ billed.prompt + billed.cached = deltas[Len(deltas)].usage.prompt
    /\ billed.completion + billed.thinking = deltas[Len(deltas)].usage.completion

StreamInv ==
  /\ StreamTypes /\ ReasonsGiven /\ NumbersGiven
  /\ UsageGiven /\ TokensGiven /\ RecordGiven

-----------------------------------------------------------------------------
\* Sets of positions, the second moved behind the first.
LEMMA MovedBehind ==
  ASSUME NEW n \in Nat, NEW m \in Nat, NEW A \in SUBSET (1..n), NEW B \in SUBSET (1..m)
  PROVE  Cardinality(A \cup {n + k : k \in B}) = Cardinality(A) + Cardinality(B)
<1> DEFINE C == {n + k : k \in B}
           f == [k \in B |-> n + k]
<1>1. IsFiniteSet(A) /\ IsFiniteSet(B)
  <2>1. IsFiniteSet(1..n) /\ IsFiniteSet(1..m)
    BY FS_Interval
  <2> QED
    BY <2>1, FS_Subset
<1>2. f \in Bijection(B, C)
  <2>1. \A k \in B : k \in Nat
    OBVIOUS
  <2>2. f \in [B -> C] /\ \A c \in C : \E k \in B : f[k] = c
    OBVIOUS
  <2>3. \A j, k \in B : f[j] = f[k] => j = k
    BY <2>1
  <2> HIDE DEF f, C
  <2> QED
    BY <2>2, <2>3 DEF Bijection, Injection, IsInjective, Surjection
<1>3. ExistsBijection(B, C)
  BY <1>2 DEF ExistsBijection
<1>4. A \cap C = {}
  OBVIOUS
<1> HIDE DEF C
<1>5. IsFiniteSet(C) /\ Cardinality(C) = Cardinality(B)
  BY <1>1, <1>3, FS_Bijection
<1>6. Cardinality(A \cup C) = Cardinality(A) + Cardinality(C) - 0
  BY <1>1, <1>4, <1>5, FS_Union, FS_EmptySet
<1>7. Cardinality(A) \in Nat /\ Cardinality(C) \in Nat
  BY <1>1, <1>5, FS_CardinalityType
<1> QED
  BY <1>5, <1>6, <1>7 DEF C

LEMMA LastOfPositions ==
  ASSUME NEW n \in Nat, NEW S \in SUBSET (1..n), n \in S
  PROVE  Max(S) = n
<1>1. \A x \in S : x \in Nat /\ n >= x
  OBVIOUS
<1>2. \A x \in S : (\A y \in S : x >= y) => x = n
  BY <1>1
<1> QED
  BY <1>1, <1>2 DEF Max

\* The deltas of a stream behind those given before.
Behind(given, new, out) ==
  /\ Len(out) = Len(given) + Len(new)
  /\ \A i \in 1..Len(given) : out[i] = given[i]
  /\ \A k \in 1..Len(new) :
       /\ out[Len(given) + k].kind = new[k].kind
       /\ out[Len(given) + k].index = new[k].index
       /\ out[Len(given) + k].usage = new[k].usage

\* Deltas given are put behind those before, with the reason each calls for.
LEMMA GivenBehind ==
  ASSUME deltas \in Seq(Delta), hasCalls = Called(deltas, Len(deltas)),
         NEW new \in Seq(NewDelta), Give(new)
  PROVE  /\ deltas' \in Seq(Delta) /\ Behind(deltas, new, deltas')
         /\ hasCalls' = Called(deltas', Len(deltas'))
         /\ \A k \in 1..Len(new) :
              deltas'[Len(deltas) + k].finish
                = Finish(Called(deltas', Len(deltas) + k), deltas'[Len(deltas) + k])
<1> DEFINE n == Len(deltas)
           called(k) == hasCalls \/ \E j \in 1..k : new[j].kind = "call"
           one(k) == [kind |-> new[k].kind, index |-> new[k].index, usage |-> new[k].usage,
                      finish |-> Finish(called(k), new[k])]
           added == [k \in DOMAIN new |-> one(k)]
<1>1. n \in Nat /\ Len(new) \in Nat /\ DOMAIN new = 1..Len(new)
  OBVIOUS
<1>2. ASSUME NEW k \in 1..Len(new) PROVE one(k) \in Delta
  <2>1. new[k] \in NewDelta
    BY <1>1
  <2>2. Finish(called(k), new[k]) \in Reason
    BY DEF Finish, Reason
  <2> HIDE DEF called
  <2> QED
    BY <2>1, <2>2 DEF Delta, NewDelta
<1>3. added \in Seq(Delta) /\ Len(added) = Len(new)
  <2> HIDE DEF one
  <2> QED
    BY <1>1, <1>2
<1>4. deltas' = deltas \o added /\ hasCalls' = called(Len(new))
  BY DEF Give
<1>5. ASSUME NEW k \in 1..Len(new) PROVE added[k] = one(k)
  <2> HIDE DEF one
  <2> QED
    BY <1>1, <1>5
<1> HIDE DEF added
<1>6. /\ deltas' \in Seq(Delta) /\ Len(deltas') = n + Len(new)
      /\ \A i \in 1..n : deltas'[i] = deltas[i]
      /\ \A k \in 1..Len(new) : deltas'[n + k] = added[k]
  BY <1>1, <1>3, <1>4
<1>7. Behind(deltas, new, deltas')
  <2>1. ASSUME NEW k \in 1..Len(new)
        PROVE  /\ deltas'[n + k].kind = new[k].kind
               /\ deltas'[n + k].index = new[k].index
               /\ deltas'[n + k].usage = new[k].usage
    <3>1. deltas'[n + k] = one(k)
      <4> HIDE DEF one
      <4> QED
        BY <1>5, <1>6
    <3> QED
      BY <3>1
  <2> QED
    BY <1>6, <2>1 DEF Behind
<1>8. ASSUME NEW k \in 0..Len(new) PROVE called(k) = Called(deltas', n + k)
  <2>1. ASSUME Called(deltas', n + k), ~ hasCalls
        PROVE  \E j \in 1..k : new[j].kind = "call"
    <3>1. PICK j \in 1..(n + k) : deltas'[j].kind = "call"
      BY <2>1 DEF Called
    <3>2. j \notin 1..n
      BY <1>6, <2>1, <3>1 DEF Called
    <3>3. j - n \in 1..k /\ n + (j - n) = j
      BY <1>1, <3>2
    <3>4. new[j - n].kind = "call"
      BY <1>6, <1>7, <3>1, <3>3 DEF Behind
    <3> QED
      BY <3>3, <3>4
  <2>2. ASSUME NEW j \in 1..k, new[j].kind = "call" PROVE Called(deltas', n + k)
    <3>1. n + j \in 1..(n + k) /\ j \in 1..Len(new)
      BY <1>1
    <3>2. deltas'[n + j].kind = "call"
      BY <1>7, <2>2, <3>1 DEF Behind
    <3> QED
      BY <3>1, <3>2 DEF Called
  <2>3. ASSUME hasCalls PROVE Called(deltas', n + k)
    <3>1. PICK j \in 1..n : deltas[j].kind = "call"
      BY <2>3 DEF Called
    <3>2. j \in 1..(n + k) /\ deltas'[j].kind = "call"
      BY <1>1, <1>6, <3>1
    <3> QED
      BY <3>2 DEF Called
  <2>4. hasCalls \in BOOLEAN /\ Called(deltas', n + k) \in BOOLEAN
    BY DEF Called
  <2> QED
    BY <2>1, <2>2, <2>3, <2>4
<1>9. hasCalls' = Called(deltas', Len(deltas'))
  <2>1. Len(new) \in 0..Len(new)
    BY <1>1
  <2> HIDE DEF called
  <2> QED
    BY <1>4, <1>6, <1>8, <2>1
<1>10. ASSUME NEW k \in 1..Len(new)
       PROVE  deltas'[n + k].finish = Finish(Called(deltas', n + k), deltas'[n + k])
  <2>1. deltas'[n + k] = one(k)
    <3> HIDE DEF one
    <3> QED
      BY <1>5, <1>6
  <2>2. k \in 0..Len(new)
    BY <1>1
  <2>3. called(k) = Called(deltas', n + k)
    <3> HIDE DEF called
    <3> QED
      BY <1>8, <2>2
  <2> HIDE DEF called
  <2>4. one(k).usage = deltas'[n + k].usage
    BY <2>1
  <2> QED
    BY <2>1, <2>3 DEF Finish
<1> QED
  BY <1>6, <1>7, <1>9, <1>10

\* Calls in the longer stream: those before, and those of what was put behind.
LEMMA CallsBehind ==
  ASSUME NEW given \in Seq(Delta), NEW new \in Seq(NewDelta), NEW out, Behind(given, new, out)
  PROVE  /\ \A i \in 0..Len(given) : CallsTo(out, i) = CallsTo(given, i)
         /\ \A k \in 0..Len(new) : Cardinality(CallsTo(out, Len(given) + k))
              = Cardinality(CallsTo(given, Len(given))) + Cardinality(CallsTo(new, k))
<1> DEFINE n == Len(given)
<1>1. n \in Nat /\ Len(new) \in Nat
  OBVIOUS
<1>2. ASSUME NEW i \in 0..n PROVE CallsTo(out, i) = CallsTo(given, i)
  <2>1. \A j \in 1..i : out[j] = given[j]
    BY <1>1 DEF Behind
  <2> QED
    BY <2>1 DEF CallsTo
<1>3. ASSUME NEW k \in 0..Len(new)
      PROVE  Cardinality(CallsTo(out, n + k))
               = Cardinality(CallsTo(given, n)) + Cardinality(CallsTo(new, k))
  <2> DEFINE A == CallsTo(given, n)
             B == CallsTo(new, k)
  <2>1. A \in SUBSET (1..n) /\ B \in SUBSET (1..k) /\ k \in Nat
    BY <1>1 DEF CallsTo
  <2>2. CallsTo(out, n + k) = A \cup {n + j : j \in B}
    <3>1. \A j \in 1..k : out[n + j].kind = new[j].kind
      BY <1>1 DEF Behind
    <3>2. \A i \in 1..n : out[i] = given[i]
      BY DEF Behind
    <3>3. ASSUME NEW i \in CallsTo(out, n + k), i \notin A PROVE i \in {n + j : j \in B}
      <4>1. i \in 1..(n + k) /\ i \notin 1..n
        BY <3>2, <3>3 DEF CallsTo
      <4>2. i - n \in 1..k /\ n + (i - n) = i
        BY <1>1, <4>1
      <4>3. i - n \in B
        BY <3>1, <3>3, <4>2 DEF CallsTo
      <4> QED
        BY <4>2, <4>3
    <3>4. ASSUME NEW j \in B PROVE n + j \in CallsTo(out, n + k)
      <4>1. j \in 1..k /\ n + j \in 1..(n + k)
        BY <1>1 DEF CallsTo
      <4> QED
        BY <3>1, <4>1 DEF CallsTo
    <3>5. A \subseteq CallsTo(out, n + k)
      BY <1>1, <3>2 DEF CallsTo
    <3> QED
      BY <3>3, <3>4, <3>5
  <2> HIDE DEF A, B
  <2>3. Cardinality(A \cup {n + j : j \in B}) = Cardinality(A) + Cardinality(B)
    BY <1>1, <2>1, MovedBehind
  <2> QED
    BY <2>2, <2>3 DEF A, B
<1> QED
  BY <1>2, <1>3

\* Calls are finite in number.
LEMMA CallsToFinite ==
  ASSUME NEW given, NEW n \in Nat
  PROVE  IsFiniteSet(CallsTo(given, n)) /\ Cardinality(CallsTo(given, n)) \in Nat
<1>1. IsFiniteSet(1..n) /\ CallsTo(given, n) \in SUBSET (1..n)
  BY FS_Interval DEF CallsTo
<1>2. IsFiniteSet(CallsTo(given, n))
  BY <1>1, FS_Subset
<1> QED
  BY <1>2, FS_CardinalityType

\* Numbers stay those of the calls before, if what is put behind is numbered on.
LEMMA NumbersBehind ==
  ASSUME deltas \in Seq(Delta), toolIdx \in Nat, NumbersGiven,
         NEW new \in Seq(NewDelta), Behind(deltas, new, deltas'),
         \A k \in 1..Len(new) : new[k].kind = "call" =>
            new[k].index = toolIdx + Cardinality(CallsTo(new, k - 1)),
         toolIdx' = toolIdx + Cardinality(CallsTo(new, Len(new)))
  PROVE  NumbersGiven' /\ toolIdx' \in Nat
<1> DEFINE n == Len(deltas)
<1>1. n \in Nat /\ Len(new) \in Nat /\ Len(deltas') = n + Len(new)
  BY DEF Behind
<1>2. /\ \A i \in 0..n : CallsTo(deltas', i) = CallsTo(deltas, i)
      /\ \A k \in 0..Len(new) : Cardinality(CallsTo(deltas', n + k))
              = Cardinality(CallsTo(deltas, n)) + Cardinality(CallsTo(new, k))
  BY CallsBehind
<1>3. toolIdx = Cardinality(CallsTo(deltas, n))
  BY DEF NumbersGiven
<1>4. toolIdx' = Cardinality(CallsTo(deltas', Len(deltas')))
  BY <1>1, <1>2, <1>3
<1>5. toolIdx' \in Nat
  BY <1>1, CallsToFinite
<1>6. ASSUME NEW i \in 1..Len(deltas'), deltas'[i].kind = "call"
      PROVE  deltas'[i].index = Cardinality(CallsTo(deltas', i - 1))
  <2>1. CASE i \in 1..n
    <3>1. deltas'[i] = deltas[i] /\ i - 1 \in 0..n
      BY <1>1, <2>1 DEF Behind
    <3>2. deltas[i].index = Cardinality(CallsTo(deltas, i - 1))
      BY <1>6, <2>1, <3>1 DEF NumbersGiven
    <3> QED
      BY <1>2, <3>1, <3>2
  <2>2. CASE i \notin 1..n
    <3> DEFINE k == i - n
    <3>1. k \in 1..Len(new) /\ n + k = i /\ k - 1 \in 0..Len(new) /\ n + (k - 1) = i - 1
      BY <1>1, <2>2
    <3> HIDE DEF k
    <3>2. deltas'[n + k].kind = new[k].kind /\ deltas'[n + k].index = new[k].index
      BY <3>1 DEF Behind
    <3>3. new[k].index = toolIdx + Cardinality(CallsTo(new, k - 1))
      BY <1>6, <3>1, <3>2
    <3>4. Cardinality(CallsTo(deltas', n + (k - 1)))
            = Cardinality(CallsTo(deltas, n)) + Cardinality(CallsTo(new, k - 1))
      BY <1>2, <3>1
    <3> QED
      BY <1>3, <3>1, <3>2, <3>3, <3>4
  <2> QED
    BY <2>1, <2>2
<1> QED
  BY <1>4, <1>5, <1>6 DEF NumbersGiven

\* What is put behind carries one usage, v.
LEMMA UsageBehind ==
  ASSUME NEW given \in Seq(Delta), NEW new \in Seq(NewDelta), NEW out \in Seq(Delta),
         Behind(given, new, out), NEW v, \A k \in 1..Len(new) : new[k].usage = v
  PROVE  /\ new = <<>> \/ v = Unsaid => (WithUsage(out) = {} <=> WithUsage(given) = {})
         /\ new = <<>> => out = given
         /\ new # <<>> => out # <<>> /\ out[Len(out)].usage = v
         /\ new # <<>> /\ v # Unsaid => WithUsage(out) # {}
<1> DEFINE n == Len(given)
           m == Len(new)
<1>1. n \in Nat /\ m \in Nat /\ Len(out) = n + m /\ (new = <<>> <=> m = 0)
  BY DEF Behind
<1>2. \A i \in 1..n : out[i] = given[i]
  BY DEF Behind
<1>3. \A k \in 1..m : out[n + k].usage = v
  BY DEF Behind
<1>4. DOMAIN given = 1..n /\ DOMAIN out = 1..(n + m)
  BY <1>1
<1>5. ASSUME new = <<>> \/ v = Unsaid PROVE WithUsage(out) = WithUsage(given)
  <2>1. WithUsage(given) \subseteq WithUsage(out)
    BY <1>1, <1>2, <1>4 DEF WithUsage
  <2>2. ASSUME NEW i \in WithUsage(out) PROVE i \in WithUsage(given)
    <3>1. i \in 1..(n + m) /\ out[i].usage # Unsaid
      BY <1>4 DEF WithUsage
    <3>2. i \in 1..n
      <4>1. SUFFICES ASSUME i \notin 1..n PROVE FALSE
        OBVIOUS
      <4>2. i - n \in 1..m /\ n + (i - n) = i
        BY <1>1, <3>1, <4>1
      <4>3. out[i].usage = v /\ m # 0
        BY <1>1, <1>3, <4>2
      <4> QED
        BY <1>1, <1>5, <3>1, <4>3
    <3> QED
      BY <1>2, <1>4, <3>1, <3>2 DEF WithUsage
  <2> QED
    BY <2>1, <2>2
<1>6. ASSUME new = <<>> PROVE out = given
  BY <1>1, <1>2, <1>4, <1>6
<1>7. ASSUME new # <<>>
      PROVE  out # <<>> /\ out[Len(out)].usage = v /\ (v # Unsaid => WithUsage(out) # {})
  <2>1. m \in 1..m /\ n + m \in 1..(n + m)
    BY <1>1, <1>7
  <2>2. out[n + m].usage = v
    BY <1>3, <2>1
  <2>3. v # Unsaid => n + m \in WithUsage(out)
    BY <1>4, <2>1, <2>2 DEF WithUsage
  <2> QED
    BY <1>1, <2>1, <2>2, <2>3
<1> QED
  BY <1>5, <1>6, <1>7

-----------------------------------------------------------------------------
LEMMA StreamInit_Inv == StreamInit => StreamInv
<1> SUFFICES ASSUME StreamInit PROVE StreamInv
  OBVIOUS
<1>1. deltas = <<>> /\ Len(deltas) = 0
  BY DEF StreamInit
<1>2. StreamTypes
  <2>1. counted \in Counts
    BY DEF StreamInit, NoTokens, Counts
  <2>2. deltas \in Seq(Delta)
    BY <1>1
  <2>3. complete \in BOOLEAN /\ hasCalls \in BOOLEAN /\ replayed \in BOOLEAN
    BY DEF StreamInit
  <2>4. toolIdx \in Nat /\ reported = Unsaid
    BY DEF StreamInit
  <2> QED
    BY <2>1, <2>2, <2>3, <2>4 DEF StreamTypes
<1>3. ReasonsGiven
  <2>1. ~ Called(deltas, Len(deltas)) /\ hasCalls = FALSE
    BY <1>1 DEF StreamInit, Called
  <2>2. Called(deltas, Len(deltas)) \in BOOLEAN
    BY DEF Called
  <2>3. 1..Len(deltas) = {}
    BY <1>1
  <2> QED
    BY <2>1, <2>2, <2>3 DEF ReasonsGiven
<1>4. NumbersGiven
  <2>1. CallsTo(deltas, Len(deltas)) = {}
    BY <1>1 DEF CallsTo
  <2> QED
    BY <1>1, <2>1, FS_EmptySet DEF StreamInit, NumbersGiven
<1>5. WithUsage(deltas) = {}
  BY <1>1 DEF WithUsage
<1> QED
  BY <1>1, <1>2, <1>3, <1>4, <1>5
     DEF StreamInit, StreamInv, UsageGiven, TokensGiven, RecordGiven

\* What a chunk is converted to.
LEMMA ConvertedChunk ==
  ASSUME NEW kinds \in Parts, NEW u \in Usages \cup {Unsaid}, NEW first \in Nat
  PROVE  LET new == Converted(kinds, u, first)
         IN  /\ new \in Seq(NewDelta) /\ Len(new) = Len(kinds) /\ (new = <<>> <=> kinds = <<>>)
             /\ \A k \in 1..Len(new) :
                  new[k].usage = Usage(u) /\ new[k].index = first + Cardinality(CallsTo(new, k - 1))
             /\ CallsTo(new, Len(new)) = CallsIn(kinds, Len(kinds))
<1> DEFINE new == Converted(kinds, u, first)
           one(k) == [kind |-> kinds[k], usage |-> Usage(u),
                      index |-> first + Cardinality(CallsIn(kinds, k - 1))]
           m == Len(kinds)
<1>1. m \in Nat /\ DOMAIN kinds = 1..m /\ (kinds = <<>> <=> m = 0)
      /\ \A k \in 1..m : kinds[k] \in PartKinds
  <2>1. kinds \in Seq({"text", "thought", "call"})
    BY GeminiConstants
  <2>2. m \in Nat /\ DOMAIN kinds = 1..m /\ (kinds = <<>> <=> m = 0)
    BY <2>1
  <2>3. ASSUME NEW k \in 1..m PROVE kinds[k] \in PartKinds
    <3>1. kinds[k] \in {"text", "thought", "call"}
      BY <2>1, <2>2
    <3> QED
      BY <3>1 DEF PartKinds
  <2> QED
    BY <2>2, <2>3
<1>2. Usage(u) \in Counts \cup {Unsaid}
  BY GeminiConstants DEF Usage, Metadata, Counts
<1>3. ASSUME NEW k \in 1..m PROVE one(k) \in NewDelta
  <2>1. IsFiniteSet(1..(k - 1)) /\ CallsIn(kinds, k - 1) \in SUBSET (1..(k - 1))
    BY FS_Interval DEF CallsIn
  <2>2. Cardinality(CallsIn(kinds, k - 1)) \in Nat
    BY <2>1, FS_Subset, FS_CardinalityType
  <2> QED
    BY <1>1, <1>2, <2>2 DEF NewDelta
<1>4. new = [k \in 1..m |-> one(k)]
  BY <1>1 DEF Converted
<1>5. new \in Seq(NewDelta) /\ Len(new) = m /\ \A k \in 1..m : new[k] = one(k)
  <2> HIDE DEF one, new
  <2> QED
    BY <1>1, <1>3, <1>4
<1> HIDE DEF new
<1>6. ASSUME NEW k \in 0..m PROVE CallsTo(new, k) = CallsIn(kinds, k)
  <2>1. ASSUME NEW j \in 1..k PROVE new[j].kind = kinds[j]
    <3>1. j \in 1..m
      BY <1>1
    <3>2. new[j] = one(j)
      BY <1>5, <3>1
    <3> QED
      BY <3>2
  <2> QED
    BY <2>1 DEF CallsTo, CallsIn
<1>7. ASSUME NEW k \in 1..m
      PROVE  new[k].usage = Usage(u) /\ new[k].index = first + Cardinality(CallsTo(new, k - 1))
  <2>1. new[k] = one(k) /\ k - 1 \in 0..m
    BY <1>1, <1>5
  <2> QED
    BY <1>6, <2>1
<1>8. CallsTo(new, Len(new)) = CallsIn(kinds, Len(kinds))
  BY <1>1, <1>5, <1>6
<1>9. new = <<>> <=> kinds = <<>>
  BY <1>1, <1>5
<1> QED
  BY <1>5, <1>7, <1>8, <1>9 DEF new

\* Reasons stay those that what was given so far calls for.
LEMMA ReasonsBehind ==
  ASSUME deltas \in Seq(Delta), ReasonsGiven, NEW new \in Seq(NewDelta), Give(new)
  PROVE  ReasonsGiven' /\ deltas' \in Seq(Delta) /\ Behind(deltas, new, deltas')
         /\ hasCalls' \in BOOLEAN
<1> DEFINE n == Len(deltas)
<1>1. /\ deltas' \in Seq(Delta) /\ Behind(deltas, new, deltas')
      /\ hasCalls' = Called(deltas', Len(deltas'))
      /\ \A k \in 1..Len(new) : deltas'[n + k].finish
            = Finish(Called(deltas', n + k), deltas'[n + k])
  BY GivenBehind DEF ReasonsGiven
<1>2. n \in Nat /\ Len(new) \in Nat /\ Len(deltas') = n + Len(new)
      /\ \A i \in 1..n : deltas'[i] = deltas[i]
  BY <1>1 DEF Behind
<1>3. ASSUME NEW i \in 1..Len(deltas')
      PROVE  deltas'[i].finish = Finish(Called(deltas', i), deltas'[i])
  <2>1. CASE i \in 1..n
    <3>1. \A j \in 1..i : deltas'[j] = deltas[j]
      BY <1>2, <2>1
    <3>2. Called(deltas', i) = Called(deltas, i)
      BY <3>1 DEF Called
    <3> QED
      BY <1>2, <2>1, <3>2 DEF ReasonsGiven
  <2>2. CASE i \notin 1..n
    <3>1. i - n \in 1..Len(new) /\ n + (i - n) = i
      BY <1>2, <2>2
    <3> QED
      BY <1>1, <3>1
  <2> QED
    BY <2>1, <2>2
<1>4. hasCalls' \in BOOLEAN
  BY <1>1 DEF Called
<1> QED
  BY <1>1, <1>3, <1>4 DEF ReasonsGiven

\* Reports and what is counted have their types.
LEMMA CountedTyped ==
  ASSUME NEW t \in Counts, NEW u \in Counts PROVE Counted(t, u) \in Counts
BY DEF Counted, Counts

\* A usage counted after one of the same prompt with no more thoughts.
LEMMA CountedTells ==
  ASSUME NEW t \in Counts, NEW u \in Metadata, u.cached <= u.prompt,
         t = NoTokens \/ (t.cached <= u.prompt /\ t.thinking <= u.thoughts)
  PROVE  Tells(Counted(t, Usage(u)), Usage(u)) /\ Counted(t, Usage(u)).thinking = u.thoughts
<1>1. u # Unsaid
  BY GeminiConstants
<1>2. Usage(u) = [prompt |-> u.prompt, cached |-> u.cached,
                  completion |-> u.candidates + u.thoughts, thinking |-> u.thoughts]
  BY <1>1 DEF Usage
<1>3. /\ u.prompt \in Nat /\ u.cached \in Nat /\ u.candidates \in Nat /\ u.thoughts \in Nat
      /\ t.cached \in Nat /\ t.thinking \in Nat
  BY DEF Metadata, Counts
<1>4. t.cached <= u.prompt /\ t.thinking <= u.thoughts
  BY <1>3 DEF NoTokens
<1> QED
  BY <1>2, <1>3, <1>4 DEF Tells, Counted

LEMMA UsageTyped ==
  ASSUME NEW u \in Usages \cup {Unsaid}
  PROVE  /\ u = Unsaid => Usage(u) = Unsaid
         /\ u # Unsaid => /\ u \in Metadata /\ u.cached <= u.prompt
                          /\ Usage(u) \in Counts /\ Usage(u) # Unsaid /\ Usage(u).prompt = u.prompt
<1>1. ASSUME u # Unsaid PROVE u \in Metadata /\ u.cached <= u.prompt
  BY <1>1, GeminiConstants
<1>2. ASSUME u # Unsaid
      PROVE  Usage(u) \in Counts /\ Usage(u).prompt = u.prompt
  <2>1. /\ u.prompt \in Nat /\ u.cached \in Nat /\ u.candidates \in Nat /\ u.thoughts \in Nat
    BY <1>1, <1>2 DEF Metadata
  <2> QED
    BY <1>2, <2>1 DEF Usage, Counts
<1>3. Unsaid \notin Counts
  BY GeminiConstants DEF Counts
<1> QED
  BY <1>1, <1>2, <1>3 DEF Usage

LEMMA ChunkKeeps ==
  ASSUME StreamInv, NEW kinds \in Parts, NEW u \in Usages \cup {Unsaid}, Chunk(kinds, u)
  PROVE  StreamInv'
<1> DEFINE new == Converted(kinds, u, toolIdx)
<1>1. /\ StreamTypes /\ ReasonsGiven /\ NumbersGiven
      /\ UsageGiven /\ TokensGiven /\ RecordGiven
  BY DEF StreamInv
<1>2. /\ deltas \in Seq(Delta) /\ toolIdx \in Nat /\ counted \in Counts
      /\ reported \in Metadata \cup {Unsaid}
  BY <1>1 DEF StreamTypes
<1>3. /\ new \in Seq(NewDelta) /\ Len(new) = Len(kinds) /\ (new = <<>> <=> kinds = <<>>)
      /\ \A k \in 1..Len(new) :
           new[k].usage = Usage(u) /\ new[k].index = toolIdx + Cardinality(CallsTo(new, k - 1))
      /\ CallsTo(new, Len(new)) = CallsIn(kinds, Len(kinds))
  BY <1>2, ConvertedChunk
<1>4. /\ phase = "reading" /\ phase' = phase /\ replayed' = replayed /\ billed' = billed
      /\ Grows(u) /\ reported' = u /\ Give(new)
      /\ toolIdx' = toolIdx + Cardinality(CallsIn(kinds, Len(kinds)))
      /\ complete' = (complete \/ (kinds # <<>> /\ u # Unsaid))
  BY DEF Chunk
<1>5. counted' = IF new = <<>> \/ new[1].usage = Unsaid THEN counted
                 ELSE Counted(counted, new[1].usage)
  BY <1>4 DEF Give
<1> HIDE DEF new
<1>6. /\ u = Unsaid => Usage(u) = Unsaid
      /\ u # Unsaid => /\ u \in Metadata /\ u.cached <= u.prompt
                       /\ Usage(u) \in Counts /\ Usage(u) # Unsaid /\ Usage(u).prompt = u.prompt
  BY UsageTyped
<1>7. new # <<>> => new[1].usage = Usage(u)
  <2>1. new # <<>> => 1 \in 1..Len(new)
    BY <1>3
  <2> QED
    BY <1>3, <2>1
<1>8. ReasonsGiven' /\ deltas' \in Seq(Delta) /\ Behind(deltas, new, deltas') /\ hasCalls' \in BOOLEAN
  BY <1>1, <1>2, <1>3, <1>4, ReasonsBehind
<1>9. NumbersGiven' /\ toolIdx' \in Nat
  BY <1>1, <1>2, <1>3, <1>4, <1>8, NumbersBehind
<1>10. /\ new = <<>> \/ u = Unsaid =>
            (WithUsage(deltas') = {} <=> WithUsage(deltas) = {}) /\ counted' = counted
       /\ new = <<>> => deltas' = deltas
       /\ new # <<>> => deltas'[Len(deltas')].usage = Usage(u)
       /\ new # <<>> /\ u # Unsaid =>
            WithUsage(deltas') # {} /\ counted' = Counted(counted, Usage(u))
  <2>1. /\ new = <<>> \/ Usage(u) = Unsaid => (WithUsage(deltas') = {} <=> WithUsage(deltas) = {})
        /\ new = <<>> => deltas' = deltas
        /\ new # <<>> => deltas' # <<>> /\ deltas'[Len(deltas')].usage = Usage(u)
        /\ new # <<>> /\ Usage(u) # Unsaid => WithUsage(deltas') # {}
    <3> DEFINE v == Usage(u)
    <3>1. \A k \in 1..Len(new) : new[k].usage = v
      BY <1>3
    <3>2. deltas' \in Seq(Delta) /\ Behind(deltas, new, deltas')
      BY <1>8
    <3> HIDE DEF v
    <3>3. /\ new = <<>> \/ v = Unsaid => (WithUsage(deltas') = {} <=> WithUsage(deltas) = {})
          /\ new = <<>> => deltas' = deltas
          /\ new # <<>> => deltas' # <<>> /\ deltas'[Len(deltas')].usage = v
          /\ new # <<>> /\ v # Unsaid => WithUsage(deltas') # {}
      BY <1>2, <1>3, <3>1, <3>2, UsageBehind
    <3> QED
      BY <3>3 DEF v
  <2> QED
    BY <1>5, <1>6, <1>7, <2>1
<1>11. ~replayed => (u = Unsaid => WithUsage(deltas) = {})
  BY <1>1, <1>4 DEF UsageGiven, Grows
<1>12. counted' \in Counts
  BY <1>2, <1>6, <1>10, CountedTyped
<1>13. StreamTypes'
  <2>1. complete' \in BOOLEAN /\ replayed' \in BOOLEAN
    BY <1>1, <1>4 DEF StreamTypes
  <2> QED
    BY <1>4, <1>6, <1>8, <1>9, <1>12, <2>1 DEF StreamTypes
<1>14. UsageGiven'
  <2>1. complete' = (WithUsage(deltas') # {})
    <3>1. complete = (WithUsage(deltas) # {})
      BY <1>1, <1>4 DEF UsageGiven
    <3>2. CASE new = <<>> \/ u = Unsaid
      BY <1>3, <1>4, <1>10, <3>1, <3>2
    <3>3. CASE new # <<>> /\ u # Unsaid
      BY <1>3, <1>4, <1>10, <3>3
    <3> QED
      BY <3>2, <3>3
  <2>2. ASSUME ~replayed, WithUsage(deltas') # {} PROVE deltas'[Len(deltas')].usage # Unsaid
    BY <1>1, <1>6, <1>10, <1>11, <2>2 DEF UsageGiven
  <2>3. ~replayed /\ u = Unsaid => WithUsage(deltas') = {}
    BY <1>10, <1>11
  <2> QED
    BY <1>4, <2>1, <2>2, <2>3 DEF UsageGiven
<1>15. TokensGiven'
  <2>1. SUFFICES ASSUME ~replayed
                 PROVE  /\ WithUsage(deltas') = {} => counted' = NoTokens
                        /\ WithUsage(deltas') # {} =>
                             /\ Tells(counted', deltas'[Len(deltas')].usage)
                             /\ u # Unsaid /\ u.prompt = counted'.prompt
                             /\ counted'.thinking <= u.thoughts
    BY <1>4 DEF TokensGiven
  <2>2. /\ WithUsage(deltas) = {} => counted = NoTokens
        /\ WithUsage(deltas) # {} =>
             /\ Tells(counted, deltas[Len(deltas)].usage)
             /\ reported # Unsaid /\ reported.prompt = counted.prompt
             /\ counted.thinking <= reported.thoughts
    BY <1>1, <1>4, <2>1 DEF TokensGiven
  <2>3. CASE u = Unsaid
    BY <1>10, <1>11, <2>1, <2>2, <2>3
  <2>4. CASE u # Unsaid /\ WithUsage(deltas) # {}
    <3>1. /\ u.prompt = counted.prompt /\ counted.thinking <= u.thoughts
          /\ counted.cached <= u.prompt
      <4>1. u.prompt = reported.prompt /\ u.thoughts >= reported.thoughts
        BY <1>4, <2>2, <2>4 DEF Grows
      <4>2. /\ u.thoughts \in Nat /\ reported.thoughts \in Nat
            /\ counted.thinking \in Nat /\ counted.cached <= counted.prompt
        BY <1>2, <1>6, <2>2, <2>4 DEF Metadata, Counts, Tells
      <4> QED
        BY <2>2, <2>4, <4>1, <4>2
    <3>2. CASE new = <<>>
      BY <1>10, <2>2, <2>4, <3>1, <3>2
    <3>3. CASE new # <<>>
      <4>1. Tells(counted', Usage(u)) /\ counted'.thinking = u.thoughts
        BY <1>2, <1>6, <1>10, <2>4, <3>1, <3>3, CountedTells
      <4>2. counted'.prompt = u.prompt /\ u.thoughts \in Nat
        BY <1>6, <2>4, <4>1 DEF Tells, Metadata
      <4>3. deltas'[Len(deltas')].usage = Usage(u) /\ WithUsage(deltas') # {}
        BY <1>10, <2>4, <3>3
      <4>4. Tells(counted', deltas'[Len(deltas')].usage)
        BY <4>1, <4>3
      <4> QED
        BY <2>4, <4>1, <4>2, <4>3, <4>4
    <3> QED
      BY <3>2, <3>3
  <2>5. CASE u # Unsaid /\ WithUsage(deltas) = {}
    <3>1. CASE new = <<>>
      BY <1>10, <2>2, <2>5, <3>1
    <3>2. CASE new # <<>>
      <4>1. Tells(counted', Usage(u)) /\ counted'.thinking = u.thoughts
        BY <1>2, <1>6, <1>10, <2>2, <2>5, <3>2, CountedTells
      <4>2. counted'.prompt = u.prompt /\ u.thoughts \in Nat
        BY <1>6, <2>5, <4>1 DEF Tells, Metadata
      <4>3. deltas'[Len(deltas')].usage = Usage(u) /\ WithUsage(deltas') # {}
        BY <1>10, <2>5, <3>2
      <4>4. Tells(counted', deltas'[Len(deltas')].usage)
        BY <4>1, <4>3
      <4> QED
        BY <2>5, <4>1, <4>2, <4>3, <4>4
    <3> QED
      BY <3>1, <3>2
  <2> QED
    BY <2>3, <2>4, <2>5
<1>16. RecordGiven'
  BY <1>4 DEF RecordGiven
<1> QED
  BY <1>8, <1>9, <1>13, <1>14, <1>15, <1>16 DEF StreamInv

LEMMA StreamEndKeeps ==
  ASSUME StreamInv, End PROVE StreamInv'
<1> DEFINE last == [kind |-> "end", index |-> 0, usage |-> [NoTokens EXCEPT !.completion = 1]]
           new == IF complete THEN <<>> ELSE <<last>>
<1>1. /\ StreamTypes /\ ReasonsGiven /\ NumbersGiven
      /\ UsageGiven /\ TokensGiven /\ RecordGiven
  BY DEF StreamInv
<1>2. /\ deltas \in Seq(Delta) /\ toolIdx \in Nat /\ counted \in Counts /\ complete \in BOOLEAN
  BY <1>1 DEF StreamTypes
<1>3. /\ phase = "reading" /\ phase' = "done" /\ replayed' = replayed /\ reported' = reported
      /\ toolIdx' = toolIdx /\ complete' = complete /\ Give(new)
      /\ billed' = [counted' EXCEPT !.prompt = IF @ >= counted'.cached THEN @ - counted'.cached ELSE 0]
  BY DEF End, accumulator
<1>4. counted' = IF new = <<>> \/ new[1].usage = Unsaid THEN counted
                 ELSE Counted(counted, new[1].usage)
  BY <1>3 DEF Give
<1>5. last \in NewDelta /\ last.usage # Unsaid /\ last.usage \in Counts
      /\ last.usage = [prompt |-> 0, cached |-> 0, completion |-> 1, thinking |-> 0]
      /\ last.kind # "call"
  <2>1. last.usage = [prompt |-> 0, cached |-> 0, completion |-> 1, thinking |-> 0]
    BY DEF NoTokens
  <2>2. last.usage \in Counts
    BY <2>1 DEF Counts
  <2>3. last.usage # Unsaid
    BY <2>2, GeminiConstants DEF Counts
  <2>4. last \in NewDelta
    BY <2>2 DEF NewDelta, PartKinds
  <2> QED
    BY <2>1, <2>2, <2>3, <2>4
<1> HIDE DEF last
<1>6. /\ new \in Seq(NewDelta) /\ (complete => new = <<>>) /\ (~complete => new = <<last>>)
      /\ \A k \in 1..Len(new) : new[k] = last
  BY <1>2, <1>5
<1> HIDE DEF new
<1>7. ReasonsGiven' /\ deltas' \in Seq(Delta) /\ Behind(deltas, new, deltas') /\ hasCalls' \in BOOLEAN
  BY <1>1, <1>2, <1>3, <1>6, ReasonsBehind
<1>8. NumbersGiven' /\ toolIdx' \in Nat
  <2>1. CallsTo(new, Len(new)) = {}
    BY <1>5, <1>6 DEF CallsTo
  <2>2. toolIdx' = toolIdx + Cardinality(CallsTo(new, Len(new)))
    BY <1>2, <1>3, <2>1, FS_EmptySet
  <2>3. \A k \in 1..Len(new) : new[k].kind = "call" =>
            new[k].index = toolIdx + Cardinality(CallsTo(new, k - 1))
    BY <1>5, <1>6
  <2> QED
    BY <1>1, <1>2, <1>6, <1>7, <2>2, <2>3, NumbersBehind
<1>9. /\ complete => deltas' = deltas /\ counted' = counted
      /\ ~complete => /\ deltas'[Len(deltas')].usage = last.usage /\ WithUsage(deltas') # {}
                      /\ counted' = Counted(counted, last.usage)
  <2> DEFINE v == last.usage
  <2>1. \A k \in 1..Len(new) : new[k].usage = v
    BY <1>6
  <2>2. v # Unsaid /\ (new # <<>> => new[1].usage = v)
    BY <1>2, <1>5, <1>6
  <2>3. ~complete => new # <<>>
    BY <1>6
  <2> HIDE DEF v
  <2>4. deltas' \in Seq(Delta) /\ Behind(deltas, new, deltas')
    BY <1>7
  <2>5. /\ new = <<>> \/ v = Unsaid => (WithUsage(deltas') = {} <=> WithUsage(deltas) = {})
        /\ new = <<>> => deltas' = deltas
        /\ new # <<>> => deltas' # <<>> /\ deltas'[Len(deltas')].usage = v
        /\ new # <<>> /\ v # Unsaid => WithUsage(deltas') # {}
    BY <1>2, <1>6, <2>1, <2>4, UsageBehind
  <2>6. counted' = IF new = <<>> THEN counted ELSE Counted(counted, v)
    BY <1>4, <2>2
  <2> QED
    BY <1>2, <1>6, <2>2, <2>3, <2>5, <2>6 DEF v
<1>10. complete <=> WithUsage(deltas) # {}
  BY <1>1, <1>2, <1>3 DEF UsageGiven
<1>11. StreamTypes'
  <2>1. counted' \in Counts
    BY <1>2, <1>5, <1>9, CountedTyped
  <2>2. /\ reported' \in Metadata \cup {Unsaid} /\ (reported' # Unsaid => reported'.cached <= reported'.prompt)
        /\ complete' \in BOOLEAN /\ replayed' \in BOOLEAN
    BY <1>1, <1>3 DEF StreamTypes
  <2> QED
    BY <1>7, <1>8, <2>1, <2>2 DEF StreamTypes
<1>12. UsageGiven'
  <2>1. WithUsage(deltas') # {}
    BY <1>2, <1>9, <1>10
  <2>2. ~replayed => deltas'[Len(deltas')].usage # Unsaid
    BY <1>1, <1>2, <1>5, <1>9, <1>10 DEF UsageGiven
  <2> QED
    BY <1>3, <2>1, <2>2 DEF UsageGiven
<1>13. TokensGiven'
  BY <1>3 DEF TokensGiven
<1>14. RecordGiven'
  <2>1. SUFFICES ASSUME ~replayed
                 PROVE  /\ billed'.prompt + billed'.cached = deltas'[Len(deltas')].usage.prompt
                        /\ billed'.completion + billed'.thinking
                             = deltas'[Len(deltas')].usage.completion
    BY <1>3 DEF RecordGiven
  <2> DEFINE v == deltas'[Len(deltas')].usage
  <2>2. Tells(counted', v)
    <3>1. CASE complete
      BY <1>1, <1>3, <1>9, <1>10, <2>1, <3>1 DEF TokensGiven
    <3>2. CASE ~complete
      <4>1. counted = NoTokens
        BY <1>1, <1>3, <1>10, <2>1, <3>2 DEF TokensGiven
      <4>2. v = [prompt |-> 0, cached |-> 0, completion |-> 1, thinking |-> 0]
        BY <1>5, <1>9, <3>2
      <4>3. counted' = Counted(NoTokens, v)
        BY <1>9, <3>2, <4>1
      <4> HIDE DEF v
      <4> QED
        BY <4>2, <4>3 DEF Tells, Counted, NoTokens
    <3> QED
      BY <1>2, <3>1, <3>2
  <2>3. counted' \in Counts
    BY <1>11 DEF StreamTypes
  <2>4. counted'.cached <= counted'.prompt
    BY <2>2 DEF Tells
  <2>5. /\ billed'.prompt = counted'.prompt - counted'.cached /\ billed'.cached = counted'.cached
        /\ billed'.completion = counted'.completion /\ billed'.thinking = counted'.thinking
    BY <1>3, <2>3, <2>4 DEF Counts
  <2> HIDE DEF v
  <2>6. /\ billed'.prompt + billed'.cached = v.prompt
        /\ billed'.completion + billed'.thinking = v.completion
    BY <2>2, <2>3, <2>5 DEF Tells, Counts
  <2> QED
    BY <2>6 DEF v
<1> QED
  BY <1>7, <1>8, <1>11, <1>12, <1>13, <1>14 DEF StreamInv

\* Deltas, numbers and reasons are left as they are.
LEMMA DeltasKept ==
  ASSUME StreamInv, UNCHANGED <<accumulator, deltas, handler>>
  PROVE  ReasonsGiven' /\ NumbersGiven'
         /\ (StreamTypes /\ replayed' \in BOOLEAN /\ (reported' = reported \/ reported' = Unsaid)
               => StreamTypes')
BY DEF StreamInv, StreamTypes, ReasonsGiven, NumbersGiven, accumulator, handler

LEMMA NextEndpointKeeps ==
  ASSUME StreamInv, phase \in {"connect", "reading"}, NextEndpoint PROVE StreamInv'
<1>1. /\ StreamTypes /\ ReasonsGiven /\ NumbersGiven
      /\ UsageGiven /\ TokensGiven /\ RecordGiven
  BY DEF StreamInv
<1>2. UNCHANGED <<accumulator, deltas, handler>> /\ complete' = complete /\ counted' = counted
      /\ deltas' = deltas
  BY DEF NextEndpoint, accumulator, handler
<1>3. \/ phase' = "connect" /\ reported' = Unsaid /\ replayed' = (replayed \/ deltas # <<>>)
      \/ phase' = "failed" /\ reported' = reported /\ replayed' = replayed
  BY DEF NextEndpoint
<1>4. replayed' \in BOOLEAN
  BY <1>1, <1>3 DEF StreamTypes
<1>5. ReasonsGiven' /\ NumbersGiven' /\ StreamTypes'
  BY <1>1, <1>2, <1>3, <1>4, DeltasKept
<1>6. deltas = <<>> => WithUsage(deltas) = {}
  BY DEF WithUsage
<1>7. complete = (WithUsage(deltas) # {})
  BY <1>1 DEF UsageGiven
<1>8. CASE phase' = "connect" /\ reported' = Unsaid /\ replayed' = (replayed \/ deltas # <<>>)
  <2>1. ~replayed' => ~replayed /\ deltas = <<>>
    BY <1>1, <1>8 DEF StreamTypes
  <2>2. ~replayed' => counted = NoTokens
    BY <1>1, <1>6, <2>1 DEF TokensGiven
  <2>3. UsageGiven'
    BY <1>2, <1>6, <1>7, <1>8, <2>1 DEF UsageGiven
  <2>4. TokensGiven'
    BY <1>2, <1>6, <1>8, <2>1, <2>2 DEF TokensGiven
  <2>5. RecordGiven'
    BY <1>8 DEF RecordGiven
  <2> QED
    BY <1>5, <2>3, <2>4, <2>5 DEF StreamInv
<1>9. CASE phase' = "failed" /\ reported' = reported /\ replayed' = replayed
  BY <1>1, <1>2, <1>5, <1>7, <1>9 DEF StreamInv, UsageGiven, TokensGiven, RecordGiven
<1> QED
  BY <1>3, <1>8, <1>9

LEMMA StreamInv_Step == StreamInv /\ [StreamNext]_streamVars => StreamInv'
<1> SUFFICES ASSUME StreamInv, [StreamNext]_streamVars PROVE StreamInv'
  OBVIOUS
<1>1. /\ StreamTypes /\ ReasonsGiven /\ NumbersGiven
      /\ UsageGiven /\ TokensGiven /\ RecordGiven
  BY DEF StreamInv
<1>2. ASSUME Connect \/ Refuse PROVE StreamInv'
  <2>1. /\ UNCHANGED <<accumulator, deltas, handler>> /\ complete' = complete
        /\ counted' = counted /\ deltas' = deltas
        /\ reported' = reported /\ replayed' = replayed
    BY <1>2 DEF Connect, Refuse, accumulator, handler
  <2>2. ReasonsGiven' /\ NumbersGiven' /\ StreamTypes'
    BY <1>1, <2>1, DeltasKept DEF StreamTypes
  <2>3. CASE Connect
    <3>1. phase = "connect" /\ phase' = "reading"
      BY <2>3 DEF Connect
    <3>2. deltas = <<>> => WithUsage(deltas) = {}
      BY DEF WithUsage
    <3>3. UsageGiven'
      BY <1>1, <2>1, <3>1, <3>2 DEF UsageGiven
    <3> QED
      BY <1>1, <2>1, <2>2, <3>1, <3>3 DEF StreamInv, TokensGiven, RecordGiven
  <2>4. CASE Refuse
    <3>1. phase \in {"connect", "reading"} /\ phase' = "failed"
      BY <2>4 DEF Refuse
    <3> QED
      BY <1>1, <2>1, <2>2, <3>1 DEF StreamInv, UsageGiven, TokensGiven, RecordGiven
  <2> QED
    BY <1>2, <2>3, <2>4
<1>3. CASE End
  BY <1>3, StreamEndKeeps
<1>4. CASE Unreachable
  BY <1>4, NextEndpointKeeps DEF Unreachable
<1>5. CASE \E kinds \in Parts, u \in Usages \cup {Unsaid} : Chunk(kinds, u)
  BY <1>5, ChunkKeeps
<1>6. CASE UNCHANGED streamVars
  BY <1>6 DEF streamVars, accumulator, handler, StreamInv, StreamTypes, ReasonsGiven,
     NumbersGiven, UsageGiven, TokensGiven, RecordGiven
<1> QED
  BY <1>2, <1>3, <1>4, <1>5, <1>6 DEF StreamNext

-----------------------------------------------------------------------------
\* Two calls have two numbers: before the later one there is one call more.
LEMMA NumbersDiffer ==
  ASSUME deltas \in Seq(Delta), NumbersGiven, NEW i \in Calls(deltas), NEW j \in Calls(deltas),
         i < j
  PROVE  deltas[i].index # deltas[j].index
<1>1. /\ i \in 1..Len(deltas) /\ j \in 1..Len(deltas) /\ Len(deltas) \in Nat
      /\ deltas[i].kind = "call" /\ deltas[j].kind = "call"
  BY DEF Calls
<1>2. /\ deltas[i].index = Cardinality(CallsTo(deltas, i - 1))
      /\ deltas[j].index = Cardinality(CallsTo(deltas, j - 1))
  BY <1>1 DEF NumbersGiven
<1>3. IsFiniteSet(CallsTo(deltas, j - 1))
  BY <1>1, CallsToFinite
<1>4. CallsTo(deltas, i - 1) \in SUBSET CallsTo(deltas, j - 1)
  BY <1>1 DEF CallsTo
<1>5. i \in CallsTo(deltas, j - 1) /\ i \notin CallsTo(deltas, i - 1)
  BY <1>1 DEF CallsTo
<1> QED
  BY <1>2, <1>3, <1>4, <1>5, FS_Subset

LEMMA StreamInvSuffices == StreamInv => StreamSound
<1> SUFFICES ASSUME StreamInv PROVE StreamSound
  OBVIOUS
<1> DEFINE n == Len(deltas)
           indices == {deltas[i].index : i \in Calls(deltas)}
<1>1. deltas \in Seq(Delta) /\ NumbersGiven /\ ReasonsGiven /\ UsageGiven /\ RecordGiven
  BY DEF StreamInv, StreamTypes
<1>2. n \in Nat /\ DOMAIN deltas = 1..n
  BY <1>1
<1>3. Calls(deltas) = CallsTo(deltas, n)
  BY <1>2 DEF Calls, CallsTo
<1>4. ASSUME NEW i \in Calls(deltas)
      PROVE  deltas[i].index = Cardinality({j \in Calls(deltas) : j < i})
  <2>1. i \in 1..n /\ deltas[i].kind = "call"
    BY <1>2 DEF Calls
  <2>2. {j \in Calls(deltas) : j < i} = CallsTo(deltas, i - 1)
    BY <1>2, <2>1 DEF Calls, CallsTo
  <2> QED
    BY <1>1, <2>1, <2>2 DEF NumbersGiven
<1>5. ASSUME NEW a \in indices
      PROVE  Cardinality({i \in Calls(deltas) : deltas[i].index = a}) = 1
  <2>1. PICK i \in Calls(deltas) : deltas[i].index = a
    OBVIOUS
  <2>2. ASSUME NEW j \in Calls(deltas), deltas[j].index = a PROVE j = i
    <3>1. i \in Nat /\ j \in Nat
      BY <1>2 DEF Calls
    <3>2. ~ (i < j) /\ ~ (j < i)
      BY <1>1, <2>1, <2>2, NumbersDiffer
    <3> QED
      BY <3>1, <3>2
  <2>3. {j \in Calls(deltas) : deltas[j].index = a} = {i}
    BY <2>1, <2>2
  <2> QED
    BY <2>3, FS_Singleton
<1>6. CallsNumbered
  <2>1. Message(deltas).calls = [a \in indices |->
                    Cardinality({i \in Calls(deltas) : deltas[i].index = a})]
    BY DEF Message
  <2>2. \A a \in DOMAIN Message(deltas).calls : Message(deltas).calls[a] = 1
    <3> HIDE DEF indices
    <3> QED
      BY <1>5, <2>1
  <2> QED
    BY <1>4, <2>2 DEF CallsNumbered
<1>7. WithUsage(deltas) # {} /\ ~replayed => LastUsage(deltas) = deltas[n]
  <2>1. SUFFICES ASSUME WithUsage(deltas) # {}, ~replayed PROVE Max(WithUsage(deltas)) = n
    BY DEF LastUsage
  <2>2. deltas[n].usage # Unsaid
    BY <1>1, <2>1 DEF UsageGiven
  <2>3. n \in 1..n /\ WithUsage(deltas) \in SUBSET (1..n)
    BY <1>2, <2>1 DEF WithUsage
  <2>4. n \in WithUsage(deltas)
    BY <1>2, <2>2, <2>3 DEF WithUsage
  <2> QED
    BY <1>2, <2>3, <2>4, LastOfPositions
<1>8. Called(deltas, n) <=> Calls(deltas) # {}
  BY <1>2 DEF Called, Calls
<1>9. Message(deltas).finish = IF indices # {} THEN "tool_calls"
                  ELSE IF WithUsage(deltas) # {} THEN "stop" ELSE Unsaid
  BY DEF Message
<1>10. indices # {} <=> Calls(deltas) # {}
  OBVIOUS
<1>11. FinishKnown
  <2>1. SUFFICES ASSUME phase = "done"
                 PROVE  /\ WithUsage(deltas) # {}
                        /\ ~replayed => /\ LastUsage(deltas).finish = Message(deltas).finish
                                        /\ (Message(deltas).finish = "tool_calls")
                                              = (Calls(deltas) # {})
    BY DEF FinishKnown
  <2>2. WithUsage(deltas) # {}
    BY <1>1, <2>1 DEF UsageGiven
  <2>3. ASSUME ~replayed
        PROVE  LastUsage(deltas).finish = Message(deltas).finish
    <3>1. n \in 1..n /\ deltas[n].usage # Unsaid
      BY <1>1, <1>2, <2>2, <2>3 DEF UsageGiven, WithUsage
    <3>2. deltas[n].finish = Finish(Called(deltas, n), deltas[n])
      BY <1>1, <3>1 DEF ReasonsGiven
    <3>3. deltas[n].finish = IF Calls(deltas) # {} THEN "tool_calls" ELSE "stop"
      BY <1>8, <3>1, <3>2 DEF Finish
    <3> HIDE DEF indices
    <3> QED
      BY <1>7, <1>9, <1>10, <2>2, <2>3, <3>3
  <2>4. (Message(deltas).finish = "tool_calls") = (Calls(deltas) # {})
    <3> HIDE DEF indices
    <3> QED
      BY <1>9, <1>10, <2>2
  <2> QED
    BY <2>2, <2>3, <2>4
<1>12. BilledOnce
  <2>1. Message(deltas).usage = LastUsage(deltas).usage
    BY DEF Message
  <2>2. phase = "done" /\ ~replayed => Message(deltas).usage = deltas[n].usage
    BY <1>1, <1>7, <2>1 DEF UsageGiven
  <2> QED
    BY <1>1, <2>2 DEF BilledOnce, RecordGiven
<1> QED
  BY <1>6, <1>11, <1>12 DEF StreamSound

\* A streamed answer of Gemini is sound for any parts and usages of its chunks,
\* any number of chunks and of endpoints: calls are numbered one after the other
\* also when another endpoint goes on, the last finish reason is that of the
\* whole answer, and of one endpoint the tokens recorded are the last usage.
THEOREM StreamStaysSound == StreamSpec => []StreamSound
<1>1. StreamInv => StreamSound
  BY StreamInvSuffices
<1> QED
  BY StreamInit_Inv, StreamInv_Step, <1>1, PTL DEF StreamSpec
=============================================================================
