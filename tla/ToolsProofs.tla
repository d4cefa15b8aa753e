----------------------------- MODULE ToolsProofs -----------------------------
(***************************************************************************)
(* Proofs about the programs around the proxy, for any keys, values, remotes *)
(* and accounts, however often each tool is opened.                          *)
(* The tools that share .env and the environment of one process agree on     *)
(* what the file holds, and no save loses a key; the quota viewer shows       *)
(* statistics of a remote it knows; a login has one credential file and       *)
(* never takes that of another.                                              *)
(***************************************************************************)
EXTENDS EnvTools, QuotaViewer, CredentialFiles, SequenceTheorems, WellFoundedInduction,
        TLAPS

-----------------------------------------------------------------------------
(* Positions and numbers.                                                    *)

\* A set of natural numbers has a least member.
LEMMA LeastMember ==
  ASSUME NEW T \in SUBSET Nat, T # {}
  PROVE  \E m \in T : \A n \in T : m <= n
<1> DEFINE R == OpToRel(<, Nat)
<1>1. IsWellFoundedOn(R, Nat)
  BY NatLessThanWellFounded
<1>2. \A x, y \in Nat : <<y, x>> \in R <=> y < x
  BY DEF OpToRel
<1> HIDE DEF R
<1>3. PICK x \in T : \A y \in T : ~ (<<y, x>> \in R)
  BY <1>1, WFMin
<1>4. ASSUME NEW y \in T PROVE x <= y
  <2>1. x \in Nat /\ y \in Nat /\ ~(y < x)
    BY <1>2, <1>3
  <2> QED
    BY <2>1
<1> QED
  BY <1>4

\* A bounded one has a greatest, which is what Max picks.
LEMMA MaxIsGreatest ==
  ASSUME NEW n \in Nat, NEW T \in SUBSET (0..n), T # {}
  PROVE  Max(T) \in T /\ \A k \in T : k <= Max(T)
<1> DEFINE U == {n - k : k \in T}
<1>1. U \in SUBSET Nat /\ U # {}
  <2>1. \A k \in T : n - k \in Nat
    OBVIOUS
  <2> QED
    BY <2>1
<1> HIDE DEF U
<1>2. PICK m \in U : \A k \in U : m <= k
  BY <1>1, LeastMember
<1>3. PICK l \in T : m = n - l
  BY DEF U
<1>4. ASSUME NEW k \in T PROVE l >= k
  <2>1. n - k \in U
    BY DEF U
  <2>2. m <= n - k
    BY <1>2, <2>1
  <2> QED
    BY <1>3, <2>2
<1> DEFINE top == CHOOSE x \in T : \A y \in T : x >= y
<1>5. top \in T /\ \A y \in T : top >= y
  BY <1>4
<1>6. Max(T) = top
  BY DEF Max
<1> HIDE DEF top
<1> QED
  BY <1>5, <1>6

-----------------------------------------------------------------------------
(* Credential files.                                                         *)

Credentials == [owner : Owners, email : Owners]

FilesTyped == creds \in [FileNumbers -> Credentials \cup {NoFile, Unreadable}]

\* Where label and account of a file differ, somebody typed the label.
LabelsExplained ==
  \A n \in Readable :
    creds[n].email # creds[n].owner => {creds[n].email, creds[n].owner} \subseteq byHand

FilesInv == FilesTyped /\ LabelsExplained /\ OneFileAnOwner

\* A number that is not given yet is that of no file, readable or not.
LEMMA NextNumberIsFree ==
  ASSUME FilesTyped
  PROVE  \A n \in FileNumbers : n = NextNumber => creds[n] = NoFile
<1> DEFINE T == {0} \cup {n \in FileNumbers : creds[n] # NoFile}
<1>1. T \in SUBSET (0..MaxNumber) /\ T # {} /\ MaxNumber \in Nat
  BY FileConstants DEF FileNumbers
<1>2. NextNumber = Max(T) + 1
  BY DEF NextNumber
<1>3. \A n \in FileNumbers : creds[n] # NoFile => n \in T
  OBVIOUS
<1> HIDE DEF T
<1>4. Max(T) \in T /\ \A k \in T : k <= Max(T)
  BY <1>1, MaxIsGreatest
<1>5. ASSUME NEW n \in FileNumbers, n = NextNumber, creds[n] # NoFile PROVE FALSE
  <2>1. n \in T
    BY <1>3, <1>5
  <2>2. n <= Max(T) /\ Max(T) \in 0..MaxNumber
    BY <1>1, <1>4, <2>1
  <2> QED
    BY <1>2, <1>5, <2>2
<1> QED
  BY <1>5

\* What a file holds when it can be read.
LEMMA ReadableFiles ==
  ASSUME FilesTyped
  PROVE  \A n \in FileNumbers : n \in Readable <=> creds[n] \in Credentials
<1>1. {NoFile, Unreadable} \cap Credentials = {}
  BY FileConstants DEF Credentials
<1> QED
  BY <1>1 DEF FilesTyped, Readable

\* A login: the file with the account's label, or a number that is free.
LEMMA SetUpKeeps ==
  ASSUME FilesInv, NEW o \in Owners, SetUp(o)
  PROVE  FilesInv' /\ FilesKept
<1> DEFINE new == [owner |-> o, email |-> o]
<1> USE DEF FilesInv
<1>1. new \in Credentials
  BY DEF Credentials
<1>2. new.owner = o /\ new.email = o
  OBVIOUS
<1> HIDE DEF new
<1>3. PICK n \in IF Labelled(o) # {} THEN Labelled(o) ELSE {NextNumber} :
        n \in FileNumbers /\ creds' = [creds EXCEPT ![n] = new]
  BY DEF SetUp, new
<1>4. byHand' = byHand
  BY DEF SetUp
<1>5. FilesTyped'
  BY <1>1, <1>3 DEF FilesTyped
<1>6. /\ creds'[n] = new
      /\ \A m \in FileNumbers : m # n => creds'[m] = creds[m]
  BY <1>3 DEF FilesTyped
<1>7. \A m \in FileNumbers : m \in Readable <=> creds[m] \in Credentials
  BY ReadableFiles
<1>8. \A m \in FileNumbers : m \in Readable' <=> creds'[m] \in Credentials
  <2>1. {NoFile, Unreadable} \cap Credentials = {}
    BY FileConstants DEF Credentials
  <2> QED
    BY <2>1, <1>5 DEF FilesTyped, Readable
<1>9. Readable \subseteq FileNumbers /\ Readable' \subseteq FileNumbers
  BY DEF Readable
<1>10. \A m \in Readable' : m # n => m \in Readable /\ creds'[m] = creds[m]
  BY <1>6, <1>7, <1>8, <1>9
<1>11. LabelsExplained'
  <2> SUFFICES ASSUME NEW m \in Readable', creds'[m].email # creds'[m].owner
               PROVE  {creds'[m].email, creds'[m].owner} \subseteq byHand'
    BY DEF LabelsExplained
  <2>1. m # n
    BY <1>2, <1>6
  <2> QED
    BY <1>4, <1>10, <2>1 DEF LabelsExplained
\* Another file of the account that logs in is labelled otherwise by hand.
<1>12. ASSUME NEW m \in Readable, m # n, creds[m].owner = o PROVE o \in byHand
  <2>1. CASE creds[m].email # o
    BY <1>12, <2>1 DEF LabelsExplained
  <2>2. CASE creds[m].email = o
    <3>1. m \in Labelled(o) /\ n \in Labelled(o)
      BY <1>3, <1>12, <2>2 DEF Labelled
    <3>2. n \in Readable /\ creds[n].email = o
      BY <3>1 DEF Labelled
    <3>3. CASE creds[n].owner = o
      BY <1>12, <3>2, <3>3 DEF OneFileAnOwner
    <3>4. CASE creds[n].owner # o
      BY <3>2, <3>4 DEF LabelsExplained
    <3> QED
      BY <3>3, <3>4
  <2> QED
    BY <2>1, <2>2
<1>13. OneFileAnOwner'
  <2> SUFFICES ASSUME NEW k \in Readable', NEW m \in Readable', k # m,
                      creds'[k].owner = creds'[m].owner
               PROVE  creds'[k].owner \in byHand'
    BY DEF OneFileAnOwner
  <2>1. CASE k = n
    BY <1>2, <1>4, <1>6, <1>10, <1>12, <2>1
  <2>2. CASE m = n
    BY <1>2, <1>4, <1>6, <1>10, <1>12, <2>2
  <2>3. CASE k # n /\ m # n
    BY <1>4, <1>10, <2>3 DEF OneFileAnOwner
  <2> QED
    BY <2>1, <2>2, <2>3
<1>14. FilesKept
  <2> SUFFICES ASSUME NEW m \in FileNumbers,
                      creds[m] = Unreadable
                        \/ (m \in Readable /\ creds[m].email \notin byHand')
               PROVE  \/ creds'[m] \in {NoFile, creds[m]}
                      \/ m \in Readable /\ creds'[m].owner = creds[m].owner
    BY DEF FilesKept
  <2>1. CASE m # n
    BY <1>6, <2>1
  <2>2. CASE m = n /\ Labelled(o) = {}
    <3>1. creds[m] = NoFile
      BY <1>3, <2>2, NextNumberIsFree
    <3>2. m \notin Readable /\ creds[m] # Unreadable
      BY <3>1, FileConstants DEF Readable
    <3> QED
      BY <3>2
  <2>3. CASE m = n /\ Labelled(o) # {}
    <3>1. m \in Readable /\ creds[m].email = o
      BY <1>3, <2>3 DEF Labelled
    <3>2. creds[m] # Unreadable
      BY <3>1 DEF Readable
    <3>3. creds[m].owner = o
      BY <1>4, <3>1, <3>2 DEF LabelsExplained
    <3> QED
      BY <1>2, <1>6, <2>3, <3>1, <3>3
  <2> QED
    BY <2>1, <2>2, <2>3
<1> QED
  BY <1>5, <1>11, <1>13, <1>14

\* The owner stays when a label is edited; both labels count as typed.
LEMMA RelabelKeeps ==
  ASSUME FilesInv, NEW n \in FileNumbers, NEW e \in Owners, Relabel(n, e)
  PROVE  FilesInv' /\ FilesKept
<1> USE DEF FilesInv
<1>1. n \in Readable /\ byHand' = byHand \cup {e, creds[n].email}
  BY DEF Relabel
<1>2. \A m \in FileNumbers : m \in Readable <=> creds[m] \in Credentials
  BY ReadableFiles
<1> DEFINE new == [creds[n] EXCEPT !.email = e]
<1>3. /\ new \in Credentials
      /\ new.owner = creds[n].owner /\ new.email = e
  BY <1>1, <1>2 DEF Credentials
<1>4. \/ creds' = [creds EXCEPT ![n] = new]
      \/ creds' = [creds EXCEPT ![n] = Unreadable]
  BY DEF Relabel
<1> HIDE DEF new
<1>5. FilesTyped'
  BY <1>3, <1>4 DEF FilesTyped
<1>6. /\ creds'[n] \in {new, Unreadable}
      /\ \A m \in FileNumbers : m # n => creds'[m] = creds[m]
  BY <1>4 DEF FilesTyped
<1>7. {NoFile, Unreadable} \cap Credentials = {}
  BY FileConstants DEF Credentials
<1>8. Readable' = {m \in FileNumbers : creds'[m] \in Credentials}
  BY <1>5, <1>7 DEF FilesTyped, Readable
<1>9. ASSUME NEW m \in Readable' 
      PROVE  m \in Readable /\ creds'[m].owner = creds[m].owner
  BY <1>1, <1>2, <1>3, <1>6, <1>7, <1>8
\* What the file is labelled before has its account among what was typed.
<1>10. creds[n].owner \in byHand'
  BY <1>1 DEF LabelsExplained
<1>11. LabelsExplained'
  <2> SUFFICES ASSUME NEW m \in Readable', creds'[m].email # creds'[m].owner
               PROVE  {creds'[m].email, creds'[m].owner} \subseteq byHand'
    BY DEF LabelsExplained
  <2>1. CASE m # n
    BY <1>1, <1>6, <1>8, <1>9, <2>1 DEF LabelsExplained
  <2>2. CASE m = n
    <3>1. creds'[n] = new
      BY <1>6, <1>7, <1>8, <2>2
    <3> QED
      BY <1>1, <1>3, <1>10, <2>2, <3>1
  <2> QED
    BY <2>1, <2>2
<1>12. OneFileAnOwner'
  BY <1>1, <1>9 DEF OneFileAnOwner
<1>13. FilesKept
  <2> SUFFICES ASSUME NEW m \in FileNumbers,
                      creds[m] = Unreadable
                        \/ (m \in Readable /\ creds[m].email \notin byHand')
               PROVE  creds'[m] \in {NoFile, creds[m]}
    BY DEF FilesKept
  <2>1. m # n
    BY <1>1 DEF Readable
  <2> QED
    BY <1>6, <2>1
<1> QED
  BY <1>5, <1>11, <1>12, <1>13

LEMMA DeleteKeeps ==
  ASSUME FilesInv, NEW n \in FileNumbers, Delete(n)
  PROVE  FilesInv' /\ FilesKept
<1> USE DEF FilesInv
<1>1. n \in Readable /\ creds' = [creds EXCEPT ![n] = NoFile] /\ byHand' = byHand
  BY DEF Delete
<1>2. FilesTyped'
  BY <1>1 DEF FilesTyped
<1>3. /\ creds'[n] = NoFile
      /\ \A m \in FileNumbers : m # n => creds'[m] = creds[m]
  BY <1>1 DEF FilesTyped
<1>4. \A m \in Readable' : m \in Readable /\ creds'[m] = creds[m]
  BY <1>3 DEF Readable
<1>5. LabelsExplained'
  BY <1>1, <1>4 DEF LabelsExplained
<1>6. OneFileAnOwner'
  BY <1>1, <1>4 DEF OneFileAnOwner
<1>7. FilesKept
  BY <1>3 DEF FilesKept
<1> QED
  BY <1>2, <1>5, <1>6, <1>7

\* Credential files are one for each owner, unless a label was typed, and no
\* login takes the file of another account, however often accounts log in and
\* files are relabelled, deleted or lost.
THEOREM FilesStaySound == FilesSpec => FilesSound
<1>1. FilesInit => FilesInv
  BY FileConstants DEF FilesInit, FilesInv, FilesTyped, LabelsExplained,
     OneFileAnOwner, Readable
<1>2. FilesInv /\ [FilesNext]_fileVars => FilesInv' /\ [FilesKept]_fileVars
  <2> SUFFICES ASSUME FilesInv, [FilesNext]_fileVars
               PROVE  FilesInv' /\ [FilesKept]_fileVars
    OBVIOUS
  <2>1. ASSUME NEW o \in Owners, SetUp(o) PROVE FilesInv' /\ FilesKept
    BY <2>1, SetUpKeeps
  <2>2. ASSUME NEW n \in FileNumbers, Delete(n) PROVE FilesInv' /\ FilesKept
    BY <2>2, DeleteKeeps
  <2>3. ASSUME NEW n \in FileNumbers, NEW e \in Owners, Relabel(n, e)
        PROVE  FilesInv' /\ FilesKept
    BY <2>3, RelabelKeeps
  <2>4. CASE UNCHANGED fileVars
    BY <2>4 DEF FilesInv, FilesTyped, LabelsExplained, OneFileAnOwner, Readable, fileVars
  <2> QED
    BY <2>1, <2>2, <2>3, <2>4 DEF FilesNext
<1>3. FilesInv => OneFileAnOwner
  BY DEF FilesInv
<1> QED
  BY <1>1, <1>2, <1>3, PTL DEF FilesSpec, FilesSound

-----------------------------------------------------------------------------
(* The quota viewer.                                                         *)

Remote == [name : RemoteNames, host : Hosts, default : BOOLEAN]

\* A list of remotes as the file holds it: one of them at least, no two of one
\* name, at most one default.
ListSound(rs) ==
  /\ rs \in Seq(Remote) /\ rs # <<>>
  /\ \A i, j \in DOMAIN rs :
       i # j => rs[i].name # rs[j].name /\ ~(rs[i].default /\ rs[j].default)

\* Statistics are of one proxy, and their total is the sum of what they show.
StatsSound ==
  stats # NoView =>
    /\ Viewing
    /\ stats = [of |-> stats.of, counts |-> stats.counts, total |-> stats.total]
    /\ stats.total = Sum(stats.counts)
    /\ edited \/ stats.of = Here

ViewInv ==
  /\ ListSound(kept.remotes) /\ kept.last \in NamesOf(kept.remotes)
  /\ Viewing => ListSound(remotes) /\ {looking, lastUsed} \subseteq NamesOf(remotes)
  /\ ~Viewing => remotes = <<>>
  /\ StatsSound

LEMMA NamesAreNames ==
  ASSUME NEW rs \in Seq(Remote)
  PROVE  NamesOf(rs) \subseteq RemoteNames
<1>1. \A i \in DOMAIN rs : rs[i] \in Remote
  OBVIOUS
<1> QED
  BY <1>1 DEF NamesOf, Remote

\* Names being unique, a remote is found by its name.
LEMMA HostIs ==
  ASSUME NEW rs, ListSound(rs), NEW i \in DOMAIN rs
  PROVE  HostOf(rs, rs[i].name) = rs[i].host
<1> DEFINE c == CHOOSE k \in DOMAIN rs : rs[k].name = rs[i].name
<1>1. c \in DOMAIN rs /\ rs[c].name = rs[i].name
  OBVIOUS
<1>2. HostOf(rs, rs[i].name) = rs[c].host
  BY DEF HostOf
<1> HIDE DEF c
<1>3. c = i
  BY <1>1 DEF ListSound
<1> QED
  BY <1>2, <1>3

\* A default, or the first: the viewer always has a remote to look at.
LEMMA DefaultIsKnown ==
  ASSUME NEW rs, ListSound(rs)
  PROVE  DefaultOf(rs) \in NamesOf(rs)
<1> DEFINE ds == {i \in DOMAIN rs : rs[i].default}
           i == IF ds = {} THEN 1 ELSE Min(ds)
<1>1. rs \in Seq(Remote) /\ Len(rs) \in Nat /\ Len(rs) # 0 /\ DOMAIN rs = 1..Len(rs)
  BY DEF ListSound
<1>2. CASE ds = {}
  <2>1. i = 1 /\ 1 \in DOMAIN rs
    BY <1>1, <1>2
  <2> QED
    BY <2>1 DEF DefaultOf, NamesOf
<1>3. CASE ds # {}
  <2>1. PICK d \in ds : TRUE
    BY <1>3
  <2>2. \A e \in ds : e = d
    BY <2>1 DEF ListSound
  <2>3. d <= d
    BY <1>1, <2>1
  <2>4. \E x \in ds : \A y \in ds : x <= y
    BY <2>1, <2>2, <2>3
  <2>5. Min(ds) \in ds
    BY <2>4 DEF Min
  <2>6. i \in DOMAIN rs /\ DefaultOf(rs) = rs[i].name
    BY <1>3, <2>5 DEF DefaultOf
  <2> HIDE DEF i
  <2> QED
    BY <2>6 DEF NamesOf
<1> QED
  BY <1>2, <1>3

LEMMA LastIsKnown ==
  ASSUME NEW rs, ListSound(rs), NEW last
  PROVE  LastOf(rs, last) \in NamesOf(rs)
BY DefaultIsKnown DEF LastOf

\* A list changed element by element stays a list; what it has to keep is that
\* names differ and defaults are not two.
LEMMA ChangedList ==
  ASSUME NEW rs \in Seq(Remote), rs # <<>>, NEW c \in [DOMAIN rs -> Remote],
         \A i, j \in DOMAIN rs :
           i # j => c[i].name # c[j].name /\ ~(c[i].default /\ c[j].default)
  PROVE  ListSound(c)
<1>1. Len(rs) \in Nat /\ Len(rs) # 0 /\ DOMAIN rs = 1..Len(rs)
  OBVIOUS
<1>2. c \in [1..Len(rs) -> Remote]
  BY <1>1
<1>3. c \in Seq(Remote) /\ Len(c) = Len(rs)
  BY <1>1, <1>2, SeqDef
<1>4. c # <<>> /\ DOMAIN c = DOMAIN rs
  BY <1>1, <1>3
<1> QED
  BY <1>3, <1>4 DEF ListSound

\* Records of remotes, field by field.
LEMMA HostField ==
  ASSUME NEW r \in Remote, NEW h \in Hosts
  PROVE  /\ [r EXCEPT !.host = h] \in Remote
         /\ [r EXCEPT !.host = h].name = r.name
         /\ [r EXCEPT !.host = h].host = h
         /\ [r EXCEPT !.host = h].default = r.default
BY DEF Remote

LEMMA NameField ==
  ASSUME NEW r \in Remote, NEW m \in RemoteNames
  PROVE  /\ [r EXCEPT !.name = m] \in Remote
         /\ [r EXCEPT !.name = m].name = m
         /\ [r EXCEPT !.name = m].host = r.host
         /\ [r EXCEPT !.name = m].default = r.default
BY DEF Remote

LEMMA DefaultField ==
  ASSUME NEW r \in Remote, NEW d \in BOOLEAN
  PROVE  /\ [r EXCEPT !.default = d] \in Remote
         /\ [r EXCEPT !.default = d].name = r.name
         /\ [r EXCEPT !.default = d].host = r.host
         /\ [r EXCEPT !.default = d].default = d
BY DEF Remote

\* A remote added under a name that is free.
LEMMA AddedList ==
  ASSUME NEW rs, ListSound(rs), NEW r \in Remote, r.name \notin NamesOf(rs),
         r.default => \A i \in DOMAIN rs : ~rs[i].default
  PROVE  /\ ListSound(Append(rs, r))
         /\ NamesOf(rs) \subseteq NamesOf(Append(rs, r))
         /\ \A n \in NamesOf(rs) : HostOf(Append(rs, r), n) = HostOf(rs, n)
<1> DEFINE c == Append(rs, r)
<1>1. rs \in Seq(Remote) /\ Len(rs) \in Nat /\ DOMAIN rs = 1..Len(rs)
  BY DEF ListSound
<1>2. /\ c \in Seq(Remote) /\ Len(c) = Len(rs) + 1 /\ c[Len(rs) + 1] = r
      /\ \A i \in 1..Len(rs) : c[i] = rs[i]
  BY <1>1
<1> HIDE DEF c
<1>3. DOMAIN c = 1..(Len(rs) + 1) /\ c # <<>>
  BY <1>1, <1>2
<1>4. \A i \in DOMAIN c : (i \in DOMAIN rs /\ c[i] = rs[i]) \/ (i = Len(rs) + 1 /\ c[i] = r)
  BY <1>1, <1>2, <1>3
<1>5. \A i \in DOMAIN rs : rs[i].name # r.name
  BY DEF NamesOf
<1>6. ASSUME NEW i \in DOMAIN c, NEW j \in DOMAIN c, i # j
      PROVE  c[i].name # c[j].name /\ ~(c[i].default /\ c[j].default)
  <2>1. CASE i \in DOMAIN rs /\ j \in DOMAIN rs /\ c[i] = rs[i] /\ c[j] = rs[j]
    BY <1>6, <2>1 DEF ListSound
  <2>2. CASE i \in DOMAIN rs /\ c[i] = rs[i] /\ c[j] = r
    BY <1>5, <2>2
  <2>3. CASE j \in DOMAIN rs /\ c[j] = rs[j] /\ c[i] = r
    BY <1>5, <2>3
  <2> QED
    BY <1>4, <1>6, <2>1, <2>2, <2>3
<1>7. ListSound(c)
  BY <1>2, <1>3, <1>6 DEF ListSound
<1>8. ASSUME NEW n \in NamesOf(rs)
      PROVE  n \in NamesOf(c) /\ HostOf(c, n) = HostOf(rs, n)
  <2>1. PICK i \in DOMAIN rs : rs[i].name = n
    BY <1>8 DEF NamesOf
  <2>2. i \in DOMAIN c /\ c[i] = rs[i]
    BY <1>1, <1>2, <1>3
  <2>3. HostOf(c, c[i].name) = c[i].host
    BY <1>7, <2>2, HostIs
  <2>4. HostOf(rs, rs[i].name) = rs[i].host
    BY HostIs
  <2> QED
    BY <2>1, <2>2, <2>3, <2>4 DEF NamesOf
<1> QED
  BY <1>7, <1>8 DEF c

\* Hosts moved and defaults set, names as they were.
LEMMA RewrittenList ==
  ASSUME NEW rs, ListSound(rs), NEW c \in [DOMAIN rs -> Remote],
         \A i \in DOMAIN rs : c[i].name = rs[i].name,
         \A i, j \in DOMAIN rs : i # j => ~(c[i].default /\ c[j].default)
  PROVE  ListSound(c) /\ NamesOf(c) = NamesOf(rs)
<1>1. rs \in Seq(Remote) /\ rs # <<>>
      /\ \A i, j \in DOMAIN rs : i # j => rs[i].name # rs[j].name
  BY DEF ListSound
<1>2. \A i, j \in DOMAIN rs :
        i # j => c[i].name # c[j].name /\ ~(c[i].default /\ c[j].default)
  BY <1>1
<1>3. ListSound(c)
  BY <1>1, <1>2, ChangedList
<1>4. DOMAIN c = DOMAIN rs
  OBVIOUS
<1>5. NamesOf(c) = NamesOf(rs)
  BY <1>4 DEF NamesOf
<1> QED
  BY <1>3, <1>5

LEMMA UndefaultedList ==
  ASSUME NEW rs, ListSound(rs)
  PROVE  /\ ListSound(Undefaulted(rs)) /\ NamesOf(Undefaulted(rs)) = NamesOf(rs)
         /\ \A i \in DOMAIN Undefaulted(rs) : ~Undefaulted(rs)[i].default
<1> DEFINE c == Undefaulted(rs)
<1>1. \A i \in DOMAIN rs : rs[i] \in Remote
  BY DEF ListSound
<1>2. DOMAIN c = DOMAIN rs /\ \A i \in DOMAIN rs : c[i] = [rs[i] EXCEPT !.default = FALSE]
  BY DEF Undefaulted
<1>3. c = [i \in DOMAIN rs |-> c[i]]
  BY DEF Undefaulted
<1> HIDE DEF c
<1>4. ASSUME NEW i \in DOMAIN rs
      PROVE  c[i] \in Remote /\ c[i].name = rs[i].name /\ ~c[i].default
  <2>1. rs[i] \in Remote /\ c[i] = [rs[i] EXCEPT !.default = FALSE]
    BY <1>1, <1>2
  <2>2. c[i] \in Remote
    BY <2>1, DefaultField
  <2>3. c[i].name = rs[i].name
    BY <2>1 DEF Remote
  <2>4. ~c[i].default
    BY <2>1 DEF Remote
  <2> QED
    BY <2>2, <2>3, <2>4
<1>5. c \in [DOMAIN rs -> Remote]
  BY <1>3, <1>4
<1>6. ListSound(c) /\ NamesOf(c) = NamesOf(rs)
  BY <1>4, <1>5, RewrittenList
<1> QED
  BY <1>2, <1>4, <1>6 DEF c

\* The address of the launcher's proxy goes under its name, old or new.
LEMMA SyncedList ==
  ASSUME NEW rs, ListSound(rs), NEW h \in Hosts
  PROVE  ListSound(Synced(rs, h)) /\ NamesOf(rs) \subseteq NamesOf(Synced(rs, h))
<1>1. \A i \in DOMAIN rs : rs[i] \in Remote
  BY DEF ListSound
<1>2. CASE Local \in NamesOf(rs)
  <2> DEFINE c == [i \in DOMAIN rs |->
                     IF rs[i].name = Local THEN [rs[i] EXCEPT !.host = h] ELSE rs[i]]
  <2>1. \A i \in DOMAIN rs : c[i] \in Remote /\ c[i].name = rs[i].name
                               /\ c[i].default = rs[i].default
    BY <1>1, HostField
  <2>2. c \in [DOMAIN rs -> Remote]
    BY <2>1
  <2>3. Synced(rs, h) = c
    BY <1>2 DEF Synced
  <2> HIDE DEF c
  <2>4. \A i, j \in DOMAIN rs : i # j => ~(c[i].default /\ c[j].default)
    BY <2>1 DEF ListSound
  <2>5. ListSound(c) /\ NamesOf(c) = NamesOf(rs)
    BY <2>1, <2>2, <2>4, RewrittenList
  <2> QED
    BY <2>3, <2>5
<1>3. CASE Local \notin NamesOf(rs)
  <2> DEFINE c == Undefaulted(rs)
             r == [name |-> Local, host |-> h, default |-> TRUE]
  <2>1. ListSound(c) /\ NamesOf(c) = NamesOf(rs) /\ \A i \in DOMAIN c : ~c[i].default
    BY UndefaultedList
  <2>2. r \in Remote /\ r.name = Local
    BY ViewConstants DEF Remote
  <2>3. Synced(rs, h) = Append(c, r)
    BY <1>3 DEF Synced
  <2> HIDE DEF c, r
  <2>4. ListSound(Append(c, r)) /\ NamesOf(c) \subseteq NamesOf(Append(c, r))
    BY <1>3, <2>1, <2>2, AddedList
  <2> QED
    BY <2>1, <2>3, <2>4
<1> QED
  BY <1>2, <1>3

\* One remote given up, others left.
LEMMA ShortenedList ==
  ASSUME NEW rs, ListSound(rs), Len(rs) > 1, NEW k \in DOMAIN rs
  PROVE  LET c == RemoveAt(rs, k)
         IN /\ ListSound(c) /\ c[1].name \in NamesOf(c)
            /\ NamesOf(c) = NamesOf(rs) \ {rs[k].name}
            /\ \A n \in NamesOf(c) : HostOf(c, n) = HostOf(rs, n)
<1> DEFINE a == SubSeq(rs, 1, k - 1)
           b == SubSeq(rs, k + 1, Len(rs))
           c == RemoveAt(rs, k)
<1>1. rs \in Seq(Remote) /\ Len(rs) \in Nat /\ k \in 1..Len(rs) /\ DOMAIN rs = 1..Len(rs)
  BY DEF ListSound
<1>2. /\ a \in Seq(Remote) /\ Len(a) = k - 1
      /\ \A i \in 1..Len(a) : a[i] = rs[i]
  BY <1>1
<1>3. /\ b \in Seq(Remote) /\ Len(b) = Len(rs) - k
      /\ \A i \in 1..Len(b) : b[i] = rs[k + i]
  BY <1>1
<1>4. c = a \o b
  BY DEF RemoveAt
<1> HIDE DEF a, b, c
<1>5. /\ c \in Seq(Remote) /\ Len(c) = Len(rs) - 1
      /\ \A i \in 1..Len(c) : c[i] = IF i <= Len(a) THEN a[i] ELSE b[i - Len(a)]
  <2>1. a \in Seq(Remote) /\ b \in Seq(Remote) /\ Len(a) \in Nat /\ Len(b) \in Nat
        /\ Len(a) + Len(b) = Len(rs) - 1
    BY <1>1, <1>2, <1>3
  <2>2. /\ a \o b \in Seq(Remote) /\ Len(a \o b) = Len(a) + Len(b)
        /\ \A i \in 1..Len(a) + Len(b) :
             (a \o b)[i] = IF i <= Len(a) THEN a[i] ELSE b[i - Len(a)]
    BY <2>1, ConcatProperties
  <2> QED
    BY <1>4, <2>1, <2>2
<1>6. DOMAIN c = 1..(Len(rs) - 1) /\ Len(c) # 0
  BY <1>1, <1>5
<1> DEFINE from(i) == IF i < k THEN i ELSE i + 1
<1>7. ASSUME NEW i \in DOMAIN c PROVE c[i] = rs[from(i)]
  <2>1. CASE i < k
    BY <1>1, <1>2, <1>5, <1>6, <2>1
  <2>2. CASE i >= k
    <3>1. i - Len(a) \in 1..Len(b) /\ k + (i - Len(a)) = i + 1
      BY <1>1, <1>2, <1>3, <1>6, <2>2
    <3>2. b[i - Len(a)] = rs[i + 1]
      BY <1>3, <3>1
    <3> QED
      BY <1>1, <1>2, <1>5, <1>6, <2>2, <3>2
  <2> QED
    BY <1>1, <1>6, <2>1, <2>2
<1>8. \A i \in DOMAIN c : from(i) \in DOMAIN rs /\ from(i) # k
  BY <1>1, <1>6
<1>9. \A i, j \in DOMAIN c : i # j => from(i) # from(j)
  BY <1>1, <1>6
<1>10. \A j \in DOMAIN rs : j # k => \E i \in DOMAIN c : from(i) = j
  <2> SUFFICES ASSUME NEW j \in DOMAIN rs, j # k PROVE \E i \in DOMAIN c : from(i) = j
    OBVIOUS
  <2>1. CASE j < k
    BY <1>1, <1>6, <2>1
  <2>2. CASE j > k
    <3>1. j - 1 \in DOMAIN c /\ from(j - 1) = j
      BY <1>1, <1>6, <2>2
    <3> QED
      BY <3>1
  <2> QED
    BY <1>1, <2>1, <2>2
<1> HIDE DEF from
<1>11. ListSound(c)
  <2>1. \A i, j \in DOMAIN c :
          i # j => c[i].name # c[j].name /\ ~(c[i].default /\ c[j].default)
    BY <1>7, <1>8, <1>9 DEF ListSound
  <2>2. c # <<>>
    BY <1>5, <1>6
  <2> QED
    BY <1>5, <2>1, <2>2 DEF ListSound
<1>12. NamesOf(c) = NamesOf(rs) \ {rs[k].name}
  <2>1. ASSUME NEW i \in DOMAIN c PROVE c[i].name \in NamesOf(rs) \ {rs[k].name}
    BY <1>7, <1>8 DEF ListSound, NamesOf
  <2>2. ASSUME NEW j \in DOMAIN rs, rs[j].name # rs[k].name PROVE rs[j].name \in NamesOf(c)
    <3>1. PICK i \in DOMAIN c : from(i) = j
      BY <1>10, <2>2
    <3> QED
      BY <1>7, <3>1 DEF NamesOf
  <2> QED
    BY <2>1, <2>2 DEF NamesOf
<1>13. ASSUME NEW n \in NamesOf(c) PROVE HostOf(c, n) = HostOf(rs, n)
  <2>1. PICK i \in DOMAIN c : c[i].name = n
    BY DEF NamesOf
  <2>2. HostOf(c, c[i].name) = c[i].host
    BY <1>11, HostIs
  <2>3. HostOf(rs, rs[from(i)].name) = rs[from(i)].host
    BY <1>8, HostIs
  <2> QED
    BY <1>7, <2>1, <2>2, <2>3
<1>14. c[1].name \in NamesOf(c)
  BY <1>1, <1>6 DEF NamesOf
<1> QED
  BY <1>11, <1>12, <1>13, <1>14 DEF c

\* What a change of the configuration owes: the list it leaves is one, and holds
\* what is looked at and what was used last; whether or not it was written.
ConfigInv ==
  /\ ListSound(kept.remotes) /\ kept.last \in NamesOf(kept.remotes)
  /\ Viewing => ListSound(remotes) /\ {looking, lastUsed} \subseteq NamesOf(remotes)
  /\ ~Viewing => remotes = <<>>

LEMMA SaveConfigKeeps ==
  ASSUME ConfigInv, SaveConfig, ListSound(remotes'),
         looking' \in NamesOf(remotes'), lastUsed' \in NamesOf(remotes')
  PROVE  ConfigInv' /\ Viewing'
<1>1. NamesOf(remotes') \subseteq RemoteNames
  BY NamesAreNames DEF ListSound
<1>2. looking' # NoView
  BY <1>1, ViewConstants
<1>3. \/ kept' = kept
      \/ kept'.remotes = remotes' /\ kept'.last = lastUsed'
  BY DEF SaveConfig
<1>4. ListSound(kept'.remotes) /\ kept'.last \in NamesOf(kept'.remotes)
  BY <1>3 DEF ConfigInv
<1> QED
  BY <1>2, <1>4 DEF ConfigInv, Viewing

\* Statistics that are kept stay those of the remote looked at, as long as that
\* one has the same host.
LEMMA StatsStay ==
  ASSUME StatsSound, UNCHANGED <<stats, edited>>, Viewing', Here' = Here
  PROVE  StatsSound'
BY DEF StatsSound

LEMMA AnswerSound ==
  ASSUME NEW h, NEW ps
  PROVE  LET s == Answer(h, ps)
         IN /\ s = [of |-> s.of, counts |-> s.counts, total |-> s.total]
            /\ s.of = h /\ s.total = Sum(s.counts)
BY DEF Answer

LEMMA OpenViewerKeeps ==
  ASSUME ViewInv, NEW h \in Hosts, OpenViewer(h)
  PROVE  ViewInv'
<1>1. ListSound(kept.remotes) /\ kept.last \in NamesOf(kept.remotes) /\ ConfigInv
  BY DEF ViewInv, ConfigInv
<1>2. /\ remotes' = Synced(kept.remotes, h) /\ lastUsed' = kept.last
      /\ SaveConfig /\ looking' = LastOf(remotes', lastUsed') /\ stats' = NoView
  BY DEF OpenViewer
<1>3. ListSound(remotes') /\ lastUsed' \in NamesOf(remotes')
  BY <1>1, <1>2, SyncedList
<1>4. looking' \in NamesOf(remotes')
  BY <1>2, <1>3, LastIsKnown
<1>5. ConfigInv' /\ Viewing'
  BY <1>1, <1>2, <1>3, <1>4, SaveConfigKeeps
<1>6. StatsSound'
  BY <1>2 DEF StatsSound
<1> QED
  BY <1>5, <1>6 DEF ViewInv, ConfigInv

LEMMA CloseViewerKeeps ==
  ASSUME ViewInv, CloseViewer
  PROVE  ViewInv'
<1>1. looking' = NoView /\ stats' = NoView /\ remotes' = <<>> /\ kept' = kept
  BY DEF CloseViewer
<1> QED
  BY <1>1 DEF ViewInv, Viewing, StatsSound

\* An answer for the remote looked at takes the place of what was there.
LEMMA FetchedKeeps ==
  ASSUME ViewInv, NEW ps, NewStats(Answer(Here, ps))
  PROVE  ViewInv'
<1>1. /\ Viewing /\ stats' = Answer(Here, ps)
      /\ UNCHANGED <<remotes, lastUsed, kept, looking>>
  BY DEF NewStats
<1>2. Here' = Here /\ Viewing'
  BY <1>1 DEF Here, Viewing
<1>3. /\ stats' = [of |-> stats'.of, counts |-> stats'.counts, total |-> stats'.total]
      /\ stats'.of = Here /\ stats'.total = Sum(stats'.counts)
  BY <1>1, AnswerSound
<1>4. StatsSound'
  BY <1>2, <1>3 DEF StatsSound
<1> QED
  BY <1>1, <1>2, <1>4 DEF ViewInv

LEMMA RefreshProviderKeeps ==
  ASSUME ViewInv, NEW p \in ViewProviders, RefreshProvider(p)
  PROVE  ViewInv'
<1> DEFINE answer == Answer(Here, {p})
           counts == [q \in DOMAIN stats.counts \cup DOMAIN answer.counts |->
                        IF q = p /\ p \in DOMAIN answer.counts THEN answer.counts[p]
                        ELSE stats.counts[q]]
<1>1. /\ Viewing /\ stats # NoView /\ stats' = Merged(p, answer)
      /\ UNCHANGED <<remotes, lastUsed, kept, looking, edited>>
  BY DEF RefreshProvider, NewStats
<1>2. Here' = Here /\ Viewing'
  BY <1>1 DEF Here, Viewing
<1>3. stats' = [stats EXCEPT !.counts = counts, !.total = Sum(counts)]
  BY <1>1 DEF Merged
<1> HIDE DEF counts
<1>4. /\ stats = [of |-> stats.of, counts |-> stats.counts, total |-> stats.total]
      /\ edited \/ stats.of = Here
  BY <1>1 DEF ViewInv, StatsSound
<1>5. stats' = [of |-> stats.of, counts |-> counts, total |-> Sum(counts)]
  BY <1>3, <1>4
<1>6. StatsSound'
  BY <1>1, <1>2, <1>4, <1>5 DEF StatsSound
<1> QED
  BY <1>1, <1>2, <1>6 DEF ViewInv

LEMMA SwitchKeeps ==
  ASSUME ViewInv, NEW n \in RemoteNames, NEW reached \in BOOLEAN, Switch(n, reached)
  PROVE  ViewInv'
<1>1. /\ Viewing /\ n \in NamesOf(remotes) /\ looking' = n /\ lastUsed' = n
      /\ remotes' = remotes /\ SaveConfig
      /\ stats' = IF reached THEN Answer(HostOf(remotes, n), ViewProviders) ELSE NoView
  BY DEF Switch
<1>2. ConfigInv /\ ListSound(remotes)
  BY <1>1 DEF ViewInv, ConfigInv
<1>3. ConfigInv' /\ Viewing'
  BY <1>1, <1>2, SaveConfigKeeps
<1>4. Here' = HostOf(remotes, n)
  BY <1>1 DEF Here
<1>5. CASE reached
  <2>1. stats' = Answer(HostOf(remotes, n), ViewProviders)
    BY <1>1, <1>5
  <2>2. /\ stats' = [of |-> stats'.of, counts |-> stats'.counts, total |-> stats'.total]
        /\ stats'.of = HostOf(remotes, n) /\ stats'.total = Sum(stats'.counts)
    BY <2>1, AnswerSound
  <2>3. StatsSound'
    BY <1>3, <1>4, <2>2 DEF StatsSound
  <2> QED
    BY <1>3, <2>3 DEF ViewInv, ConfigInv
<1>6. CASE ~reached
  <2>1. stats' = NoView
    BY <1>1, <1>6
  <2> QED
    BY <1>3, <2>1 DEF ViewInv, ConfigInv, StatsSound
<1> QED
  BY <1>5, <1>6

LEMMA AddRemoteKeeps ==
  ASSUME ViewInv, NEW n \in RemoteNames, NEW h \in Hosts, AddRemote(n, h)
  PROVE  ViewInv'
<1> DEFINE r == [name |-> n, host |-> h, default |-> FALSE]
<1>1. /\ Viewing /\ n \notin NamesOf(remotes) /\ remotes' = Append(remotes, r)
      /\ lastUsed' = lastUsed /\ SaveConfig /\ UNCHANGED <<looking, stats, edited>>
  BY DEF AddRemote, Configure
<1>2. r \in Remote /\ r.name = n /\ ~r.default
  BY DEF Remote
<1> HIDE DEF r
<1>3. ConfigInv /\ ListSound(remotes) /\ {looking, lastUsed} \subseteq NamesOf(remotes)
  BY <1>1 DEF ViewInv, ConfigInv
<1>4. /\ ListSound(remotes') /\ NamesOf(remotes) \subseteq NamesOf(remotes')
      /\ \A m \in NamesOf(remotes) : HostOf(remotes', m) = HostOf(remotes, m)
  BY <1>1, <1>2, <1>3, AddedList
<1>5. ConfigInv' /\ Viewing'
  BY <1>1, <1>3, <1>4, SaveConfigKeeps
<1>6. Here' = Here
  BY <1>1, <1>3, <1>4 DEF Here
<1>7. StatsSound'
  BY <1>1, <1>5, <1>6, StatsStay DEF ViewInv
<1> QED
  BY <1>5, <1>7 DEF ViewInv, ConfigInv

LEMMA RenameRemoteKeeps ==
  ASSUME ViewInv, NEW n \in RemoteNames, NEW m \in RemoteNames, RenameRemote(n, m)
  PROVE  ViewInv'
<1> DEFINE c == [i \in DOMAIN remotes |->
                   IF remotes[i].name = n THEN [remotes[i] EXCEPT !.name = m]
                   ELSE remotes[i]]
           renamed(l) == IF l = n THEN m ELSE l
<1>1. /\ Viewing /\ n \in NamesOf(remotes) /\ m \notin NamesOf(remotes)
      /\ remotes' = c /\ lastUsed' = renamed(lastUsed) /\ looking' = renamed(looking)
      /\ SaveConfig /\ UNCHANGED <<stats, edited>>
  BY DEF RenameRemote, Configure
<1>2. ConfigInv /\ ListSound(remotes) /\ {looking, lastUsed} \subseteq NamesOf(remotes)
  BY <1>1 DEF ViewInv, ConfigInv
<1>3. \A i \in DOMAIN remotes : remotes[i] \in Remote /\ remotes[i].name # m
  BY <1>1, <1>2 DEF ListSound, NamesOf
<1>4. \A i \in DOMAIN remotes :
        /\ c[i] \in Remote /\ c[i].name = renamed(remotes[i].name)
        /\ c[i].host = remotes[i].host /\ (c[i].default <=> remotes[i].default)
  <2> SUFFICES ASSUME NEW i \in DOMAIN remotes
               PROVE  /\ c[i] \in Remote /\ c[i].name = renamed(remotes[i].name)
                      /\ c[i].host = remotes[i].host
                      /\ (c[i].default <=> remotes[i].default)
    OBVIOUS
  <2>1. CASE remotes[i].name = n
    BY <1>3, <2>1, NameField
  <2>2. CASE remotes[i].name # n
    BY <1>3, <2>2
  <2> QED
    BY <2>1, <2>2
<1>5. c \in [DOMAIN remotes -> Remote] /\ DOMAIN c = DOMAIN remotes
  BY <1>4
<1> HIDE DEF c
<1>6. \A i, j \in DOMAIN remotes :
        i # j => c[i].name # c[j].name /\ ~(c[i].default /\ c[j].default)
  BY <1>2, <1>3, <1>4 DEF ListSound
<1>7. ListSound(c)
  BY <1>2, <1>5, <1>6, ChangedList DEF ListSound
<1>8. ASSUME NEW l \in NamesOf(remotes)
      PROVE  renamed(l) \in NamesOf(c) /\ HostOf(c, renamed(l)) = HostOf(remotes, l)
  <2>1. PICK i \in DOMAIN remotes : remotes[i].name = l
    BY DEF NamesOf
  <2>2. c[i].name = renamed(l) /\ i \in DOMAIN c
    BY <1>4, <1>5, <2>1
  <2>3. HostOf(c, c[i].name) = c[i].host
    BY <1>7, <2>2, HostIs
  <2>4. HostOf(remotes, remotes[i].name) = remotes[i].host
    BY <1>2, HostIs
  <2> QED
    BY <1>4, <2>1, <2>2, <2>3, <2>4 DEF NamesOf
<1> HIDE DEF renamed
<1>9. ConfigInv' /\ Viewing'
  BY <1>1, <1>2, <1>7, <1>8, SaveConfigKeeps
<1>10. Here' = Here
  BY <1>1, <1>2, <1>8 DEF Here
<1>11. StatsSound'
  BY <1>1, <1>9, <1>10, StatsStay DEF ViewInv
<1> QED
  BY <1>9, <1>11 DEF ViewInv, ConfigInv

\* The host of another remote stays, and of its own one the viewer knows.
LEMMA MoveRemoteKeeps ==
  ASSUME ViewInv, NEW n \in RemoteNames, NEW h \in Hosts, MoveRemote(n, h)
  PROVE  ViewInv'
<1> DEFINE c == [i \in DOMAIN remotes |->
                   IF remotes[i].name = n THEN [remotes[i] EXCEPT !.host = h]
                   ELSE remotes[i]]
<1>1. /\ Viewing /\ remotes' = c /\ lastUsed' = lastUsed /\ SaveConfig
      /\ edited' = (edited \/ looking = n) /\ UNCHANGED <<looking, stats>>
  BY DEF MoveRemote, Configure
<1>2. ConfigInv /\ ListSound(remotes) /\ {looking, lastUsed} \subseteq NamesOf(remotes)
  BY <1>1 DEF ViewInv, ConfigInv
<1>3. \A i \in DOMAIN remotes : remotes[i] \in Remote
  BY <1>2 DEF ListSound
<1>4. \A i \in DOMAIN remotes :
        /\ c[i] \in Remote /\ c[i].name = remotes[i].name
        /\ remotes[i].name # n => c[i].host = remotes[i].host
        /\ (c[i].default <=> remotes[i].default)
  <2> SUFFICES ASSUME NEW i \in DOMAIN remotes
               PROVE  /\ c[i] \in Remote /\ c[i].name = remotes[i].name
                      /\ remotes[i].name # n => c[i].host = remotes[i].host
                      /\ (c[i].default <=> remotes[i].default)
    OBVIOUS
  <2>1. CASE remotes[i].name = n
    BY <1>3, <2>1, HostField
  <2>2. CASE remotes[i].name # n
    BY <1>3, <2>2
  <2> QED
    BY <2>1, <2>2
<1>5. c \in [DOMAIN remotes -> Remote] /\ DOMAIN c = DOMAIN remotes
  BY <1>4
<1> HIDE DEF c
<1>6. \A i, j \in DOMAIN remotes : i # j => ~(c[i].default /\ c[j].default)
  BY <1>2, <1>4 DEF ListSound
<1>7. ListSound(c) /\ NamesOf(c) = NamesOf(remotes)
  BY <1>2, <1>4, <1>5, <1>6, RewrittenList
<1>8. ConfigInv' /\ Viewing'
  BY <1>1, <1>2, <1>7, SaveConfigKeeps
<1>9. looking # n => Here' = Here
  <2> SUFFICES ASSUME looking # n PROVE Here' = Here
    OBVIOUS
  <2>1. PICK i \in DOMAIN remotes : remotes[i].name = looking
    BY <1>2 DEF NamesOf
  <2>2. HostOf(c, c[i].name) = c[i].host
    BY <1>5, <1>7, HostIs
  <2>3. HostOf(remotes, remotes[i].name) = remotes[i].host
    BY <1>2, HostIs
  <2> QED
    BY <1>1, <1>4, <2>1, <2>2, <2>3 DEF Here
<1>10. StatsSound'
  BY <1>1, <1>8, <1>9 DEF ViewInv, StatsSound
<1> QED
  BY <1>8, <1>10 DEF ViewInv, ConfigInv

LEMMA DeleteRemoteKeeps ==
  ASSUME ViewInv, NEW n \in RemoteNames, DeleteRemote(n)
  PROVE  ViewInv'
<1>1. PICK k \in DOMAIN remotes : remotes[k].name = n /\ remotes' = RemoveAt(remotes, k)
  BY DEF DeleteRemote
<1>2. /\ Viewing /\ Len(remotes) > 1 /\ SaveConfig
      /\ lastUsed' = (IF lastUsed = n THEN remotes'[1].name ELSE lastUsed)
      /\ \/ looking = n /\ looking' = DefaultOf(remotes') /\ stats' = NoView
         \/ looking # n /\ UNCHANGED <<looking, stats, edited>>
  BY DEF DeleteRemote, Configure
<1>3. ConfigInv /\ ListSound(remotes) /\ {looking, lastUsed} \subseteq NamesOf(remotes)
  BY <1>2 DEF ViewInv, ConfigInv
<1>4. /\ ListSound(remotes') /\ remotes'[1].name \in NamesOf(remotes')
      /\ NamesOf(remotes') = NamesOf(remotes) \ {n}
      /\ \A m \in NamesOf(remotes') : HostOf(remotes', m) = HostOf(remotes, m)
  BY <1>1, <1>2, <1>3, ShortenedList
<1>5. lastUsed' \in NamesOf(remotes')
  BY <1>2, <1>3, <1>4
<1>6. CASE looking = n
  <2>1. looking' = DefaultOf(remotes') /\ stats' = NoView
    BY <1>2, <1>6
  <2>2. looking' \in NamesOf(remotes')
    BY <1>4, <2>1, DefaultIsKnown
  <2>3. ConfigInv' /\ Viewing'
    BY <1>2, <1>3, <1>4, <1>5, <2>2, SaveConfigKeeps
  <2> QED
    BY <2>1, <2>3 DEF ViewInv, ConfigInv, StatsSound
<1>7. CASE looking # n
  <2>1. UNCHANGED <<looking, stats, edited>>
    BY <1>2, <1>7
  <2>2. looking \in NamesOf(remotes')
    BY <1>3, <1>4, <1>7
  <2>3. ConfigInv' /\ Viewing'
    BY <1>2, <1>3, <1>4, <1>5, <2>1, <2>2, SaveConfigKeeps
  <2>4. Here' = Here
    BY <1>4, <2>1, <2>2 DEF Here
  <2>5. StatsSound'
    BY <2>1, <2>3, <2>4, StatsStay DEF ViewInv
  <2> QED
    BY <2>3, <2>5 DEF ViewInv, ConfigInv
<1> QED
  BY <1>6, <1>7

LEMMA SetDefaultKeeps ==
  ASSUME ViewInv, NEW n \in RemoteNames, SetDefault(n)
  PROVE  ViewInv'
<1> DEFINE c == [i \in DOMAIN remotes |->
                   [remotes[i] EXCEPT !.default = (remotes[i].name = n)]]
<1>1. /\ Viewing /\ remotes' = c /\ lastUsed' = lastUsed /\ SaveConfig
      /\ UNCHANGED <<looking, stats, edited>>
  BY DEF SetDefault, Configure
<1>2. ConfigInv /\ ListSound(remotes) /\ {looking, lastUsed} \subseteq NamesOf(remotes)
  BY <1>1 DEF ViewInv, ConfigInv
<1>3. ASSUME NEW i \in DOMAIN remotes
      PROVE  /\ c[i] \in Remote /\ c[i].name = remotes[i].name
             /\ c[i].host = remotes[i].host
             /\ (c[i].default <=> remotes[i].name = n)
  <2> DEFINE r == remotes[i]
  <2>1. r \in Remote
    BY <1>2 DEF ListSound
  <2>2. c[i] = [r EXCEPT !.default = (r.name = n)]
    OBVIOUS
  <2>5. CASE r.name = n
    <3>1. c[i] = [r EXCEPT !.default = TRUE]
      BY <2>2, <2>5
    <3> HIDE DEF c, r
    <3>2. c[i] \in Remote
      BY <2>1, <3>1, DefaultField
    <3>3. c[i].name = r.name /\ c[i].host = r.host
      BY <2>1, <3>1 DEF Remote
    <3>4. c[i].default
      BY <2>1, <3>1 DEF Remote
    <3> QED
      BY <2>5, <3>2, <3>3, <3>4 DEF r
  <2>6. CASE r.name # n
    <3>1. c[i] = [r EXCEPT !.default = FALSE]
      BY <2>2, <2>6
    <3> HIDE DEF c, r
    <3>2. c[i] \in Remote
      BY <2>1, <3>1, DefaultField
    <3>3. c[i].name = r.name /\ c[i].host = r.host
      BY <2>1, <3>1 DEF Remote
    <3>4. ~c[i].default
      BY <2>1, <3>1 DEF Remote
    <3> QED
      BY <2>6, <3>2, <3>3, <3>4 DEF r
  <2> QED
    BY <2>5, <2>6
<1>4. c \in [DOMAIN remotes -> Remote] /\ DOMAIN c = DOMAIN remotes
  BY <1>3
<1> HIDE DEF c
<1>5. \A i, j \in DOMAIN remotes : i # j => ~(c[i].default /\ c[j].default)
  BY <1>2, <1>3 DEF ListSound
<1>6. ListSound(c) /\ NamesOf(c) = NamesOf(remotes)
  BY <1>2, <1>3, <1>4, <1>5, RewrittenList
<1>7. ConfigInv' /\ Viewing'
  BY <1>1, <1>2, <1>6, SaveConfigKeeps
<1>8. Here' = Here
  <2>1. PICK i \in DOMAIN remotes : remotes[i].name = looking
    BY <1>2 DEF NamesOf
  <2>2. HostOf(c, c[i].name) = c[i].host
    BY <1>4, <1>6, HostIs
  <2>3. HostOf(remotes, remotes[i].name) = remotes[i].host
    BY <1>2, HostIs
  <2> QED
    BY <1>1, <1>3, <2>1, <2>2, <2>3 DEF Here
<1>9. StatsSound'
  BY <1>1, <1>7, <1>8, StatsStay DEF ViewInv
<1> QED
  BY <1>7, <1>9 DEF ViewInv, ConfigInv

LEMMA ServeKeeps ==
  ASSUME ViewInv,
         UNCHANGED <<remotes, lastUsed, kept, looking, stats, configured, edited>>
  PROVE  ViewInv'
BY DEF ViewInv, StatsSound, Viewing, Here

LEMMA ViewStepKeeps ==
  ASSUME ViewInv, [ViewNext]_viewVars
  PROVE  ViewInv'
<1>1. ASSUME NEW h \in Hosts, OpenViewer(h) PROVE ViewInv'
  BY <1>1, OpenViewerKeeps
<1>2. ASSUME NEW h \in Hosts, ProxyRestarts(h) PROVE ViewInv'
  BY <1>2, ServeKeeps DEF ProxyRestarts
<1>3. ASSUME NEW h \in Hosts, NEW p \in ViewProviders, Serve(h, p) PROVE ViewInv'
  BY <1>3, ServeKeeps DEF Serve
<1>4. CASE CloseViewer
  BY <1>4, CloseViewerKeeps
<1>5. CASE FetchAll
  BY <1>5, FetchedKeeps DEF FetchAll
<1>6. ASSUME NEW p \in ViewProviders, RefreshProvider(p) PROVE ViewInv'
  BY <1>6, RefreshProviderKeeps
<1>7. ASSUME NEW p \in ViewProviders, RefreshCredential(p) PROVE ViewInv'
  BY <1>7, FetchedKeeps DEF RefreshCredential
<1>8. ASSUME NEW n \in RemoteNames, NEW reached \in BOOLEAN, Switch(n, reached)
      PROVE  ViewInv'
  BY <1>8, SwitchKeeps
<1>9. ASSUME NEW n \in RemoteNames, NEW h \in Hosts, AddRemote(n, h) PROVE ViewInv'
  BY <1>9, AddRemoteKeeps
<1>10. ASSUME NEW n \in RemoteNames, NEW h \in Hosts, MoveRemote(n, h) PROVE ViewInv'
  BY <1>10, MoveRemoteKeeps
<1>11. ASSUME NEW n \in RemoteNames, NEW m \in RemoteNames, RenameRemote(n, m)
       PROVE  ViewInv'
  BY <1>11, RenameRemoteKeeps
<1>12. ASSUME NEW n \in RemoteNames, DeleteRemote(n) PROVE ViewInv'
  BY <1>12, DeleteRemoteKeeps
<1>13. ASSUME NEW n \in RemoteNames, SetDefault(n) PROVE ViewInv'
  BY <1>13, SetDefaultKeeps
<1>14. CASE UNCHANGED viewVars
  BY <1>14, ServeKeeps DEF viewVars
<1> QED
  BY <1>1, <1>2, <1>3, <1>4, <1>5, <1>6, <1>7, <1>8, <1>9, <1>10, <1>11, <1>12, <1>13,
     <1>14 DEF ViewNext

LEMMA ViewInitSound ==
  ASSUME ViewInit
  PROVE  ViewInv
<1>1. PICK h \in Hosts :
        kept = [remotes |-> <<[name |-> Local, host |-> h, default |-> TRUE]>>, last |-> Local]
  BY DEF ViewInit
<1> DEFINE r == [name |-> Local, host |-> h, default |-> TRUE]
           c == <<r>>
<1>2. r \in Remote /\ r.name = Local
  BY ViewConstants DEF Remote
<1>3. kept.remotes = c /\ kept.last = Local
  BY <1>1
<1> HIDE DEF r
<1>4. c \in Seq(Remote) /\ Len(c) = 1 /\ c[1] = r
  BY <1>2
<1> HIDE DEF c
<1>5. c # <<>> /\ DOMAIN c = {1}
  BY <1>4
<1>6. ListSound(c) /\ Local \in NamesOf(c)
  BY <1>2, <1>4, <1>5 DEF ListSound, NamesOf
<1>7. looking = NoView /\ remotes = <<>> /\ stats = NoView
  BY DEF ViewInit
<1> QED
  BY <1>3, <1>6, <1>7 DEF ViewInv, Viewing, StatsSound

\* Whatever is added, renamed, moved or deleted, whatever could not be saved and
\* whichever requests fail: the viewer and its file know at least one remote,
\* each by a name of its own, what is looked at is one of them, and the
\* statistics are of its proxy and add up.
THEOREM ViewsStaySound == ViewSpec => []ViewsSound
<1>1. ViewInit => ViewInv
  BY ViewInitSound
<1>2. ViewInv /\ [ViewNext]_viewVars => ViewInv'
  BY ViewStepKeeps
<1>3. ViewInv => ViewsSound
  <2> SUFFICES ASSUME ViewInv PROVE ConfigSound /\ StatsOfRemote /\ TotalsAddUp
    BY DEF ViewsSound
  <2>1. ASSUME NEW rs \in {kept.remotes} \cup (IF Viewing THEN {remotes} ELSE {})
        PROVE  /\ rs # <<>>
               /\ \A i, j \in DOMAIN rs :
                    i # j => rs[i].name # rs[j].name /\ ~(rs[i].default /\ rs[j].default)
               /\ rs = remotes => {looking, lastUsed} \subseteq NamesOf(rs)
    <3>1. ListSound(rs)
      BY DEF ViewInv
    <3>2. rs # <<>>
      BY <3>1 DEF ListSound
    <3>3. rs = remotes => {looking, lastUsed} \subseteq NamesOf(rs)
      BY <3>2 DEF ViewInv
    <3> QED
      BY <3>1, <3>2, <3>3 DEF ListSound
  <2>2. ConfigSound
    BY <2>1 DEF ConfigSound
  <2>3. StatsOfRemote
    BY DEF ViewInv, StatsSound, StatsOfRemote
  <2>4. TotalsAddUp
    BY DEF ViewInv, StatsSound, TotalsAddUp
  <2> QED
    BY <2>2, <2>3, <2>4
<1> QED
  BY <1>1, <1>2, <1>3, PTL DEF ViewSpec

-----------------------------------------------------------------------------
(* The tools that share .env.                                                *)

\* Only a save writes key by key, what it writes was staged, and nothing is
\* staged for an API key.
SavesSound ==
  /\ toWrite # {} => screen = "saving"
  /\ \A k \in toWrite : pending[k] # Nothing
  /\ \A s \in Slots : pending[s] = Nothing
  /\ SaveIsExact

EnvInv == EnvTypeOK /\ SavesSound /\ EnvHoldsFile /\ ProxyUsesFile

\* Where a step leads decides what it owes: the menu, that the environment holds
\* the file; the proxy, that it has read it; any other screen, nothing of the kind.
LEMMA ToElsewhere ==
  ASSUME EnvTypeOK', screen' \notin {"menu", "proxy", "saving"}, toWrite' = {},
         \A s \in Slots : pending'[s] = Nothing
  PROVE  EnvInv'
BY DEF EnvInv, SavesSound, SaveIsExact, EnvHoldsFile, ProxyUsesFile

LEMMA ToMenu ==
  ASSUME EnvTypeOK', screen' = "menu", toWrite' = {},
         \A s \in Slots : pending'[s] = Nothing,
         \A k \in Keys : file'[k] # Absent => environ'[k] = file'[k]
  PROVE  EnvInv'
BY DEF EnvInv, SavesSound, SaveIsExact, EnvHoldsFile, ProxyUsesFile

LEMMA ToProxy ==
  ASSUME EnvTypeOK', screen' = "proxy", toWrite' = {},
         \A s \in Slots : pending'[s] = Nothing,
         direct' \/ (/\ ~Unset(proxy')
                     /\ \A k \in Keys : file'[k] # Absent => proxy'[k] = file'[k])
  PROVE  EnvInv'
BY DEF EnvInv, SavesSound, SaveIsExact, EnvHoldsFile, ProxyUsesFile

\* After load_dotenv the environment holds the file.
LEMMA Loaded ==
  ASSUME NEW f, Load(f)
  PROVE  DOMAIN environ' = Keys /\ \A k \in Keys : f[k] # Absent => environ'[k] = f[k]
BY DEF Load

LEMMA KeysApart ==
  /\ Slots \subseteq Keys
  /\ \A s \in Slots : s \notin BaseKeys /\ s \notin ModeKeys /\ s \notin LimitKeys
       /\ s \notin ModelKeys /\ s \notin SettingKeys /\ s \notin FilterKeys /\ s # ProxyKey
BY EnvConstants DEF Keys

\* One key set, others as they were.
LEMMA SetKeyIs ==
  ASSUME NEW f, DOMAIN f = Keys, NEW k \in Keys, NEW v
  PROVE  /\ DOMAIN SetKey(f, k, v) = Keys /\ SetKey(f, k, v)[k] = v
         /\ \A l \in Keys : l # k => SetKey(f, k, v)[l] = f[l]
BY DEF SetKey

\* Not in a save, nothing is left to write.
LEMMA AtRest ==
  ASSUME EnvInv, screen # "saving"
  PROVE  toWrite = {} /\ \A s \in Slots : pending[s] = Nothing
BY DEF EnvInv, SavesSound

LEMMA LaunchKeeps ==
  ASSUME EnvInv, Launch
  PROVE  EnvInv' /\ SlotsKept
<1>1. EnvTypeOK'
  BY DEF EnvInv, EnvTypeOK, Launch
<1>2. EnvInv'
  BY <1>1, AtRest, ToMenu DEF Launch
<1>3. SlotsKept
  BY DEF SlotsKept, Launch
<1> QED
  BY <1>2, <1>3

LEMMA OpenSettingsKeeps ==
  ASSUME EnvInv, OpenSettings
  PROVE  EnvInv' /\ SlotsKept
<1>1. EnvTypeOK'
  BY EnvConstants DEF EnvInv, EnvTypeOK, OpenSettings, Load, Visit, NoChanges
<1>2. \A s \in Slots : pending'[s] = Nothing
  BY KeysApart DEF OpenSettings, NoChanges
<1>3. EnvInv'
  BY <1>1, <1>2, AtRest, ToElsewhere DEF OpenSettings
<1>4. SlotsKept
  BY DEF SlotsKept, OpenSettings
<1> QED
  BY <1>3, <1>4

LEMMA ReloadKeeps ==
  ASSUME EnvInv, Reload
  PROVE  EnvInv' /\ SlotsKept
<1>1. EnvTypeOK'
  BY DEF EnvInv, EnvTypeOK, Reload, Load
<1>2. EnvInv'
  BY <1>1, AtRest, Loaded, ToMenu DEF Reload
<1>3. SlotsKept
  BY DEF SlotsKept, Reload
<1> QED
  BY <1>2, <1>3

LEMMA ChangeProxyKeyKeeps ==
  ASSUME EnvInv, NEW v \in Values \cup {Empty}, ChangeProxyKey(v)
  PROVE  EnvInv' /\ SlotsKept
<1>1. /\ screen = "menu" /\ Visit /\ exists' = TRUE
      /\ file' = SetKey(file, ProxyKey, v) /\ Load(file')
      /\ UNCHANGED <<screen, pending, toWrite, before, proxy, direct>>
  BY DEF ChangeProxyKey
<1>2. ProxyKey \in Keys /\ DOMAIN file = Keys
  BY DEF EnvInv, EnvTypeOK, Keys
<1>3. DOMAIN file' = Keys /\ \A l \in Keys : l # ProxyKey => file'[l] = file[l]
  BY <1>1, <1>2, SetKeyIs
<1>4. EnvTypeOK'
  BY <1>1, <1>3, Loaded, EnvConstants DEF EnvInv, EnvTypeOK, Visit
<1>5. EnvInv'
  BY <1>1, <1>4, AtRest, Loaded, ToMenu
<1>6. SlotsKept
  BY <1>3, KeysApart DEF SlotsKept
<1> QED
  BY <1>5, <1>6

LEMMA EnsureDefaultsIs ==
  ASSUME EnvInv, EnsureDefaults
  PROVE  DOMAIN file' = Keys /\ exists' = TRUE /\ SlotsKept
<1>1. ProxyKey \in Keys /\ DOMAIN file = Keys
  BY DEF EnvInv, EnvTypeOK, Keys
<1>2. file' = file \/ file' = SetKey(file, ProxyKey, Generated)
  BY DEF EnsureDefaults
<1>3. DOMAIN file' = Keys /\ \A l \in Keys : l # ProxyKey => file'[l] = file[l]
  BY <1>1, <1>2, SetKeyIs
<1> QED
  BY <1>3, KeysApart DEF SlotsKept, EnsureDefaults

LEMMA RunProxyKeeps ==
  ASSUME EnvInv, RunProxy
  PROVE  EnvInv' /\ SlotsKept
<1>1. screen = "menu" /\ UNCHANGED <<pending, toWrite, before, visits, direct>>
  BY DEF RunProxy
<1>2. CASE ~NeedsOnboarding /\ UNCHANGED <<exists, file, environ>> /\ StartProxy
  <2>1. EnvTypeOK'
    BY <1>1, <1>2 DEF EnvInv, EnvTypeOK, StartProxy
  <2>2. ~Unset(environ) /\ \A k \in Keys : file[k] # Absent => environ[k] = file[k]
    BY <1>1, <1>2 DEF NeedsOnboarding, EnvInv, EnvHoldsFile
  <2>3. proxy' = environ /\ screen' = "proxy"
    BY <1>2 DEF StartProxy
  <2>4. EnvInv'
    BY <1>1, <1>2, <2>1, <2>2, <2>3, AtRest, ToProxy
  <2> QED
    BY <1>2, <2>4 DEF SlotsKept
<1>3. CASE EnsureDefaults /\ Load(file') /\ screen' = "onboarding"
  <2>1. DOMAIN file' = Keys /\ exists' = TRUE /\ SlotsKept
    BY <1>3, EnsureDefaultsIs
  <2>2. EnvTypeOK'
    BY <1>1, <1>3, <2>1, Loaded DEF EnvInv, EnvTypeOK
  <2>3. EnvInv'
    BY <1>1, <1>3, <2>2, AtRest, ToElsewhere
  <2> QED
    BY <2>1, <2>3
<1> QED
  BY <1>2, <1>3 DEF RunProxy

LEMMA RunDirectlyKeeps ==
  ASSUME EnvInv, RunDirectly
  PROVE  EnvInv' /\ SlotsKept
<1>1. /\ screen = "stopped" /\ direct' = TRUE
      /\ UNCHANGED <<pending, toWrite, before, visits>>
  BY DEF RunDirectly
<1>2. CASE screen' = "proxy" /\ environ' = file /\ UNCHANGED <<exists, file>>
  <2>1. EnvTypeOK'
    BY <1>1, <1>2 DEF EnvInv, EnvTypeOK
  <2>2. EnvInv'
    BY <1>1, <1>2, <2>1, AtRest, ToProxy
  <2> QED
    BY <1>2, <2>2 DEF SlotsKept
<1>3. CASE EnsureDefaults /\ environ' = file' /\ screen' = "onboarding"
  <2>1. DOMAIN file' = Keys /\ exists' = TRUE /\ SlotsKept
    BY <1>3, EnsureDefaultsIs
  <2>2. EnvTypeOK'
    BY <1>1, <1>3, <2>1 DEF EnvInv, EnvTypeOK
  <2>3. EnvInv'
    BY <1>1, <1>3, <2>2, AtRest, ToElsewhere
  <2> QED
    BY <2>1, <2>3
<1> QED
  BY <1>2, <1>3 DEF RunDirectly

LEMMA ProxyStopsKeeps ==
  ASSUME EnvInv, ProxyStops
  PROVE  EnvInv' /\ SlotsKept
<1>1. EnvTypeOK'
  BY DEF EnvInv, EnvTypeOK, ProxyStops, NoEnviron
<1>2. EnvInv'
  BY <1>1, AtRest, ToElsewhere DEF ProxyStops
<1> QED
  BY <1>2 DEF SlotsKept, ProxyStops

\* Whatever is staged for other keys than API keys.
LEMMA StageKeeps ==
  ASSUME EnvInv, NEW f, DOMAIN f \cap Slots = {}, Stage(f)
  PROVE  EnvInv' /\ SlotsKept
<1>1. /\ screen = "settings"
      /\ pending' = [k \in Keys |-> IF k \in DOMAIN f THEN f[k] ELSE pending[k]]
      /\ UNCHANGED <<exists, file, environ, screen, toWrite, before, proxy, visits, direct>>
  BY DEF Stage
<1>2. EnvTypeOK'
  BY <1>1 DEF EnvInv, EnvTypeOK
<1>3. \A s \in Slots : pending'[s] = Nothing
  BY <1>1, KeysApart DEF EnvInv, SavesSound
<1>4. EnvInv'
  BY <1>1, <1>2, <1>3, AtRest, ToElsewhere
<1> QED
  BY <1>1, <1>4 DEF SlotsKept

LEMMA StageOneKeeps ==
  ASSUME EnvInv, NEW k, k \notin Slots, NEW v, StageOne(k, v)
  PROVE  EnvInv' /\ SlotsKept
<1> DEFINE f == [l \in {k} |-> v]
<1>1. DOMAIN f \cap Slots = {} /\ Stage(f)
  BY DEF StageOne
<1> HIDE DEF f
<1> QED
  BY <1>1, StageKeeps

\* Every menu of the settings tool stages keys of its own kind.
StagingStep ==
  \/ \E k \in BaseKeys, v \in Values : AddProvider(k, v) \/ EditProvider(k, v)
  \/ \E k \in BaseKeys : RemoveProvider(k)
  \/ \E k \in ModelKeys, ms \in SUBSET Models \ {{}} : AddModels(k, ms)
  \/ \E k \in ModelKeys, m \in Models : EditModels(k, m)
  \/ \E k \in ModelKeys : RemoveModels(k)
  \/ \E k \in ModeKeys, v \in Values : SetMode(k, v)
  \/ \E k \in ModeKeys : ResetMode(k)
  \/ \E k \in SettingKeys, v \in Values : EditSetting(k, v)
  \/ \E ks \in SUBSET SettingKeys \ {{}} : ResetSettings(ks)
  \/ \E mode, v \in Values, valid \in BOOLEAN : SetLimits(mode, v, valid)
  \/ RemoveLimits

LEMMA StagingKeeps ==
  ASSUME EnvInv, StagingStep
  PROVE  EnvInv' /\ SlotsKept
<1>1. ASSUME NEW k \in BaseKeys, NEW v \in Values, AddProvider(k, v) \/ EditProvider(k, v)
      PROVE  EnvInv' /\ SlotsKept
  BY <1>1, KeysApart, StageOneKeeps DEF AddProvider, EditProvider
<1>2. ASSUME NEW k \in BaseKeys, RemoveProvider(k) PROVE EnvInv' /\ SlotsKept
  <2>1. PICK v : StageOne(k, v)
    BY <1>2 DEF RemoveProvider
  <2> QED
    BY <2>1, KeysApart, StageOneKeeps
<1>3. ASSUME NEW k \in ModelKeys, NEW ms, AddModels(k, ms) PROVE EnvInv' /\ SlotsKept
  BY <1>3, KeysApart, StageOneKeeps DEF AddModels
<1>4. ASSUME NEW k \in ModelKeys, NEW m \in Models, EditModels(k, m)
      PROVE  EnvInv' /\ SlotsKept
  <2>1. PICK v : StageOne(k, v)
    BY <1>4 DEF EditModels
  <2> QED
    BY <2>1, KeysApart, StageOneKeeps
<1>5. ASSUME NEW k \in ModelKeys, RemoveModels(k) PROVE EnvInv' /\ SlotsKept
  <2>1. PICK v : StageOne(k, v)
    BY <1>5 DEF RemoveModels
  <2> QED
    BY <2>1, KeysApart, StageOneKeeps
<1>6. ASSUME NEW k \in ModeKeys, NEW v \in Values, SetMode(k, v) PROVE EnvInv' /\ SlotsKept
  BY <1>6, KeysApart, StageOneKeeps DEF SetMode
<1>7. ASSUME NEW k \in ModeKeys, ResetMode(k) PROVE EnvInv' /\ SlotsKept
  <2>1. PICK v : StageOne(k, v)
    BY <1>7 DEF ResetMode
  <2> QED
    BY <2>1, KeysApart, StageOneKeeps
<1>8. ASSUME NEW k \in SettingKeys, NEW v \in Values, EditSetting(k, v)
      PROVE  EnvInv' /\ SlotsKept
  BY <1>8, KeysApart, StageOneKeeps DEF EditSetting
<1>9. ASSUME NEW ks \in SUBSET SettingKeys, ResetSettings(ks) PROVE EnvInv' /\ SlotsKept
  <2> DEFINE f == [k \in ks |-> Removed]
  <2>1. DOMAIN f \cap Slots = {} /\ Stage(f)
    BY <1>9, KeysApart DEF ResetSettings
  <2> HIDE DEF f
  <2> QED
    BY <2>1, StageKeeps
<1>10. ASSUME NEW mode \in Values, NEW v \in Values, NEW valid \in BOOLEAN,
              SetLimits(mode, v, valid)
       PROVE  EnvInv' /\ SlotsKept
  <2> DEFINE f == [k \in ModeKeys \cup (IF valid THEN LimitKeys ELSE {}) |->
                     IF k \in ModeKeys THEN mode ELSE v]
  <2>1. Stage(f)
    BY <1>10 DEF SetLimits
  <2>2. DOMAIN f \subseteq ModeKeys \cup LimitKeys
    OBVIOUS
  <2> HIDE DEF f
  <2>3. DOMAIN f \cap Slots = {}
    BY <2>2, KeysApart
  <2> QED
    BY <2>1, <2>3, StageKeeps
<1>11. CASE RemoveLimits
  <2> DEFINE f == [k \in LimitKeys |-> Removed]
  <2>1. DOMAIN f \cap Slots = {} /\ Stage(f)
    BY <1>11, KeysApart DEF RemoveLimits
  <2> HIDE DEF f
  <2> QED
    BY <2>1, StageKeeps
<1> QED
  BY <1>1, <1>2, <1>3, <1>4, <1>5, <1>6, <1>7, <1>8, <1>9, <1>10, <1>11 DEF StagingStep

LEMMA SaveAndExitKeeps ==
  ASSUME EnvInv, SaveAndExit
  PROVE  EnvInv' /\ SlotsKept
<1>1. /\ screen = "settings" /\ toWrite' = {k \in Keys : pending[k] # Nothing}
      /\ UNCHANGED <<exists, file, pending, proxy, visits, direct>>
  BY DEF SaveAndExit
<1>2. CASE toWrite' = {} /\ screen' = "menu" /\ Load(file)
  <2>1. EnvTypeOK'
    BY <1>1, <1>2, Loaded DEF EnvInv, EnvTypeOK
  <2>2. EnvInv'
    BY <1>1, <1>2, <2>1, AtRest, Loaded, ToMenu
  <2> QED
    BY <1>1, <2>2 DEF SlotsKept
<1>3. CASE screen' = "saving" /\ before' = file /\ UNCHANGED environ
  <2>1. EnvTypeOK'
    BY <1>1, <1>3 DEF EnvInv, EnvTypeOK
  <2>2. SaveIsExact'
    BY <1>1, <1>3 DEF SaveIsExact
  <2>3. SavesSound'
    BY <1>1, <1>3, <2>2 DEF EnvInv, SavesSound
  <2>4. EnvHoldsFile' /\ ProxyUsesFile'
    BY <1>3 DEF EnvHoldsFile, ProxyUsesFile
  <2> QED
    BY <1>1, <2>1, <2>3, <2>4 DEF EnvInv, SlotsKept
<1> QED
  BY <1>2, <1>3 DEF SaveAndExit

LEMMA SaveKeyKeeps ==
  ASSUME EnvInv, NEW k \in toWrite, SaveKey(k)
  PROVE  EnvInv' /\ SlotsKept
<1> DEFINE v == IF pending[k] = Removed THEN Absent ELSE pending[k]
<1>1. /\ file' = SetKey(file, k, v) /\ exists' = TRUE /\ toWrite' = toWrite \ {k}
      /\ UNCHANGED <<environ, screen, pending, before, proxy, visits, direct>>
  BY DEF SaveKey
<1>2. /\ k \in Keys /\ DOMAIN file = Keys /\ screen = "saving" /\ pending[k] # Nothing
      /\ k \notin Slots
  BY DEF EnvInv, EnvTypeOK, SavesSound
<1>3. DOMAIN file' = Keys /\ file'[k] = v /\ \A l \in Keys : l # k => file'[l] = file[l]
  BY <1>1, <1>2, SetKeyIs
<1>4. EnvTypeOK'
  BY <1>1, <1>3 DEF EnvInv, EnvTypeOK
<1>5. SaveIsExact'
  BY <1>1, <1>2, <1>3 DEF EnvInv, SavesSound, SaveIsExact
<1>6. SavesSound'
  BY <1>1, <1>2, <1>5 DEF EnvInv, SavesSound
<1>7. EnvHoldsFile' /\ ProxyUsesFile'
  BY <1>1, <1>2 DEF EnvHoldsFile, ProxyUsesFile
<1>8. SlotsKept
  BY <1>2, <1>3, KeysApart DEF SlotsKept
<1> QED
  BY <1>4, <1>6, <1>7, <1>8 DEF EnvInv

LEMMA SavedKeeps ==
  ASSUME EnvInv, Saved
  PROVE  EnvInv' /\ SlotsKept
<1>1. EnvTypeOK'
  BY DEF EnvInv, EnvTypeOK, Saved, Load, NoChanges
<1>2. \A s \in Slots : pending'[s] = Nothing
  BY KeysApart DEF Saved, NoChanges
<1>3. EnvInv'
  BY <1>1, <1>2, Loaded, ToMenu DEF Saved
<1> QED
  BY <1>3 DEF SlotsKept, Saved

LEMMA SaveBreaksKeeps ==
  ASSUME EnvInv, SaveBreaks
  PROVE  EnvInv' /\ SlotsKept
<1>1. EnvTypeOK'
  BY DEF EnvInv, EnvTypeOK, SaveBreaks, NoChanges, NoEnviron
<1>2. \A s \in Slots : pending'[s] = Nothing
  BY KeysApart DEF SaveBreaks, NoChanges
<1>3. EnvInv'
  BY <1>1, <1>2, ToElsewhere DEF SaveBreaks
<1> QED
  BY <1>3 DEF SlotsKept, SaveBreaks

LEMMA ExitKeeps ==
  ASSUME EnvInv, ExitWithoutSaving
  PROVE  EnvInv' /\ SlotsKept
<1>1. EnvTypeOK'
  BY DEF EnvInv, EnvTypeOK, ExitWithoutSaving, Load, NoChanges
<1>2. \A s \in Slots : pending'[s] = Nothing
  BY KeysApart DEF ExitWithoutSaving, NoChanges
<1>3. EnvInv'
  BY <1>1, <1>2, AtRest, Loaded, ToMenu DEF ExitWithoutSaving
<1> QED
  BY <1>3 DEF SlotsKept, ExitWithoutSaving

LEMMA OpenFiltersKeeps ==
  ASSUME EnvInv, OpenFilters
  PROVE  EnvInv' /\ SlotsKept
<1>1. EnvTypeOK'
  BY DEF EnvInv, EnvTypeOK, OpenFilters, Load
<1>2. EnvInv'
  BY <1>1, AtRest, ToElsewhere DEF OpenFilters
<1> QED
  BY <1>2 DEF SlotsKept, OpenFilters

LEMMA SaveFiltersKeeps ==
  ASSUME EnvInv, NEW k \in FilterKeys, NEW v, SaveFilters(k, v)
  PROVE  EnvInv' /\ SlotsKept
<1>1. k \in Keys /\ k \notin Slots /\ DOMAIN file = Keys
  BY KeysApart DEF EnvInv, EnvTypeOK, Keys
<1>2. DOMAIN file' = Keys /\ \A l \in Keys : l # k => file'[l] = file[l]
  BY <1>1, SetKeyIs DEF SaveFilters
<1>3. EnvTypeOK'
  BY <1>2 DEF EnvInv, EnvTypeOK, SaveFilters
<1>4. EnvInv'
  BY <1>3, AtRest, ToElsewhere DEF SaveFilters
<1>5. SlotsKept
  BY <1>1, <1>2, KeysApart DEF SlotsKept
<1> QED
  BY <1>4, <1>5

LEMMA CloseFiltersKeeps ==
  ASSUME EnvInv, CloseFilters
  PROVE  EnvInv' /\ SlotsKept
<1>1. EnvTypeOK'
  BY DEF EnvInv, EnvTypeOK, CloseFilters
<1>2. EnvInv'
  BY <1>1, AtRest, ToElsewhere DEF CloseFilters
<1> QED
  BY <1>2 DEF SlotsKept, CloseFilters

LEMMA OpenCredentialsKeeps ==
  ASSUME EnvInv, OpenCredentials
  PROVE  EnvInv' /\ SlotsKept
<1>1. DOMAIN file' = Keys /\ exists' = TRUE /\ SlotsKept
  BY EnsureDefaultsIs DEF OpenCredentials
<1>2. EnvTypeOK'
  BY <1>1, EnvConstants DEF EnvInv, EnvTypeOK, OpenCredentials, Visit
<1>3. EnvInv'
  BY <1>2, AtRest, ToElsewhere DEF OpenCredentials
<1> QED
  BY <1>1, <1>3

\* The credential tool writes what it likes to the file as long as the menu is
\* not shown before the file was loaded again.
LEMMA AtCredentialsKeeps ==
  ASSUME EnvInv, AtCredentials, DOMAIN file' = Keys,
         exists' \/ \A k \in Keys : file'[k] = Absent,
         UNCHANGED <<environ, screen, pending, toWrite, before, proxy, visits, direct>>
  PROVE  EnvInv'
<1>1. EnvTypeOK'
  BY DEF EnvInv, EnvTypeOK
<1>2. screen \in {"credentials", "onboarding"}
  BY DEF AtCredentials
<1> QED
  BY <1>1, <1>2, AtRest, ToElsewhere

LEMMA AddKeyKeeps ==
  ASSUME EnvInv, NEW n \in SlotNumbers, NEW v \in NewKeys, AddKey(n, v)
  PROVE  EnvInv' /\ SlotsKept
<1> DEFINE k == SlotKeys[n]
<1>1. k \in Keys /\ DOMAIN file = Keys
  BY KeysApart DEF EnvInv, EnvTypeOK, Slots
<1>2. file' = SetKey(file, k, v) /\ file[k] = Absent
  BY DEF AddKey, FreeSlot
<1> HIDE DEF k
<1>3. DOMAIN file' = Keys /\ \A l \in Keys : l # k => file'[l] = file[l]
  BY <1>1, <1>2, SetKeyIs
<1>4. EnvInv'
  BY <1>3, AtCredentialsKeeps DEF AddKey
<1>5. SlotsKept
  BY <1>2, <1>3, KeysApart DEF SlotsKept
<1> QED
  BY <1>4, <1>5

LEMMA AddCustomProviderKeeps ==
  ASSUME EnvInv, NEW b \in BaseKeys, NEW n \in SlotNumbers, NEW v \in Values,
         AddCustomProvider(b, n, v)
  PROVE  EnvInv' /\ SlotsKept
<1> DEFINE k == SlotKeys[n]
           f == SetKey(file, b, v)
<1>1. k \in Keys /\ b \in Keys /\ b \notin Slots /\ DOMAIN file = Keys
  BY KeysApart DEF EnvInv, EnvTypeOK, Slots, Keys
<1>2. file' = SetKey(f, k, v) /\ file[k] = Absent
  BY DEF AddCustomProvider, FreeSlot
<1>3. DOMAIN f = Keys /\ \A l \in Keys : l # b => f[l] = file[l]
  BY <1>1, SetKeyIs
<1> HIDE DEF k, f
<1>4. DOMAIN file' = Keys /\ \A l \in Keys : l # k => file'[l] = f[l]
  BY <1>1, <1>2, <1>3, SetKeyIs
<1>5. EnvInv'
  BY <1>4, AtCredentialsKeeps DEF AddCustomProvider
<1>6. SlotsKept
  BY <1>1, <1>2, <1>3, <1>4, KeysApart DEF SlotsKept
<1> QED
  BY <1>5, <1>6

LEMMA DeleteKeyKeeps ==
  ASSUME EnvInv, NEW s \in Slots, DeleteKey(s)
  PROVE  EnvInv' /\ SlotsKept
<1>1. s \in Keys /\ DOMAIN file = Keys /\ file[s] # Absent /\ exists
  BY KeysApart DEF EnvInv, EnvTypeOK, DeleteKey
<1>2. /\ DOMAIN file' = Keys /\ file'[s] = Absent
      /\ \A l \in Keys : l # s => file'[l] = file[l]
  BY <1>1, SetKeyIs DEF DeleteKey
<1>3. EnvInv'
  BY <1>1, <1>2, AtCredentialsKeeps DEF DeleteKey
<1>4. SlotsKept
  BY <1>2, KeysApart DEF SlotsKept
<1> QED
  BY <1>3, <1>4

LEMMA DeletionBreaksKeeps ==
  ASSUME EnvInv, DeletionBreaks
  PROVE  EnvInv' /\ SlotsKept
<1>1. DOMAIN file' = Keys /\ \A k \in Keys : file'[k] = Absent
  BY DEF DeletionBreaks, NoEnviron
<1>2. EnvInv'
  BY <1>1, AtCredentialsKeeps DEF DeletionBreaks
<1>3. SlotsKept
  BY <1>1, KeysApart DEF SlotsKept
<1> QED
  BY <1>2, <1>3

LEMMA QuitCredentialsKeeps ==
  ASSUME EnvInv, QuitCredentials
  PROVE  EnvInv' /\ SlotsKept
<1>1. /\ screen \in {"credentials", "onboarding"} /\ Load(file)
      /\ UNCHANGED <<exists, file, pending, toWrite, before, visits, direct>>
  BY DEF QuitCredentials, AtCredentials
<1>2. DOMAIN environ' = Keys /\ \A k \in Keys : file[k] # Absent => environ'[k] = file[k]
  BY <1>1, Loaded
<1>3. toWrite = {} /\ \A s \in Slots : pending[s] = Nothing
  BY <1>1, AtRest
<1>4. CASE screen' = "menu"
  <2>1. EnvTypeOK'
    BY <1>1, <1>2, <1>4 DEF EnvInv, EnvTypeOK
  <2> QED
    BY <1>1, <1>2, <1>3, <1>4, <2>1, ToMenu DEF SlotsKept
<1>5. CASE ~direct /\ ~Unset(environ') /\ StartProxy
  <2>1. proxy' = environ' /\ screen' = "proxy"
    BY <1>5 DEF StartProxy
  <2>2. EnvTypeOK'
    BY <1>1, <1>2, <2>1 DEF EnvInv, EnvTypeOK
  <2> QED
    BY <1>1, <1>2, <1>3, <1>5, <2>1, <2>2, ToProxy DEF SlotsKept
<1>6. CASE direct /\ screen' = "proxy"
  <2>1. EnvTypeOK'
    BY <1>1, <1>2, <1>6 DEF EnvInv, EnvTypeOK
  <2> QED
    BY <1>1, <1>3, <1>6, <2>1, ToProxy DEF SlotsKept
<1> QED
  BY <1>4, <1>5, <1>6 DEF QuitCredentials

LEMMA EnvInitSound ==
  ASSUME EnvInit
  PROVE  EnvInv
<1>1. /\ exists \in BOOLEAN /\ DOMAIN file = Keys
      /\ ~exists => \A k \in Keys : file[k] = Absent
  BY DEF EnvInit
<1>2. DOMAIN environ = Keys /\ DOMAIN pending = Keys /\ toWrite = {}
      /\ screen = "stopped" /\ visits \in 0..MaxVisits
  BY EnvConstants DEF EnvInit, NoEnviron, NoChanges
<1>3. EnvTypeOK
  BY <1>1, <1>2 DEF EnvTypeOK
<1>4. \A s \in Slots : pending[s] = Nothing
  BY KeysApart DEF EnvInit, NoChanges
<1> QED
  BY <1>2, <1>3, <1>4 DEF EnvInv, SavesSound, SaveIsExact, EnvHoldsFile, ProxyUsesFile

LEMMA EnvStepKeeps ==
  ASSUME EnvInv, EnvNext
  PROVE  EnvInv' /\ SlotsKept
<1>1. CASE Launch \/ OpenSettings \/ Reload \/ RunProxy \/ RunDirectly \/ ProxyStops
  BY <1>1, LaunchKeeps, OpenSettingsKeeps, ReloadKeeps, RunProxyKeeps, RunDirectlyKeeps,
     ProxyStopsKeeps
<1>2. ASSUME NEW v \in Values \cup {Empty}, ChangeProxyKey(v) PROVE EnvInv' /\ SlotsKept
  BY <1>2, ChangeProxyKeyKeeps
<1>3. CASE StagingStep
  BY <1>3, StagingKeeps
<1>4. CASE SaveAndExit \/ Saved \/ SaveBreaks \/ ExitWithoutSaving
  BY <1>4, SaveAndExitKeeps, SavedKeeps, SaveBreaksKeeps, ExitKeeps
<1>5. ASSUME NEW k \in toWrite, SaveKey(k) PROVE EnvInv' /\ SlotsKept
  BY <1>5, SaveKeyKeeps
<1>6. CASE OpenFilters \/ CloseFilters
  BY <1>6, OpenFiltersKeeps, CloseFiltersKeeps
<1>7. ASSUME NEW k \in FilterKeys, NEW v \in Values \cup {Absent}, SaveFilters(k, v)
      PROVE  EnvInv' /\ SlotsKept
  BY <1>7, SaveFiltersKeeps
<1>8. CASE OpenCredentials \/ DeletionBreaks \/ QuitCredentials
  BY <1>8, OpenCredentialsKeeps, DeletionBreaksKeeps, QuitCredentialsKeeps
<1>9. ASSUME NEW s \in Slots, DeleteKey(s) PROVE EnvInv' /\ SlotsKept
  BY <1>9, DeleteKeyKeeps
<1>10. ASSUME NEW n \in SlotNumbers, NEW v \in NewKeys, AddKey(n, v)
       PROVE  EnvInv' /\ SlotsKept
  BY <1>10, AddKeyKeeps
<1>11. ASSUME NEW k \in BaseKeys, NEW n \in SlotNumbers, NEW v \in Values,
              AddCustomProvider(k, n, v)
       PROVE  EnvInv' /\ SlotsKept
  BY <1>11, AddCustomProviderKeeps
<1> QED
  BY <1>1, <1>2, <1>3, <1>4, <1>5, <1>6, <1>7, <1>8, <1>9, <1>10, <1>11
  DEF EnvNext, StagingStep

\* Whatever tools are opened, however their saves end and whatever keys are added
\* or deleted: where the launcher's menu is shown the environment holds the file,
\* a save changes what was staged and nothing else, an API key is never replaced
\* by another, and a proxy started from the launcher has read the file and asks
\* for a key.
THEOREM EnvStaysSound == EnvSpec => EnvSound
<1>1. EnvInit => EnvInv
  BY EnvInitSound
<1>2. EnvInv /\ [EnvNext]_envVars => EnvInv' /\ [SlotsKept]_envVars
  <2>1. ASSUME EnvInv, UNCHANGED envVars PROVE EnvInv'
    BY <2>1 DEF envVars, EnvInv, EnvTypeOK, SavesSound, SaveIsExact, EnvHoldsFile,
       ProxyUsesFile, Unset
  <2> QED
    BY <2>1, EnvStepKeeps
<1>3. EnvInv => EnvTypeOK /\ EnvHoldsFile /\ SaveIsExact /\ ProxyUsesFile
  BY DEF EnvInv, SavesSound
<1> QED
  BY <1>1, <1>2, <1>3, PTL DEF EnvSpec, EnvSound, KeysKept

=============================================================================
