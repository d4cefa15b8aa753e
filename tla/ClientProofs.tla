----------------------------- MODULE ClientProofs -----------------------------
(***************************************************************************)
(* Proofs about the clients of the proxy.                                  *)
(*                                                                         *)
(* The panels of the admin database, for any number of browsers, users,    *)
(* accounts and keys: no second admin, no row, account or session that     *)
(* refers to a deleted one, one account for a key, and no panel for a      *)
(* reseller without standing.                                              *)
(* The sessions of sequential routing, for any set of requests, any number *)
(* of conversations, sessions and restarts, and any time a fingerprint     *)
(* lives: sessions of different conversations are kept apart, and a        *)
(* conversation whose requests share a fingerprint keeps its session as    *)
(* long as it goes on in time.                                             *)
(* The streamed answer, for any tool calls and any number of chunks: the   *)
(* events a client gets are in order, and stop for a tool whose arguments  *)
(* are complete.                                                           *)
(***************************************************************************)
EXTENDS AnthropicStream, PanelAccess, SessionTracker, FiniteSetTheorems,
        WellFoundedInduction, TLAPS

(***************************************************************************)
(* The panels.                                                             *)
(***************************************************************************)
KeyRow == [type : {"client", "reseller"}, parent : Nat \cup {Nil}, active : BOOLEAN]
Account == [role : {"client", "reseller"},
            status : {"pending", "active", "suspended"}, key : Nat]
Seats == Users \cup Emails \cup Nat \cup {Nil}

\* A new key has a new id.
PanelTyped ==
  /\ admins \subseteq Users /\ created \in Nat
  /\ keys \in [DOMAIN keys -> KeyRow] /\ DOMAIN keys \subseteq 1..created
  /\ accounts \in [DOMAIN accounts -> Account] /\ DOMAIN accounts \subseteq Emails
  /\ sessions \in [Browsers -> [Kinds -> Seats]]

\* Parents are resellers, and their children are not: a family has two levels.
KeysFit ==
  \A k \in DOMAIN keys : keys[k].parent # Nil =>
    /\ keys[k].parent \in DOMAIN keys /\ keys[keys[k].parent].type = "reseller"
    /\ keys[k].type = "client"

\* The key of an account without standing is off, unless it was switched on by
\* hand.
Stands(e) ==
  accounts[e].status # "active" /\ accounts[e].key \notin toggled =>
    ~keys[accounts[e].key].active

AccountsFit ==
  \A e \in DOMAIN accounts :
    /\ accounts[e].key \in DOMAIN keys
    /\ keys[accounts[e].key].type = accounts[e].role
    /\ \A x \in DOMAIN accounts : accounts[x].key = accounts[e].key => x = e
    /\ Stands(e)

\* The two sessions that show a reseller's panel are of resellers.
Resellers == {e \in DOMAIN accounts : accounts[e].role = "reseller"}
Masters == {k \in DOMAIN keys : keys[k].type = "reseller"}

SessionsFit ==
  \A b \in Browsers :
    /\ sessions[b]["account"] \in Resellers \cup {Nil}
    /\ sessions[b]["chat"] \in DOMAIN accounts \cup {Nil}
    /\ sessions[b]["master"] \in Masters \cup {Nil}
    /\ sessions[b]["client"] \in DOMAIN keys \cup {Nil}

PanelInv ==
  PanelTyped /\ OneAdmin /\ KeysFit /\ AccountsFit /\ SessionsFit /\ RevealsLive

-----------------------------------------------------------------------------
(* The tables.                                                              *)

\* A key that is created changes no other one.
LEMMA CreatedKeeps ==
  ASSUME PanelInv, NEW k, NEW row \in KeyRow, Created(k, row), leftover' = leftover,
         row.parent # Nil => row.parent \in Masters /\ row.type = "client"
  PROVE  /\ k \in Nat /\ k \notin DOMAIN keys /\ created' \in Nat
         /\ DOMAIN keys' = DOMAIN keys \cup {k} /\ keys'[k] = row
         /\ \A x \in DOMAIN keys : keys'[x] = keys[x]
         /\ keys' \in [DOMAIN keys' -> KeyRow] /\ DOMAIN keys' \subseteq 1..created'
         /\ KeysFit' /\ RevealsLive'
<1>1. /\ created \in Nat /\ DOMAIN keys \subseteq 1..created
      /\ keys \in [DOMAIN keys -> KeyRow] /\ k = created + 1 /\ created' = k
      /\ keys' = [x \in DOMAIN keys \cup {k} |-> IF x = k THEN row ELSE keys[x]]
      /\ reveals' = reveals \cup {k}
  BY DEF Created, PanelInv, PanelTyped
<1>2. k \in Nat /\ k \notin 1..created /\ 1..created \subseteq 1..k /\ k \in 1..k
  BY <1>1
<1>3. k \notin DOMAIN keys /\ DOMAIN keys' = DOMAIN keys \cup {k} /\ keys'[k] = row
  BY <1>1, <1>2
<1>4. \A x \in DOMAIN keys : keys'[x] = keys[x]
  BY <1>1, <1>3
<1>5. keys' \in [DOMAIN keys' -> KeyRow]
  BY <1>1, <1>3
<1>6. DOMAIN keys' \subseteq 1..created'
  BY <1>1, <1>2, <1>3
<1>7. KeysFit'
  <2> SUFFICES ASSUME NEW x \in DOMAIN keys', keys'[x].parent # Nil
               PROVE  /\ keys'[x].parent \in DOMAIN keys'
                      /\ keys'[keys'[x].parent].type = "reseller"
                      /\ keys'[x].type = "client"
    BY DEF KeysFit
  <2>1. CASE x = k
    BY <1>3, <1>4, <2>1 DEF Masters
  <2>2. CASE x # k
    BY <1>3, <1>4, <2>2 DEF PanelInv, KeysFit
  <2> QED
    BY <2>1, <2>2
<1>8. RevealsLive'
  BY <1>1, <1>3 DEF PanelInv, RevealsLive
<1> QED
  BY <1>1, <1>2, <1>3, <1>4, <1>5, <1>6, <1>7, <1>8

\* A session stays valid as long as the rows it refers to stay.
LEMMA SessionsStay ==
  ASSUME SessionsFit, sessions' = sessions,
         Resellers \subseteq Resellers', Masters \subseteq Masters',
         DOMAIN accounts \subseteq DOMAIN accounts', DOMAIN keys \subseteq DOMAIN keys'
  PROVE  SessionsFit'
BY DEF SessionsFit

\* A log-in refers to a row that is there.
LEMMA LoginKeeps ==
  ASSUME PanelInv, NEW b \in Browsers, NEW kind \in Kinds, NEW who \in Seats,
         Login(b, kind, who),
         kind = "account" => who \in Resellers, kind = "chat" => who \in DOMAIN accounts',
         kind = "master" => who \in Masters, kind = "client" => who \in DOMAIN keys,
         Resellers' = Resellers, Masters' = Masters, DOMAIN keys' = DOMAIN keys,
         DOMAIN accounts \subseteq DOMAIN accounts'
  PROVE  sessions' \in [Browsers -> [Kinds -> Seats]] /\ SessionsFit'
<1>1. /\ sessions \in [Browsers -> [Kinds -> Seats]]
      /\ sessions' = [sessions EXCEPT ![b][kind] = who]
  BY DEF PanelInv, PanelTyped, Login
<1>2. sessions' \in [Browsers -> [Kinds -> Seats]]
  BY <1>1
<1>3. \A c \in Browsers, s \in Kinds :
        sessions'[c][s] = IF c = b /\ s = kind THEN who ELSE sessions[c][s]
  BY <1>1
<1>4. SessionsFit'
  <2> SUFFICES ASSUME NEW c \in Browsers
               PROVE  /\ sessions'[c]["account"] \in Resellers' \cup {Nil}
                      /\ sessions'[c]["chat"] \in DOMAIN accounts' \cup {Nil}
                      /\ sessions'[c]["master"] \in Masters' \cup {Nil}
                      /\ sessions'[c]["client"] \in DOMAIN keys' \cup {Nil}
    BY DEF SessionsFit
  <2>1. /\ sessions[c]["account"] \in Resellers \cup {Nil}
        /\ sessions[c]["chat"] \in DOMAIN accounts \cup {Nil}
        /\ sessions[c]["master"] \in Masters \cup {Nil}
        /\ sessions[c]["client"] \in DOMAIN keys \cup {Nil}
    BY DEF PanelInv, SessionsFit
  <2>2. {"account", "chat", "master", "client"} \subseteq Kinds
    BY DEF Kinds
  <2> QED
    BY <1>3, <2>1, <2>2
<1> QED
  BY <1>2, <1>4

\* Deleting the family of a key leaves nothing that refers to it.
LEMMA WithoutKeeps ==
  ASSUME PanelInv, NEW k \in DOMAIN keys, NEW lost, Without(Family(k), lost),
         UNCHANGED <<admins, created>>
  PROVE  /\ PanelTyped' /\ KeysFit' /\ AccountsFit' /\ SessionsFit'
         /\ DOMAIN keys' = DOMAIN keys \ Family(k)
<1> DEFINE gone == Family(k)
           Left == {x \in DOMAIN accounts \ lost : accounts[x].key \notin gone}
<1>0. PanelTyped /\ KeysFit /\ AccountsFit /\ SessionsFit
  BY DEF PanelInv
<1>1. /\ keys' = [x \in DOMAIN keys \ gone |-> keys[x]]
      /\ accounts' = [e \in Left |-> accounts[e]]
      /\ toggled' = toggled \ gone
  BY DEF Without
<1>2. /\ DOMAIN keys' = DOMAIN keys \ gone
      /\ \A x \in DOMAIN keys \ gone : keys'[x] = keys[x]
  BY <1>1
<1>3. /\ DOMAIN accounts' = Left /\ Left \subseteq DOMAIN accounts
      /\ \A e \in Left : accounts'[e] = accounts[e] /\ accounts[e].key \notin gone
  BY <1>1
<1>4. ASSUME NEW b \in Browsers, NEW s \in Kinds
      PROVE  /\ sessions'[b][s] \in {sessions[b][s], Nil}
             /\ s \in {"account", "chat"} => sessions'[b][s] \in Left \cup {Nil}
             /\ s \in {"master", "client"} => sessions'[b][s] \notin gone \/ sessions'[b][s] = Nil
  <2> DEFINE who == sessions[b][s]
             cut == \/ s \in {"account", "chat"} /\ who # Nil /\ who \notin DOMAIN accounts'
                    \/ s \in {"master", "client"} /\ who \in gone
  <2>1. sessions'[b][s] = IF cut THEN Nil ELSE who
    BY DEF Without
  <2> QED
    BY <1>3, <2>1
<1>5. sessions' \in [Browsers -> [Kinds -> Seats]]
  <2>1. /\ sessions' = [b \in Browsers |-> [s \in Kinds |-> sessions'[b][s]]]
        /\ sessions \in [Browsers -> [Kinds -> Seats]] /\ Nil \in Seats
    BY <1>0 DEF Without, PanelTyped, Seats
  <2>2. \A b \in Browsers, s \in Kinds : sessions'[b][s] \in Seats
    BY <1>4, <2>1
  <2> QED
    BY <2>1, <2>2
<1> HIDE DEF gone, Left
<1>6. PanelTyped'
  <2>1. keys' \in [DOMAIN keys' -> KeyRow] /\ DOMAIN keys' \subseteq 1..created'
    BY <1>0, <1>1, <1>2 DEF PanelTyped
  <2>2. accounts' \in [DOMAIN accounts' -> Account] /\ DOMAIN accounts' \subseteq Emails
    BY <1>0, <1>1, <1>3 DEF PanelTyped
  <2> QED
    BY <1>0, <1>5, <2>1, <2>2 DEF PanelTyped
<1>7. KeysFit'
  <2> SUFFICES ASSUME NEW x \in DOMAIN keys \ gone, keys[x].parent # Nil
               PROVE  keys[x].parent \notin gone
    BY <1>0, <1>2 DEF KeysFit
  <2>1. /\ keys[x].parent # k
        /\ keys[x].parent \in DOMAIN keys /\ keys[keys[x].parent].type = "reseller"
    BY <1>0 DEF KeysFit, gone, Family
  <2>2. keys[keys[x].parent].parent = Nil
    BY <1>0, <2>1 DEF KeysFit
  <2>3. k # Nil
    BY <1>0, PanelConstants DEF PanelTyped
  <2> QED
    BY <2>1, <2>2, <2>3 DEF gone, Family
<1>8. AccountsFit'
  BY <1>0, <1>1, <1>2, <1>3 DEF AccountsFit, Stands
<1>9. SessionsFit'
  <2> SUFFICES ASSUME NEW b \in Browsers
               PROVE  /\ sessions'[b]["account"] \in Resellers' \cup {Nil}
                      /\ sessions'[b]["chat"] \in DOMAIN accounts' \cup {Nil}
                      /\ sessions'[b]["master"] \in Masters' \cup {Nil}
                      /\ sessions'[b]["client"] \in DOMAIN keys' \cup {Nil}
    BY DEF SessionsFit
  <2>1. {"account", "chat", "master", "client"} \subseteq Kinds
    BY DEF Kinds
  <2>2. /\ sessions[b]["account"] \in Resellers \cup {Nil}
        /\ sessions[b]["master"] \in Masters \cup {Nil}
        /\ sessions[b]["client"] \in DOMAIN keys \cup {Nil}
    BY <1>0 DEF SessionsFit
  <2>3. \A e \in Left : e \in Resellers => e \in Resellers'
    BY <1>3 DEF Resellers
  <2>4. \A x \in DOMAIN keys \ gone : x \in Masters => x \in Masters'
    BY <1>2 DEF Masters
  <2>5. Masters \subseteq DOMAIN keys
    BY DEF Masters
  <2>6. sessions'[b]["account"] \in Resellers' \cup {Nil}
    BY <1>4, <2>1, <2>2, <2>3
  <2>7. sessions'[b]["chat"] \in DOMAIN accounts' \cup {Nil}
    BY <1>3, <1>4, <2>1
  <2>8. sessions'[b]["master"] \in Masters' \cup {Nil}
    BY <1>4, <2>1, <2>2, <2>4, <2>5
  <2>9. sessions'[b]["client"] \in DOMAIN keys' \cup {Nil}
    BY <1>2, <1>4, <2>1, <2>2
  <2> QED
    BY <2>6, <2>7, <2>8, <2>9
<1> QED
  BY <1>2, <1>6, <1>7, <1>8, <1>9 DEF gone

\* An account is added for a key that has none.
LEMMA NewAccountKeeps ==
  ASSUME PanelInv, NEW e \in Emails, e \notin DOMAIN accounts,
         NEW role \in {"client", "reseller"}, NEW status \in {"pending", "active"},
         NEW k \in Nat, NewAccount(e, role, status, k), ~Bound(k),
         \A x \in DOMAIN keys : x \in DOMAIN keys' /\ keys'[x] = keys[x],
         k \in DOMAIN keys', keys'[k].type = role,
         status = "active" \/ ~keys'[k].active, toggled' = toggled
  PROVE  /\ accounts' \in [DOMAIN accounts' -> Account] /\ DOMAIN accounts' \subseteq Emails
         /\ AccountsFit' /\ DOMAIN accounts \subseteq DOMAIN accounts'
         /\ Resellers \subseteq Resellers' /\ e \in DOMAIN accounts'
         /\ role = "client" => Resellers' = Resellers
<1> DEFINE new == [role |-> role, status |-> status, key |-> k]
<1>0. PanelTyped /\ AccountsFit /\ new \in Account
  BY DEF PanelInv, Account
<1>1. accounts' = [x \in DOMAIN accounts \cup {e} |-> IF x = e THEN new ELSE accounts[x]]
  BY DEF NewAccount
<1>2. /\ DOMAIN accounts' = DOMAIN accounts \cup {e} /\ accounts'[e] = new
      /\ \A x \in DOMAIN accounts : accounts'[x] = accounts[x]
  BY <1>1
<1>3. new.role = role /\ new.status = status /\ new.key = k
  OBVIOUS
<1> HIDE DEF new
<1>4. accounts' \in [DOMAIN accounts' -> Account] /\ DOMAIN accounts' \subseteq Emails
  BY <1>0, <1>1, <1>2 DEF PanelTyped
<1>5. AccountsFit'
  <2> SUFFICES ASSUME NEW y \in DOMAIN accounts'
               PROVE  /\ accounts'[y].key \in DOMAIN keys'
                      /\ keys'[accounts'[y].key].type = accounts'[y].role
                      /\ \A x \in DOMAIN accounts' :
                           accounts'[x].key = accounts'[y].key => x = y
                      /\ Stands(y)'
    BY DEF AccountsFit
  <2>1. CASE y = e
    <3>1. \A x \in DOMAIN accounts' : accounts'[x].key = k => x = e
      BY <1>2, <1>3 DEF Bound
    <3>2. Stands(y)'
      BY <1>2, <1>3, <2>1 DEF Stands
    <3> QED
      BY <1>2, <1>3, <2>1, <3>1, <3>2
  <2>2. CASE y # e
    <3>1. /\ y \in DOMAIN accounts /\ accounts'[y] = accounts[y]
          /\ accounts[y].key \in DOMAIN keys /\ Stands(y)
          /\ keys[accounts[y].key].type = accounts[y].role /\ accounts[y].key # k
          /\ \A x \in DOMAIN accounts : accounts[x].key = accounts[y].key => x = y
      BY <1>0, <1>2, <2>2 DEF AccountsFit, Bound
    <3>2. \A x \in DOMAIN accounts' : accounts'[x].key = accounts'[y].key => x = y
      BY <1>2, <1>3, <3>1
    <3>3. Stands(y)'
      BY <3>1 DEF Stands
    <3> QED
      BY <3>1, <3>2, <3>3
  <2> QED
    BY <2>1, <2>2
<1>6. Resellers \subseteq Resellers' /\ (role = "client" => Resellers' = Resellers)
  BY <1>2, <1>3 DEF Resellers
<1> QED
  BY <1>2, <1>4, <1>5, <1>6

\* Keys may be added and accounts stay, but none of their keys is touched.
LEMMA AccountsStay ==
  ASSUME AccountsFit, accounts' = accounts, toggled \subseteq toggled',
         \A x \in DOMAIN keys : x \in DOMAIN keys' /\ keys'[x] = keys[x]
  PROVE  AccountsFit'
BY DEF AccountsFit, Stands

-----------------------------------------------------------------------------
(* The handlers.                                                            *)

LEMMA PanelInitial == PanelInit => PanelInv
BY DEF PanelInit, PanelInv, PanelTyped, OneAdmin, KeysFit, AccountsFit, SessionsFit,
   RevealsLive, Resellers, Masters, Kinds, Seats

\* The handlers of the setup, of reveals, and those that end sessions.
LEMMA PlainKeep ==
  ASSUME PanelInv,
         \/ EndReveal \/ UNCHANGED panelVars
         \/ \E u \in Users : OpenSetup(u)
         \/ \E b \in Browsers :
              VisitPanel(b) \/ EndSession(b) \/ \E k \in KeyIds : Rotate(b, k)
  PROVE  PanelInv'
<1>0. /\ UNCHANGED <<admins, keys, created, accounts, toggled, leftover>>
      /\ \A r \in reveals' : r \in reveals \cup DOMAIN keys
  BY DEF EndReveal, panelVars, OpenSetup, VisitPanel, EndSession, Rotate
<1>1. /\ sessions' \in [Browsers -> [Kinds -> Seats]]
      /\ \A c \in Browsers, s \in Kinds : sessions'[c][s] \in {sessions[c][s], Nil}
  <2>0. sessions \in [Browsers -> [Kinds -> Seats]] /\ Nil \in Seats /\ "master" \in Kinds
    BY DEF PanelInv, PanelTyped, Seats, Kinds
  <2>1. CASE sessions' = sessions
    BY <2>0, <2>1
  <2>2. CASE \E b \in Browsers : VisitPanel(b)
    <3>1. PICK b \in Browsers : sessions' = [sessions EXCEPT ![b]["master"] = Nil]
      BY <2>2 DEF VisitPanel
    <3> QED
      BY <2>0, <3>1
  <2>3. CASE \E b \in Browsers : EndSession(b)
    <3>1. PICK b \in Browsers : \E ended \in {{s} : s \in Kinds} \cup {{"account", "master"}} :
            sessions' = [sessions EXCEPT ![b] =
                           [s \in Kinds |-> IF s \in ended THEN Nil ELSE @[s]]]
      BY <2>3 DEF EndSession
    <3>2. PICK ended : sessions' = [sessions EXCEPT ![b] =
                         [s \in Kinds |-> IF s \in ended THEN Nil ELSE sessions[b][s]]]
      BY <3>1
    <3> DEFINE left == [s \in Kinds |-> IF s \in ended THEN Nil ELSE sessions[b][s]]
    <3>3. left \in [Kinds -> Seats] /\ \A s \in Kinds : left[s] \in {sessions[b][s], Nil}
      BY <2>0
    <3> HIDE DEF left
    <3> QED
      BY <2>0, <3>2, <3>3 DEF left
  <2> QED
    BY <2>1, <2>2, <2>3
       DEF EndReveal, panelVars, OpenSetup, Rotate
<1>2. SessionsFit'
  <2>1. Resellers' = Resellers /\ Masters' = Masters
    BY <1>0 DEF Resellers, Masters
  <2>2. {"account", "chat", "master", "client"} \subseteq Kinds
    BY DEF Kinds
  <2> QED
    BY <1>0, <1>1, <2>1, <2>2 DEF PanelInv, SessionsFit
<1>3. PanelTyped' /\ OneAdmin' /\ KeysFit' /\ AccountsFit'
  BY <1>0, <1>1 DEF PanelInv, PanelTyped, OneAdmin, KeysFit, AccountsFit, Stands
<1>4. RevealsLive'
  BY <1>0 DEF PanelInv, RevealsLive
<1> QED
  BY <1>2, <1>3, <1>4 DEF PanelInv

\* The handlers that open a session.
LEMMA LoginsKeep ==
  ASSUME PanelInv, NEW b \in Browsers,
         \/ AdminLogin(b)
         \/ \E u \in Users : FinishSetup(b, u)
         \/ \E e \in Emails : ResellerLogin(b, e) \/ ChatLogin(b, e)
         \/ \E k \in KeyIds : MasterLogin(b, k) \/ ClientLogin(b, k)
  PROVE  PanelInv'
<1>0. /\ UNCHANGED <<keys, created, reveals, accounts, toggled, leftover>>
      /\ admins' \subseteq Users /\ OneAdmin'
  BY DEF AdminLogin, FinishSetup, ResellerLogin, ChatLogin, MasterLogin,
     ClientLogin, NoneYet, PanelInv, PanelTyped, OneAdmin
<1>1. Resellers' = Resellers /\ Masters' = Masters
  BY <1>0 DEF Resellers, Masters
<1>2. sessions' \in [Browsers -> [Kinds -> Seats]] /\ SessionsFit'
  <2>1. CASE sessions' = sessions
    BY <1>0, <1>1, <2>1 DEF PanelInv, PanelTyped, SessionsFit
  <2>2. ASSUME NEW u \in Users, Login(b, "admin", u)
        PROVE  sessions' \in [Browsers -> [Kinds -> Seats]] /\ SessionsFit'
    BY <1>0, <1>1, <2>2, LoginKeeps DEF Kinds, Seats
  <2>3. ASSUME NEW e \in Emails, ResellerLogin(b, e) \/ ChatLogin(b, e)
        PROVE  sessions' \in [Browsers -> [Kinds -> Seats]] /\ SessionsFit'
    <3>1. CASE ResellerLogin(b, e)
      <4>1. Login(b, "account", e) /\ e \in Resellers
        BY <3>1 DEF ResellerLogin, Resellers
      <4> QED
        BY <1>0, <1>1, <4>1, LoginKeeps DEF Kinds, Seats
    <3>2. CASE ChatLogin(b, e)
      <4>1. Login(b, "chat", e) /\ e \in DOMAIN accounts
        BY <3>2 DEF ChatLogin
      <4> QED
        BY <1>0, <1>1, <4>1, LoginKeeps DEF Kinds, Seats
    <3> QED
      BY <2>3, <3>1, <3>2
  <2>4. ASSUME NEW k \in KeyIds, MasterLogin(b, k) \/ ClientLogin(b, k)
        PROVE  sessions' \in [Browsers -> [Kinds -> Seats]] /\ SessionsFit'
    <3>0. k \in Nat
      BY PanelConstants DEF KeyIds
    <3>1. CASE MasterLogin(b, k)
      <4>1. Login(b, "master", k) /\ k \in Masters
        BY <3>1 DEF MasterLogin, Masters, Open, Active
      <4> QED
        BY <1>0, <1>1, <3>0, <4>1, LoginKeeps DEF Kinds, Seats
    <3>2. CASE ClientLogin(b, k)
      <4>1. Login(b, "client", k) /\ k \in DOMAIN keys
        BY <3>2 DEF ClientLogin, Open, Active
      <4> QED
        BY <1>0, <1>1, <3>0, <4>1, LoginKeeps DEF Kinds, Seats
    <3> QED
      BY <2>4, <3>1, <3>2
  <2>5. admins \subseteq Users
    BY DEF PanelInv, PanelTyped
  <2> QED
    BY <2>1, <2>2, <2>3, <2>4, <2>5 DEF AdminLogin, FinishSetup
<1>3. PanelTyped' /\ KeysFit' /\ AccountsFit' /\ RevealsLive'
  BY <1>0, <1>2 DEF PanelInv, PanelTyped, KeysFit, AccountsFit, Stands, RevealsLive
<1> QED
  BY <1>0, <1>2, <1>3 DEF PanelInv

\* The handlers that create a key.
LEMMA CreatingKeeps ==
  ASSUME PanelInv, NEW k \in KeyIds,
         \/ \E b \in Browsers : CreateKey(b, k) \/ CreateClient(b, k)
         \/ \E e \in Emails : Signup(e, k)
  PROVE  PanelInv'
<1>0. /\ UNCHANGED <<admins, sessions, toggled, leftover>>
      /\ OneAdmin' /\ PanelTyped /\ AccountsFit /\ SessionsFit
  BY DEF CreateKey, CreateClient, Signup, PanelInv, OneAdmin
<1>1. PICK row \in KeyRow :
        /\ Created(k, row)
        /\ row.parent # Nil => row.parent \in Masters /\ row.type = "client"
        /\ \/ accounts' = accounts
           \/ \E e \in Emails : /\ e \notin DOMAIN accounts
                               /\ NewAccount(e, "reseller", "pending", k)
                               /\ ~row.active /\ row.type = "reseller"
  <2>1. CASE \E b \in Browsers : CreateKey(b, k)
    BY <2>1 DEF CreateKey, Fresh, KeyRow
  <2>2. CASE \E b \in Browsers : CreateClient(b, k)
    <3>1. PICK b \in Browsers : CreateClient(b, k)
      BY <2>2
    <3>2. Panel(b) \in Masters
      <4>1. /\ sessions[b]["account"] \in Resellers \cup {Nil}
            /\ sessions[b]["master"] \in Masters \cup {Nil}
        BY <1>0 DEF SessionsFit
      <4>2. \A e \in Resellers : accounts[e].key \in Masters
        BY <1>0 DEF Resellers, Masters, AccountsFit
      <4>3. Panel(b) # Nil
        BY <1>0, <3>1, PanelConstants DEF CreateClient, Open, Active, PanelTyped
      <4> QED
        BY <4>1, <4>2, <4>3 DEF Panel
    <3>3. Panel(b) \in Nat
      BY <1>0, <3>2 DEF Masters, PanelTyped
    <3> QED
      BY <3>1, <3>2, <3>3 DEF CreateClient, Fresh, KeyRow
  <2>3. CASE \E e \in Emails : Signup(e, k)
    <3>1. PICK e \in Emails : Signup(e, k)
      BY <2>3
    <3> DEFINE row == Fresh("reseller", Nil, FALSE)
    <3>2. /\ row \in KeyRow /\ row.parent = Nil /\ ~row.active /\ row.type = "reseller"
          /\ Created(k, row)
      BY <3>1 DEF Fresh, KeyRow, Signup
    <3>3. e \notin DOMAIN accounts /\ NewAccount(e, "reseller", "pending", k)
      BY <3>1 DEF Signup
    <3> HIDE DEF row
    <3> QED
      BY <3>2, <3>3
  <2> QED
    BY <2>1, <2>2, <2>3
<1>2. /\ k \in Nat /\ k \notin DOMAIN keys /\ created' \in Nat
      /\ DOMAIN keys' = DOMAIN keys \cup {k} /\ keys'[k] = row
      /\ \A x \in DOMAIN keys : keys'[x] = keys[x]
      /\ keys' \in [DOMAIN keys' -> KeyRow] /\ DOMAIN keys' \subseteq 1..created'
      /\ KeysFit' /\ RevealsLive'
  BY <1>0, <1>1, CreatedKeeps
<1>3. Masters \subseteq Masters' /\ DOMAIN keys \subseteq DOMAIN keys'
  BY <1>2 DEF Masters
<1>4. CASE accounts' = accounts
  <2>1. AccountsFit' /\ Resellers' = Resellers
    BY <1>0, <1>2, <1>4, AccountsStay DEF Resellers
  <2>2. SessionsFit'
    BY <1>0, <1>3, <1>4, <2>1, SessionsStay
  <2> QED
    BY <1>0, <1>2, <1>4, <2>1, <2>2 DEF PanelInv, PanelTyped
<1>5. CASE \E e \in Emails : /\ e \notin DOMAIN accounts
                            /\ NewAccount(e, "reseller", "pending", k)
                            /\ ~row.active /\ row.type = "reseller"
  <2>1. PICK e \in Emails : /\ e \notin DOMAIN accounts
                            /\ NewAccount(e, "reseller", "pending", k)
                            /\ ~row.active /\ row.type = "reseller"
    BY <1>5
  <2>2. ~Bound(k)
    BY <1>0, <1>2 DEF Bound, AccountsFit
  <2>3. /\ accounts' \in [DOMAIN accounts' -> Account] /\ DOMAIN accounts' \subseteq Emails
        /\ AccountsFit' /\ DOMAIN accounts \subseteq DOMAIN accounts'
        /\ Resellers \subseteq Resellers'
    BY <1>0, <1>2, <2>1, <2>2, NewAccountKeeps
  <2>4. SessionsFit'
    BY <1>0, <1>3, <2>3, SessionsStay
  <2> QED
    BY <1>0, <1>2, <2>3, <2>4 DEF PanelInv, PanelTyped
<1> QED
  BY <1>1, <1>4, <1>5

\* The handlers that bind a key that is there.
LEMMA BindingKeeps ==
  ASSUME PanelInv, NEW b \in Browsers, NEW e \in Emails, NEW k \in KeyIds,
         Attach(b, e, k) \/ ChatSignup(b, e, k)
  PROVE  PanelInv'
<1>0. /\ UNCHANGED <<admins, keys, created, reveals, toggled, leftover>>
      /\ k \in DOMAIN keys /\ ~Bound(k) /\ e \notin DOMAIN accounts
      /\ PanelTyped /\ SessionsFit /\ k \in Nat
  BY PanelConstants
     DEF Attach, ChatSignup, Open, Active, PanelInv, KeyIds
<1>1. PICK role \in {"client", "reseller"} :
        /\ keys[k].type = role /\ NewAccount(e, role, "active", k)
        /\ role = "reseller" => sessions' = sessions
        /\ role = "client" => Login(b, "chat", e)
  BY DEF Attach, ChatSignup
<1>2. /\ accounts' \in [DOMAIN accounts' -> Account] /\ DOMAIN accounts' \subseteq Emails
      /\ AccountsFit' /\ DOMAIN accounts \subseteq DOMAIN accounts'
      /\ Resellers \subseteq Resellers' /\ e \in DOMAIN accounts'
      /\ role = "client" => Resellers' = Resellers
  BY <1>0, <1>1, NewAccountKeeps
<1>3. Masters' = Masters
  BY <1>0 DEF Masters
<1>4. sessions' \in [Browsers -> [Kinds -> Seats]] /\ SessionsFit'
  <2>1. CASE role = "reseller"
    <3>1. SessionsFit'
      BY <1>0, <1>1, <1>2, <1>3, <2>1, SessionsStay
    <3> QED
      BY <1>0, <1>1, <2>1, <3>1 DEF PanelTyped
  <2>2. CASE role = "client"
    BY <1>0, <1>1, <1>2, <1>3, <2>2, LoginKeeps DEF Kinds, Seats
  <2> QED
    BY <2>1, <2>2
<1>5. PanelTyped' /\ OneAdmin' /\ KeysFit' /\ RevealsLive'
  BY <1>0, <1>2, <1>4 DEF PanelInv, PanelTyped, OneAdmin, KeysFit, RevealsLive
<1> QED
  BY <1>2, <1>4, <1>5 DEF PanelInv

\* The handlers that switch a key on or off.
LEMMA SwitchingKeeps ==
  ASSUME PanelInv, NEW b \in Browsers,
         \/ \E k \in KeyIds : Toggle(b, k)
         \/ \E e \in Emails, status \in {"active", "suspended"} :
              SetStatus(b, e, status)
  PROVE  PanelInv'
<1>0. /\ UNCHANGED <<admins, created, reveals, sessions, leftover>>
      /\ PanelTyped /\ OneAdmin' /\ AccountsFit /\ KeysFit
  BY DEF Toggle, SetStatus, PanelInv, OneAdmin
<1>1. PICK k \in DOMAIN keys, on \in BOOLEAN :
        /\ keys' = [keys EXCEPT ![k].active = on]
        /\ DOMAIN accounts' = DOMAIN accounts
        /\ \A x \in DOMAIN accounts :
             /\ accounts'[x].role = accounts[x].role /\ accounts'[x].key = accounts[x].key
             /\ accounts[x].key # k => /\ accounts'[x].status = accounts[x].status
                                       /\ accounts[x].key \in toggled
                                            => accounts[x].key \in toggled'
             /\ accounts[x].key = k =>
                  \/ k \in toggled' \/ (on <=> accounts'[x].status = "active")
        /\ accounts' \in [DOMAIN accounts' -> Account]
  <2>1. CASE \E k \in KeyIds : Toggle(b, k)
    <3>1. PICK k \in KeyIds : Toggle(b, k)
      BY <2>1
    <3>2. keys[k].active \in BOOLEAN /\ k \in DOMAIN keys
      BY <1>0, <3>1 DEF Toggle, PanelTyped, KeyRow
    <3> QED
      BY <1>0, <3>1, <3>2 DEF Toggle, PanelTyped
  <2>2. CASE \E e \in Emails, status \in {"active", "suspended"} : SetStatus(b, e, status)
    <3>1. PICK e \in Emails, status \in {"active", "suspended"} : SetStatus(b, e, status)
      BY <2>2
    <3> DEFINE k == accounts[e].key
    <3>2. /\ e \in DOMAIN accounts /\ k \in DOMAIN keys
          /\ \A x \in DOMAIN accounts : accounts[x].key = k => x = e
          /\ accounts' = [accounts EXCEPT ![e].status = status]
          /\ keys' = [keys EXCEPT ![k].active = (status = "active")]
          /\ toggled' = toggled \ {k}
      BY <1>0, <3>1 DEF SetStatus, AccountsFit
    <3>3. accounts \in [DOMAIN accounts -> Account]
      BY <1>0 DEF PanelTyped
    <3>4. /\ DOMAIN accounts' = DOMAIN accounts
          /\ accounts' \in [DOMAIN accounts' -> Account]
          /\ accounts'[e].status = status /\ accounts'[e].role = accounts[e].role
          /\ accounts'[e].key = k
          /\ \A x \in DOMAIN accounts : x # e => accounts'[x] = accounts[x]
      BY <3>2, <3>3 DEF Account
    <3> HIDE DEF k
    <3>5. (status = "active") \in BOOLEAN
      OBVIOUS
    <3>6. \A x \in DOMAIN accounts :
             /\ accounts'[x].role = accounts[x].role /\ accounts'[x].key = accounts[x].key
             /\ accounts[x].key # k => /\ accounts'[x].status = accounts[x].status
                                       /\ accounts[x].key \in toggled
                                            => accounts[x].key \in toggled'
             /\ accounts[x].key = k => (status = "active" <=> accounts'[x].status = "active")
      BY <3>2, <3>4 DEF k
    <3> QED
      BY <3>2, <3>4, <3>5, <3>6
  <2> QED
    BY <2>1, <2>2
<1>2. /\ DOMAIN keys' = DOMAIN keys /\ keys' \in [DOMAIN keys' -> KeyRow]
      /\ keys'[k].active = on
      /\ \A x \in DOMAIN keys : /\ keys'[x].type = keys[x].type
                              /\ keys'[x].parent = keys[x].parent
                              /\ x # k => keys'[x] = keys[x]
  <2>1. keys \in [DOMAIN keys -> KeyRow]
    BY <1>0 DEF PanelTyped
  <2> QED
    BY <1>1, <2>1 DEF KeyRow
<1>3. PanelTyped' /\ KeysFit' /\ RevealsLive'
  BY <1>0, <1>1, <1>2 DEF PanelInv, PanelTyped, KeysFit, RevealsLive
<1>4. AccountsFit'
  <2> SUFFICES ASSUME NEW e \in DOMAIN accounts PROVE Stands(e)'
    BY <1>0, <1>1, <1>2 DEF AccountsFit
  <2>1. Stands(e) /\ accounts[e].key \in DOMAIN keys
    BY <1>0 DEF AccountsFit
  <2>2. CASE accounts[e].key = k
    BY <1>1, <1>2, <2>2 DEF Stands
  <2>3. CASE accounts[e].key # k
    BY <1>1, <1>2, <2>1, <2>3 DEF Stands
  <2> QED
    BY <2>2, <2>3
<1>5. Resellers' = Resellers /\ Masters' = Masters
  BY <1>1, <1>2 DEF Resellers, Masters
<1>6. SessionsFit'
  BY <1>0, <1>1, <1>2, <1>5, SessionsStay DEF PanelInv
<1> QED
  BY <1>0, <1>3, <1>4, <1>6 DEF PanelInv

\* The handlers that delete.
LEMMA DeletingKeeps ==
  ASSUME PanelInv, NEW b \in Browsers,
         \/ \E k \in KeyIds : DeleteKey(b, k)
         \/ \E e \in Emails : DeleteAccount(b, e)
  PROVE  PanelInv'
<1>1. UNCHANGED <<admins, created>> /\ OneAdmin' /\ AccountsFit
  BY DEF DeleteKey, DeleteAccount, PanelInv, OneAdmin
<1>2. PICK k \in DOMAIN keys : \E lost : Without(Family(k), lost)
               /\ \/ reveals' = reveals \ Family(k) /\ leftover' = leftover
                  \/ reveals' = reveals /\ leftover' = leftover \cup Family(k)
  BY <1>1 DEF DeleteKey, DeleteAccount, AccountsFit
<1>3. PICK lost : Without(Family(k), lost)
  BY <1>2
<1>4. /\ PanelTyped' /\ KeysFit' /\ AccountsFit' /\ SessionsFit'
      /\ DOMAIN keys' = DOMAIN keys \ Family(k)
  BY <1>1, <1>3, WithoutKeeps
<1>5. RevealsLive'
  BY <1>2, <1>4 DEF PanelInv, RevealsLive
<1> QED
  BY <1>1, <1>4, <1>5 DEF PanelInv

LEMMA PanelInvInductive == PanelInv /\ [PanelNext]_panelVars => PanelInv'
BY PlainKeep, LoginsKeep, CreatingKeeps, BindingKeeps, SwitchingKeeps, DeletingKeeps
   DEF PanelNext

\* Whatever the operator, resellers and clients create, bind, suspend, switch,
\* rotate and delete, in any order and from any number of browsers: there is one
\* admin, nothing that is left refers to what is gone, a key has one account of
\* its own type, and no panel is shown to a reseller without standing.
THEOREM PanelStaysSound == PanelSpec => []PanelSound
<1>1. PanelInv => PanelSound
  <2> SUFFICES ASSUME PanelInv PROVE PanelSound
    OBVIOUS
  <2>1. PanelTyped /\ KeysFit /\ AccountsFit /\ SessionsFit
    BY DEF PanelInv
  <2>2. NothingDangles
    BY <2>1 DEF KeysFit, AccountsFit, SessionsFit, NothingDangles, Resellers, Masters
  <2>3. AccountFitsKey
    BY <2>1 DEF AccountsFit, AccountFitsKey
  <2>4. PanelNeedsStanding
    <3> SUFFICES ASSUME NEW b \in Browsers, NEW e \in DOMAIN accounts,
                        accounts[e].key = Panel(b), accounts[e].status # "active",
                        accounts[e].key \notin toggled
                 PROVE  FALSE
      BY DEF PanelNeedsStanding
    <3>1. /\ accounts[e].key \in DOMAIN keys /\ ~keys[accounts[e].key].active
          /\ \A x \in DOMAIN accounts : accounts[x].key = accounts[e].key => x = e
      BY <2>1 DEF AccountsFit, Stands
    <3>2. accounts[e].key # Nil
      BY <2>1, <3>1, PanelConstants DEF PanelTyped
    <3>3. sessions[b]["account"] \in DOMAIN accounts \cup {Nil}
      BY <2>2 DEF NothingDangles
    <3>4. ~Open(Panel(b))
      BY <3>1 DEF Open, Active
    <3> QED
      BY <3>1, <3>2, <3>3, <3>4 DEF Panel
  <2> QED
    BY <2>2, <2>3, <2>4 DEF PanelInv, PanelSound
<1> QED
  BY <1>1, PanelInitial, PanelInvInductive, PTL DEF PanelSpec

-----------------------------------------------------------------------------
(***************************************************************************)
(* The sessions of sequential routing.                                     *)
(***************************************************************************)
Entry == [session : Nat, expires : Nat]

\* What every table of fingerprints is, the one in memory and the one in the
\* file: its entries are of requests, sessions are kept apart, and an anchor of
\* a conversation lives as long as any other fingerprint of it, with the same
\* session.
Typed(rs) ==
  /\ rs \in [DOMAIN rs -> Entry]
  /\ \A f \in DOMAIN rs : rs[f].session <= issued

Apart(rs) ==
  \A f, g \in DOMAIN rs : rs[f].session = rs[g].session =>
    \A r, q \in Requests : f \in Prints(r) /\ g \in Prints(q) => r.of = q.of

Anchored(rs) ==
  \A f \in DOMAIN rs, r \in Requests : f \in Prints(r) =>
    \A a \in Anchors(r.of) :
      a \in DOMAIN rs /\ rs[a].session = rs[f].session /\ rs[a].expires >= rs[f].expires

\* An entry is of some request, and none expires later than one begun now.
Recent(rs) ==
  \A f \in DOMAIN rs : (\E r \in Requests : f \in Prints(r)) /\ rs[f].expires <= clock + Ttl

Table(rs) == Typed(rs) /\ Apart(rs) /\ Anchored(rs) /\ Recent(rs)

\* The anchors of a conversation that goes on in time are in the table for the
\* rest of that time.
Remembers(rs) ==
  \A c \in Conversations : InTime(c) =>
    \A a \in Anchors(c) :
      /\ a \in DOMAIN rs /\ rs[a].session = latest[c].session
      /\ rs[a].expires >= latest[c].at + Ttl

Answers == [session : Nat \cup {NoSession}, at : Nat]

SessionInv ==
  /\ issued \in Nat /\ clock \in Nat /\ latest \in [Conversations -> Answers]
  /\ switched \subseteq Conversations
  /\ Table(records) /\ Table(stored)
  /\ Remembers(records) /\ (~behind => Remembers(stored))
  /\ SteadyStays

-----------------------------------------------------------------------------
(* Fingerprints.                                                            *)

\* A set of positions has a first one.
LEMMA First ==
  ASSUME NEW T \in SUBSET Nat, T # {}
  PROVE  \E m \in T : \A n \in T : m <= n
<1> DEFINE R == OpToRel(<, Nat)
<1>1. IsWellFoundedOn(R, Nat)
  BY NatLessThanWellFounded
<1>2. \A x, y \in Nat : <<y, x>> \in R <=> y < x
  BY DEF OpToRel
<1> HIDE DEF R
<1>3. PICK x \in T : \A y \in T : ~ (<<y, x>> \in R)
  BY <1>1, WFMin
<1>4. ASSUME NEW y \in T PROVE x <= y
  <2>1. x \in Nat /\ y \in Nat /\ ~(y < x)
    BY <1>2, <1>3
  <2> QED
    BY <2>1
<1> QED
  BY <1>4

\* The first known fingerprint of a sequence is known, and is one of it.
LEMMA FirstKnownIsKnown ==
  ASSUME NEW A, NEW s \in Seq(A), Known(s) # {}
  PROVE  FirstKnown(s) \in Elements(s) \cap Living(records)
<1>1. Known(s) \in SUBSET Nat
  BY DEF Known
<1>2. \E i \in Known(s) : \A j \in Known(s) : i <= j
  BY <1>1, First
<1> QED
  BY <1>2 DEF FirstKnown, Known, Elements

\* The fingerprints of a request are in sequences.
LEMMA StrongIsSeq ==
  ASSUME NEW r \in Requests
  PROVE  (\E A : Strong(r) \in Seq(A)) /\ (\E A : r.text \in Seq(A))
<1> DEFINE A == UNION {Elements(r.named), Elements(r.tools), Elements(r.opening)}
<1>1. /\ r.named \in Seq(Elements(r.named)) /\ r.tools \in Seq(Elements(r.tools))
      /\ r.opening \in Seq(Elements(r.opening)) /\ r.text \in Seq(Elements(r.text))
  BY SessionConstants
<1>2. /\ Elements(r.named) \subseteq A /\ Elements(r.tools) \subseteq A
      /\ Elements(r.opening) \subseteq A
  OBVIOUS
<1>3. ASSUME NEW S, NEW T, S \subseteq T, NEW s \in Seq(S) PROVE s \in Seq(T)
  BY <1>3
<1> HIDE DEF A
<1>4. r.named \in Seq(A) /\ r.tools \in Seq(A) /\ r.opening \in Seq(A)
  BY <1>1, <1>2, <1>3
<1>5. Strong(r) \in Seq(A)
  BY <1>4 DEF Strong
<1> QED
  BY <1>1, <1>5

\* A request that is recognised gets the session of a living fingerprint it has.
LEMMA Recognised ==
  ASSUME NEW r \in Requests, IsKnown(r)
  PROVE  \E f \in Prints(r) :
           /\ f \in Living(records) /\ Session(r) = records[f].session
<1>1. CASE Known(Strong(r)) # {}
  <2>1. FirstKnown(Strong(r)) \in Elements(Strong(r)) \cap Living(records)
    BY <1>1, StrongIsSeq, FirstKnownIsKnown
  <2> QED
    BY <1>1, <2>1 DEF Session, Prints
<1>2. CASE Known(Strong(r)) = {} /\ Known(r.text) # {}
  <2>1. FirstKnown(r.text) \in Elements(r.text) \cap Living(records)
    BY <1>2, StrongIsSeq, FirstKnownIsKnown
  <2> QED
    BY <1>2, <2>1 DEF Session, Prints
<1> QED
  BY <1>1, <1>2 DEF IsKnown

\* A request with a living fingerprint is recognised, and prolongs it.
LEMMA LivingIsKnown ==
  ASSUME NEW r \in Requests, NEW f \in Prints(r), f \in Living(records)
  PROVE  IsKnown(r) /\ f \in Refreshed(r)
<1>1. CASE f \in Elements(Strong(r))
  <2>1. Known(Strong(r)) # {}
    BY <1>1 DEF Elements, Known
  <2> QED
    BY <2>1 DEF IsKnown, Refreshed
<1>2. CASE f \in Elements(r.text)
  <2>1. Known(r.text) # {}
    BY <1>2 DEF Elements, Known
  <2> QED
    BY <1>2, <2>1 DEF IsKnown, Refreshed
<1> QED
  BY <1>1, <1>2 DEF Prints

LEMMA RefreshedIsOwn ==
  ASSUME NEW r \in Requests
  PROVE  Refreshed(r) \subseteq Prints(r) /\ (~IsKnown(r) => Refreshed(r) = Prints(r))
BY DEF Refreshed, Prints, IsKnown

\* A fingerprint says whose it is.
LEMMA OneConversation ==
  ASSUME NEW r \in Requests, NEW q \in Requests, NEW f \in Prints(r), f \in Prints(q)
  PROVE  r.of = q.of
BY SessionConstants

\* An anchor comes with every request of its conversation.
LEMMA AnchorIsOwn ==
  ASSUME NEW r \in Requests, NEW a \in Anchors(r.of)
  PROVE  a \in Prints(r)
BY DEF Anchors

-----------------------------------------------------------------------------
(* Tables.                                                                  *)

\* What has expired may be cleared away: an anchor outlives its conversation.
LEMMA PruningKeeps ==
  ASSUME NEW rs, Table(rs), clock \in Nat
  PROVE  /\ Table(Pruned(rs))
         /\ Remembers(rs) /\ latest \in [Conversations -> Answers] => Remembers(Pruned(rs))
<1> DEFINE ps == Pruned(rs)
<1>0. rs \in [DOMAIN rs -> Entry]
  BY DEF Table, Typed
<1>1. /\ DOMAIN ps = Living(rs) /\ Living(rs) \subseteq DOMAIN rs
      /\ \A f \in Living(rs) : ps[f] = rs[f] /\ rs[f].expires > clock
  BY DEF Pruned, Living
<1>2. Typed(ps)
  BY <1>1 DEF Table, Typed, Pruned
<1> HIDE DEF ps
<1>3. Apart(ps) /\ Recent(ps)
  BY <1>1 DEF Table, Apart, Recent
<1>4. Anchored(ps)
  <2> SUFFICES ASSUME NEW f \in Living(rs), NEW r \in Requests, f \in Prints(r),
                      NEW a \in Anchors(r.of)
               PROVE  /\ a \in Living(rs) /\ ps[a].session = ps[f].session
                      /\ ps[a].expires >= ps[f].expires
    BY <1>1 DEF Anchored
  <2>1. /\ a \in DOMAIN rs /\ rs[a].session = rs[f].session
        /\ rs[a].expires >= rs[f].expires
    BY <1>1 DEF Table, Anchored
  <2>2. rs[a].expires \in Nat /\ rs[f].expires \in Nat /\ rs[f].expires > clock
    BY <1>0, <1>1, <2>1 DEF Entry
  <2>3. a \in Living(rs)
    BY <2>1, <2>2 DEF Living
  <2> QED
    BY <1>1, <2>1, <2>3
<1>5. ASSUME Remembers(rs), latest \in [Conversations -> Answers] PROVE Remembers(ps)
  <2> SUFFICES ASSUME NEW c \in Conversations, InTime(c), NEW a \in Anchors(c)
               PROVE  /\ a \in DOMAIN ps /\ ps[a].session = latest[c].session
                      /\ ps[a].expires >= latest[c].at + Ttl
    BY DEF Remembers
  <2>1. /\ a \in DOMAIN rs /\ rs[a].session = latest[c].session
        /\ rs[a].expires >= latest[c].at + Ttl /\ clock < latest[c].at + Ttl
    BY <1>5 DEF Remembers, InTime
  <2>2. rs[a].expires \in Nat /\ latest[c].at \in Nat /\ Ttl \in Nat
    BY <1>0, <1>5, <2>1, SessionConstants DEF Entry, Answers
  <2>3. a \in Living(rs)
    BY <2>1, <2>2 DEF Living
  <2> QED
    BY <1>1, <2>1, <2>3
<1> QED
  BY <1>2, <1>3, <1>4, <1>5 DEF Table, ps

LEMMA SessionInitial == SessionInit => SessionInv
<1> SUFFICES ASSUME SessionInit PROVE SessionInv
  OBVIOUS
<1>1. /\ records = Empty /\ stored = Empty /\ DOMAIN Empty = {}
      /\ Empty \in [DOMAIN Empty -> Entry]
  BY DEF SessionInit, Empty
<1>2. Table(records) /\ Table(stored)
  BY <1>1 DEF Table, Typed, Apart, Anchored, Recent
<1>3. latest \in [Conversations -> Answers]
  BY DEF SessionInit, NoAnswer, Answers
<1>4. \A c \in Conversations : ~InTime(c)
  BY DEF SessionInit, NoAnswer, InTime
<1> QED
  BY <1>2, <1>3, <1>4 DEF SessionInv, SessionInit, Remembers, SteadyStays

-----------------------------------------------------------------------------
(* The steps.                                                               *)

\* What a recognised request, or one that begins a session, leaves.
LEMMA InferKeeps ==
  ASSUME SessionInv, NEW r \in Requests, Infer(r)
  PROVE  SessionInv'
<1> DEFINE L == Living(records)
           F == Refreshed(r)
           s == Session(r)
           new == [session |-> s, expires |-> clock + Ttl]
<1>0. /\ issued \in Nat /\ clock \in Nat /\ Ttl \in Nat /\ Table(records) /\ Table(stored)
      /\ latest \in [Conversations -> Answers] /\ r.of \in Conversations
      /\ Remembers(records) /\ (~behind => Remembers(stored)) /\ SteadyStays
      /\ switched \subseteq Conversations
  BY SessionConstants DEF SessionInv, Conversations
<1>1. /\ records' = [f \in L \cup F |-> IF f \in F THEN new ELSE records[f]]
      /\ issued' = (IF IsKnown(r) THEN issued ELSE issued + 1)
      /\ latest' = [latest EXCEPT ![r.of] = [session |-> s, at |-> clock]]
      /\ switched' = (IF InTime(r.of) /\ latest[r.of].session # s
                       THEN switched \cup {r.of} ELSE switched)
      /\ clock' = clock /\ Save
  BY DEF Infer
<1>2. /\ L \subseteq DOMAIN records /\ F \subseteq Prints(r)
      /\ records \in [DOMAIN records -> Entry]
      /\ \A f \in L : records[f].expires > clock /\ records[f].session <= issued
                     /\ records[f].expires <= clock + Ttl
                     /\ \E q \in Requests : f \in Prints(q)
  BY <1>0, RefreshedIsOwn DEF Living, Table, Typed, Recent
<1>3. \A f \in L : records[f].session \in Nat /\ records[f].expires \in Nat
  BY <1>2 DEF Entry
<1>4. IsKnown(r) => \E f \in Prints(r) \cap L : s = records[f].session
  BY Recognised
<1>5. ~IsKnown(r) => s = issued + 1 /\ Prints(r) \cap L = {}
  BY LivingIsKnown DEF Session, IsKnown
<1>6. s \in Nat /\ s <= issued' /\ issued' \in Nat /\ issued <= issued'
  <2>1. CASE IsKnown(r)
    BY <1>0, <1>1, <1>2, <1>3, <1>4, <2>1
  <2>2. CASE ~IsKnown(r)
    BY <1>0, <1>1, <1>5, <2>2
  <2> QED
    BY <2>1, <2>2
<1>7. /\ DOMAIN records' = L \cup F
      /\ \A f \in F : records'[f] = new
      /\ \A f \in L \ F : records'[f] = records[f] /\ f \notin Prints(r)
  BY <1>1, LivingIsKnown
<1>8. new.session = s /\ new.expires = clock + Ttl /\ new \in Entry
  BY <1>0, <1>6 DEF Entry
<1> HIDE DEF L, F, s, new
\* The anchors of r's conversation are among what it leaves.
<1>9. \A a \in Anchors(r.of) : a \in F
  <2> SUFFICES ASSUME NEW a \in Anchors(r.of) PROVE a \in F
    OBVIOUS
  <2>1. a \in Prints(r)
    BY AnchorIsOwn
  <2>2. CASE ~IsKnown(r)
    BY <2>1, <2>2, RefreshedIsOwn DEF F
  <2>3. CASE IsKnown(r)
    <3>1. PICK f \in Prints(r) \cap L : TRUE
      BY <1>4, <2>3
    <3>2. /\ a \in DOMAIN records /\ records[a].expires >= records[f].expires
          /\ records[f].expires > clock /\ records[f].expires \in Nat
      BY <1>0, <1>2, <1>3, <3>1 DEF Table, Anchored
    <3>3. records[a].expires \in Nat
      BY <1>2, <3>2 DEF Entry
    <3>4. a \in L
      BY <1>0, <3>2, <3>3 DEF Living, L
    <3> QED
      BY <2>1, <3>4, LivingIsKnown DEF L, F
  <2> QED
    BY <2>2, <2>3
\* Everything of r's conversation that lives has the session r gets, if the
\* conversation has an anchor; and so has everything with that session.
<1>10. ASSUME NEW a \in Anchors(r.of), NEW f \in L, NEW q \in Requests,
              f \in Prints(q), q.of = r.of
       PROVE  records[f].session = s
  <2>1. /\ a \in DOMAIN records /\ records[a].session = records[f].session
        /\ records[a].expires >= records[f].expires
    BY <1>0, <1>2, <1>10 DEF Table, Anchored
  <2>2. a \in Prints(r) /\ records[a].expires \in Nat
    BY <1>2, <2>1, AnchorIsOwn DEF Entry
  <2>3. a \in L
    BY <1>0, <1>2, <1>3, <2>1, <2>2 DEF Living, L
  <2>4. IsKnown(r)
    BY <2>2, <2>3, LivingIsKnown DEF L
  <2>5. PICK g \in Prints(r) \cap L : s = records[g].session
    BY <1>4, <2>4
  <2>6. records[a].session = records[g].session
    BY <1>0, <1>2, <2>5 DEF Table, Anchored
  <2> QED
    BY <2>1, <2>5, <2>6
<1>11. ASSUME NEW f \in L, records[f].session = s, NEW q \in Requests, f \in Prints(q)
       PROVE  q.of = r.of
  <2>1. IsKnown(r)
    BY <1>0, <1>2, <1>3, <1>5, <1>11
  <2>2. PICK g \in Prints(r) \cap L : s = records[g].session
    BY <1>4, <2>1
  <2> QED
    BY <1>0, <1>2, <1>11, <2>2 DEF Table, Apart
<1>12. Typed(records)'
  <2>1. records' \in [DOMAIN records' -> Entry]
    BY <1>1, <1>2, <1>7, <1>8
  <2>2. ASSUME NEW f \in DOMAIN records' PROVE records'[f].session <= issued'
    <3>1. CASE f \in F
      BY <1>6, <1>7, <1>8, <3>1
    <3>2. CASE f \in L \ F
      BY <1>0, <1>2, <1>3, <1>6, <1>7, <3>2
    <3> QED
      BY <1>7, <3>1, <3>2
  <2> QED
    BY <2>1, <2>2 DEF Typed
<1>13. Apart(records)'
  <2> SUFFICES ASSUME NEW f \in L \cup F, NEW g \in L \cup F,
                      records'[f].session = records'[g].session,
                      NEW p \in Requests, NEW q \in Requests,
                      f \in Prints(p), g \in Prints(q)
               PROVE  p.of = q.of
    BY <1>7 DEF Apart
  <2>1. f \in F => p.of = r.of
    BY <1>2, OneConversation
  <2>2. g \in F => q.of = r.of
    BY <1>2, OneConversation
  <2>3. CASE f \in F /\ g \notin F
    BY <1>7, <1>8, <1>11, <2>1, <2>3
  <2>4. CASE f \notin F /\ g \in F
    BY <1>7, <1>8, <1>11, <2>2, <2>4
  <2>5. CASE f \notin F /\ g \notin F
    BY <1>0, <1>2, <1>7, <2>5 DEF Table, Apart
  <2> QED
    BY <2>1, <2>2, <2>3, <2>4, <2>5
<1>14. Recent(records)'
  <2> SUFFICES ASSUME NEW f \in L \cup F
               PROVE  /\ \E q \in Requests : f \in Prints(q)
                      /\ records'[f].expires <= clock + Ttl
    BY <1>1, <1>7 DEF Recent
  <2>1. CASE f \in F
    BY <1>0, <1>2, <1>7, <1>8, <2>1
  <2>2. CASE f \in L \ F
    BY <1>2, <1>7, <2>2
  <2> QED
    BY <2>1, <2>2
<1>15. Anchored(records)'
  <2> SUFFICES ASSUME NEW f \in L \cup F, NEW q \in Requests, f \in Prints(q),
                      NEW a \in Anchors(q.of)
               PROVE  /\ a \in L \cup F /\ records'[a].session = records'[f].session
                      /\ records'[a].expires >= records'[f].expires
    BY <1>7 DEF Anchored
  <2>1. CASE q.of = r.of
    <3>1. a \in F /\ records'[a] = new
      BY <1>7, <1>9, <2>1
    <3>2. CASE f \in F
      BY <1>0, <1>7, <1>8, <3>1, <3>2
    <3>3. CASE f \in L \ F
      BY <1>0, <1>2, <1>7, <1>8, <1>10, <2>1, <3>1, <3>3
    <3> QED
      BY <3>1, <3>2, <3>3
  <2>2. CASE q.of # r.of
    <3>1. f \in L \ F
      BY <1>2, <2>2, OneConversation
    <3>2. /\ a \in DOMAIN records /\ records[a].session = records[f].session
          /\ records[a].expires >= records[f].expires
      BY <1>0, <1>2, <3>1 DEF Table, Anchored
    <3>3. records[a].expires \in Nat /\ a \in Prints(q)
      BY <1>2, <3>2, AnchorIsOwn DEF Entry
    <3>4. a \in L
      BY <1>0, <1>2, <1>3, <3>1, <3>2, <3>3 DEF Living, L
    <3>5. a \notin F
      BY <1>2, <2>2, <3>3, OneConversation
    <3> QED
      BY <1>7, <3>1, <3>2, <3>4, <3>5
  <2> QED
    BY <2>1, <2>2
<1>16. Table(records)'
  BY <1>12, <1>13, <1>14, <1>15 DEF Table
<1>17. /\ latest' \in [Conversations -> Answers]
       /\ latest'[r.of] = [session |-> s, at |-> clock]
       /\ \A c \in Conversations \ {r.of} : latest'[c] = latest[c]
  <2>1. [session |-> s, at |-> clock] \in Answers
    BY <1>0, <1>6 DEF Answers
  <2> QED
    BY <1>0, <1>1, <2>1
<1>18. Remembers(records)'
  <2> SUFFICES ASSUME NEW c \in Conversations, InTime(c)', NEW a \in Anchors(c)
               PROVE  /\ a \in DOMAIN records' /\ records'[a].session = latest'[c].session
                      /\ records'[a].expires >= latest'[c].at + Ttl
    BY DEF Remembers
  <2>1. CASE c = r.of
    BY <1>0, <1>7, <1>8, <1>9, <1>17, <2>1
  <2>2. CASE c # r.of
    <3>1. InTime(c)
      BY <1>1, <1>17, <2>2 DEF InTime
    <3>2. /\ a \in DOMAIN records /\ records[a].session = latest[c].session
          /\ records[a].expires >= latest[c].at + Ttl /\ clock < latest[c].at + Ttl
      BY <1>0, <3>1 DEF Remembers, InTime
    <3>3. records[a].expires \in Nat /\ latest[c].at \in Nat
      BY <1>0, <1>2, <3>2 DEF Entry, Answers
    <3>4. a \in L
      BY <1>0, <3>2, <3>3 DEF Living, L
    <3>5. a \notin F
      <4>1. PICK q \in Requests : q.of = c
        BY DEF Conversations
      <4>2. a \in Prints(q)
        BY <4>1, AnchorIsOwn
      <4> QED
        BY <1>2, <2>2, <4>1, <4>2, OneConversation
    <3> QED
      BY <1>7, <1>17, <2>2, <3>2, <3>4, <3>5
  <2> QED
    BY <2>1, <2>2
<1>19. Table(stored)' /\ (~behind' => Remembers(stored)')
  <2>1. ASSUME NEW rs, Table(rs) PROVE Table(rs)'
    <3>1. rs \in [DOMAIN rs -> Entry]
      BY <2>1 DEF Table, Typed
    <3>2. Typed(rs)'
      <4> SUFFICES ASSUME NEW f \in DOMAIN rs PROVE rs[f].session <= issued'
        BY <3>1 DEF Typed
      <4>1. rs[f].session <= issued /\ rs[f].session \in Nat
        BY <2>1, <3>1 DEF Table, Typed, Entry
      <4> QED
        BY <1>0, <1>6, <4>1
    <3> QED
      BY <1>1, <2>1, <3>2 DEF Table, Apart, Anchored, Recent
  <2>2. Table(Empty)
    BY DEF Empty, Table, Typed, Apart, Anchored, Recent
  <2>3. \/ stored' = records'
        \/ stored' \in {stored, Empty} /\ behind' = TRUE
    BY <1>1 DEF Save
  <2>4. CASE stored' = records'
    BY <1>16, <1>18, <2>4 DEF Table, Typed, Apart, Anchored, Recent, Remembers
  <2>5. CASE stored' \in {stored, Empty} /\ behind' = TRUE
    <3>1. PICK rs : Table(rs) /\ stored' = rs
      BY <1>0, <2>2, <2>5
    <3>2. Table(rs)'
      BY <2>1, <3>1
    <3> QED
      BY <2>5, <3>1, <3>2 DEF Table, Typed, Apart, Anchored, Recent
  <2> QED
    BY <2>3, <2>4, <2>5
<1>20. SteadyStays' /\ switched' \subseteq Conversations
  <2>1. ASSUME InTime(r.of), NEW a \in Anchors(r.of) PROVE latest[r.of].session = s
    <3>1. /\ a \in DOMAIN records /\ records[a].session = latest[r.of].session
          /\ records[a].expires >= latest[r.of].at + Ttl /\ clock < latest[r.of].at + Ttl
      BY <1>0, <2>1 DEF Remembers, InTime
    <3>2. records[a].expires \in Nat /\ latest[r.of].at \in Nat /\ a \in Prints(r)
      BY <1>0, <1>2, <3>1, AnchorIsOwn DEF Entry, Answers
    <3>3. a \in L
      BY <1>0, <3>1, <3>2 DEF Living, L
    <3> QED
      BY <1>10, <3>1, <3>2, <3>3
  <2> QED
    BY <1>0, <1>1, <2>1 DEF SteadyStays
<1> QED
  BY <1>0, <1>1, <1>6, <1>16, <1>17, <1>18, <1>19, <1>20 DEF SessionInv

\* What has expired is cleared away, and time passes.
LEMMA OthersKeep ==
  ASSUME SessionInv,
         \/ \E r \in Requests : InferNothing(r)
         \/ RestartTracker \/ TimePasses \/ UNCHANGED sessionVars
  PROVE  SessionInv'
<1>0. /\ issued \in Nat /\ clock \in Nat /\ latest \in [Conversations -> Answers]
      /\ switched \subseteq Conversations
      /\ Table(records) /\ Table(stored) /\ Ttl \in Nat
      /\ Remembers(records) /\ (~behind => Remembers(stored)) /\ SteadyStays
  BY SessionConstants DEF SessionInv
<1>1. ASSUME NEW rs, UNCHANGED <<issued, clock>>, Table(rs) PROVE Table(rs)'
  BY <1>1 DEF Table, Typed, Apart, Anchored, Recent
<1>2. ASSUME NEW rs, UNCHANGED <<clock, latest>>, Remembers(rs) PROVE Remembers(rs)'
  BY <1>2 DEF Remembers, InTime
<1>3. CASE UNCHANGED sessionVars
  BY <1>3 DEF sessionVars, SessionInv, Table, Typed, Apart, Anchored, Recent,
     Remembers, InTime, SteadyStays
<1>4. CASE \E r \in Requests : InferNothing(r)
  <2>1. /\ records' = Pruned(records)
        /\ UNCHANGED <<stored, issued, clock, latest, behind, switched>>
    BY <1>4 DEF InferNothing
  <2>2. Table(Pruned(records)) /\ Remembers(Pruned(records))
    BY <1>0, PruningKeeps
  <2>3. PICK ps : ps = Pruned(records)
    OBVIOUS
  <2>4. Table(ps)' /\ Remembers(ps)' /\ records' = ps
    BY <1>1, <1>2, <2>1, <2>2, <2>3
  <2>5. Table(records)' /\ Remembers(records)'
    BY <2>4 DEF Table, Typed, Apart, Anchored, Recent, Remembers
  <2>6. Table(stored)' /\ (~behind' => Remembers(stored)')
    BY <1>0, <2>1 DEF Table, Typed, Apart, Anchored, Recent, Remembers, InTime
  <2> QED
    BY <1>0, <2>1, <2>5, <2>6 DEF SessionInv, SteadyStays
<1>5. CASE RestartTracker
  <2>1. /\ records' = Pruned(stored)
        /\ latest' = IF behind THEN [c \in Conversations |-> NoAnswer] ELSE latest
        /\ UNCHANGED <<stored, issued, clock, behind, switched>>
    BY <1>5 DEF RestartTracker
  <2>2. Table(Pruned(stored)) /\ (~behind => Remembers(Pruned(stored)))
    BY <1>0, PruningKeeps
  <2>3. PICK ps : ps = Pruned(stored)
    OBVIOUS
  <2>4. Table(ps)' /\ records' = ps
    BY <1>1, <2>1, <2>2, <2>3
  <2>5. Table(records)'
    BY <2>4 DEF Table, Typed, Apart, Anchored, Recent
  <2>6. latest' \in [Conversations -> Answers]
    BY <1>0, <2>1 DEF Answers, NoAnswer
  <2>7. Remembers(records)' /\ (~behind' => Remembers(stored)')
    <3>1. CASE behind
      <4>1. \A c \in Conversations : ~InTime(c)'
        BY <2>1, <3>1 DEF InTime, NoAnswer
      <4> QED
        BY <2>1, <3>1, <4>1 DEF Remembers
    <3>2. CASE ~behind
      <4>1. Remembers(ps)' /\ Remembers(stored)'
        BY <1>0, <2>1, <2>2, <2>3, <3>2 DEF Remembers, InTime
      <4> QED
        BY <2>4, <4>1 DEF Remembers
    <3> QED
      BY <3>1, <3>2
  <2>8. Table(stored)'
    BY <1>0, <2>1 DEF Table, Typed, Apart, Anchored, Recent
  <2> QED
    BY <1>0, <2>1, <2>5, <2>6, <2>7, <2>8 DEF SessionInv, SteadyStays
<1>6. CASE TimePasses
  <2>1. clock' = clock + 1 /\ UNCHANGED <<records, stored, issued, latest, behind, switched>>
    BY <1>6 DEF TimePasses
  <2>2. ASSUME NEW rs, Table(rs) PROVE Table(rs)'
    <3>1. Recent(rs)'
      <4> SUFFICES ASSUME NEW f \in DOMAIN rs
                   PROVE  (\E r \in Requests : f \in Prints(r)) /\ rs[f].expires <= clock' + Ttl
        BY DEF Recent
      <4>1. /\ \E r \in Requests : f \in Prints(r)
            /\ rs[f].expires <= clock + Ttl /\ rs[f].expires \in Nat
        BY <2>2 DEF Table, Typed, Recent, Entry
      <4> QED
        BY <1>0, <2>1, <4>1
    <3> QED
      BY <2>1, <2>2, <3>1 DEF Table, Typed, Apart, Anchored
  <2>3. \A c \in Conversations : InTime(c)' => InTime(c)
    <3> SUFFICES ASSUME NEW c \in Conversations, InTime(c)' PROVE InTime(c)
      OBVIOUS
    <3>1. latest[c].at \in Nat /\ clock' < latest[c].at + Ttl
      BY <1>0, <2>1 DEF InTime, Answers
    <3>2. clock < latest[c].at + Ttl
      BY <1>0, <2>1, <3>1
    <3> QED
      BY <2>1, <3>2 DEF InTime
  <2>4. Table(records)' /\ Table(stored)'
    <3>1. PICK rs, ps : rs = records /\ ps = stored
      OBVIOUS
    <3>2. Table(rs)' /\ Table(ps)'
      BY <1>0, <2>2, <3>1
    <3> QED
      BY <2>1, <3>1, <3>2 DEF Table, Typed, Apart, Anchored, Recent
  <2>5. Remembers(records)' /\ (~behind' => Remembers(stored)')
    BY <1>0, <2>1, <2>3 DEF Remembers
  <2> QED
    BY <1>0, <2>1, <2>4, <2>5 DEF SessionInv, SteadyStays
<1> QED
  BY <1>3, <1>4, <1>5, <1>6

LEMMA SessionInvInductive == SessionInv /\ [SessionNext]_sessionVars => SessionInv'
BY InferKeeps, OthersKeep DEF SessionNext

\* For every mix of requests, however fingerprints expire, whatever writes of the
\* file fail and whenever the process restarts: nobody gets the session of
\* another conversation, and a conversation with an anchor that goes on in time
\* keeps the session it has.
THEOREM SessionsAreKept == SessionSpec => []SessionKept
<1>1. SessionInv => SessionKept
  <2> SUFFICES ASSUME SessionInv PROVE SessionKept
    OBVIOUS
  <2>1. SessionsApart /\ SteadyStays
    BY DEF SessionInv, Table, Apart, SessionsApart
  <2>2. AnchorKept
    <3> SUFFICES ASSUME NEW c \in Conversations, InTime(c), NEW a \in Anchors(c)
                 PROVE  a \in Living(records) /\ records[a].session = latest[c].session
      BY DEF AnchorKept
    <3>1. /\ a \in DOMAIN records /\ records[a].session = latest[c].session
          /\ records[a].expires >= latest[c].at + Ttl /\ clock < latest[c].at + Ttl
      BY DEF SessionInv, Remembers, InTime
    <3>2. /\ records[a].expires \in Nat /\ latest[c].at \in Nat
          /\ Ttl \in Nat /\ clock \in Nat
      BY <3>1, SessionConstants DEF SessionInv, Table, Typed, Entry, Answers
    <3> QED
      BY <3>1, <3>2 DEF Living
  <2> QED
    BY <2>1, <2>2 DEF SessionKept
<1> QED
  BY <1>1, SessionInitial, SessionInvInductive, PTL DEF SessionSpec

(***************************************************************************)
(* The streamed answer.                                                    *)
(***************************************************************************)
\* The fields of the client's view and of the wrapper's locals.
ViewFields == {"started", "open", "seen", "tools", "stop", "stopped", "input", "output",
               "faults"}
LocalFields == {"started", "thinking", "text", "index", "textual", "delayed", "writing",
                "finish", "input", "output", "calls", "blocks", "view"}

LocalsTyped(s) ==
  /\ DOMAIN s = LocalFields /\ DOMAIN s.view = ViewFields
  /\ s.started \in BOOLEAN /\ s.thinking \in BOOLEAN /\ s.text \in BOOLEAN
  /\ s.textual \in BOOLEAN /\ s.delayed \in BOOLEAN /\ s.writing \in BOOLEAN
  /\ s.index \in Nat /\ s.input \in 0..1 /\ s.output \in 0..1
  /\ s.finish \in {"none", "stop", "length", "tool_calls"}

\* Calls are numbered from 0; one the wrapper made has its arguments.
CallsFit(s) ==
  /\ \E k \in Nat : DOMAIN s.calls = 0..k-1
  /\ \A i \in DOMAIN s.calls :
       /\ s.calls[i] \in Call
       /\ ~s.calls[i].native => s.calls[i].args = "json"

Blocks(s) == {s.blocks[i] : i \in DOMAIN s.blocks}

\* Each block is of one call that has a name; the client has got the arguments
\* of those the wrapper made, and none of the others.
BlocksFit(s) ==
  /\ \A i \in DOMAIN s.blocks :
       /\ i \in DOMAIN s.calls /\ s.calls[i].named
       /\ s.blocks[i] \in 0..s.index-1
       /\ \A j \in DOMAIN s.blocks : s.blocks[i] = s.blocks[j] => i = j
       /\ s.view.tools[s.blocks[i]] = IF s.calls[i].native THEN "" ELSE "json"
  /\ DOMAIN s.view.tools = Blocks(s)
  /\ DOMAIN s.view.tools \subseteq s.view.seen
  /\ s.view.stop = "none"

\* The blocks the client sees open are those of tool calls and the one at the
\* current index.
Shown(s) == IF s.thinking \/ s.text THEN {s.index} ELSE {}
Orderly(s) ==
  /\ s.view.faults = {} /\ ~s.view.stopped /\ s.view.started = s.started
  /\ ~(s.thinking /\ s.text)
  /\ s.view.open = Blocks(s) \cup Shown(s)
  /\ s.view.seen = (0..s.index-1) \cup Shown(s)

\* x: reasoning has come while text was open, for which no block is closed.
Streaming(s, x) ==
  /\ LocalsTyped(s) /\ CallsFit(s) /\ BlocksFit(s)
  /\ ~x => Orderly(s)

\* What each event does to the client's view.
LEMMA ViewStarts ==
  ASSUME NEW v, NEW input, DOMAIN v = ViewFields
  PROVE  LET u == MessageStart(v, input)
         IN /\ DOMAIN u = ViewFields
            /\ u.open = v.open /\ u.seen = v.seen /\ u.tools = v.tools
            /\ u.stop = v.stop /\ u.stopped = v.stopped /\ u.started
            /\ ~v.started => u.faults = v.faults
  BY DEF MessageStart, Fault, ViewFields

LEMMA ViewOpens ==
  ASSUME NEW v, NEW i, DOMAIN v = ViewFields
  PROVE  LET u == BlockStart(v, i)
         IN /\ DOMAIN u = ViewFields
            /\ u.open = v.open \cup {i} /\ u.seen = v.seen \cup {i} /\ u.tools = v.tools
            /\ u.stop = v.stop /\ u.stopped = v.stopped /\ u.started = v.started
            /\ v.started /\ ~v.stopped /\ i = Cardinality(v.seen) => u.faults = v.faults
  BY DEF BlockStart, Fault, ViewFields

LEMMA ViewChanges ==
  ASSUME NEW v, NEW i, DOMAIN v = ViewFields
  PROVE  LET u == Delta(v, i)
         IN /\ DOMAIN u = ViewFields
            /\ u.open = v.open /\ u.seen = v.seen /\ u.tools = v.tools
            /\ u.stop = v.stop /\ u.stopped = v.stopped /\ u.started = v.started
            /\ i \in v.open => u.faults = v.faults
  BY DEF Delta, Fault, ViewFields

LEMMA ViewCloses ==
  ASSUME NEW v, NEW i, DOMAIN v = ViewFields
  PROVE  LET u == BlockStop(v, i)
         IN /\ DOMAIN u = ViewFields
            /\ u.open = v.open \ {i} /\ u.seen = v.seen /\ u.tools = v.tools
            /\ u.stop = v.stop /\ u.stopped = v.stopped /\ u.started = v.started
            /\ i \in v.open => u.faults = v.faults
  BY DEF BlockStop, Fault, ViewFields

LEMMA ViewEnds ==
  ASSUME NEW v, NEW reason, NEW output, DOMAIN v = ViewFields
  PROVE  LET u == MessageStop(v, reason, output)
         IN /\ DOMAIN u = ViewFields
            /\ u.open = v.open /\ u.seen = v.seen /\ u.tools = v.tools
            /\ u.stop = reason /\ u.stopped /\ u.started = v.started
            /\ v.open = {} /\ v.started /\ ~v.stopped => u.faults = v.faults
  BY DEF MessageStop, Fault, ViewFields

\* A function with one value set.
With(f, i, e) == [j \in DOMAIN f \cup {i} |-> IF j = i THEN e ELSE f[j]]

\* A tool block that starts has no arguments yet.
Blank(f, i) == With(f, i, "")

LEMMA WithProperties ==
  ASSUME NEW f, NEW i, NEW e
  PROVE  /\ DOMAIN With(f, i, e) = DOMAIN f \cup {i}
         /\ With(f, i, e)[i] = e
         /\ \A j \in DOMAIN f : j # i => With(f, i, e)[j] = f[j]
  BY DEF With

\* A tool block is opened with no arguments.
LEMMA ViewCalls ==
  ASSUME NEW v, NEW i, DOMAIN v = ViewFields
  PROVE  LET u == ToolStart(v, i)
         IN /\ DOMAIN u = ViewFields
            /\ u.open = v.open \cup {i} /\ u.seen = v.seen \cup {i}
            /\ u.stop = v.stop /\ u.stopped = v.stopped /\ u.started = v.started
            /\ u.tools = Blank(v.tools, i)
            /\ v.started /\ ~v.stopped /\ i = Cardinality(v.seen) => u.faults = v.faults
<1> DEFINE b == BlockStart(v, i)
           u == ToolStart(v, i)
           c == With(v.tools, i, "")
<1>1. /\ DOMAIN b = ViewFields
      /\ b.open = v.open \cup {i} /\ b.seen = v.seen \cup {i} /\ b.tools = v.tools
      /\ b.stop = v.stop /\ b.stopped = v.stopped /\ b.started = v.started
      /\ v.started /\ ~v.stopped /\ i = Cardinality(v.seen) => b.faults = v.faults
  BY ViewOpens
<1>2. u = [b EXCEPT !.tools = c]
  BY DEF ToolStart, With
<1> HIDE DEF b, c, u
<1>4. /\ DOMAIN u = ViewFields /\ u.tools = c
      /\ u.open = v.open \cup {i} /\ u.seen = v.seen \cup {i} /\ u.faults = b.faults
      /\ u.stop = v.stop /\ u.stopped = v.stopped /\ u.started = v.started
  BY <1>1, <1>2 DEF ViewFields
<1> QED BY <1>1, <1>4 DEF c, u, Blank

LEMMA ViewSends ==
  ASSUME NEW v, NEW i, NEW args, DOMAIN v = ViewFields, i \in v.open
  PROVE  LET u == ToolDelta(v, i, args)
         IN /\ DOMAIN u = ViewFields /\ u.open = v.open /\ u.seen = v.seen
            /\ u.stop = v.stop /\ u.stopped = v.stopped /\ u.started = v.started
            /\ u.faults = v.faults /\ u.tools = [v.tools EXCEPT ![i] = args]
<1> DEFINE d == Delta(v, i)  u == ToolDelta(v, i, args)
<1>1. /\ DOMAIN d = ViewFields
      /\ d.open = v.open /\ d.seen = v.seen /\ d.tools = v.tools
      /\ d.stop = v.stop /\ d.stopped = v.stopped /\ d.started = v.started
      /\ d.faults = v.faults
  BY ViewChanges
<1>2. u = [d EXCEPT !.tools = [d.tools EXCEPT ![i] = args]]
  BY DEF ToolDelta
<1> HIDE DEF d, u
<1>3. /\ DOMAIN u = ViewFields /\ u.open = v.open /\ u.seen = v.seen
      /\ u.stop = v.stop /\ u.stopped = v.stopped /\ u.started = v.started
      /\ u.faults = v.faults /\ u.tools = [v.tools EXCEPT ![i] = args]
  BY <1>1, <1>2 DEF ViewFields
<1> QED BY <1>3 DEF u

\* Whole blocks: nothing is left open but a block of a tool call.
LEMMA ViewWholeText ==
  ASSUME NEW v, NEW i, DOMAIN v = ViewFields
  PROVE  LET u == BlockStop(Delta(BlockStart(v, i), i), i)
         IN /\ DOMAIN u = ViewFields
            /\ u.open = v.open \ {i} /\ u.seen = v.seen \cup {i} /\ u.tools = v.tools
            /\ u.stop = v.stop /\ u.stopped = v.stopped /\ u.started = v.started
            /\ v.started /\ ~v.stopped /\ i = Cardinality(v.seen) => u.faults = v.faults
<1> DEFINE a == BlockStart(v, i)  b == Delta(a, i)  u == BlockStop(b, i)
<1>1. /\ DOMAIN a = ViewFields
      /\ a.open = v.open \cup {i} /\ a.seen = v.seen \cup {i} /\ a.tools = v.tools
      /\ a.stop = v.stop /\ a.stopped = v.stopped /\ a.started = v.started
      /\ v.started /\ ~v.stopped /\ i = Cardinality(v.seen) => a.faults = v.faults
  BY ViewOpens
<1> HIDE DEF a
<1>2. /\ DOMAIN b = ViewFields
      /\ b.open = a.open /\ b.seen = a.seen /\ b.tools = a.tools
      /\ b.stop = a.stop /\ b.stopped = a.stopped /\ b.started = a.started
      /\ i \in a.open => b.faults = a.faults
  BY <1>1, ViewChanges
<1> HIDE DEF b
<1>3. /\ DOMAIN u = ViewFields
      /\ u.open = b.open \ {i} /\ u.seen = b.seen /\ u.tools = b.tools
      /\ u.stop = b.stop /\ u.stopped = b.stopped /\ u.started = b.started
      /\ i \in b.open => u.faults = b.faults
  BY <1>2, ViewCloses
<1> HIDE DEF u
<1> QED BY <1>1, <1>2, <1>3 DEF a, b, u

\* A value that is set for the client.
Sent(f, i) == With(f, i, "json")

LEMMA ViewWholeTool ==
  ASSUME NEW v, NEW i, DOMAIN v = ViewFields
  PROVE  LET u == ToolDelta(ToolStart(v, i), i, "json")
         IN /\ DOMAIN u = ViewFields
            /\ u.open = v.open \cup {i} /\ u.seen = v.seen \cup {i}
            /\ u.tools = Sent(v.tools, i)
            /\ u.stop = v.stop /\ u.stopped = v.stopped /\ u.started = v.started
            /\ v.started /\ ~v.stopped /\ i = Cardinality(v.seen) => u.faults = v.faults
<1> DEFINE a == ToolStart(v, i)  u == ToolDelta(a, i, "json")
<1>1. /\ DOMAIN a = ViewFields
      /\ a.open = v.open \cup {i} /\ a.seen = v.seen \cup {i}
      /\ a.tools = Blank(v.tools, i)
      /\ a.stop = v.stop /\ a.stopped = v.stopped /\ a.started = v.started
      /\ v.started /\ ~v.stopped /\ i = Cardinality(v.seen) => a.faults = v.faults
  BY ViewCalls
<1> HIDE DEF a
<1>2. /\ DOMAIN u = ViewFields /\ u.open = a.open /\ u.seen = a.seen
      /\ u.stop = a.stop /\ u.stopped = a.stopped /\ u.started = a.started
      /\ u.faults = a.faults /\ u.tools = [a.tools EXCEPT ![i] = "json"]
  <2>1. i \in a.open
    BY <1>1
  <2> QED BY <1>1, <2>1, ViewSends
<1> HIDE DEF u
<1>3. u.tools = Sent(v.tools, i)
  BY <1>1, <1>2 DEF Blank, Sent, With
<1> QED BY <1>1, <1>2, <1>3 DEF a, u

LEMMA Numbered == ASSUME NEW n \in Nat PROVE Cardinality(0..n-1) = n
<1>1. Cardinality(0..n-1) = IF 0 > n-1 THEN 0 ELSE (n-1) - 0 + 1
  BY FS_Interval
<1> QED BY <1>1

\* What leaves calls and blocks alone.
LEMMA OthersStream ==
  ASSUME NEW s, NEW t, NEW x, Streaming(s, x), LocalsTyped(t),
         t.calls = s.calls, t.blocks = s.blocks, t.index >= s.index,
         t.view.tools = s.view.tools, t.view.stop = s.view.stop,
         s.view.seen \subseteq t.view.seen, ~x => Orderly(t)
  PROVE  Streaming(t, x)
<1>1. CallsFit(t)
  BY DEF Streaming, CallsFit
<1>2. s.index \in Nat /\ t.index \in Nat
  BY DEF Streaming, LocalsTyped
<1>3. ASSUME NEW i \in DOMAIN t.blocks PROVE t.blocks[i] \in 0..t.index-1
  <2>1. s.blocks[i] \in 0..s.index-1
    BY <1>3 DEF Streaming, BlocksFit
  <2> QED BY <1>2, <2>1
<1>4. BlocksFit(t)
  <2>0. BlocksFit(s)
    BY DEF Streaming
  <2>1. DOMAIN t.view.tools \subseteq t.view.seen
    BY <2>0 DEF BlocksFit
  <2>2. ASSUME NEW i \in DOMAIN t.blocks
        PROVE  /\ i \in DOMAIN t.calls /\ t.calls[i].named
               /\ \A j \in DOMAIN t.blocks : t.blocks[i] = t.blocks[j] => i = j
               /\ t.view.tools[t.blocks[i]] = IF t.calls[i].native THEN "" ELSE "json"
    BY <2>0, <2>2 DEF BlocksFit
  <2>3. DOMAIN t.view.tools = Blocks(t)
    <3>1. Blocks(t) = Blocks(s)
      BY DEF Blocks
    <3>2. DOMAIN s.view.tools = Blocks(s)
      BY <2>0 DEF BlocksFit
    <3> QED BY <3>1, <3>2
  <2>4. t.view.stop = "none"
    BY <2>0 DEF BlocksFit
  <2> QED BY <1>3, <2>1, <2>2, <2>3, <2>4 DEF BlocksFit
<1> QED BY <1>1, <1>4 DEF Streaming

\* The first chunk starts the message.
LEMMA StartStreams ==
  ASSUME NEW s, NEW x, Streaming(s, x)
  PROVE  /\ Streaming(Start(s), x) /\ Start(s).started
         /\ Start(s).calls = s.calls /\ Start(s).blocks = s.blocks
         /\ Start(s).text = s.text /\ Start(s).thinking = s.thinking
         /\ Start(s).textual = s.textual /\ Start(s).delayed = s.delayed
         /\ Start(s).finish = s.finish /\ Start(s).view.tools = s.view.tools
<1>1. CASE s.started
  BY <1>1 DEF Start
<1>2. CASE ~s.started
  <2> DEFINE t == Start(s)  u == MessageStart(s.view, s.input)
  <2>0. LocalsTyped(s)
    BY DEF Streaming
  <2>1. /\ DOMAIN u = ViewFields
        /\ u.open = s.view.open /\ u.seen = s.view.seen /\ u.tools = s.view.tools
        /\ u.stop = s.view.stop /\ u.stopped = s.view.stopped /\ u.started
        /\ ~s.view.started => u.faults = s.view.faults
    BY <2>0, ViewStarts DEF LocalsTyped
  <2>2. t = [s EXCEPT !.started = TRUE, !.view = u]
    BY <1>2 DEF Start
  <2> HIDE DEF t, u
  <2>3. /\ DOMAIN t = LocalFields /\ t.started = TRUE /\ t.view = u
        /\ t.thinking = s.thinking /\ t.text = s.text /\ t.index = s.index
        /\ t.textual = s.textual /\ t.delayed = s.delayed /\ t.writing = s.writing
        /\ t.finish = s.finish /\ t.input = s.input /\ t.output = s.output
        /\ t.calls = s.calls /\ t.blocks = s.blocks
    BY <2>0, <2>2 DEF LocalsTyped, LocalFields
  <2>4. LocalsTyped(t)
    BY <2>0, <2>1, <2>3 DEF LocalsTyped
  <2>5. ~x => Orderly(t)
    <3> SUFFICES ASSUME ~x PROVE Orderly(t)
      OBVIOUS
    <3>1. Orderly(s)
      BY DEF Streaming
    <3>2. t.view.faults = {} /\ ~t.view.stopped /\ t.view.started = t.started
      BY <1>2, <2>1, <2>3, <3>1 DEF Orderly
    <3>3. Blocks(t) = Blocks(s) /\ Shown(t) = Shown(s)
      BY <2>3 DEF Blocks, Shown
    <3> QED BY <2>1, <2>3, <3>1, <3>2, <3>3 DEF Orderly
  <2>6. t.index >= s.index /\ t.view.tools = s.view.tools
    BY <2>0, <2>1, <2>3 DEF LocalsTyped
  <2>7. t.view.stop = s.view.stop /\ s.view.seen \subseteq t.view.seen
    BY <2>1, <2>3
  <2>8. Streaming(t, x)
    BY <2>3, <2>4, <2>5, <2>6, <2>7, OthersStream
  <2> QED BY <2>3, <2>6, <2>8 DEF t
<1> QED BY <1>1, <1>2

\* What closes the block at the current index.
LEMMA BlockCloses ==
  ASSUME NEW s, NEW t, NEW x, Streaming(s, x), DOMAIN t = LocalFields,
         t.view = BlockStop(s.view, s.index), t.index = s.index + 1,
         t.started = s.started, t.thinking \in BOOLEAN, t.text \in BOOLEAN,
         t.textual = s.textual, t.delayed = s.delayed, t.writing = s.writing,
         t.finish = s.finish, t.input = s.input, t.output = s.output,
         t.calls = s.calls, t.blocks = s.blocks,
         s.thinking \/ s.text, ~x => ~t.thinking /\ ~t.text
  PROVE  Streaming(t, x) /\ t.view.tools = s.view.tools
<1> DEFINE u == BlockStop(s.view, s.index)
<1>0. LocalsTyped(s)
  BY DEF Streaming
<1>1. /\ DOMAIN u = ViewFields
      /\ u.open = s.view.open \ {s.index} /\ u.seen = s.view.seen
      /\ u.tools = s.view.tools /\ u.stop = s.view.stop
      /\ u.stopped = s.view.stopped /\ u.started = s.view.started
      /\ s.index \in s.view.open => u.faults = s.view.faults
  BY <1>0, ViewCloses DEF LocalsTyped
<1>2. t.view = u
  OBVIOUS
<1> HIDE DEF u
<1>3. s.index \in Nat /\ t.index \in Nat /\ t.index >= s.index
  BY <1>0 DEF LocalsTyped
<1>4. LocalsTyped(t)
  BY <1>0, <1>1, <1>2, <1>3 DEF LocalsTyped
<1>5. ~x => Orderly(t)
  <2> SUFFICES ASSUME ~x PROVE Orderly(t)
    OBVIOUS
  <2>1. Orderly(s) /\ Shown(s) = {s.index}
    BY DEF Streaming, Shown
  <2>2. t.view.faults = {} /\ ~t.view.stopped /\ t.view.started = t.started
    BY <1>1, <1>2, <2>1 DEF Orderly
  <2>3. Blocks(t) = Blocks(s) /\ Shown(t) = {}
    BY DEF Blocks, Shown
  <2>4. s.index \notin Blocks(s)
    <3>1. \A i \in DOMAIN s.blocks : s.blocks[i] \in 0..s.index-1
      BY DEF Streaming, BlocksFit
    <3> QED BY <1>3, <3>1 DEF Blocks
  <2>5. t.view.open = Blocks(t)
    BY <1>1, <1>2, <2>1, <2>3, <2>4 DEF Orderly
  <2>6. t.view.seen = (0..s.index-1) \cup {s.index}
    BY <1>1, <1>2, <2>1 DEF Orderly
  <2>7. 0..t.index-1 = (0..s.index-1) \cup {s.index}
    BY <1>3
  <2> QED BY <2>2, <2>3, <2>5, <2>6, <2>7 DEF Orderly
<1>6. t.view.tools = s.view.tools /\ t.view.stop = s.view.stop
  BY <1>1, <1>2
<1>7. s.view.seen \subseteq t.view.seen
  BY <1>1, <1>2
<1> QED BY <1>3, <1>4, <1>5, <1>6, <1>7, OthersStream

LEMMA ThinkingCloses ==
  ASSUME NEW s, NEW x, Streaming(s, x)
  PROVE  LET t == CloseThinking(s)
         IN /\ Streaming(t, x) /\ ~t.thinking
            /\ t.text = s.text /\ t.started = s.started
            /\ t.calls = s.calls /\ t.blocks = s.blocks /\ t.view.tools = s.view.tools
            /\ t.textual = s.textual /\ t.delayed = s.delayed
            /\ t.writing = s.writing /\ t.finish = s.finish
<1>1. CASE ~s.thinking
  BY <1>1 DEF CloseThinking
<1>2. CASE s.thinking
  <2> DEFINE t == CloseThinking(s)  u == BlockStop(s.view, s.index)
  <2>0. LocalsTyped(s)
    BY DEF Streaming
  <2>1. t = [s EXCEPT !.thinking = FALSE, !.index = @ + 1, !.view = u]
    BY <1>2 DEF CloseThinking
  <2> HIDE DEF t, u
  <2>2. /\ DOMAIN t = LocalFields /\ t.thinking = FALSE /\ t.view = u
        /\ t.started = s.started /\ t.text = s.text /\ t.index = s.index + 1
        /\ t.textual = s.textual /\ t.delayed = s.delayed /\ t.writing = s.writing
        /\ t.finish = s.finish /\ t.input = s.input /\ t.output = s.output
        /\ t.calls = s.calls /\ t.blocks = s.blocks
    BY <2>0, <2>1 DEF LocalsTyped, LocalFields
  <2>3. ~x => ~s.text
    BY <1>2 DEF Streaming, Orderly
  <2>4. s.text \in BOOLEAN
    BY <2>0 DEF LocalsTyped
  <2>5. Streaming(t, x) /\ t.view.tools = s.view.tools
    BY <1>2, <2>2, <2>3, <2>4, BlockCloses DEF u
  <2> QED BY <2>2, <2>5 DEF t
<1> QED BY <1>1, <1>2

LEMMA TextCloses ==
  ASSUME NEW s, NEW x, Streaming(s, x)
  PROVE  LET t == CloseText(s)
         IN /\ Streaming(t, x) /\ ~t.text
            /\ t.thinking = s.thinking /\ t.started = s.started
            /\ t.calls = s.calls /\ t.blocks = s.blocks /\ t.view.tools = s.view.tools
            /\ t.textual = s.textual /\ t.delayed = s.delayed
            /\ t.writing = s.writing /\ t.finish = s.finish
<1>1. CASE ~s.text
  BY <1>1 DEF CloseText
<1>2. CASE s.text
  <2> DEFINE t == CloseText(s)  u == BlockStop(s.view, s.index)
  <2>0. LocalsTyped(s)
    BY DEF Streaming
  <2>1. t = [s EXCEPT !.text = FALSE, !.index = @ + 1, !.view = u]
    BY <1>2 DEF CloseText
  <2> HIDE DEF t, u
  <2>2. /\ DOMAIN t = LocalFields /\ t.text = FALSE /\ t.view = u
        /\ t.started = s.started /\ t.thinking = s.thinking /\ t.index = s.index + 1
        /\ t.textual = s.textual /\ t.delayed = s.delayed /\ t.writing = s.writing
        /\ t.finish = s.finish /\ t.input = s.input /\ t.output = s.output
        /\ t.calls = s.calls /\ t.blocks = s.blocks
    BY <2>0, <2>1 DEF LocalsTyped, LocalFields
  <2>3. ~x => ~s.thinking
    BY <1>2 DEF Streaming, Orderly
  <2>4. s.thinking \in BOOLEAN
    BY <2>0 DEF LocalsTyped
  <2>5. Streaming(t, x) /\ t.view.tools = s.view.tools
    BY <1>2, <2>2, <2>3, <2>4, BlockCloses DEF u
  <2> QED BY <2>2, <2>5 DEF t
<1> QED BY <1>1, <1>2

\* What opens a block at the current index.
LEMMA BlockOpens ==
  ASSUME NEW s, NEW t, NEW x, Streaming(s, x), DOMAIN t = LocalFields,
         t.view = BlockStart(s.view, s.index), t.index = s.index,
         t.started = s.started, t.thinking \in BOOLEAN, t.text \in BOOLEAN,
         t.textual = s.textual, t.delayed = s.delayed, t.writing = s.writing,
         t.finish = s.finish, t.input = s.input, t.output = s.output,
         t.calls = s.calls, t.blocks = s.blocks, s.started,
         t.thinking \/ t.text,
         ~x => ~s.thinking /\ ~s.text /\ ~(t.thinking /\ t.text)
  PROVE  Streaming(t, x) /\ t.view.tools = s.view.tools
<1> DEFINE u == BlockStart(s.view, s.index)
<1>0. LocalsTyped(s)
  BY DEF Streaming
<1>1. /\ DOMAIN u = ViewFields
      /\ u.open = s.view.open \cup {s.index} /\ u.seen = s.view.seen \cup {s.index}
      /\ u.tools = s.view.tools /\ u.stop = s.view.stop
      /\ u.stopped = s.view.stopped /\ u.started = s.view.started
      /\ s.view.started /\ ~s.view.stopped /\ s.index = Cardinality(s.view.seen)
           => u.faults = s.view.faults
  BY <1>0, ViewOpens DEF LocalsTyped
<1>2. t.view = u
  OBVIOUS
<1> HIDE DEF u
<1>3. s.index \in Nat /\ t.index \in Nat /\ t.index >= s.index
  BY <1>0 DEF LocalsTyped
<1>4. LocalsTyped(t)
  BY <1>0, <1>1, <1>2, <1>3 DEF LocalsTyped
<1>5. ~x => Orderly(t)
  <2> SUFFICES ASSUME ~x PROVE Orderly(t)
    OBVIOUS
  <2>1. Orderly(s) /\ Shown(s) = {}
    BY DEF Streaming, Shown
  <2>2. s.view.seen = 0..s.index-1
    BY <2>1 DEF Orderly
  <2>3. Cardinality(s.view.seen) = s.index
    BY <1>3, <2>2, Numbered
  <2>4. t.view.faults = {} /\ ~t.view.stopped /\ t.view.started = t.started
    BY <1>1, <1>2, <2>1, <2>3 DEF Orderly
  <2>5. Blocks(t) = Blocks(s) /\ Shown(t) = {t.index}
    BY DEF Blocks, Shown
  <2>6. t.view.open = Blocks(t) \cup Shown(t)
    BY <1>1, <1>2, <2>1, <2>5 DEF Orderly
  <2>7. t.view.seen = (0..t.index-1) \cup Shown(t)
    BY <1>1, <1>2, <2>2, <2>5
  <2> QED BY <2>4, <2>6, <2>7 DEF Orderly
<1>6. t.view.tools = s.view.tools /\ t.view.stop = s.view.stop
  BY <1>1, <1>2
<1>7. s.view.seen \subseteq t.view.seen
  BY <1>1, <1>2
<1> QED BY <1>3, <1>4, <1>5, <1>6, <1>7, OthersStream

\* A block for thinking is opened when no text is open.
LEMMA ThinkingOpens ==
  ASSUME NEW s, NEW x, Streaming(s, x), s.started, ~x => ~s.text
  PROVE  LET t == OpenThinking(s)
         IN /\ Streaming(t, x) /\ t.thinking /\ t.started
            /\ t.calls = s.calls
<1>1. CASE s.thinking
  BY <1>1 DEF OpenThinking
<1>2. CASE ~s.thinking
  <2> DEFINE t == OpenThinking(s)  u == BlockStart(s.view, s.index)
  <2>0. LocalsTyped(s)
    BY DEF Streaming
  <2>1. t = [s EXCEPT !.thinking = TRUE, !.view = u]
    BY <1>2 DEF OpenThinking
  <2> HIDE DEF t, u
  <2>2. /\ DOMAIN t = LocalFields /\ t.thinking = TRUE /\ t.view = u
        /\ t.started = s.started /\ t.text = s.text /\ t.index = s.index
        /\ t.textual = s.textual /\ t.delayed = s.delayed /\ t.writing = s.writing
        /\ t.finish = s.finish /\ t.input = s.input /\ t.output = s.output
        /\ t.calls = s.calls /\ t.blocks = s.blocks
    BY <2>0, <2>1 DEF LocalsTyped, LocalFields
  <2>3. s.text \in BOOLEAN
    BY <2>0 DEF LocalsTyped
  <2>4. Streaming(t, x)
    BY <1>2, <2>2, <2>3, BlockOpens DEF u
  <2> QED BY <2>2, <2>4 DEF t
<1> QED BY <1>1, <1>2

LEMMA TextOpens ==
  ASSUME NEW s, NEW x, Streaming(s, x), s.started, ~x => ~s.thinking
  PROVE  LET t == OpenText(s)
         IN /\ Streaming(t, x) /\ t.text /\ t.started
            /\ t.calls = s.calls
<1>1. CASE s.text
  BY <1>1 DEF OpenText
<1>2. CASE ~s.text
  <2> DEFINE t == OpenText(s)  u == BlockStart(s.view, s.index)
  <2>0. LocalsTyped(s)
    BY DEF Streaming
  <2>1. t = [s EXCEPT !.text = TRUE, !.view = u]
    BY <1>2 DEF OpenText
  <2> HIDE DEF t, u
  <2>2. /\ DOMAIN t = LocalFields /\ t.text = TRUE /\ t.view = u
        /\ t.started = s.started /\ t.thinking = s.thinking /\ t.index = s.index
        /\ t.textual = s.textual /\ t.delayed = s.delayed /\ t.writing = s.writing
        /\ t.finish = s.finish /\ t.input = s.input /\ t.output = s.output
        /\ t.calls = s.calls /\ t.blocks = s.blocks
    BY <2>0, <2>1 DEF LocalsTyped, LocalFields
  <2>3. s.thinking \in BOOLEAN
    BY <2>0 DEF LocalsTyped
  <2>4. Streaming(t, x)
    BY <1>2, <2>2, <2>3, BlockOpens DEF u
  <2> QED BY <2>2, <2>4 DEF t
<1> QED BY <1>1, <1>2

\* A delta goes to the block that is open.
LEMMA DeltaStreams ==
  ASSUME NEW s, NEW x, Streaming(s, x), s.thinking \/ s.text
  PROVE  LET t == BlockDelta(s)
         IN /\ Streaming(t, x) /\ t.calls = s.calls /\ t.started = s.started
<1> DEFINE t == BlockDelta(s)  u == Delta(s.view, s.index)
<1>0. LocalsTyped(s)
  BY DEF Streaming
<1>1. /\ DOMAIN u = ViewFields
      /\ u.open = s.view.open /\ u.seen = s.view.seen
      /\ u.tools = s.view.tools /\ u.stop = s.view.stop
      /\ u.stopped = s.view.stopped /\ u.started = s.view.started
      /\ s.index \in s.view.open => u.faults = s.view.faults
  BY <1>0, ViewChanges DEF LocalsTyped
<1>2. t = [s EXCEPT !.view = u]
  BY DEF BlockDelta
<1> HIDE DEF t, u
<1>3. /\ DOMAIN t = LocalFields /\ t.view = u
      /\ t.started = s.started /\ t.text = s.text /\ t.index = s.index
      /\ t.thinking = s.thinking
      /\ t.textual = s.textual /\ t.delayed = s.delayed /\ t.writing = s.writing
      /\ t.finish = s.finish /\ t.input = s.input /\ t.output = s.output
      /\ t.calls = s.calls /\ t.blocks = s.blocks
  BY <1>0, <1>2 DEF LocalsTyped, LocalFields
<1>4. LocalsTyped(t)
  BY <1>0, <1>1, <1>3 DEF LocalsTyped
<1>5. ~x => Orderly(t)
  <2> SUFFICES ASSUME ~x PROVE Orderly(t)
    OBVIOUS
  <2>1. Orderly(s) /\ Shown(s) = {s.index}
    BY DEF Streaming, Shown
  <2>2. t.view.faults = {} /\ ~t.view.stopped /\ t.view.started = t.started
    BY <1>1, <1>3, <2>1 DEF Orderly
  <2>3. Blocks(t) = Blocks(s) /\ Shown(t) = Shown(s)
    BY <1>3 DEF Blocks, Shown
  <2> QED BY <1>1, <1>3, <2>1, <2>2, <2>3 DEF Orderly
<1>6. t.index >= s.index /\ t.view.tools = s.view.tools
  BY <1>0, <1>1, <1>3 DEF LocalsTyped
<1>7. t.view.stop = s.view.stop /\ s.view.seen \subseteq t.view.seen
  BY <1>1, <1>3
<1>8. Streaming(t, x)
  BY <1>3, <1>4, <1>5, <1>6, <1>7, OthersStream
<1> QED BY <1>3, <1>8 DEF t

\* A block of text from its start to its stop.
LEMMA WholeTextStreams ==
  ASSUME NEW s, NEW x, Streaming(s, x), s.started, ~s.thinking, ~s.text
  PROVE  LET t == WholeText(s)
         IN /\ Streaming(t, x) /\ t.started /\ ~t.thinking /\ ~t.text
            /\ t.calls = s.calls /\ t.blocks = s.blocks /\ t.view.tools = s.view.tools
<1> DEFINE u == BlockStop(Delta(BlockStart(s.view, s.index), s.index), s.index)
           t == WholeText(s)
<1>0. LocalsTyped(s)
  BY DEF Streaming
<1>1. /\ DOMAIN u = ViewFields
      /\ u.open = s.view.open \ {s.index} /\ u.seen = s.view.seen \cup {s.index}
      /\ u.tools = s.view.tools /\ u.stop = s.view.stop
      /\ u.stopped = s.view.stopped /\ u.started = s.view.started
      /\ s.view.started /\ ~s.view.stopped /\ s.index = Cardinality(s.view.seen)
           => u.faults = s.view.faults
  BY <1>0, ViewWholeText DEF LocalsTyped
<1>2. t = [s EXCEPT !.index = @ + 1, !.view = u]
  BY DEF WholeText
<1> HIDE DEF t, u
<1>3. /\ DOMAIN t = LocalFields /\ t.view = u
      /\ t.started = s.started /\ t.text = s.text /\ t.index = s.index + 1
      /\ t.thinking = s.thinking
      /\ t.textual = s.textual /\ t.delayed = s.delayed /\ t.writing = s.writing
      /\ t.finish = s.finish /\ t.input = s.input /\ t.output = s.output
      /\ t.calls = s.calls /\ t.blocks = s.blocks
  BY <1>0, <1>2 DEF LocalsTyped, LocalFields
<1>4. s.index \in Nat /\ t.index \in Nat /\ t.index >= s.index
  BY <1>0, <1>3 DEF LocalsTyped
<1>5. LocalsTyped(t)
  BY <1>0, <1>1, <1>3, <1>4 DEF LocalsTyped
<1>6. ~x => Orderly(t)
  <2> SUFFICES ASSUME ~x PROVE Orderly(t)
    OBVIOUS
  <2>1. Orderly(s) /\ Shown(s) = {} /\ Shown(t) = {} /\ Blocks(t) = Blocks(s)
    BY <1>3 DEF Streaming, Shown, Blocks
  <2>2. s.view.seen = 0..s.index-1
    BY <2>1 DEF Orderly
  <2>3. Cardinality(s.view.seen) = s.index
    BY <1>4, <2>2, Numbered
  <2>4. t.view.faults = {} /\ ~t.view.stopped /\ t.view.started = t.started
    BY <1>1, <1>3, <2>1, <2>3 DEF Orderly
  <2>5. s.index \notin Blocks(s)
    <3>1. \A i \in DOMAIN s.blocks : s.blocks[i] \in 0..s.index-1
      BY DEF Streaming, BlocksFit
    <3> QED BY <1>4, <3>1 DEF Blocks
  <2>6. t.view.open = Blocks(t)
    BY <1>1, <1>3, <2>1, <2>5 DEF Orderly
  <2>7. t.view.seen = (0..s.index-1) \cup {s.index}
    BY <1>1, <1>3, <2>2
  <2>8. 0..t.index-1 = (0..s.index-1) \cup {s.index}
    BY <1>3, <1>4
  <2> QED BY <1>3, <2>1, <2>4, <2>6, <2>7, <2>8 DEF Orderly
<1>7. t.view.tools = s.view.tools /\ t.view.stop = s.view.stop
  BY <1>1, <1>3
<1>8. s.view.seen \subseteq t.view.seen
  BY <1>1, <1>3
<1>9. Streaming(t, x)
  BY <1>3, <1>4, <1>5, <1>6, <1>7, <1>8, OthersStream
<1> QED BY <1>3, <1>7, <1>9 DEF t

\* What a call becomes as its chunks arrive.
LEMMA CallStreams ==
  ASSUME NEW s, NEW x, Streaming(s, x), NEW i \in Nat, NEW call \in Call,
         \A j \in 0..i-1 : j \in DOMAIN s.calls,
         ~call.native => call.args = "json",
         i \in DOMAIN s.blocks => call.named /\ (call.native <=> s.calls[i].native)
  PROVE  LET t == SetCall(s, i, call)
         IN /\ Streaming(t, x) /\ t.started = s.started
            /\ t.thinking = s.thinking /\ t.text = s.text /\ t.index = s.index
            /\ t.textual = s.textual /\ t.delayed = s.delayed /\ t.writing = s.writing
            /\ t.finish = s.finish /\ t.input = s.input /\ t.output = s.output
            /\ t.blocks = s.blocks /\ t.view = s.view
            /\ t.calls = With(s.calls, i, call)
<1> DEFINE t == SetCall(s, i, call)
           c == With(s.calls, i, call)
<1>0. LocalsTyped(s)
  BY DEF Streaming
<1>1. t = [s EXCEPT !.calls = c]
  BY DEF SetCall, With
<1> HIDE DEF t, c
<1>2. /\ DOMAIN t = LocalFields /\ t.view = s.view
      /\ t.started = s.started /\ t.text = s.text /\ t.index = s.index
      /\ t.thinking = s.thinking
      /\ t.textual = s.textual /\ t.delayed = s.delayed /\ t.writing = s.writing
      /\ t.finish = s.finish /\ t.input = s.input /\ t.output = s.output
      /\ t.calls = c /\ t.blocks = s.blocks
  BY <1>0, <1>1 DEF LocalsTyped, LocalFields
<1>3. /\ DOMAIN c = DOMAIN s.calls \cup {i}
      /\ \A j \in DOMAIN c : c[j] = IF j = i THEN call ELSE s.calls[j]
  BY DEF c, With
<1>4. LocalsTyped(t)
  BY <1>0, <1>2 DEF LocalsTyped
<1>5. CallsFit(t)
  <2>1. PICK k \in Nat : DOMAIN s.calls = 0..k-1
    BY DEF Streaming, CallsFit
  <2>2. i =< k
    BY <2>1
  <2>3. \E m \in Nat : DOMAIN c = 0..m-1
    <3>1. CASE i = k
      <4>1. DOMAIN c = 0..(k+1)-1 /\ k+1 \in Nat
        BY <1>3, <2>1, <3>1
      <4> QED BY <4>1
    <3>2. CASE i < k
      <4>1. DOMAIN c = 0..k-1
        BY <1>3, <2>1, <3>2
      <4> QED BY <4>1
    <3> QED BY <2>2, <3>1, <3>2
  <2>4. ASSUME NEW j \in DOMAIN c
        PROVE  c[j] \in Call /\ (~c[j].native => c[j].args = "json")
    <3>1. CASE j = i
      BY <1>3, <3>1
    <3>2. CASE j # i
      <4>1. j \in DOMAIN s.calls /\ c[j] = s.calls[j]
        BY <1>3, <3>2
      <4> QED BY <4>1 DEF Streaming, CallsFit
    <3> QED BY <3>1, <3>2
  <2> QED BY <1>2, <2>3, <2>4 DEF CallsFit
<1>6. BlocksFit(t)
  <2>0. BlocksFit(s)
    BY DEF Streaming
  <2>1. ASSUME NEW j \in DOMAIN s.blocks
        PROVE  /\ j \in DOMAIN c /\ c[j].named
               /\ c[j].native <=> s.calls[j].native
    <3>1. j \in DOMAIN s.calls /\ s.calls[j].named
      BY <2>0 DEF BlocksFit
    <3>2. CASE j = i
      BY <1>3, <3>1, <3>2
    <3>3. CASE j # i
      BY <1>3, <3>1, <3>3
    <3> QED BY <3>2, <3>3
  <2>2. ASSUME NEW j \in DOMAIN t.blocks
        PROVE  /\ j \in DOMAIN t.calls /\ t.calls[j].named
               /\ t.blocks[j] \in 0..t.index-1
               /\ \A l \in DOMAIN t.blocks : t.blocks[j] = t.blocks[l] => j = l
               /\ t.view.tools[t.blocks[j]] = IF t.calls[j].native THEN "" ELSE "json"
    <3>1. j \in DOMAIN s.blocks
      BY <1>2
    <3>2. /\ s.blocks[j] \in 0..s.index-1
          /\ \A l \in DOMAIN s.blocks : s.blocks[j] = s.blocks[l] => j = l
          /\ s.view.tools[s.blocks[j]] = IF s.calls[j].native THEN "" ELSE "json"
      BY <2>0, <3>1 DEF BlocksFit
    <3>3. t.calls[j].native <=> s.calls[j].native
      BY <1>2, <2>1, <3>1
    <3>4. t.view.tools[t.blocks[j]] = IF t.calls[j].native THEN "" ELSE "json"
      BY <1>2, <3>2, <3>3
    <3> QED BY <1>2, <2>1, <3>1, <3>2, <3>4
  <2>3. Blocks(t) = Blocks(s)
    BY <1>2 DEF Blocks
  <2>4. DOMAIN t.view.tools = Blocks(t) /\ DOMAIN t.view.tools \subseteq t.view.seen
    BY <1>2, <2>0, <2>3 DEF BlocksFit
  <2>5. t.view.stop = "none"
    BY <1>2, <2>0 DEF BlocksFit
  <2> QED BY <2>2, <2>4, <2>5 DEF BlocksFit
<1>7. ~x => Orderly(t)
  BY <1>2 DEF Streaming, Orderly, Shown, Blocks
<1> QED BY <1>2, <1>4, <1>5, <1>6, <1>7 DEF Streaming, t, c

\* The block of call i is opened, with the arguments the wrapper has for it.
CallOpened(s, t, i) ==
  /\ DOMAIN t = LocalFields /\ DOMAIN t.view = ViewFields
  /\ i \in DOMAIN s.calls /\ s.calls[i].named /\ i \notin DOMAIN s.blocks
  /\ t.blocks = With(s.blocks, i, s.index)
  /\ t.index = s.index + 1 /\ t.started = s.started
  /\ t.thinking = s.thinking /\ t.text = s.text
  /\ t.textual = s.textual /\ t.delayed = s.delayed /\ t.writing = s.writing
  /\ t.finish = s.finish /\ t.input = s.input /\ t.output = s.output
  /\ t.calls = s.calls
  /\ t.view.open = s.view.open \cup {s.index}
  /\ t.view.seen = s.view.seen \cup {s.index}
  /\ t.view.stop = s.view.stop /\ t.view.stopped = s.view.stopped
  /\ t.view.started = s.view.started
  /\ s.view.started /\ ~s.view.stopped /\ s.index = Cardinality(s.view.seen)
       => t.view.faults = s.view.faults
  /\ t.view.tools = With(s.view.tools, s.index, IF s.calls[i].native THEN "" ELSE "json")

LEMMA CallOpens ==
  ASSUME NEW s, NEW t, NEW x, NEW i, Streaming(s, x), CallOpened(s, t, i),
         s.started, ~s.thinking, ~s.text
  PROVE  Streaming(t, x)
<1>0. LocalsTyped(s) /\ BlocksFit(s)
  BY DEF Streaming
<1>1. s.index \in Nat /\ t.index \in Nat /\ t.index = s.index + 1
  <2>1. t.index = s.index + 1
    BY DEF CallOpened
  <2>2. s.index \in Nat
    BY <1>0 DEF LocalsTyped
  <2> QED BY <2>1, <2>2
<1>2. LocalsTyped(t)
  BY <1>0, <1>1 DEF LocalsTyped, CallOpened
<1>3. CallsFit(t)
  BY DEF Streaming, CallsFit, CallOpened
<1>4. /\ i \in DOMAIN t.blocks /\ t.blocks[i] = s.index
      /\ t.calls = s.calls /\ i \in DOMAIN s.calls /\ s.calls[i].named
      /\ \A j \in DOMAIN t.blocks : j # i => j \in DOMAIN s.blocks
      /\ \A j \in DOMAIN s.blocks :
           j # i /\ j \in DOMAIN t.blocks /\ t.blocks[j] = s.blocks[j]
  <2>1. /\ t.blocks = With(s.blocks, i, s.index) /\ i \notin DOMAIN s.blocks
        /\ t.calls = s.calls /\ i \in DOMAIN s.calls /\ s.calls[i].named
    BY DEF CallOpened
  <2> QED BY <2>1 DEF With
<1>5. \A j \in DOMAIN s.blocks : s.blocks[j] \in 0..s.index-1
  BY <1>0 DEF BlocksFit
<1>6. \A j \in DOMAIN s.blocks : s.blocks[j] \in 0..t.index-1 /\ s.blocks[j] # s.index
  BY <1>1, <1>5
<1>7. Blocks(t) = Blocks(s) \cup {s.index}
  <2>1. ASSUME NEW b \in Blocks(t) PROVE b \in Blocks(s) \cup {s.index}
    <3>1. PICK j \in DOMAIN t.blocks : b = t.blocks[j]
      BY <2>1 DEF Blocks
    <3> QED BY <1>4, <3>1 DEF Blocks
  <2>2. ASSUME NEW b \in Blocks(s) PROVE b \in Blocks(t)
    <3>1. PICK j \in DOMAIN s.blocks : b = s.blocks[j]
      BY <2>2 DEF Blocks
    <3> QED BY <1>4, <3>1 DEF Blocks
  <2>3. s.index \in Blocks(t)
    BY <1>4 DEF Blocks
  <2> QED BY <2>1, <2>2, <2>3
<1>8. /\ DOMAIN t.view.tools = DOMAIN s.view.tools \cup {s.index}
      /\ \A b \in DOMAIN t.view.tools :
           t.view.tools[b] = IF b # s.index THEN s.view.tools[b]
                             ELSE IF s.calls[i].native THEN "" ELSE "json"
  BY DEF CallOpened, With
<1>9. BlocksFit(t)
  <2>1. ASSUME NEW j \in DOMAIN t.blocks
        PROVE  /\ j \in DOMAIN t.calls /\ t.calls[j].named
               /\ t.blocks[j] \in 0..t.index-1
               /\ \A l \in DOMAIN t.blocks : t.blocks[j] = t.blocks[l] => j = l
               /\ t.view.tools[t.blocks[j]] = IF t.calls[j].native THEN "" ELSE "json"
    <3>1. CASE j = i
      <4>1. s.index \in 0..t.index-1
        BY <1>1
      <4>2. \A l \in DOMAIN t.blocks : t.blocks[j] = t.blocks[l] => j = l
        BY <1>4, <1>6, <3>1
      <4>3. t.view.tools[s.index] = IF s.calls[i].native THEN "" ELSE "json"
        BY <1>8
      <4> QED BY <1>4, <3>1, <4>1, <4>2, <4>3
    <3>2. CASE j # i
      <4>0. j \in DOMAIN s.blocks /\ t.blocks[j] = s.blocks[j]
        BY <1>4, <3>2
      <4>1. /\ j \in DOMAIN s.calls /\ s.calls[j].named
            /\ \A l \in DOMAIN s.blocks : s.blocks[j] = s.blocks[l] => j = l
            /\ s.view.tools[s.blocks[j]] = IF s.calls[j].native THEN "" ELSE "json"
        BY <1>0, <4>0 DEF BlocksFit
      <4>2. ASSUME NEW l \in DOMAIN t.blocks, t.blocks[j] = t.blocks[l] PROVE j = l
        <5>1. CASE l = i
          BY <1>4, <1>6, <4>0, <4>2, <5>1
        <5>2. CASE l # i
          BY <1>4, <4>0, <4>1, <4>2, <5>2
        <5> QED BY <5>1, <5>2
      <4>3. s.blocks[j] \in DOMAIN s.view.tools
        BY <1>0, <4>0 DEF BlocksFit, Blocks
      <4>4. t.view.tools[s.blocks[j]] = s.view.tools[s.blocks[j]]
        BY <1>6, <1>8, <4>0, <4>3
      <4> QED BY <1>4, <1>6, <4>0, <4>1, <4>2, <4>4
    <3> QED BY <3>1, <3>2
  <2>2. DOMAIN s.view.tools = Blocks(s) /\ DOMAIN s.view.tools \subseteq s.view.seen
    BY <1>0 DEF BlocksFit
  <2>3. DOMAIN t.view.tools = Blocks(t)
    BY <1>7, <1>8, <2>2
  <2>4. DOMAIN t.view.tools \subseteq t.view.seen
    BY <1>8, <2>2 DEF CallOpened
  <2>5. t.view.stop = "none"
    BY <1>0 DEF BlocksFit, CallOpened
  <2> QED BY <2>1, <2>3, <2>4, <2>5 DEF BlocksFit
<1>10. ~x => Orderly(t)
  <2> SUFFICES ASSUME ~x PROVE Orderly(t)
    OBVIOUS
  <2>1. Orderly(s)
    BY DEF Streaming
  <2>2. Shown(s) = {} /\ Shown(t) = {}
    BY DEF Shown, CallOpened
  <2>3. s.view.seen = 0..s.index-1
    BY <2>1, <2>2 DEF Orderly
  <2>4. Cardinality(s.view.seen) = s.index
    BY <1>1, <2>3, Numbered
  <2>5. t.view.faults = {} /\ ~t.view.stopped /\ t.view.started = t.started
    BY <2>1, <2>4 DEF Orderly, CallOpened
  <2>6. t.view.open = Blocks(t)
    BY <1>7, <2>1, <2>2 DEF Orderly, CallOpened
  <2>7. t.view.seen = 0..t.index-1
    <3>1. 0..t.index-1 = (0..s.index-1) \cup {s.index}
      BY <1>1
    <3> QED BY <2>3, <3>1 DEF CallOpened
  <2>8. ~(t.thinking /\ t.text)
    BY DEF CallOpened
  <2> QED BY <2>2, <2>5, <2>6, <2>7, <2>8 DEF Orderly
<1> QED BY <1>2, <1>3, <1>9, <1>10 DEF Streaming

LEMMA ToolOpens ==
  ASSUME NEW s, NEW x, Streaming(s, x), NEW i \in DOMAIN s.calls,
         s.calls[i].named, s.calls[i].native, i \notin DOMAIN s.blocks,
         s.started, ~s.thinking, ~s.text
  PROVE  Streaming(OpenTool(s, i), x) /\ OpenTool(s, i).calls = s.calls
<1> DEFINE t == OpenTool(s, i)
           u == ToolStart(s.view, s.index)
           b == With(s.blocks, i, s.index)
<1>0. LocalsTyped(s)
  BY DEF Streaming
<1>3. /\ DOMAIN u = ViewFields
      /\ u.open = s.view.open \cup {s.index} /\ u.seen = s.view.seen \cup {s.index}
      /\ u.stop = s.view.stop /\ u.stopped = s.view.stopped
      /\ u.started = s.view.started
      /\ u.tools = Blank(s.view.tools, s.index)
      /\ s.view.started /\ ~s.view.stopped /\ s.index = Cardinality(s.view.seen)
           => u.faults = s.view.faults
  BY <1>0, ViewCalls DEF LocalsTyped
<1>1. t = [s EXCEPT !.index = @ + 1, !.view = u, !.blocks = b]
  BY DEF OpenTool, With
<1> HIDE DEF t, u, b
<1>2. /\ DOMAIN t = LocalFields /\ t.view = u
      /\ t.started = s.started /\ t.text = s.text /\ t.index = s.index + 1
      /\ t.thinking = s.thinking
      /\ t.textual = s.textual /\ t.delayed = s.delayed /\ t.writing = s.writing
      /\ t.finish = s.finish /\ t.input = s.input /\ t.output = s.output
      /\ t.calls = s.calls /\ t.blocks = b
  BY <1>0, <1>1 DEF LocalsTyped, LocalFields
<1>4. CallOpened(s, t, i)
  <2>1. u.tools = With(s.view.tools, s.index, IF s.calls[i].native THEN "" ELSE "json")
    BY <1>3 DEF Blank
  <2> QED BY <1>2, <1>3, <2>1 DEF CallOpened, b
<1>5. Streaming(t, x)
  BY <1>4, CallOpens
<1> QED BY <1>2, <1>5 DEF t

\* A call the wrapper makes up, with its block and its arguments.
Made == [named |-> TRUE, rejected |-> FALSE, args |-> "json", native |-> FALSE]

LEMMA MadeIsCall == Made \in Call /\ Made.named /\ ~Made.native /\ Made.args = "json"
  BY DEF Made, Call

LEMMA WholeToolFields ==
  ASSUME NEW s, NEW i, LocalsTyped(s)
  PROVE  LET t == WholeTool(s, i)
         IN /\ DOMAIN t = LocalFields
            /\ t.view = ToolDelta(ToolStart(s.view, s.index), s.index, "json")
            /\ t.started = s.started /\ t.text = s.text /\ t.index = s.index + 1
            /\ t.thinking = s.thinking
            /\ t.textual = s.textual /\ t.delayed = s.delayed /\ t.writing = s.writing
            /\ t.finish = s.finish /\ t.input = s.input /\ t.output = s.output
            /\ t.calls = With(s.calls, i, Made) /\ t.blocks = With(s.blocks, i, s.index)
<1> DEFINE c == With(s.calls, i, Made)
           b == With(s.blocks, i, s.index)
           m == SetCall(s, i, Made)
           u == ToolStart(s.view, s.index)
           z == ToolDelta(u, s.index, "json")
           o == OpenTool(m, i)
           t == WholeTool(s, i)
<1>1. m = [s EXCEPT !.calls = c]
  BY DEF SetCall, With
<1>2. o = [m EXCEPT !.index = @ + 1, !.view = ToolStart(m.view, m.index),
                    !.blocks = With(m.blocks, i, m.index)]
  BY DEF OpenTool, With
<1>3. t = [o EXCEPT !.view = ToolDelta(o.view, s.index, "json")]
  BY DEF WholeTool, Made
<1> HIDE DEF m, c, o, t
<1>4. /\ DOMAIN m = LocalFields /\ m.view = s.view
      /\ m.started = s.started /\ m.text = s.text /\ m.index = s.index
      /\ m.thinking = s.thinking
      /\ m.textual = s.textual /\ m.delayed = s.delayed /\ m.writing = s.writing
      /\ m.finish = s.finish /\ m.input = s.input /\ m.output = s.output
      /\ m.calls = c /\ m.blocks = s.blocks
  BY <1>1 DEF LocalsTyped, LocalFields
<1>5. o = [m EXCEPT !.index = @ + 1, !.view = u, !.blocks = b]
  BY <1>2, <1>4
<1> HIDE DEF u, b
<1>6. /\ DOMAIN o = LocalFields /\ o.view = u
      /\ o.started = s.started /\ o.text = s.text /\ o.index = s.index + 1
      /\ o.thinking = s.thinking
      /\ o.textual = s.textual /\ o.delayed = s.delayed /\ o.writing = s.writing
      /\ o.finish = s.finish /\ o.input = s.input /\ o.output = s.output
      /\ o.calls = c /\ o.blocks = b
  BY <1>4, <1>5 DEF LocalFields
<1>7. t = [o EXCEPT !.view = z]
  BY <1>3, <1>6
<1> HIDE DEF z
<1>8. /\ DOMAIN t = LocalFields /\ t.view = z
      /\ t.started = s.started /\ t.text = s.text /\ t.index = s.index + 1
      /\ t.thinking = s.thinking
      /\ t.textual = s.textual /\ t.delayed = s.delayed /\ t.writing = s.writing
      /\ t.finish = s.finish /\ t.input = s.input /\ t.output = s.output
      /\ t.calls = c /\ t.blocks = b
  BY <1>6, <1>7 DEF LocalFields
<1> QED BY <1>8 DEF t, z, u, b, c

LEMMA WholeToolStreams ==
  ASSUME NEW s, NEW x, Streaming(s, x), NEW i \in Nat,
         \A j \in 0..i-1 : j \in DOMAIN s.calls, i \notin DOMAIN s.blocks,
         s.started, ~s.thinking, ~s.text
  PROVE  LET t == WholeTool(s, i)
         IN /\ Streaming(t, x) /\ t.started /\ ~t.thinking /\ ~t.text
            /\ DOMAIN t.blocks # {}
<1> DEFINE m == SetCall(s, i, Made)
           t == WholeTool(s, i)
           u == ToolDelta(ToolStart(s.view, s.index), s.index, "json")
<1>0. LocalsTyped(s)
  BY DEF Streaming
<1>1. /\ DOMAIN t = LocalFields /\ t.view = u
      /\ t.started = s.started /\ t.text = s.text /\ t.index = s.index + 1
      /\ t.thinking = s.thinking
      /\ t.textual = s.textual /\ t.delayed = s.delayed /\ t.writing = s.writing
      /\ t.finish = s.finish /\ t.input = s.input /\ t.output = s.output
      /\ t.calls = With(s.calls, i, Made) /\ t.blocks = With(s.blocks, i, s.index)
  BY <1>0, WholeToolFields
<1>2. /\ DOMAIN u = ViewFields
      /\ u.open = s.view.open \cup {s.index} /\ u.seen = s.view.seen \cup {s.index}
      /\ u.tools = Sent(s.view.tools, s.index)
      /\ u.stop = s.view.stop /\ u.stopped = s.view.stopped
      /\ u.started = s.view.started
      /\ s.view.started /\ ~s.view.stopped /\ s.index = Cardinality(s.view.seen)
           => u.faults = s.view.faults
  BY <1>0, ViewWholeTool DEF LocalsTyped
<1>3. /\ Streaming(m, x) /\ m.started = s.started
      /\ m.thinking = s.thinking /\ m.text = s.text /\ m.index = s.index
      /\ m.textual = s.textual /\ m.delayed = s.delayed /\ m.writing = s.writing
      /\ m.finish = s.finish /\ m.input = s.input /\ m.output = s.output
      /\ m.blocks = s.blocks /\ m.view = s.view
      /\ m.calls = With(s.calls, i, Made)
  BY CallStreams, MadeIsCall
<1> HIDE DEF m, t, u
<1>4. i \in DOMAIN m.calls /\ m.calls[i] = Made
  BY <1>3 DEF With
<1>5. u.tools = With(m.view.tools, m.index, IF m.calls[i].native THEN "" ELSE "json")
  BY <1>2, <1>3, <1>4, MadeIsCall DEF Sent
<1>6. CallOpened(m, t, i)
  BY <1>1, <1>2, <1>3, <1>4, <1>5, MadeIsCall DEF CallOpened
<1>7. Streaming(t, x)
  BY <1>3, <1>6, CallOpens
<1>8. i \in DOMAIN t.blocks
  BY <1>1 DEF With
<1> QED BY <1>1, <1>7, <1>8 DEF t

\* What is told of the calls at the end: the arguments of each that are whole.
SentArgs(s) ==
  LET ready == {i \in DOMAIN s.blocks : s.calls[i].native /\ s.calls[i].args = "json"}
      told == {s.blocks[i] : i \in ready}
  IN [b \in DOMAIN s.view.tools |-> IF b \in told THEN "json" ELSE s.view.tools[b]]

LEMMA ArgsSent ==
  ASSUME NEW s, NEW x, Streaming(s, x)
  PROVE  /\ DOMAIN SentArgs(s) = Blocks(s)
         /\ \A i \in DOMAIN s.blocks :
              s.calls[i].args # "partial" => SentArgs(s)[s.blocks[i]] = s.calls[i].args
<1> DEFINE ready == {i \in DOMAIN s.blocks : s.calls[i].native /\ s.calls[i].args = "json"}
           told == {s.blocks[i] : i \in ready}
<1>0. BlocksFit(s) /\ CallsFit(s)
  BY DEF Streaming
<1>1. DOMAIN SentArgs(s) = Blocks(s)
  BY <1>0 DEF SentArgs, BlocksFit
<1>2. ASSUME NEW i \in DOMAIN s.blocks, s.calls[i].args # "partial"
      PROVE  SentArgs(s)[s.blocks[i]] = s.calls[i].args
  <2>1. /\ i \in DOMAIN s.calls /\ s.blocks[i] \in DOMAIN s.view.tools
        /\ \A j \in DOMAIN s.blocks : s.blocks[i] = s.blocks[j] => i = j
        /\ s.view.tools[s.blocks[i]] = IF s.calls[i].native THEN "" ELSE "json"
    BY <1>0 DEF BlocksFit, Blocks
  <2>2. /\ s.calls[i].args \in {"", "partial", "json"} /\ s.calls[i].native \in BOOLEAN
        /\ ~s.calls[i].native => s.calls[i].args = "json"
    BY <1>0, <2>1 DEF CallsFit, Call
  <2>3. SentArgs(s)[s.blocks[i]] = IF s.blocks[i] \in told THEN "json"
                                   ELSE s.view.tools[s.blocks[i]]
    BY <2>1 DEF SentArgs
  <2>4. s.blocks[i] \in told <=> i \in ready
    BY <2>1
  <2>5. CASE i \in ready
    BY <2>3, <2>4, <2>5
  <2>6. CASE i \notin ready
    <3>1. SentArgs(s)[s.blocks[i]] = IF s.calls[i].native THEN "" ELSE "json"
      BY <2>1, <2>3, <2>4, <2>6
    <3>2. s.calls[i].native => s.calls[i].args = ""
      BY <1>2, <2>2, <2>6
    <3>3. CASE s.calls[i].native
      BY <3>1, <3>2, <3>3
    <3>4. CASE ~s.calls[i].native
      BY <2>2, <3>1, <3>4
    <3> QED BY <3>3, <3>4
  <2> QED BY <2>5, <2>6
<1> QED BY <1>1, <1>2

\* The locals whose view is changed.
Seen(s, v) == [s EXCEPT !.view = v]

LEMMA SeenFields ==
  ASSUME NEW s, NEW v, LocalsTyped(s)
  PROVE  LET t == Seen(s, v)
         IN /\ DOMAIN t = LocalFields /\ t.view = v
            /\ t.started = s.started /\ t.text = s.text /\ t.index = s.index
            /\ t.thinking = s.thinking
            /\ t.textual = s.textual /\ t.delayed = s.delayed /\ t.writing = s.writing
            /\ t.finish = s.finish /\ t.input = s.input /\ t.output = s.output
            /\ t.calls = s.calls /\ t.blocks = s.blocks
  BY DEF Seen, LocalsTyped, LocalFields

\* A block for each call is open, so its arguments can be sent.
LEMMA ArgsSentInView ==
  ASSUME NEW s, NEW x, Streaming(s, x)
  PROVE  LET u == SendArgs(s).view
         IN /\ SendArgs(s) = Seen(s, u) /\ DOMAIN u = ViewFields
            /\ u.open = s.view.open /\ u.seen = s.view.seen /\ u.tools = SentArgs(s)
            /\ u.stop = s.view.stop /\ u.stopped = s.view.stopped
            /\ u.started = s.view.started
            /\ ~x => u.faults = s.view.faults
<1> DEFINE ready == {i \in DOMAIN s.blocks : s.calls[i].native /\ s.calls[i].args = "json"}
           told == {s.blocks[i] : i \in ready}
           v == Fault(s.view, ~(told \subseteq s.view.open), "delta")
           u == [v EXCEPT !.tools = SentArgs(s)]
<1>0. LocalsTyped(s)
  BY DEF Streaming
<1>1. SendArgs(s) = [s EXCEPT !.view = u]
  BY DEF SendArgs, SentArgs
<1>2. ~x => told \subseteq s.view.open
  BY DEF Streaming, Orderly, Blocks
<1> HIDE DEF told
<1>3. /\ DOMAIN v = ViewFields /\ v.open = s.view.open /\ v.seen = s.view.seen
      /\ v.stop = s.view.stop /\ v.stopped = s.view.stopped
      /\ v.started = s.view.started
      /\ ~x => v.faults = s.view.faults
  BY <1>0, <1>2 DEF Fault, LocalsTyped, ViewFields
<1> HIDE DEF v
<1>4. /\ DOMAIN u = ViewFields /\ u.open = s.view.open /\ u.seen = s.view.seen
      /\ u.stop = s.view.stop /\ u.stopped = s.view.stopped /\ u.tools = SentArgs(s)
      /\ u.started = s.view.started
      /\ ~x => u.faults = s.view.faults
  BY <1>3 DEF ViewFields
<1> HIDE DEF u
<1>5. SendArgs(s).view = u
  BY <1>0, <1>1 DEF LocalsTyped, LocalFields
<1>6. SendArgs(s) = Seen(s, u)
  BY <1>1 DEF Seen
<1> QED BY <1>4, <1>5, <1>6

\* Each tool block is open once, and all are closed.
Closable(s, x) ==
  /\ LocalsTyped(s)
  /\ \A i, j \in DOMAIN s.blocks : s.blocks[i] = s.blocks[j] => i = j
  /\ ~x => s.view.open = Blocks(s)

LEMMA ToolsClose ==
  ASSUME NEW s, NEW x, Closable(s, x)
  PROVE  LET u == CloseTools(s).view
         IN /\ CloseTools(s) = Seen(s, u) /\ DOMAIN u = ViewFields
            /\ u.seen = s.view.seen /\ u.tools = s.view.tools
            /\ u.stop = s.view.stop /\ u.stopped = s.view.stopped
            /\ u.started = s.view.started
            /\ ~x => u.faults = s.view.faults /\ u.open = {}
<1> DEFINE closed == {s.blocks[i] : i \in DOMAIN s.blocks}
           once == \A i, j \in DOMAIN s.blocks : s.blocks[i] = s.blocks[j] => i = j
           v == Fault(s.view, ~(once /\ closed \subseteq s.view.open), "stop")
           u == [v EXCEPT !.open = s.view.open \ closed]
<1>0. LocalsTyped(s)
  BY DEF Closable
<1>1. CloseTools(s) = [s EXCEPT !.view = u]
  BY DEF CloseTools
<1>2. once /\ (~x => s.view.open = closed)
  BY DEF Closable, Blocks
<1> HIDE DEF closed, once
<1>3. /\ DOMAIN v = ViewFields /\ v.seen = s.view.seen /\ v.tools = s.view.tools
      /\ v.stop = s.view.stop /\ v.stopped = s.view.stopped
      /\ v.started = s.view.started
      /\ ~x => v.faults = s.view.faults
  BY <1>0, <1>2 DEF Fault, LocalsTyped, ViewFields
<1> HIDE DEF v
<1>4. /\ DOMAIN u = ViewFields /\ u.open = s.view.open \ closed
      /\ u.seen = s.view.seen /\ u.tools = s.view.tools
      /\ u.stop = s.view.stop /\ u.stopped = s.view.stopped
      /\ u.started = s.view.started
      /\ ~x => u.faults = s.view.faults
  BY <1>3 DEF ViewFields
<1> HIDE DEF u
<1>5. ~x => u.open = {}
  BY <1>2, <1>4
<1>6. CloseTools(s).view = u
  BY <1>0, <1>1 DEF LocalsTyped, LocalFields
<1>7. CloseTools(s) = Seen(s, u)
  BY <1>1 DEF Seen
<1>8. ~x => u.faults = s.view.faults /\ u.open = {}
  BY <1>4, <1>5
<1> QED BY <1>4, <1>6, <1>7, <1>8

\* What TypeOK, WellFormed and ToolUseComplete say of the locals.
AnswerTyped(s) ==
  /\ {s.started, s.thinking, s.text, s.textual, s.delayed, s.writing} \subseteq BOOLEAN
  /\ s.index \in Nat /\ s.input \in 0..1 /\ s.output \in 0..1
  /\ s.finish \in {"none", "stop", "length", "tool_calls"}
  /\ \A i \in DOMAIN s.calls : s.calls[i] \in Call
  /\ \A i \in DOMAIN s.blocks :
       /\ i \in DOMAIN s.calls /\ s.calls[i].named
       /\ s.blocks[i] \in DOMAIN s.view.tools
  /\ DOMAIN s.view.tools \subseteq s.view.seen

AnswerComplete(s) ==
  s.view.stop = "tool_use" =>
    /\ DOMAIN s.view.tools # {} /\ s.finish # "length"
    /\ \A i \in DOMAIN s.blocks : s.view.tools[s.blocks[i]] = s.calls[i].args
    /\ \A i \in DOMAIN s.calls : s.calls[i].args # "partial"

AnswerEnded(s, x) == ~x => s.view.faults = {} /\ s.view.stopped /\ s.view.open = {}

\* An answer whose locals are those of a stream but for what is kept back.
LEMMA StreamIsTyped ==
  ASSUME NEW s, NEW t, NEW x, Streaming(s, x), LocalsTyped(t),
         t.calls = s.calls, t.blocks = s.blocks,
         DOMAIN t.view.tools = Blocks(s), s.view.seen \subseteq t.view.seen
  PROVE  AnswerTyped(t)
<1>1. BlocksFit(s) /\ CallsFit(s)
  BY DEF Streaming
<1>2. {t.started, t.thinking, t.text, t.textual, t.delayed, t.writing} \subseteq BOOLEAN
  BY DEF LocalsTyped
<1>3. /\ t.index \in Nat /\ t.input \in 0..1 /\ t.output \in 0..1
      /\ t.finish \in {"none", "stop", "length", "tool_calls"}
  BY DEF LocalsTyped
<1>4. \A i \in DOMAIN t.calls : t.calls[i] \in Call
  BY <1>1 DEF CallsFit
<1>5. ASSUME NEW i \in DOMAIN t.blocks
      PROVE  i \in DOMAIN t.calls /\ t.calls[i].named /\ t.blocks[i] \in DOMAIN t.view.tools
  BY <1>1, <1>5 DEF BlocksFit, Blocks
<1>6. DOMAIN t.view.tools \subseteq t.view.seen
  BY <1>1 DEF BlocksFit
<1> QED BY <1>2, <1>3, <1>4, <1>5, <1>6 DEF AnswerTyped

LEMMA StreamIsClosable ==
  ASSUME NEW s, NEW x, Streaming(s, x), ~s.thinking, ~s.text
  PROVE  Closable(s, x)
<1>1. BlocksFit(s) /\ LocalsTyped(s)
  BY DEF Streaming
<1>2. \A i, j \in DOMAIN s.blocks : s.blocks[i] = s.blocks[j] => i = j
  BY <1>1 DEF BlocksFit
<1>3. ~x => s.view.open = Blocks(s)
  BY DEF Streaming, Orderly, Shown
<1> QED BY <1>1, <1>2, <1>3 DEF Closable

LEMMA EndTells ==
  ASSUME NEW s, NEW x, Streaming(s, x), s.started, ~s.thinking, ~s.text
  PROVE  LET c == CloseTools(SendArgs(s))
             t == [c EXCEPT !.textual = FALSE, !.delayed = FALSE,
                     !.view = MessageStop(@, StopReason(c), c.output)]
         IN /\ AnswerTyped(t) /\ AnswerComplete(t) /\ AnswerEnded(t, x)
            /\ DOMAIN s.blocks # {} => DOMAIN t.view.tools # {}
<1> DEFINE a == SendArgs(s)
           c == CloseTools(a)
           u == MessageStop(c.view, StopReason(c), c.output)
           t == [c EXCEPT !.textual = FALSE, !.delayed = FALSE,
                   !.view = MessageStop(@, StopReason(c), c.output)]
<1>0. LocalsTyped(s)
  BY DEF Streaming
<1>1. /\ a = Seen(s, a.view) /\ DOMAIN a.view = ViewFields
      /\ a.view.open = s.view.open /\ a.view.seen = s.view.seen
      /\ a.view.tools = SentArgs(s)
      /\ a.view.stop = s.view.stop /\ a.view.stopped = s.view.stopped
      /\ a.view.started = s.view.started
      /\ ~x => a.view.faults = s.view.faults
  BY ArgsSentInView
<1> HIDE DEF a
<1>2. /\ DOMAIN a = LocalFields
      /\ a.started = s.started /\ a.text = s.text /\ a.index = s.index
      /\ a.thinking = s.thinking
      /\ a.textual = s.textual /\ a.delayed = s.delayed /\ a.writing = s.writing
      /\ a.finish = s.finish /\ a.input = s.input /\ a.output = s.output
      /\ a.calls = s.calls /\ a.blocks = s.blocks
  BY <1>0, <1>1 DEF Seen, LocalsTyped, LocalFields
<1>3. LocalsTyped(a) /\ Blocks(a) = Blocks(s)
  BY <1>0, <1>1, <1>2 DEF LocalsTyped, Blocks
<1>4. Closable(a, x)
  BY <1>1, <1>2, <1>3, StreamIsClosable DEF Closable
<1>5. /\ c = Seen(a, c.view) /\ DOMAIN c.view = ViewFields
      /\ c.view.seen = a.view.seen /\ c.view.tools = a.view.tools
      /\ c.view.stop = a.view.stop /\ c.view.stopped = a.view.stopped
      /\ c.view.started = a.view.started
      /\ ~x => c.view.faults = a.view.faults /\ c.view.open = {}
  BY <1>4, ToolsClose
<1> HIDE DEF c
<1>6. /\ DOMAIN c = LocalFields
      /\ c.started = a.started /\ c.text = a.text /\ c.index = a.index
      /\ c.thinking = a.thinking
      /\ c.textual = a.textual /\ c.delayed = a.delayed /\ c.writing = a.writing
      /\ c.finish = a.finish /\ c.input = a.input /\ c.output = a.output
      /\ c.calls = a.calls /\ c.blocks = a.blocks
  BY <1>3, <1>5, SeenFields
<1>7. /\ DOMAIN u = ViewFields
      /\ u.open = c.view.open /\ u.seen = c.view.seen /\ u.tools = c.view.tools
      /\ u.stop = StopReason(c) /\ u.stopped /\ u.started = c.view.started
      /\ c.view.open = {} /\ c.view.started /\ ~c.view.stopped
           => u.faults = c.view.faults
  BY <1>5, ViewEnds
<1>8. t = [c EXCEPT !.textual = FALSE, !.delayed = FALSE, !.view = u]
  OBVIOUS
<1> HIDE DEF t, u
<1>9. /\ DOMAIN t = LocalFields /\ t.view = u
      /\ t.started = c.started /\ t.text = c.text /\ t.index = c.index
      /\ t.thinking = c.thinking
      /\ t.textual = FALSE /\ t.delayed = FALSE /\ t.writing = c.writing
      /\ t.finish = c.finish /\ t.input = c.input /\ t.output = c.output
      /\ t.calls = c.calls /\ t.blocks = c.blocks
  BY <1>6, <1>8 DEF LocalFields
<1>10. /\ t.calls = s.calls /\ t.blocks = s.blocks /\ t.finish = s.finish
       /\ t.view.tools = SentArgs(s) /\ t.view.seen = s.view.seen
  BY <1>1, <1>2, <1>5, <1>6, <1>7, <1>9
<1>11. LocalsTyped(t)
  BY <1>0, <1>2, <1>6, <1>7, <1>9 DEF LocalsTyped
<1>12. DOMAIN t.view.tools = Blocks(s)
  BY <1>10, ArgsSent
<1>13. AnswerTyped(t)
  BY <1>10, <1>11, <1>12, StreamIsTyped
<1>14. AnswerEnded(t, x)
  <2> SUFFICES ASSUME ~x PROVE t.view.faults = {} /\ t.view.stopped /\ t.view.open = {}
    BY DEF AnswerEnded
  <2>1. s.view.faults = {} /\ ~s.view.stopped /\ s.view.started
    BY DEF Streaming, Orderly
  <2>2. c.view.faults = {} /\ ~c.view.stopped /\ c.view.started /\ c.view.open = {}
    BY <1>1, <1>5, <2>1
  <2> QED BY <1>7, <1>9, <2>2
<1>15. AnswerComplete(t)
  <2> SUFFICES ASSUME t.view.stop = "tool_use"
               PROVE  /\ DOMAIN t.view.tools # {} /\ t.finish # "length"
                      /\ \A i \in DOMAIN t.blocks :
                           t.view.tools[t.blocks[i]] = t.calls[i].args
                      /\ \A i \in DOMAIN t.calls : t.calls[i].args # "partial"
    BY DEF AnswerComplete
  <2>1. StopReason(c) = "tool_use"
    BY <1>7, <1>9
  <2>2. DOMAIN c.blocks # {} /\ ~Truncated(c)
    BY <2>1 DEF StopReason
  <2>3. /\ DOMAIN s.blocks # {} /\ t.finish # "length"
        /\ \A i \in DOMAIN t.calls : t.calls[i].args # "partial"
    BY <1>2, <1>6, <1>9, <2>2 DEF Truncated
  <2>4. Blocks(s) # {}
    BY <2>3 DEF Blocks
  <2>5. ASSUME NEW i \in DOMAIN t.blocks
        PROVE  t.view.tools[t.blocks[i]] = t.calls[i].args
    <3>1. i \in DOMAIN s.blocks /\ i \in DOMAIN s.calls
      BY <1>10 DEF Streaming, BlocksFit
    <3>2. s.calls[i].args # "partial"
      BY <1>10, <2>3, <3>1
    <3> QED BY <1>10, <3>1, <3>2, ArgsSent
  <2> QED BY <1>12, <2>3, <2>4, <2>5
<1>16. DOMAIN s.blocks # {} => DOMAIN t.view.tools # {}
  BY <1>12 DEF Blocks
<1> QED BY <1>13, <1>14, <1>15, <1>16 DEF t, c, a

LEMMA FailTells ==
  ASSUME NEW s, NEW x, Streaming(s, x), s.started, ~s.thinking, ~s.text
  PROVE  LET c == WholeText(CloseTools(s))
             t == [c EXCEPT !.view = MessageStop(@, "end_turn", 0)]
         IN AnswerTyped(t) /\ AnswerComplete(t) /\ AnswerEnded(t, x)
<1> DEFINE a == CloseTools(s)
           z == BlockStop(Delta(BlockStart(a.view, a.index), a.index), a.index)
           c == WholeText(a)
           u == MessageStop(c.view, "end_turn", 0)
           t == [c EXCEPT !.view = MessageStop(@, "end_turn", 0)]
<1>0. LocalsTyped(s) /\ Closable(s, x)
  BY StreamIsClosable DEF Streaming
<1>1. /\ a = Seen(s, a.view) /\ DOMAIN a.view = ViewFields
      /\ a.view.seen = s.view.seen /\ a.view.tools = s.view.tools
      /\ a.view.stop = s.view.stop /\ a.view.stopped = s.view.stopped
      /\ a.view.started = s.view.started
      /\ ~x => a.view.faults = s.view.faults /\ a.view.open = {}
  BY <1>0, ToolsClose
<1> HIDE DEF a
<1>2. /\ DOMAIN a = LocalFields
      /\ a.started = s.started /\ a.text = s.text /\ a.index = s.index
      /\ a.thinking = s.thinking
      /\ a.textual = s.textual /\ a.delayed = s.delayed /\ a.writing = s.writing
      /\ a.finish = s.finish /\ a.input = s.input /\ a.output = s.output
      /\ a.calls = s.calls /\ a.blocks = s.blocks
  BY <1>0, <1>1 DEF Seen, LocalsTyped, LocalFields
<1>3. /\ DOMAIN z = ViewFields
      /\ z.open = a.view.open \ {a.index} /\ z.seen = a.view.seen \cup {a.index}
      /\ z.tools = a.view.tools /\ z.stop = a.view.stop
      /\ z.stopped = a.view.stopped /\ z.started = a.view.started
      /\ a.view.started /\ ~a.view.stopped /\ a.index = Cardinality(a.view.seen)
           => z.faults = a.view.faults
  BY <1>1, ViewWholeText
<1>4. c = [a EXCEPT !.index = @ + 1, !.view = z]
  BY DEF WholeText
<1> HIDE DEF z, c
<1>5. /\ DOMAIN c = LocalFields /\ c.view = z
      /\ c.started = a.started /\ c.text = a.text /\ c.index = a.index + 1
      /\ c.thinking = a.thinking
      /\ c.textual = a.textual /\ c.delayed = a.delayed /\ c.writing = a.writing
      /\ c.finish = a.finish /\ c.input = a.input /\ c.output = a.output
      /\ c.calls = a.calls /\ c.blocks = a.blocks
  BY <1>2, <1>4 DEF LocalFields
<1>6. /\ DOMAIN u = ViewFields
      /\ u.open = z.open /\ u.seen = z.seen /\ u.tools = z.tools
      /\ u.stop = "end_turn" /\ u.stopped /\ u.started = z.started
      /\ z.open = {} /\ z.started /\ ~z.stopped => u.faults = z.faults
  BY <1>3, <1>5, ViewEnds
<1>7. t = [c EXCEPT !.view = u]
  OBVIOUS
<1> HIDE DEF t, u
<1>8. /\ DOMAIN t = LocalFields /\ t.view = u
      /\ t.started = c.started /\ t.text = c.text /\ t.index = c.index
      /\ t.thinking = c.thinking
      /\ t.textual = c.textual /\ t.delayed = c.delayed /\ t.writing = c.writing
      /\ t.finish = c.finish /\ t.input = c.input /\ t.output = c.output
      /\ t.calls = c.calls /\ t.blocks = c.blocks
  BY <1>5, <1>7 DEF LocalFields
<1>9. s.index \in Nat /\ t.index = s.index + 1 /\ t.index \in Nat
  <2>1. s.index \in Nat
    BY <1>0 DEF LocalsTyped
  <2> QED BY <1>2, <1>5, <1>8, <2>1
<1>10. LocalsTyped(t)
  BY <1>0, <1>2, <1>5, <1>6, <1>8, <1>9 DEF LocalsTyped
<1>11. DOMAIN s.view.tools = Blocks(s)
  BY DEF Streaming, BlocksFit
<1>12. DOMAIN t.view.tools = Blocks(s) /\ s.view.seen \subseteq t.view.seen
  BY <1>1, <1>3, <1>6, <1>8, <1>11
<1>13. AnswerTyped(t)
  BY <1>2, <1>5, <1>8, <1>10, <1>12, StreamIsTyped
<1>14. AnswerComplete(t)
  BY <1>6, <1>8 DEF AnswerComplete
<1>15. AnswerEnded(t, x)
  <2> SUFFICES ASSUME ~x PROVE t.view.faults = {} /\ t.view.stopped /\ t.view.open = {}
    BY DEF AnswerEnded
  <2>1. Orderly(s) /\ Shown(s) = {}
    BY DEF Streaming, Shown
  <2>2. /\ s.view.faults = {} /\ ~s.view.stopped /\ s.view.started
        /\ s.view.seen = 0..s.index-1
    BY <2>1 DEF Orderly
  <2>3. Cardinality(s.view.seen) = s.index
    BY <1>9, <2>2, Numbered
  <2>4. /\ a.view.faults = {} /\ ~a.view.stopped /\ a.view.started /\ a.view.open = {}
        /\ a.index = Cardinality(a.view.seen)
    BY <1>1, <1>2, <2>2, <2>3
  <2>5. z.faults = {} /\ ~z.stopped /\ z.started /\ z.open = {}
    BY <1>3, <2>4
  <2> QED BY <1>6, <1>8, <2>5
<1> QED BY <1>13, <1>14, <1>15 DEF t, c, a

\* An answer that is replayed: each block was stopped before the next starts.
Replayed(s) ==
  /\ LocalsTyped(s) /\ s.finish = "none"
  /\ \A i \in DOMAIN s.calls : s.calls[i] = Made
  /\ \A i \in DOMAIN s.blocks :
       /\ i \in DOMAIN s.calls
       /\ s.blocks[i] \in DOMAIN s.view.tools /\ s.view.tools[s.blocks[i]] = "json"
  /\ DOMAIN s.view.tools \subseteq s.view.seen
  /\ s.view.stop = "none" /\ s.view.faults = {} /\ s.view.started /\ ~s.view.stopped
  /\ s.view.open = {} /\ s.view.seen = 0..s.index-1

LEMMA ReplayIsTyped ==
  ASSUME NEW s, Replayed(s)
  PROVE  AnswerTyped(s)
<1>1. {s.started, s.thinking, s.text, s.textual, s.delayed, s.writing} \subseteq BOOLEAN
  BY DEF Replayed, LocalsTyped
<1>2. /\ s.index \in Nat /\ s.input \in 0..1 /\ s.output \in 0..1
      /\ s.finish \in {"none", "stop", "length", "tool_calls"}
  BY DEF Replayed, LocalsTyped
<1>3. \A i \in DOMAIN s.calls : s.calls[i] \in Call
  BY MadeIsCall DEF Replayed
<1>4. \A i \in DOMAIN s.blocks : /\ i \in DOMAIN s.calls /\ s.calls[i].named
                                 /\ s.blocks[i] \in DOMAIN s.view.tools
  BY MadeIsCall DEF Replayed
<1>5. DOMAIN s.view.tools \subseteq s.view.seen
  BY DEF Replayed
<1> QED BY <1>1, <1>2, <1>3, <1>4, <1>5 DEF AnswerTyped

LEMMA ReplayTexts ==
  ASSUME NEW s, Replayed(s)
  PROVE  Replayed(WholeText(s))
<1> DEFINE u == BlockStop(Delta(BlockStart(s.view, s.index), s.index), s.index)
           t == WholeText(s)
<1>0. LocalsTyped(s)
  BY DEF Replayed
<1>1. /\ DOMAIN u = ViewFields
      /\ u.open = s.view.open \ {s.index} /\ u.seen = s.view.seen \cup {s.index}
      /\ u.tools = s.view.tools /\ u.stop = s.view.stop
      /\ u.stopped = s.view.stopped /\ u.started = s.view.started
      /\ s.view.started /\ ~s.view.stopped /\ s.index = Cardinality(s.view.seen)
           => u.faults = s.view.faults
  BY <1>0, ViewWholeText DEF LocalsTyped
<1>2. t = [s EXCEPT !.index = @ + 1, !.view = u]
  BY DEF WholeText
<1> HIDE DEF t, u
<1>3. /\ DOMAIN t = LocalFields /\ t.view = u
      /\ t.started = s.started /\ t.text = s.text /\ t.index = s.index + 1
      /\ t.thinking = s.thinking
      /\ t.textual = s.textual /\ t.delayed = s.delayed /\ t.writing = s.writing
      /\ t.finish = s.finish /\ t.input = s.input /\ t.output = s.output
      /\ t.calls = s.calls /\ t.blocks = s.blocks
  BY <1>0, <1>2 DEF LocalsTyped, LocalFields
<1>4. s.index \in Nat /\ t.index \in Nat
  BY <1>0, <1>3 DEF LocalsTyped
<1>5. LocalsTyped(t)
  BY <1>0, <1>1, <1>3, <1>4 DEF LocalsTyped
<1>6. s.view.seen = 0..s.index-1
  BY DEF Replayed
<1>7. Cardinality(s.view.seen) = s.index
  BY <1>4, <1>6, Numbered
<1>8. /\ t.view.stop = "none" /\ t.view.faults = {} /\ t.view.started
      /\ ~t.view.stopped /\ t.view.open = {}
  BY <1>1, <1>3, <1>7 DEF Replayed
<1>9. 0..t.index-1 = (0..s.index-1) \cup {s.index}
  BY <1>3, <1>4
<1>10. t.view.seen = 0..t.index-1
  BY <1>1, <1>3, <1>6, <1>9
<1>11. /\ t.finish = "none"
       /\ \A i \in DOMAIN t.calls : t.calls[i] = Made
       /\ \A i \in DOMAIN t.blocks :
            /\ i \in DOMAIN t.calls
            /\ t.blocks[i] \in DOMAIN t.view.tools /\ t.view.tools[t.blocks[i]] = "json"
       /\ DOMAIN t.view.tools \subseteq t.view.seen
  BY <1>1, <1>3 DEF Replayed
<1>12. Replayed(t)
  BY <1>5, <1>8, <1>10, <1>11 DEF Replayed
<1> QED BY <1>12 DEF t

LEMMA ReplayCalls ==
  ASSUME NEW s, Replayed(s)
  PROVE  Replayed([WholeTool(s, s.index) EXCEPT !.view = BlockStop(@, s.index)])
<1> DEFINE a == ToolDelta(ToolStart(s.view, s.index), s.index, "json")
           u == BlockStop(a, s.index)
           m == WholeTool(s, s.index)
           t == [m EXCEPT !.view = BlockStop(@, s.index)]
<1>0. LocalsTyped(s)
  BY DEF Replayed
<1>1. /\ DOMAIN a = ViewFields
      /\ a.open = s.view.open \cup {s.index} /\ a.seen = s.view.seen \cup {s.index}
      /\ a.tools = Sent(s.view.tools, s.index)
      /\ a.stop = s.view.stop /\ a.stopped = s.view.stopped
      /\ a.started = s.view.started
      /\ s.view.started /\ ~s.view.stopped /\ s.index = Cardinality(s.view.seen)
           => a.faults = s.view.faults
  BY <1>0, ViewWholeTool DEF LocalsTyped
<1>2. /\ DOMAIN m = LocalFields /\ m.view = a
      /\ m.started = s.started /\ m.text = s.text /\ m.index = s.index + 1
      /\ m.thinking = s.thinking
      /\ m.textual = s.textual /\ m.delayed = s.delayed /\ m.writing = s.writing
      /\ m.finish = s.finish /\ m.input = s.input /\ m.output = s.output
      /\ m.calls = With(s.calls, s.index, Made)
      /\ m.blocks = With(s.blocks, s.index, s.index)
  BY <1>0, WholeToolFields
<1> HIDE DEF a, m
<1>3. /\ DOMAIN u = ViewFields
      /\ u.open = a.open \ {s.index} /\ u.seen = a.seen /\ u.tools = a.tools
      /\ u.stop = a.stop /\ u.stopped = a.stopped /\ u.started = a.started
      /\ s.index \in a.open => u.faults = a.faults
  BY <1>1, ViewCloses
<1>4. t = [m EXCEPT !.view = u]
  BY <1>2
<1> HIDE DEF t, u
<1>5. /\ DOMAIN t = LocalFields /\ t.view = u
      /\ t.started = m.started /\ t.text = m.text /\ t.index = m.index
      /\ t.thinking = m.thinking
      /\ t.textual = m.textual /\ t.delayed = m.delayed /\ t.writing = m.writing
      /\ t.finish = m.finish /\ t.input = m.input /\ t.output = m.output
      /\ t.calls = m.calls /\ t.blocks = m.blocks
  BY <1>2, <1>4 DEF LocalFields
<1>6. s.index \in Nat /\ t.index = s.index + 1 /\ t.index \in Nat
  <2>1. s.index \in Nat
    BY <1>0 DEF LocalsTyped
  <2> QED BY <1>2, <1>5, <2>1
<1>7. LocalsTyped(t)
  BY <1>0, <1>2, <1>3, <1>5, <1>6 DEF LocalsTyped
<1>8. s.view.seen = 0..s.index-1
  BY DEF Replayed
<1>9. Cardinality(s.view.seen) = s.index
  BY <1>6, <1>8, Numbered
<1>10. /\ t.view.stop = "none" /\ t.view.faults = {} /\ t.view.started
       /\ ~t.view.stopped /\ t.view.open = {}
  BY <1>1, <1>3, <1>5, <1>9 DEF Replayed
<1>11. 0..t.index-1 = (0..s.index-1) \cup {s.index}
  BY <1>6
<1>12. t.view.seen = 0..t.index-1
  BY <1>1, <1>3, <1>5, <1>8, <1>11
<1>13. t.calls = With(s.calls, s.index, Made) /\ t.blocks = With(s.blocks, s.index, s.index)
  BY <1>2, <1>5
<1>14. t.view.tools = With(s.view.tools, s.index, "json")
  BY <1>1, <1>3, <1>5 DEF Sent
<1>15. ASSUME NEW i \in DOMAIN t.calls PROVE t.calls[i] = Made
  BY <1>13, <1>15 DEF With, Replayed
<1>16. ASSUME NEW i \in DOMAIN t.blocks
       PROVE  /\ i \in DOMAIN t.calls
              /\ t.blocks[i] \in DOMAIN t.view.tools /\ t.view.tools[t.blocks[i]] = "json"
  <2>1. CASE i = s.index
    BY <1>13, <1>14, <2>1 DEF With
  <2>2. CASE i # s.index
    <3>1. i \in DOMAIN s.blocks /\ t.blocks[i] = s.blocks[i]
      BY <1>13, <2>2 DEF With
    <3>2. /\ i \in DOMAIN s.calls
          /\ s.blocks[i] \in DOMAIN s.view.tools /\ s.view.tools[s.blocks[i]] = "json"
      BY <3>1 DEF Replayed
    <3> QED BY <1>13, <1>14, <3>1, <3>2 DEF With
  <2> QED BY <2>1, <2>2
<1>17. DOMAIN t.view.tools \subseteq t.view.seen
  <2>1. DOMAIN s.view.tools \subseteq s.view.seen
    BY DEF Replayed
  <2> QED BY <1>1, <1>3, <1>5, <1>14, <2>1 DEF With
<1>18. t.finish = "none"
  BY <1>2, <1>5 DEF Replayed
<1>19. Replayed(t)
  BY <1>7, <1>10, <1>12, <1>15, <1>16, <1>17, <1>18 DEF Replayed
<1> QED BY <1>19 DEF t, m

LEMMA ReplayTells ==
  ASSUME NEW s, NEW x, Replayed(s)
  PROVE  LET t == [s EXCEPT !.view = MessageStop(@, IF DOMAIN s.blocks = {} THEN "end_turn"
                                                     ELSE "tool_use", 1)]
         IN AnswerTyped(t) /\ AnswerComplete(t) /\ AnswerEnded(t, x)
<1> DEFINE reason == IF DOMAIN s.blocks = {} THEN "end_turn" ELSE "tool_use"
           u == MessageStop(s.view, reason, 1)
           t == [s EXCEPT !.view = MessageStop(@, reason, 1)]
<1>0. LocalsTyped(s) /\ AnswerTyped(s)
  BY ReplayIsTyped DEF Replayed
<1>1. reason = "tool_use" => DOMAIN s.blocks # {}
  OBVIOUS
<1> HIDE DEF reason
<1>2. /\ DOMAIN u = ViewFields
      /\ u.open = s.view.open /\ u.seen = s.view.seen /\ u.tools = s.view.tools
      /\ u.stop = reason /\ u.stopped /\ u.started = s.view.started
      /\ s.view.open = {} /\ s.view.started /\ ~s.view.stopped
           => u.faults = s.view.faults
  BY <1>0, ViewEnds DEF LocalsTyped
<1>3. t = [s EXCEPT !.view = u]
  OBVIOUS
<1> HIDE DEF t, u
<1>4. /\ DOMAIN t = LocalFields /\ t.view = u
      /\ t.started = s.started /\ t.text = s.text /\ t.index = s.index
      /\ t.thinking = s.thinking
      /\ t.textual = s.textual /\ t.delayed = s.delayed /\ t.writing = s.writing
      /\ t.finish = s.finish /\ t.input = s.input /\ t.output = s.output
      /\ t.calls = s.calls /\ t.blocks = s.blocks
  BY <1>0, <1>3 DEF LocalsTyped, LocalFields
<1>5. AnswerTyped(t)
  BY <1>0, <1>2, <1>4 DEF AnswerTyped
<1>6. AnswerEnded(t, x)
  BY <1>2, <1>4 DEF AnswerEnded, Replayed
<1>7. AnswerComplete(t)
  <2> SUFFICES ASSUME t.view.stop = "tool_use"
               PROVE  /\ DOMAIN t.view.tools # {} /\ t.finish # "length"
                      /\ \A i \in DOMAIN t.blocks :
                           t.view.tools[t.blocks[i]] = t.calls[i].args
                      /\ \A i \in DOMAIN t.calls : t.calls[i].args # "partial"
    BY DEF AnswerComplete
  <2>1. DOMAIN s.blocks # {}
    BY <1>1, <1>2, <1>4
  <2>2. DOMAIN t.view.tools # {} /\ t.finish # "length"
    BY <1>2, <1>4, <2>1 DEF Replayed
  <2>3. \A i \in DOMAIN t.blocks : t.view.tools[t.blocks[i]] = t.calls[i].args
    BY <1>2, <1>4, MadeIsCall DEF Replayed
  <2>4. \A i \in DOMAIN t.calls : t.calls[i].args # "partial"
    BY <1>2, <1>4, MadeIsCall DEF Replayed
  <2> QED BY <2>2, <2>3, <2>4
<1> QED BY <1>5, <1>6, <1>7 DEF t, reason

\* What is kept back, and what the provider told, are no part of the view.
LEMMA HeldStreams ==
  ASSUME NEW s, NEW t, NEW x, Streaming(s, x), LocalsTyped(t),
         t.calls = s.calls, t.blocks = s.blocks, t.view = s.view, t.index = s.index,
         t.thinking = s.thinking, t.text = s.text, t.started = s.started
  PROVE  Streaming(t, x)
<1>1. t.index >= s.index
  BY DEF LocalsTyped
<1>2. ~x => Orderly(t)
  BY DEF Streaming, Orderly, Blocks, Shown
<1> QED BY <1>1, <1>2, OthersStream

LEMMA TextStreams ==
  ASSUME NEW s, NEW x, Streaming(s, x), s.started
  PROVE  Streaming(SendText(s), x) /\ SendText(s).calls = s.calls
<1> DEFINE a == IF s.thinking /\ ~s.text THEN CloseThinking(s) ELSE s
           b == OpenText(a)
<1>1. Streaming(a, x) /\ a.started /\ a.calls = s.calls /\ (~x => ~a.thinking)
  <2>1. CASE s.thinking /\ ~s.text
    BY <2>1, ThinkingCloses
  <2>2. CASE ~(s.thinking /\ ~s.text)
    <3>1. ~x => ~(s.thinking /\ s.text)
      BY DEF Streaming, Orderly
    <3> QED BY <2>2, <3>1
  <2> QED BY <2>1, <2>2
<1> HIDE DEF a
<1>2. Streaming(b, x) /\ b.text /\ b.calls = a.calls
  BY <1>1, TextOpens
<1> HIDE DEF b
<1>3. Streaming(BlockDelta(b), x) /\ BlockDelta(b).calls = b.calls
  BY <1>2, DeltaStreams
<1>4. SendText(s) = BlockDelta(b)
  BY DEF SendText, a, b
<1> QED BY <1>1, <1>2, <1>3, <1>4

\* Content that may begin a tool call.
Textually(s, textual, delayed, writing) ==
  [s EXCEPT !.textual = textual, !.delayed = delayed, !.writing = writing]

LEMMA TextuallyStreams ==
  ASSUME NEW s, NEW x, Streaming(s, x),
         NEW textual \in BOOLEAN, NEW delayed \in BOOLEAN, NEW writing \in BOOLEAN
  PROVE  LET t == Textually(s, textual, delayed, writing)
         IN Streaming(t, x) /\ t.calls = s.calls /\ t.started = s.started
<1> DEFINE t == Textually(s, textual, delayed, writing)
<1>0. LocalsTyped(s)
  BY DEF Streaming
<1>1. /\ DOMAIN t = LocalFields /\ t.view = s.view
      /\ t.started = s.started /\ t.text = s.text /\ t.index = s.index
      /\ t.thinking = s.thinking
      /\ t.textual = textual /\ t.delayed = delayed /\ t.writing = writing
      /\ t.finish = s.finish /\ t.input = s.input /\ t.output = s.output
      /\ t.calls = s.calls /\ t.blocks = s.blocks
  BY <1>0 DEF Textually, LocalsTyped, LocalFields
<1> HIDE DEF t
<1>2. LocalsTyped(t)
  BY <1>0, <1>1 DEF LocalsTyped
<1>3. Streaming(t, x)
  BY <1>1, <1>2, HeldStreams
<1> QED BY <1>1, <1>3 DEF t

LEMMA ContentStreams ==
  ASSUME NEW s, NEW x, Streaming(s, x), s.started,
         NEW kind \in {"plain", "marker", "mixed"}
  PROVE  Streaming(Content(s, kind), x) /\ Content(s, kind).calls = s.calls
<1> DEFINE m == Textually(s, TRUE, s.delayed, s.writing)
<1>0. LocalsTyped(s)
  BY DEF Streaming
<1>1. Streaming(m, x) /\ m.calls = s.calls /\ m.started
  <2>1. s.delayed \in BOOLEAN /\ s.writing \in BOOLEAN /\ TRUE \in BOOLEAN
    BY <1>0 DEF LocalsTyped
  <2> QED BY <2>1, TextuallyStreams
<1>2. m = [s EXCEPT !.textual = TRUE]
  BY <1>0 DEF Textually, LocalsTyped, LocalFields
<1> HIDE DEF m
<1>3. CASE kind = "plain"
  BY <1>3, TextStreams DEF Content
<1>4. CASE kind = "marker"
  BY <1>1, <1>2, <1>4 DEF Content
<1>5. CASE kind = "mixed"
  <2>1. Content(s, kind) = SendText(m)
    BY <1>2, <1>5 DEF Content
  <2> QED BY <1>1, <2>1, TextStreams
<1> QED BY <1>3, <1>4, <1>5

\* The locals of a stream of which no chunk has come.
Untouched(s) ==
  DOMAIN s.calls = {} /\ DOMAIN s.blocks = {} /\ ~s.thinking /\ ~s.text /\ s.finish = "none"

\* The inductive invariant.  The calls of a stream that runs are the provider's.
AnswerInv ==
  /\ phase \in {"running", "ending", "replaying", "done", "failed", "left"}
  /\ forced \in Forced /\ chunks \in 0..MaxChunks /\ woven \in BOOLEAN
  /\ phase \in {"running", "ending"} => Streaming(w, woven)
  /\ phase = "running" => \A i \in DOMAIN w.calls : w.calls[i].native
  /\ phase = "ending" => w.started /\ ~w.thinking /\ ~w.text
  /\ phase = "running" /\ chunks = 0 => ~woven /\ Untouched(w)
  /\ phase = "replaying" => Replayed(w) /\ forced = "none"
  /\ phase \in {"done", "failed", "left"} => AnswerSound

LEMMA SoundFromParts ==
  ASSUME phase \in {"running", "ending", "replaying", "done", "failed", "left"},
         forced \in Forced, chunks \in 0..MaxChunks, woven \in BOOLEAN,
         AnswerTyped(w), AnswerComplete(w), ~woven => w.view.faults = {},
         phase \in {"done", "failed"} => AnswerEnded(w, woven),
         phase = "done" /\ forced # "none" => DOMAIN w.view.tools # {}
  PROVE  AnswerSound
<1>1. TypeOK
  BY DEF TypeOK, AnswerTyped
<1>2. WellFormed
  BY DEF WellFormed, AnswerEnded
<1>3. ToolUseComplete
  BY DEF ToolUseComplete, AnswerComplete
<1>4. ForcedTool
  BY DEF ForcedTool
<1> QED BY <1>1, <1>2, <1>3, <1>4 DEF AnswerSound

LEMMA InvIsSound == AnswerInv => AnswerSound
<1> SUFFICES ASSUME AnswerInv PROVE AnswerSound
  OBVIOUS
<1>0. /\ phase \in {"running", "ending", "replaying", "done", "failed", "left"}
      /\ forced \in Forced /\ chunks \in 0..MaxChunks /\ woven \in BOOLEAN
  BY DEF AnswerInv
<1>1. CASE phase \in {"running", "ending"}
  <2>1. Streaming(w, woven)
    BY <1>1 DEF AnswerInv
  <2>2. AnswerTyped(w)
    <3>1. DOMAIN w.view.tools = Blocks(w) /\ LocalsTyped(w)
      BY <2>1 DEF Streaming, BlocksFit
    <3> QED BY <2>1, <3>1, StreamIsTyped
  <2>3. AnswerComplete(w)
    BY <2>1 DEF AnswerComplete, Streaming, BlocksFit
  <2>4. ~woven => w.view.faults = {}
    BY <2>1 DEF Streaming, Orderly
  <2> QED BY <1>0, <1>1, <2>2, <2>3, <2>4, SoundFromParts
<1>2. CASE phase = "replaying"
  <2>1. Replayed(w)
    BY <1>2 DEF AnswerInv
  <2>2. AnswerTyped(w)
    BY <2>1, ReplayIsTyped
  <2>3. AnswerComplete(w) /\ w.view.faults = {}
    BY <2>1 DEF AnswerComplete, Replayed
  <2> QED BY <1>0, <1>2, <2>2, <2>3, SoundFromParts
<1>3. CASE phase \in {"done", "failed", "left"}
  BY <1>3 DEF AnswerInv
<1> QED BY <1>0, <1>1, <1>2, <1>3

LEMMA AnswerInitial == Init => AnswerInv
<1> SUFFICES ASSUME Init PROVE AnswerInv
  OBVIOUS
<1>1. /\ phase = "running" /\ forced \in Forced /\ chunks = 0 /\ woven = FALSE
      /\ w = NewLocals
  BY DEF Init
<1>2. /\ DOMAIN w = LocalFields /\ w.view = NewView
      /\ w.started = FALSE /\ w.text = FALSE /\ w.index = 0 /\ w.thinking = FALSE
      /\ w.textual = FALSE /\ w.delayed = FALSE /\ w.writing = (forced = "write")
      /\ w.finish = "none" /\ w.input = 0 /\ w.output = 0
      /\ w.calls = << >> /\ w.blocks = << >>
  BY <1>1 DEF NewLocals, LocalFields
<1>3. /\ DOMAIN w.view = ViewFields /\ w.view.started = FALSE /\ w.view.open = {}
      /\ w.view.seen = {} /\ w.view.tools = << >> /\ w.view.stop = "none"
      /\ w.view.stopped = FALSE /\ w.view.faults = {}
  BY <1>2 DEF NewView, ViewFields
<1>4. DOMAIN w.calls = {} /\ DOMAIN w.blocks = {} /\ DOMAIN w.view.tools = {}
  BY <1>2, <1>3
<1>5. LocalsTyped(w)
  <2>1. w.started \in BOOLEAN /\ w.thinking \in BOOLEAN /\ w.text \in BOOLEAN
    BY <1>2
  <2>2. w.textual \in BOOLEAN /\ w.delayed \in BOOLEAN
    BY <1>2
  <2>3. w.writing \in BOOLEAN
    BY <1>2
  <2>4. /\ w.index \in Nat /\ w.input \in 0..1 /\ w.output \in 0..1
        /\ w.finish \in {"none", "stop", "length", "tool_calls"}
    BY <1>2
  <2>5. DOMAIN w = LocalFields /\ DOMAIN w.view = ViewFields
    BY <1>2, <1>3
  <2> QED BY <2>1, <2>2, <2>3, <2>4, <2>5 DEF LocalsTyped
<1>6. CallsFit(w)
  <2>1. DOMAIN w.calls = 0..0-1
    BY <1>4
  <2>2. \E k \in Nat : DOMAIN w.calls = 0..k-1
    BY <2>1
  <2> QED BY <1>4, <2>2 DEF CallsFit
<1>7. BlocksFit(w)
  BY <1>3, <1>4 DEF BlocksFit, Blocks
<1>8. Orderly(w)
  <2>1. Blocks(w) = {} /\ Shown(w) = {}
    BY <1>2, <1>4 DEF Blocks, Shown
  <2>2. 0..w.index-1 = {}
    BY <1>2
  <2> QED BY <1>2, <1>3, <2>1, <2>2 DEF Orderly
<1>9. Streaming(w, woven)
  BY <1>5, <1>6, <1>7, <1>8 DEF Streaming
<1>10. chunks \in 0..MaxChunks
  BY <1>1, StreamConstants
<1>11. Untouched(w)
  BY <1>2, <1>4 DEF Untouched
<1> QED BY <1>1, <1>4, <1>9, <1>10, <1>11 DEF AnswerInv

LEMMA ChunkKeeps ==
  ASSUME AnswerInv, NEW t, Chunk(t), woven' \in BOOLEAN, Streaming(t, woven'),
         \A i \in DOMAIN t.calls : t.calls[i].native
  PROVE  AnswerInv'
<1>1. /\ phase = "running" /\ phase' = "running" /\ forced' = forced
      /\ chunks < MaxChunks /\ chunks' = chunks + 1 /\ w' = t
  BY DEF Chunk
<1>2. chunks' \in 0..MaxChunks
  BY <1>1, StreamConstants DEF AnswerInv
<1>3. forced' \in Forced
  BY <1>1 DEF AnswerInv
<1>4. phase' \in {"running", "ending", "replaying", "done", "failed", "left"}
  BY <1>1
<1>5. chunks' # 0
  BY <1>1 DEF AnswerInv
<1> QED BY <1>1, <1>2, <1>3, <1>4, <1>5 DEF AnswerInv

LEMMA UsageKeeps == AnswerInv /\ Usage => AnswerInv'
<1> SUFFICES ASSUME AnswerInv, Usage PROVE AnswerInv'
  OBVIOUS
<1> DEFINE t == [w EXCEPT !.input = 1, !.output = 1]
<1>1. phase = "running" /\ woven' = woven /\ Chunk(Start(t))
  BY DEF Usage, Chunk
<1>2. /\ Streaming(w, woven) /\ woven \in BOOLEAN
      /\ \A i \in DOMAIN w.calls : w.calls[i].native
  BY <1>1 DEF AnswerInv
<1>3. LocalsTyped(w)
  BY <1>2 DEF Streaming
<1>4. /\ DOMAIN t = LocalFields /\ t.view = w.view
      /\ t.started = w.started /\ t.text = w.text /\ t.index = w.index
      /\ t.thinking = w.thinking
      /\ t.textual = w.textual /\ t.delayed = w.delayed /\ t.writing = w.writing
      /\ t.finish = w.finish /\ t.input = 1 /\ t.output = 1
      /\ t.calls = w.calls /\ t.blocks = w.blocks
  BY <1>3 DEF LocalsTyped, LocalFields
<1> HIDE DEF t
<1>5. LocalsTyped(t)
  BY <1>3, <1>4 DEF LocalsTyped
<1>6. Streaming(t, woven)
  BY <1>2, <1>4, <1>5, HeldStreams
<1>7. Streaming(Start(t), woven) /\ Start(t).calls = t.calls
  BY <1>6, StartStreams
<1> HIDE DEF Chunk
<1>8. \A i \in DOMAIN Start(t).calls : Start(t).calls[i].native
  BY <1>2, <1>4, <1>7
<1> QED BY <1>1, <1>2, <1>7, <1>8, ChunkKeeps

LEMMA FinishKeeps ==
  ASSUME AnswerInv, NEW reason \in {"stop", "length", "tool_calls"}, Finish(reason)
  PROVE  AnswerInv'
<1> DEFINE s == Start(w)
           t == IF reason = "tool_calls" \/ s.finish # "tool_calls"
                THEN [s EXCEPT !.finish = reason] ELSE s
<1>1. phase = "running" /\ woven' = woven /\ Chunk(t)
  BY DEF Finish, Chunk
<1>2. /\ Streaming(w, woven) /\ woven \in BOOLEAN
      /\ \A i \in DOMAIN w.calls : w.calls[i].native
  BY <1>1 DEF AnswerInv
<1>3. Streaming(s, woven) /\ s.calls = w.calls
  BY <1>2, StartStreams
<1> HIDE DEF s
<1>4. LocalsTyped(s)
  BY <1>3 DEF Streaming
<1>5. /\ DOMAIN t = LocalFields /\ t.view = s.view
      /\ t.started = s.started /\ t.text = s.text /\ t.index = s.index
      /\ t.thinking = s.thinking
      /\ t.textual = s.textual /\ t.delayed = s.delayed /\ t.writing = s.writing
      /\ t.finish \in {s.finish, reason} /\ t.input = s.input /\ t.output = s.output
      /\ t.calls = s.calls /\ t.blocks = s.blocks
  BY <1>4 DEF LocalsTyped, LocalFields
<1> HIDE DEF t
<1>6. LocalsTyped(t)
  BY <1>4, <1>5 DEF LocalsTyped
<1>7. Streaming(t, woven)
  BY <1>3, <1>5, <1>6, HeldStreams
<1>8. \A i \in DOMAIN t.calls : t.calls[i].native
  BY <1>2, <1>3, <1>5
<1> QED BY <1>1, <1>2, <1>7, <1>8, ChunkKeeps

LEMMA ReasoningKeeps == AnswerInv /\ Reasoning => AnswerInv'
<1> SUFFICES ASSUME AnswerInv, Reasoning PROVE AnswerInv'
  OBVIOUS
<1> DEFINE s == Start(w)
           o == OpenThinking(s)
           t == BlockDelta(o)
<1>1. phase = "running" /\ woven' = (woven \/ w.text) /\ Chunk(t)
  BY DEF Reasoning, Chunk
<1>2. /\ Streaming(w, woven) /\ woven \in BOOLEAN
      /\ \A i \in DOMAIN w.calls : w.calls[i].native
  BY <1>1 DEF AnswerInv
<1>3. /\ Streaming(s, woven) /\ s.calls = w.calls /\ s.started /\ s.text = w.text
  BY <1>2, StartStreams
<1> HIDE DEF s
<1>4. woven' \in BOOLEAN /\ (~woven' => ~woven /\ ~s.text)
  BY <1>1, <1>2, <1>3 DEF Streaming, LocalsTyped
<1>5. Streaming(s, woven')
  BY <1>3, <1>4 DEF Streaming
<1>6. Streaming(o, woven') /\ o.thinking /\ o.calls = s.calls
  BY <1>3, <1>4, <1>5, ThinkingOpens
<1> HIDE DEF o
<1>7. Streaming(t, woven') /\ t.calls = o.calls
  BY <1>6, DeltaStreams
<1> HIDE DEF t
<1>8. \A i \in DOMAIN t.calls : t.calls[i].native
  BY <1>2, <1>3, <1>6, <1>7
<1> QED BY <1>1, <1>4, <1>7, <1>8, ChunkKeeps

LEMMA TextChunkKeeps ==
  ASSUME AnswerInv, NEW kind \in {"plain", "marker", "mixed"}, NEW over \in BOOLEAN,
         TextChunk(kind, over)
  PROVE  AnswerInv'
<1> DEFINE s == Start(w)
           held == [s EXCEPT !.delayed = TRUE]
           freed == [s EXCEPT !.delayed = FALSE, !.writing = FALSE]
           again == IF kind = "plain" THEN "marker" ELSE kind
           past(p) == IF ~p.textual THEN Content(p, kind)
                      ELSE IF ~over THEN p
                      ELSE Content(p, again)
           t == IF s.writing /\ s.calls = <<>> THEN IF over THEN past(freed) ELSE held
                ELSE past(s)
<1>1. phase = "running" /\ woven' = woven /\ Chunk(t)
  BY DEF TextChunk, Chunk
<1>2. /\ Streaming(w, woven) /\ woven \in BOOLEAN
      /\ \A i \in DOMAIN w.calls : w.calls[i].native
  BY <1>1 DEF AnswerInv
<1>3. Streaming(s, woven) /\ s.calls = w.calls /\ s.started
  BY <1>2, StartStreams
<1> HIDE DEF s
<1>4. LocalsTyped(s)
  BY <1>3 DEF Streaming
<1>5. held = Textually(s, s.textual, TRUE, s.writing)
  BY <1>4 DEF Textually, LocalsTyped, LocalFields
<1>6. freed = Textually(s, s.textual, FALSE, FALSE)
  BY <1>4 DEF Textually, LocalsTyped, LocalFields
<1> HIDE DEF held, freed
<1>7. s.textual \in BOOLEAN /\ s.writing \in BOOLEAN /\ TRUE \in BOOLEAN /\ FALSE \in BOOLEAN
  BY <1>4 DEF LocalsTyped
<1>8. Streaming(held, woven) /\ held.calls = s.calls
  <2> DEFINE h == Textually(s, s.textual, TRUE, s.writing)
  <2>1. Streaming(s, woven)
    BY <1>3
  <2>2. Streaming(h, woven) /\ h.calls = s.calls
    BY <1>7, <2>1, TextuallyStreams
  <2> QED BY <1>5, <2>2
<1>9. Streaming(freed, woven) /\ freed.calls = s.calls /\ freed.started
  BY <1>3, <1>6, <1>7, TextuallyStreams
<1>10. again \in {"plain", "marker", "mixed"}
  OBVIOUS
<1> HIDE DEF again
<1>11. ASSUME NEW p, Streaming(p, woven), p.started
       PROVE  Streaming(past(p), woven) /\ past(p).calls = p.calls
  <2>1. Streaming(Content(p, kind), woven) /\ Content(p, kind).calls = p.calls
    BY <1>11, ContentStreams
  <2>2. Streaming(Content(p, again), woven) /\ Content(p, again).calls = p.calls
    BY <1>10, <1>11, ContentStreams
  <2> QED BY <1>11, <2>1, <2>2
<1> HIDE DEF past
<1>12. Streaming(t, woven) /\ t.calls = s.calls
  BY <1>3, <1>8, <1>9, <1>11
<1> HIDE DEF t
<1>13. \A i \in DOMAIN t.calls : t.calls[i].native
  BY <1>2, <1>3, <1>12
<1> QED BY <1>1, <1>2, <1>12, <1>13, ChunkKeeps

LEMMA BroughtFits ==
  ASSUME NEW s, NEW x, Streaming(s, x), \A j \in DOMAIN s.calls : s.calls[j].native,
         NEW i, NEW name \in {"none", "allowed", "unavailable"},
         NEW args \in {"none", "partial", "json"}
  PROVE  LET call == Brought(s, i, name, args)
         IN /\ call \in Call /\ call.native
            /\ i \in DOMAIN s.blocks => call.named
<1> DEFINE old == IF i \in DOMAIN s.calls THEN s.calls[i]
                  ELSE [named |-> FALSE, rejected |-> FALSE, args |-> "", native |-> TRUE]
           call == Brought(s, i, name, args)
<1>0. BlocksFit(s) /\ CallsFit(s)
  BY DEF Streaming
<1>1. old \in Call /\ old.native /\ (i \in DOMAIN s.blocks => old.named)
  <2>1. CASE i \in DOMAIN s.calls
    BY <1>0, <2>1 DEF BlocksFit, CallsFit
  <2>2. CASE i \notin DOMAIN s.calls
    <3>1. i \notin DOMAIN s.blocks
      BY <1>0, <2>2 DEF BlocksFit
    <3>2. old = [named |-> FALSE, rejected |-> FALSE, args |-> "", native |-> TRUE]
      BY <2>2
    <3>3. [named |-> FALSE, rejected |-> FALSE, args |-> "", native |-> TRUE] \in Call
      BY DEF Call
    <3>4. old.native
      BY <3>2
    <3> QED BY <3>1, <3>2, <3>3, <3>4
  <2> QED BY <2>1, <2>2
<1>2. call = [old EXCEPT !.named = @ \/ name # "none",
                         !.rejected = IF name = "none" THEN @ ELSE name = "unavailable",
                         !.args = IF args = "none" THEN @ ELSE args]
  BY DEF Brought
<1> HIDE DEF old, call
<1>3. call \in Call
  <2> DEFINE named == old.named \/ name # "none"
             rejected == IF name = "none" THEN old.rejected ELSE name = "unavailable"
             a == IF args = "none" THEN old.args ELSE args
  <2>1. named \in BOOLEAN /\ rejected \in BOOLEAN
    BY <1>1 DEF Call
  <2>2. a \in {"", "partial", "json"}
    BY <1>1 DEF Call
  <2>3. call = [old EXCEPT !.named = named, !.rejected = rejected, !.args = a]
    BY <1>2
  <2> HIDE DEF named, rejected, a
  <2> QED BY <1>1, <2>1, <2>2, <2>3 DEF Call
<1>4. call.native = old.native /\ (old.named => call.named)
  BY <1>1, <1>2 DEF Call
<1> QED BY <1>1, <1>3, <1>4 DEF call

LEMMA ToolChunkKeeps ==
  ASSUME AnswerInv, NEW i \in Tools, NEW name \in {"none", "allowed", "unavailable"},
         NEW args \in {"none", "partial", "json"}, ToolChunk(i, name, args)
  PROVE  AnswerInv'
<1> DEFINE a == Start(w)
           call == Brought(w, i, name, args)
           s == SetCall(a, i, call)
           opens == s.calls[i].named /\ ~s.calls[i].rejected /\ i \notin DOMAIN s.blocks
           b == CloseThinking(s)
           c == CloseText(b)
           t == IF opens THEN OpenTool(c, i) ELSE s
<1>1. /\ phase = "running" /\ woven' = woven /\ Chunk(t)
      /\ \A j \in 0..i-1 : j \in DOMAIN w.calls
  BY DEF ToolChunk, Chunk
<1>2. /\ Streaming(w, woven) /\ woven \in BOOLEAN
      /\ \A j \in DOMAIN w.calls : w.calls[j].native
  BY <1>1 DEF AnswerInv
<1>3. call \in Call /\ call.native /\ (i \in DOMAIN w.blocks => call.named)
  BY <1>2, BroughtFits
<1>4. /\ Streaming(a, woven) /\ a.calls = w.calls /\ a.blocks = w.blocks /\ a.started
  BY <1>2, StartStreams
<1> HIDE DEF a, call
<1>5. i \in Nat
  BY StreamConstants
<1>6. i \in DOMAIN a.blocks => call.named /\ (call.native <=> a.calls[i].native)
  <2>1. i \in DOMAIN w.blocks => i \in DOMAIN w.calls
    BY <1>2 DEF Streaming, BlocksFit
  <2> QED BY <1>2, <1>3, <1>4, <2>1
<1>7. /\ Streaming(s, woven) /\ s.started = a.started /\ s.blocks = a.blocks
      /\ s.calls = With(a.calls, i, call)
  BY <1>1, <1>3, <1>4, <1>5, <1>6, CallStreams
<1> HIDE DEF s
<1>8. i \in DOMAIN s.calls /\ s.calls[i] = call
  BY <1>7 DEF With
<1>9. \A j \in DOMAIN s.calls : s.calls[j].native
  BY <1>2, <1>3, <1>4, <1>7 DEF With
<1>10. /\ Streaming(b, woven) /\ ~b.thinking /\ b.started = s.started
       /\ b.calls = s.calls /\ b.blocks = s.blocks
  BY <1>7, ThinkingCloses
<1> HIDE DEF b
<1>11. /\ Streaming(c, woven) /\ ~c.text /\ ~c.thinking /\ c.started
       /\ c.calls = s.calls /\ c.blocks = s.blocks
  BY <1>4, <1>7, <1>10, TextCloses
<1> HIDE DEF c
<1>12. Streaming(t, woven) /\ t.calls = s.calls
  <2>1. CASE opens
    <3>1. /\ i \in DOMAIN c.calls /\ c.calls[i].named /\ c.calls[i].native
          /\ i \notin DOMAIN c.blocks
      BY <1>3, <1>8, <1>11, <2>1
    <3>2. Streaming(OpenTool(c, i), woven) /\ OpenTool(c, i).calls = c.calls
      BY <1>11, <3>1, ToolOpens
    <3> QED BY <1>11, <2>1, <3>2
  <2>2. CASE ~opens
    BY <1>7, <2>2
  <2> QED BY <2>1, <2>2
<1> HIDE DEF t
<1>13. \A j \in DOMAIN t.calls : t.calls[j].native
  BY <1>9, <1>12
<1> QED BY <1>1, <1>2, <1>12, <1>13, ChunkKeeps

LEMMA DoneKeeps ==
  ASSUME AnswerInv, NEW plain \in BOOLEAN, Done(plain)
  PROVE  AnswerInv'
<1> DEFINE a == Start(w)
           b == CloseThinking(a)
           c == CloseText(b)
           t == FlushText(c, plain)
<1>1. /\ phase = "running" /\ phase' = "ending" /\ w' = t
      /\ forced' = forced /\ chunks' = chunks /\ woven' = woven
  BY DEF Done
<1>2. Streaming(w, woven)
  BY <1>1 DEF AnswerInv
<1>3. Streaming(a, woven) /\ a.started
  BY <1>2, StartStreams
<1> HIDE DEF a
<1>4. Streaming(b, woven) /\ ~b.thinking /\ b.started = a.started
  BY <1>3, ThinkingCloses
<1> HIDE DEF b
<1>5. Streaming(c, woven) /\ ~c.text /\ ~c.thinking /\ c.started
  BY <1>3, <1>4, TextCloses
<1> HIDE DEF c
<1>6. Streaming(t, woven) /\ ~t.text /\ ~t.thinking /\ t.started
  BY <1>5, WholeTextStreams DEF FlushText
<1> HIDE DEF t
<1> QED BY <1>1, <1>6 DEF AnswerInv

LEMMA TextualCallKeeps == AnswerInv /\ TextualCall => AnswerInv'
<1> SUFFICES ASSUME AnswerInv, TextualCall PROVE AnswerInv'
  OBVIOUS
<1> DEFINE i == Cardinality(DOMAIN w.calls)
           t == WholeTool(w, i)
<1>1. /\ phase = "ending" /\ phase' = "ending" /\ w' = t
      /\ forced' = forced /\ chunks' = chunks /\ woven' = woven
  BY DEF TextualCall
<1>2. Streaming(w, woven) /\ w.started /\ ~w.thinking /\ ~w.text
  BY <1>1 DEF AnswerInv
<1>3. PICK k \in Nat : DOMAIN w.calls = 0..k-1
  BY <1>2 DEF Streaming, CallsFit
<1>4. i = k
  BY <1>3, Numbered
<1> HIDE DEF i
<1>5. i \in Nat /\ (\A j \in 0..i-1 : j \in DOMAIN w.calls) /\ i \notin DOMAIN w.calls
  BY <1>3, <1>4
<1>6. i \notin DOMAIN w.blocks
  BY <1>2, <1>5 DEF Streaming, BlocksFit
<1>7. Streaming(t, woven) /\ t.started /\ ~t.thinking /\ ~t.text
  BY <1>2, <1>5, <1>6, WholeToolStreams
<1> HIDE DEF t
<1> QED BY <1>1, <1>7 DEF AnswerInv

LEMMA EndKeeps == AnswerInv /\ End => AnswerInv'
<1> SUFFICES ASSUME AnswerInv, End PROVE AnswerInv'
  OBVIOUS
<1> DEFINE s == ForceTool(w)
           c == CloseTools(SendArgs(s))
           t == [c EXCEPT !.textual = FALSE, !.delayed = FALSE,
                   !.view = MessageStop(@, StopReason(c), c.output)]
<1>1. /\ phase = "ending" /\ phase' = "done" /\ w' = t
      /\ forced' = forced /\ chunks' = chunks /\ woven' = woven
  BY DEF End
<1>2. Streaming(w, woven) /\ w.started /\ ~w.thinking /\ ~w.text
  BY <1>1 DEF AnswerInv
<1>3. /\ Streaming(s, woven) /\ s.started /\ ~s.thinking /\ ~s.text
      /\ forced # "none" => DOMAIN s.blocks # {}
  <2>1. CASE forced # "none" /\ DOMAIN w.blocks = {}
    <3>1. /\ Streaming(WholeTool(w, 0), woven) /\ WholeTool(w, 0).started
          /\ ~WholeTool(w, 0).thinking /\ ~WholeTool(w, 0).text
          /\ DOMAIN WholeTool(w, 0).blocks # {}
      <4>1. 0 \in Nat /\ (\A j \in 0..0-1 : j \in DOMAIN w.calls) /\ 0 \notin DOMAIN w.blocks
        BY <2>1
      <4> QED BY <1>2, <4>1, WholeToolStreams
    <3> QED BY <2>1, <3>1 DEF ForceTool
  <2>2. CASE ~(forced # "none" /\ DOMAIN w.blocks = {})
    BY <1>2, <2>2 DEF ForceTool
  <2> QED BY <2>1, <2>2
<1> HIDE DEF s
<1>4. /\ AnswerTyped(t) /\ AnswerComplete(t) /\ AnswerEnded(t, woven)
      /\ DOMAIN s.blocks # {} => DOMAIN t.view.tools # {}
  BY <1>3, EndTells
<1> HIDE DEF t
<1>5. forced # "none" => DOMAIN t.view.tools # {}
  BY <1>3, <1>4
<1>6. /\ forced \in Forced /\ chunks \in 0..MaxChunks /\ woven \in BOOLEAN
  BY DEF AnswerInv
<1>7. AnswerSound'
  BY <1>1, <1>4, <1>5, <1>6 DEF AnswerSound, TypeOK, WellFormed, ToolUseComplete, ForcedTool,
     AnswerTyped, AnswerComplete, AnswerEnded
<1> QED BY <1>1, <1>6, <1>7 DEF AnswerInv

LEMMA FailKeeps == AnswerInv /\ Fail => AnswerInv'
<1> SUFFICES ASSUME AnswerInv, Fail PROVE AnswerInv'
  OBVIOUS
<1> DEFINE a == Start(w)
           b == CloseThinking(a)
           s == CloseText(b)
           c == WholeText(CloseTools(s))
           t == [c EXCEPT !.view = MessageStop(@, "end_turn", 0)]
<1>1. /\ phase \in {"running", "ending"} /\ phase' = "failed" /\ w' = t
      /\ forced' = forced /\ chunks' = chunks /\ woven' = woven
  BY DEF Fail
<1>2. Streaming(w, woven)
  BY <1>1 DEF AnswerInv
<1>3. Streaming(a, woven) /\ a.started
  BY <1>2, StartStreams
<1> HIDE DEF a
<1>4. Streaming(b, woven) /\ ~b.thinking /\ b.started = a.started
  BY <1>3, ThinkingCloses
<1> HIDE DEF b
<1>5. Streaming(s, woven) /\ ~s.text /\ ~s.thinking /\ s.started
  BY <1>3, <1>4, TextCloses
<1> HIDE DEF s
<1>6. AnswerTyped(t) /\ AnswerComplete(t) /\ AnswerEnded(t, woven)
  BY <1>5, FailTells
<1> HIDE DEF t
<1>7. /\ forced \in Forced /\ chunks \in 0..MaxChunks /\ woven \in BOOLEAN
  BY DEF AnswerInv
<1>8. AnswerSound'
  BY <1>1, <1>6, <1>7 DEF AnswerSound, TypeOK, WellFormed, ToolUseComplete, ForcedTool,
     AnswerTyped, AnswerComplete, AnswerEnded
<1> QED BY <1>1, <1>7, <1>8 DEF AnswerInv

LEMMA LeaveKeeps == AnswerInv /\ Leave => AnswerInv'
<1> SUFFICES ASSUME AnswerInv, Leave PROVE AnswerInv'
  OBVIOUS
<1>1. /\ phase \in {"running", "ending", "replaying"} /\ phase' = "left" /\ w' = w
      /\ forced' = forced /\ chunks' = chunks /\ woven' = woven
  BY DEF Leave
<1>2. AnswerSound
  BY InvIsSound
<1>3. ~woven => w.view.faults = {}
  BY <1>2 DEF AnswerSound, WellFormed
<1>4. AnswerSound'
  BY <1>1, <1>2, <1>3 DEF AnswerSound, TypeOK, WellFormed, ToolUseComplete, ForcedTool
<1>5. /\ forced \in Forced /\ chunks \in 0..MaxChunks /\ woven \in BOOLEAN
  BY DEF AnswerInv
<1> QED BY <1>1, <1>4, <1>5 DEF AnswerInv

LEMMA ReplayKeeps == AnswerInv /\ Replay => AnswerInv'
<1> SUFFICES ASSUME AnswerInv, Replay PROVE AnswerInv'
  OBVIOUS
<1> DEFINE s == [w EXCEPT !.input = 1, !.output = 1]
           t == Start(s)
<1>1. /\ phase = "running" /\ phase' = "replaying" /\ w' = t
      /\ chunks = 0 /\ forced = "none"
      /\ forced' = forced /\ chunks' = chunks /\ woven' = woven
  BY DEF Replay
<1>2. Streaming(w, woven) /\ ~woven /\ Untouched(w)
  BY <1>1 DEF AnswerInv
<1>3. LocalsTyped(w)
  BY <1>2 DEF Streaming
<1>4. /\ DOMAIN s = LocalFields /\ s.view = w.view
      /\ s.started = w.started /\ s.text = w.text /\ s.index = w.index
      /\ s.thinking = w.thinking
      /\ s.textual = w.textual /\ s.delayed = w.delayed /\ s.writing = w.writing
      /\ s.finish = w.finish /\ s.input = 1 /\ s.output = 1
      /\ s.calls = w.calls /\ s.blocks = w.blocks
  BY <1>3 DEF LocalsTyped, LocalFields
<1> HIDE DEF s
<1>5. LocalsTyped(s)
  BY <1>3, <1>4 DEF LocalsTyped
<1>6. Streaming(s, woven)
  BY <1>2, <1>4, <1>5, HeldStreams
<1>7. /\ Streaming(t, woven) /\ t.started /\ t.calls = s.calls /\ t.blocks = s.blocks
      /\ t.text = s.text /\ t.thinking = s.thinking /\ t.finish = s.finish
  BY <1>6, StartStreams
<1> HIDE DEF t
<1>8. Untouched(t)
  BY <1>2, <1>4, <1>7 DEF Untouched
<1>9. Replayed(t)
  <2>1. LocalsTyped(t) /\ BlocksFit(t) /\ Orderly(t)
    BY <1>2, <1>7 DEF Streaming
  <2>2. Blocks(t) = {} /\ Shown(t) = {}
    BY <1>8 DEF Blocks, Shown, Untouched
  <2>3. DOMAIN t.view.tools \subseteq t.view.seen /\ t.view.stop = "none"
    BY <2>1 DEF BlocksFit
  <2>4. /\ t.view.faults = {} /\ t.view.started /\ ~t.view.stopped
        /\ t.view.open = {} /\ t.view.seen = 0..t.index-1
    BY <1>7, <2>1, <2>2 DEF Orderly
  <2> QED BY <1>8, <2>1, <2>3, <2>4 DEF Replayed, Untouched
<1> QED BY <1>1, <1>9 DEF AnswerInv

LEMMA ReplayBlockKeeps ==
  ASSUME AnswerInv, NEW kind \in {"text", "tool_use"}, ReplayBlock(kind)
  PROVE  AnswerInv'
<1> DEFINE t == IF kind = "tool_use"
                THEN [WholeTool(w, w.index) EXCEPT !.view = BlockStop(@, w.index)]
                ELSE WholeText(w)
<1>1. /\ phase = "replaying" /\ phase' = "replaying" /\ w' = t
      /\ chunks < MaxChunks /\ chunks' = chunks + 1
      /\ forced' = forced /\ woven' = woven
  BY DEF ReplayBlock
<1>2. Replayed(w)
  BY <1>1 DEF AnswerInv
<1>3. Replayed(t)
  BY <1>2, ReplayTexts, ReplayCalls
<1> HIDE DEF t
<1>4. chunks' \in 0..MaxChunks
  BY <1>1, StreamConstants DEF AnswerInv
<1> QED BY <1>1, <1>3, <1>4 DEF AnswerInv

LEMMA ReplayEndKeeps == AnswerInv /\ ReplayEnd => AnswerInv'
<1> SUFFICES ASSUME AnswerInv, ReplayEnd PROVE AnswerInv'
  OBVIOUS
<1> DEFINE t == [w EXCEPT !.view =
                   MessageStop(@, IF DOMAIN w.blocks = {} THEN "end_turn" ELSE "tool_use", 1)]
<1>1. /\ phase = "replaying" /\ phase' = "done" /\ w' = t
      /\ forced' = forced /\ chunks' = chunks /\ woven' = woven
  BY DEF ReplayEnd
<1>2. Replayed(w)
  BY <1>1 DEF AnswerInv
<1>3. AnswerTyped(t) /\ AnswerComplete(t) /\ AnswerEnded(t, woven)
  BY <1>2, ReplayTells
<1> HIDE DEF t
<1>4. /\ forced \in Forced /\ chunks \in 0..MaxChunks /\ woven \in BOOLEAN
  BY DEF AnswerInv
<1>5. forced = "none"
  BY <1>1 DEF AnswerInv
<1>6. AnswerSound'
  BY <1>1, <1>3, <1>4, <1>5 DEF AnswerSound, TypeOK, WellFormed, ToolUseComplete,
     ForcedTool, AnswerTyped, AnswerComplete, AnswerEnded
<1> QED BY <1>1, <1>4, <1>6 DEF AnswerInv

LEMMA AnswerInvInductive == AnswerInv /\ [Next]_vars => AnswerInv'
<1> SUFFICES ASSUME AnswerInv, [Next]_vars PROVE AnswerInv'
  OBVIOUS
<1>1. CASE \E reason \in {"stop", "length", "tool_calls"} : Finish(reason)
  BY <1>1, FinishKeeps
<1>2. CASE \E kind \in {"plain", "marker", "mixed"}, over \in BOOLEAN : TextChunk(kind, over)
  BY <1>2, TextChunkKeeps
<1>3. CASE \E i \in Tools, name \in {"none", "allowed", "unavailable"},
              args \in {"none", "partial", "json"} : ToolChunk(i, name, args)
  BY <1>3, ToolChunkKeeps
<1>4. CASE \E plain \in BOOLEAN : Done(plain)
  BY <1>4, DoneKeeps
<1>5. CASE \E kind \in {"text", "tool_use"} : ReplayBlock(kind)
  BY <1>5, ReplayBlockKeeps
<1>6. CASE Usage \/ Reasoning \/ TextualCall \/ End
  BY <1>6, UsageKeeps, ReasoningKeeps, TextualCallKeeps, EndKeeps
<1>7. CASE Fail \/ Leave \/ Replay \/ ReplayEnd
  BY <1>7, FailKeeps, LeaveKeeps, ReplayKeeps, ReplayEndKeeps
<1>8. CASE UNCHANGED vars
  BY <1>8 DEF vars, AnswerInv, AnswerSound, TypeOK, WellFormed, ToolUseComplete, ForcedTool
<1> QED BY <1>1, <1>2, <1>3, <1>4, <1>5, <1>6, <1>7, <1>8 DEF Next

\* Whatever comes in whatever order, and wherever the stream ends, the client
\* gets blocks that are numbered, filled and closed in order, complete arguments
\* with a stop for tool use, and a tool call when one was forced.
THEOREM AnswerStaysSound == Spec => []AnswerSound
<1>1. Spec => []AnswerInv
  BY AnswerInitial, AnswerInvInductive, PTL DEF Spec
<1> QED BY <1>1, InvIsSound, PTL
=============================================================================
