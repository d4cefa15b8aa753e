---------------------------- MODULE PanelAccess ----------------------------
(***************************************************************************)
(* Who may use the panels of the admin database: the operator's, which is  *)
(* opened by the account the first setup creates; a reseller's, which is   *)
(* opened by an e-mail account the operator approves or, until it has been *)
(* migrated, by the reseller's master key; a client's, opened by pasting a *)
(* key; and the web chat, whose accounts are bound to a key.               *)
(*                                                                         *)
(* One process serves all panels and a handler uses the database without   *)
(* an await, so a handler is one action; only the setup has an await       *)
(* between its two looks at the table of admins.  A session is kept as the *)
(* row the cookie of a browser refers to; rows no cookie refers to any     *)
(* more are left out.  Expiry, limits and balances of a key are ApiKeys':  *)
(* here a key is active or not, and its text is left out.                   *)
(***************************************************************************)
EXTENDS Naturals, FiniteSets

CONSTANTS
  Browsers,
  Users,      \* who fills in a form of the setup
  Emails,     \* web accounts, by their unique address
  Nil,
  MaxKeys,    \* bound on the keys that are created
  MaxSessions \* bound on the sessions of a browser besides the operator's

ASSUME PanelConstants ==
  /\ Nil \notin Users \cup Emails \cup Nat
  /\ MaxKeys \in Nat /\ MaxSessions \in Nat

VARIABLES
  admins,    \* table admins
  setups,    \* users whose setup found no admin and whose form is awaited
  keys,      \* table api_keys: id -> [type, parent, active]
  created,   \* how many keys were created, and the newest id
  reveals,   \* the keys with a row in key_reveals
  accounts,  \* table web_accounts: email -> [role, status, key]
  sessions,  \* what the cookies refer to: browser -> kind -> admin, email, key
  toggled,   \* keys switched on or off by hand (history)
  leftover   \* keys deleted together with a reseller's account (history)

panelVars == <<admins, setups, keys, created, reveals, accounts, sessions,
               toggled, leftover>>

\* "account" and "chat" are both rows of web_sessions.
Kinds == {"admin", "account", "chat", "master", "client"}
KeyIds == 1..MaxKeys

PanelInit ==
  /\ admins = {} /\ setups = {}
  /\ keys = [k \in {} |-> Nil] /\ created = 0 /\ reveals = {}
  /\ accounts = [e \in {} |-> Nil]
  /\ sessions = [b \in Browsers |-> [s \in Kinds |-> Nil]]
  /\ toggled = {} /\ leftover = {}

Active(k) == k \in DOMAIN keys /\ keys[k].active
Open(k) == Active(k) /\ (keys[k].parent # Nil => Active(keys[k].parent))

Login(b, kind, who) ==
  /\ Cardinality({s \in Kinds \ {"admin", kind} : sessions[b][s] # Nil}) < MaxSessions
  /\ sessions' = [sessions EXCEPT ![b][kind] = who]

\* Rows of tables that refer to a deleted key or account go with it (ON
\* DELETE CASCADE).
Without(gone, lost) ==
  /\ keys' = [k \in DOMAIN keys \ gone |-> keys[k]]
  /\ accounts' = [e \in {x \in DOMAIN accounts \ lost : accounts[x].key \notin gone}
                    |-> accounts[e]]
  /\ sessions' = [b \in Browsers |-> [s \in Kinds |->
       LET who == sessions[b][s]
           cut == \/ s \in {"account", "chat"} /\ who # Nil /\ who \notin DOMAIN accounts'
                  \/ s \in {"master", "client"} /\ who \in gone
       IN  IF cut THEN Nil ELSE who]]
  /\ toggled' = toggled \ gone

-----------------------------------------------------------------------------
(* The operator's panel.                                                    *)

\* admin_exists; create_admin asks it again.
NoneYet == admins = {}

OpenSetup(u) ==
  /\ NoneYet /\ u \notin setups
  /\ setups' = setups \cup {u}
  /\ UNCHANGED <<admins, keys, created, reveals, accounts, sessions, toggled, leftover>>

\* The form has come; it may be refused, and create_admin looks again.
FinishSetup(b, u) ==
  /\ u \in setups /\ setups' = setups \ {u}
  /\ \/ NoneYet /\ admins' = {u} /\ Login(b, "admin", u)
     \/ UNCHANGED <<admins, sessions>>
  /\ UNCHANGED <<keys, created, reveals, accounts, toggled, leftover>>

AdminLogin(b) ==
  /\ \E u \in admins : Login(b, "admin", u)
  /\ UNCHANGED <<admins, setups, keys, created, reveals, accounts, toggled, leftover>>

\* A key is shown once, by the row its creation or rotation leaves.
Created(k, row) ==
  /\ k = created + 1 /\ created' = k
  /\ keys' = [x \in DOMAIN keys \cup {k} |-> IF x = k THEN row ELSE keys[x]]
  /\ reveals' = reveals \cup {k}
Fresh(type, parent, active) ==
  [type |-> type, parent |-> parent, active |-> active]

CreateKey(b, k) ==
  /\ sessions[b]["admin"] # Nil
  /\ \E type \in {"client", "reseller"} : Created(k, Fresh(type, Nil, TRUE))
  /\ UNCHANGED <<admins, setups, accounts, sessions, toggled, leftover>>

Rotate(b, k) ==
  /\ sessions[b]["admin"] # Nil /\ k \in DOMAIN keys
  /\ reveals' = reveals \cup {k}
  /\ UNCHANGED <<admins, setups, keys, created, accounts, sessions, toggled, leftover>>

Toggle(b, k) ==
  /\ sessions[b]["admin"] # Nil /\ k \in DOMAIN keys
  /\ keys' = [keys EXCEPT ![k].active = ~@]
  /\ toggled' = toggled \cup {k}
  /\ UNCHANGED <<admins, setups, created, reveals, accounts, sessions, leftover>>

Family(k) == {x \in DOMAIN keys : x = k \/ keys[x].parent = k}

DeleteKey(b, k) ==
  /\ sessions[b]["admin"] # Nil /\ k \in DOMAIN keys
  /\ Without(Family(k), {})
  /\ reveals' = reveals \ Family(k)
  /\ UNCHANGED <<admins, setups, created, leftover>>

\* A reveal is closed by the operator, or its ten minutes are over.
EndReveal ==
  /\ \E r \in reveals : reveals' = reveals \ {r}
  /\ UNCHANGED <<admins, setups, keys, created, accounts, sessions, toggled, leftover>>

-----------------------------------------------------------------------------
(* The accounts of resellers.                                               *)

NewAccount(e, role, status, k) ==
  accounts' = [x \in DOMAIN accounts \cup {e} |->
                 IF x = e THEN [role |-> role, status |-> status, key |-> k]
                 ELSE accounts[x]]

\* create_reseller_account: the key is created for the account and stays
\* inactive until it is approved.
Signup(e, k) ==
  /\ e \notin DOMAIN accounts
  /\ Created(k, Fresh("reseller", Nil, FALSE))
  /\ NewAccount(e, "reseller", "pending", k)
  /\ UNCHANGED <<admins, setups, sessions, toggled, leftover>>

Bound(k) == \E e \in DOMAIN accounts : accounts[e].key = k

Attach(b, e, k) ==
  /\ sessions[b]["admin"] # Nil
  /\ e \notin DOMAIN accounts /\ k \in DOMAIN keys
  /\ keys[k].type = "reseller" /\ ~Bound(k)
  /\ NewAccount(e, "reseller", "active", k)
  /\ UNCHANGED <<admins, setups, keys, created, reveals, sessions, toggled, leftover>>

\* Mutant: suspending leaves the master key as it is.
StatusOnly(b, e, status) ==
  /\ sessions[b]["admin"] # Nil
  /\ e \in DOMAIN accounts /\ accounts[e].role = "reseller"
  /\ accounts' = [accounts EXCEPT ![e].status = status]
  /\ UNCHANGED <<keys, toggled, admins, setups, created, reveals, sessions, leftover>>

\* set_reseller_status, and approve_reseller with status "active".
SetStatus(b, e, status) ==
  /\ sessions[b]["admin"] # Nil
  /\ e \in DOMAIN accounts /\ accounts[e].role = "reseller"
  /\ accounts' = [accounts EXCEPT ![e].status = status]
  /\ keys' = [keys EXCEPT ![accounts[e].key].active = (status = "active")]
  /\ toggled' = toggled \ {accounts[e].key}
  /\ UNCHANGED <<admins, setups, created, reveals, sessions, leftover>>

\* The reveals of the deleted keys stay.
DeleteAccount(b, e) ==
  /\ sessions[b]["admin"] # Nil
  /\ e \in DOMAIN accounts /\ accounts[e].role = "reseller"
  /\ Without(Family(accounts[e].key), {e})
  /\ leftover' = leftover \cup Family(accounts[e].key)
  /\ UNCHANGED <<admins, setups, created, reveals>>

-----------------------------------------------------------------------------
(* A reseller's panel.                                                      *)

ResellerLogin(b, e) ==
  /\ e \in DOMAIN accounts
  /\ accounts[e].role = "reseller" /\ accounts[e].status = "active"
  /\ Login(b, "account", e)
  /\ UNCHANGED <<admins, setups, keys, created, reveals, accounts, toggled, leftover>>

MasterLogin(b, k) ==
  /\ Open(k) /\ keys[k].type = "reseller"
  /\ Login(b, "master", k)
  /\ UNCHANGED <<admins, setups, keys, created, reveals, accounts, toggled, leftover>>

\* The master key whose panel the browser is shown (_reseller).
Panel(b) ==
  LET e == sessions[b]["account"]
      k == sessions[b]["master"]
  IN  IF e # Nil /\ accounts[e].status = "active" THEN accounts[e].key
      ELSE IF Open(k) THEN k ELSE Nil

\* A look at the panel drops a session whose master key is not open.
VisitPanel(b) ==
  LET e == sessions[b]["account"]
      k == sessions[b]["master"]
  IN  /\ ~(e # Nil /\ accounts[e].status = "active")
      /\ k # Nil /\ ~Open(k)
      /\ sessions' = [sessions EXCEPT ![b]["master"] = Nil]
      /\ UNCHANGED <<admins, setups, keys, created, reveals, accounts, toggled, leftover>>

CreateClient(b, k) ==
  /\ Open(Panel(b))
  /\ Created(k, Fresh("client", Panel(b), TRUE))
  /\ UNCHANGED <<admins, setups, accounts, sessions, toggled, leftover>>

-----------------------------------------------------------------------------
(* Clients.                                                                 *)

\* create_web_account; e-mail and key are unique in the table.
ChatSignup(b, e, k) ==
  /\ Open(k) /\ keys[k].type = "client"
  /\ e \notin DOMAIN accounts /\ ~Bound(k)
  /\ NewAccount(e, "client", "active", k)
  /\ Login(b, "chat", e)
  /\ UNCHANGED <<admins, setups, keys, created, reveals, toggled, leftover>>

\* login_web_account asks neither for the role nor for the status.
ChatLogin(b, e) ==
  /\ e \in DOMAIN accounts
  /\ Login(b, "chat", e)
  /\ UNCHANGED <<admins, setups, keys, created, reveals, accounts, toggled, leftover>>

ClientLogin(b, k) ==
  /\ Open(k)
  /\ Login(b, "client", k)
  /\ UNCHANGED <<admins, setups, keys, created, reveals, accounts, toggled, leftover>>

\* A session ends: its user logs out (a reseller from both its sessions), or
\* its time is over.
EndSession(b) ==
  /\ \E ended \in {{s} : s \in Kinds} \cup {{"account", "master"}} :
       /\ \E s \in ended : sessions[b][s] # Nil
       /\ sessions' = [sessions EXCEPT ![b] =
                         [s \in Kinds |-> IF s \in ended THEN Nil ELSE @[s]]]
  /\ UNCHANGED <<admins, setups, keys, created, reveals, accounts, toggled, leftover>>

PanelNext ==
  \/ EndReveal
  \/ \E u \in Users : OpenSetup(u)
  \/ \E e \in Emails, k \in KeyIds : Signup(e, k)
  \/ \E b \in Browsers :
       \/ AdminLogin(b) \/ VisitPanel(b) \/ EndSession(b)
       \/ \E u \in Users : FinishSetup(b, u)
       \/ \E k \in KeyIds :
            \/ CreateKey(b, k) \/ Rotate(b, k) \/ Toggle(b, k) \/ DeleteKey(b, k)
            \/ MasterLogin(b, k) \/ CreateClient(b, k) \/ ClientLogin(b, k)
       \/ \E e \in Emails :
            \/ DeleteAccount(b, e) \/ ResellerLogin(b, e) \/ ChatLogin(b, e)
            \/ \E status \in {"active", "suspended"} : SetStatus(b, e, status)
            \/ \E k \in KeyIds : Attach(b, e, k) \/ ChatSignup(b, e, k)

PanelSpec == PanelInit /\ [][PanelNext]_panelVars

-----------------------------------------------------------------------------
(* Properties.                                                              *)

\* Setup forms may be open in several browsers when the first of them creates
\* the admin; the others create no second one.
OneAdmin == \A u, v \in admins : u = v

\* Whatever is deleted, by the operator or with a reseller, every session,
\* account and client key that is left belongs to rows that are still there.
NothingDangles ==
  /\ \A k \in DOMAIN keys : keys[k].parent \in DOMAIN keys \cup {Nil}
  /\ \A e \in DOMAIN accounts : accounts[e].key \in DOMAIN keys
  /\ \A b \in Browsers :
       /\ {sessions[b]["account"], sessions[b]["chat"]} \subseteq DOMAIN accounts \cup {Nil}
       /\ {sessions[b]["master"], sessions[b]["client"]} \subseteq DOMAIN keys \cup {Nil}

\* A key has one account at most, a client's of the web chat or a reseller's
\* according to its type, so neither can act on the other's key.
AccountFitsKey ==
  \A e \in DOMAIN accounts :
    /\ keys[accounts[e].key].type = accounts[e].role
    /\ \A x \in DOMAIN accounts : accounts[x].key = accounts[e].key => x = e

\* A reseller who is waiting for approval or is suspended is shown no panel,
\* be it through the account or through a session the master key opened
\* before, unless the operator switched that key on by hand.
PanelNeedsStanding ==
  \A b \in Browsers, e \in DOMAIN accounts :
    accounts[e].key = Panel(b) =>
      accounts[e].status = "active" \/ accounts[e].key \in toggled

\* A banner that asks to copy a key now is about a key that exists, unless
\* the key went with the account of its reseller.
RevealsLive == reveals \subseteq DOMAIN keys \cup leftover

\* Nobody is let into a panel that is not theirs, whatever was created, bound,
\* suspended and deleted before.
PanelSound ==
  OneAdmin /\ NothingDangles /\ AccountFitsKey /\ PanelNeedsStanding /\ RevealsLive
=============================================================================
