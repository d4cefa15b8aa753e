------------------------------ MODULE ApiKeys ------------------------------
(***************************************************************************)
(* The keys, reseller accounts and token budgets of the admin database.    *)
(* An operator sells balances to resellers, each of whom has a master key  *)
(* and distributes its balance over the keys of clients.  A request is     *)
(* admitted against what its key and the master have left, and is charged  *)
(* when the answer has been sent, so requests in flight are not yet in any *)
(* count.                                                                  *)
(*                                                                         *)
(* The proxy runs as one process whose handlers use the database between   *)
(* two awaits: a handler is one action, except that a reseller's session   *)
(* is checked before the await of the form and the operation follows it.   *)
(* A token, daily or validity limit of 0 means that there is none.         *)
(***************************************************************************)
EXTENDS Integers, FiniteSets, FiniteSetsExt

CONSTANTS
  Keys,      \* ids, each given to one key only (uuid4)
  Accounts,  \* reseller accounts
  Requests,  \* places for requests in flight
  None,
  Forms,     \* what the forms may ask: [tokens, daily, days]
  Removals,  \* amounts an operator takes off a balance
  MaxCharge, \* the most one request is billed
  MaxDay,    \* bound on the clock
  MaxTokens, \* bound on limits and on the usage that is still admitted
  MaxEdits   \* bound on the operations of operators and resellers

ASSUME KeyConstants ==
  /\ None \notin Keys
  /\ Forms \subseteq [tokens : Nat, daily : Nat, days : Nat]
  /\ Removals \subseteq Nat
  /\ MaxCharge \in Nat /\ MaxDay \in Nat /\ MaxTokens \in Nat /\ MaxEdits \in Nat
  /\ IsFiniteSet(Keys) /\ IsFiniteSet(Requests)

VARIABLES
  keys,      \* api_keys: a record for each existing id
  usage,     \* key_usage by key: tokens of today and of earlier days
  accounts,  \* web_accounts with role reseller: [key, status]
  inflight,  \* the key each request in flight was admitted with
  form,      \* the reseller whose session was checked and whose form is awaited
  day,
  issued,    \* ids given so far (history)
  rebudgeted,\* keys whose budget was lowered, or set after they had none (history)
  toggled,   \* keys an operator switched on or off by hand (history)
  edits      \* operations so far (counted up to MaxEdits)

vars == <<keys, usage, accounts, inflight, form, day, issued, rebudgeted,
          toggled, edits>>

Key == [type : {"client", "reseller"}, parent : Keys \cup {None},
        token_limit : Nat, daily_limit : Nat, active : BOOLEAN,
        expires_at : Nat]
Account == [key : Keys, status : {"pending", "active", "suspended"}]

TypeOK ==
  /\ issued \subseteq Keys /\ DOMAIN keys \subseteq issued
  /\ keys \in [DOMAIN keys -> Key]
  /\ usage \in [Keys -> [today : Nat, earlier : Nat]]
  /\ DOMAIN accounts \subseteq Accounts
  /\ accounts \in [DOMAIN accounts -> Account]
  /\ inflight \in [Requests -> Keys \cup {None}]
  /\ form \in Keys \cup {None}
  /\ day \in Nat
  /\ rebudgeted \subseteq Keys /\ toggled \subseteq Keys
  /\ edits \in Nat

NoUsage == [today |-> 0, earlier |-> 0]

Init ==
  /\ keys = [k \in {} |-> None] /\ usage = [k \in Keys |-> NoUsage]
  /\ accounts = [a \in {} |-> None]
  /\ inflight = [t \in Requests |-> None] /\ form = None
  /\ day = 1 /\ issued = {}
  /\ rebudgeted = {} /\ toggled = {} /\ edits = 0

-----------------------------------------------------------------------------
(* What a key may still use.                                                *)

Children(k) == {c \in DOMAIN keys : keys[c].parent = k}
Total(k) == usage[k].today + usage[k].earlier

\* A master key is charged with what its clients use (_remaining_tokens_for_row
\* and _period_tokens).
Used(k) ==
  Total(k) +
    IF keys[k].type = "reseller"
      THEN SumFunctionOnSet([c \in Keys |-> Total(c)], Children(k)) ELSE 0
UsedToday(k) ==
  usage[k].today +
    IF keys[k].type = "reseller"
      THEN SumFunctionOnSet([c \in Keys |-> usage[c].today], Children(k)) ELSE 0

Limited(k) == keys[k].token_limit > 0

\* A key that passes _row_access_error, its master left aside.
Open(k) ==
  /\ keys[k].active
  /\ keys[k].expires_at = 0 \/ keys[k].expires_at > day
  /\ keys[k].daily_limit > 0 => UsedToday(k) < keys[k].daily_limit
  /\ Limited(k) => Used(k) < keys[k].token_limit

\* Only masters are parents, and they have none, so the recursion of
\* _row_access_error and _remaining_tokens_for_row ends after one level.
Usable(k) ==
  /\ k \in DOMAIN keys /\ Open(k)
  /\ keys[k].parent # None =>
       keys[k].parent \in DOMAIN keys /\ Open(keys[k].parent)

\* What the limits of its clients add up to.
Allocated(r) ==
  SumFunctionOnSet([c \in DOMAIN keys |-> keys[c].token_limit], Children(r))

Expiry(days) == IF days > 0 THEN day + days ELSE 0

-----------------------------------------------------------------------------
(* Tables.  Deleting a key takes its usage and accounts with it (FOREIGN    *)
(* KEY ... ON DELETE CASCADE); parent_key_id has no constraint.             *)

Row(type, parent, f) ==
  [type |-> type, parent |-> parent, token_limit |-> f.tokens,
   daily_limit |-> f.daily, active |-> TRUE, expires_at |-> Expiry(f.days)]
NoLimits == [tokens |-> 0, daily |-> 0, days |-> 0]

Insert(k, row) ==
  /\ k \notin issued
  /\ issued' = issued \cup {k}
  /\ keys' = [x \in DOMAIN keys \cup {k} |-> IF x = k THEN row ELSE keys[x]]

Delete(gone) ==
  /\ keys' = [x \in DOMAIN keys \ gone |-> keys[x]]
  /\ usage' = [x \in Keys |-> IF x \in gone THEN NoUsage ELSE usage[x]]
  /\ accounts' = [a \in {b \in DOMAIN accounts : accounts[b].key \notin gone}
                    |-> accounts[a]]
  /\ rebudgeted' = rebudgeted \ gone /\ toggled' = toggled \ gone

Update(k, row) == keys' = [keys EXCEPT ![k] = row]

\* The row r of k with other limits.  `rebudgeted` notes a budget that does
\* not only grow from the one the key was created with.
SetBudget(k, tokens, daily, row) ==
  LET old == keys[k]
      shrinks(was, is) == is < was \/ (was = 0 /\ is > 0)
  IN /\ Update(k, [row EXCEPT !.token_limit = tokens, !.daily_limit = daily])
     /\ rebudgeted' =
          IF shrinks(old.token_limit, tokens) \/ shrinks(old.daily_limit, daily)
            THEN rebudgeted \cup {k} ELSE rebudgeted

-----------------------------------------------------------------------------
(* The operator.                                                            *)

\* create_api_key from the panel, and create_reseller_key.
CreateKey(type, f) ==
  /\ \E k \in Keys : Insert(k, Row(type, None, f))
  /\ UNCHANGED <<usage, accounts, inflight, form, day, rebudgeted, toggled>>

\* create_reseller_account: the master key is created first, then switched
\* off in the transaction that adds the account.
Signup(a) ==
  /\ a \notin DOMAIN accounts
  /\ \E k \in Keys :
       /\ Insert(k, [Row("reseller", None, NoLimits) EXCEPT !.active = FALSE])
       /\ accounts' = [b \in DOMAIN accounts \cup {a} |->
                         IF b = a THEN [key |-> k, status |-> "pending"]
                         ELSE accounts[b]]
  /\ UNCHANGED <<usage, inflight, form, day, rebudgeted, toggled>>

\* attach_account_to_reseller_key.
Attach(a, k) ==
  /\ a \notin DOMAIN accounts
  /\ k \in DOMAIN keys /\ keys[k].type = "reseller"
  /\ \A b \in DOMAIN accounts : accounts[b].key # k
  /\ accounts' = [b \in DOMAIN accounts \cup {a} |->
                    IF b = a THEN [key |-> k, status |-> "active"]
                    ELSE accounts[b]]
  /\ UNCHANGED <<keys, usage, inflight, form, day, issued, rebudgeted, toggled>>

\* approve_reseller, which does not ask whether the account is pending.
Approve(a, f) ==
  /\ a \in DOMAIN accounts
  /\ LET k == accounts[a].key
     IN SetBudget(k, f.tokens, keys[k].daily_limit,
                  [keys[k] EXCEPT !.active = TRUE, !.expires_at = Expiry(f.days)])
  /\ accounts' = [accounts EXCEPT ![a].status = "active"]
  /\ toggled' = toggled \ {accounts[a].key}
  /\ UNCHANGED <<usage, inflight, form, day, issued>>

\* set_reseller_status, from the panel's suspend and activate.
SetStatus(a, status) ==
  /\ a \in DOMAIN accounts
  /\ accounts' = [accounts EXCEPT ![a].status = status]
  /\ Update(accounts[a].key,
            [keys[accounts[a].key] EXCEPT !.active = status = "active"])
  /\ toggled' = toggled \ {accounts[a].key}
  /\ UNCHANGED <<usage, inflight, form, day, issued, rebudgeted>>

\* recharge_reseller: the balance is kept from going below 0, which is none.
RechargeReseller(a, delta) ==
  /\ a \in DOMAIN accounts
  /\ LET k == accounts[a].key
         tokens == Max({0, keys[k].token_limit + delta})
     IN /\ tokens <= MaxTokens
        /\ SetBudget(k, tokens, keys[k].daily_limit, keys[k])
  /\ UNCHANGED <<usage, accounts, inflight, form, day, issued, toggled>>

\* delete_reseller_account and delete_api_key take the clients of the key too.
DeleteAccount(a) ==
  /\ a \in DOMAIN accounts
  /\ Delete({accounts[a].key} \cup Children(accounts[a].key))
  /\ UNCHANGED <<inflight, form, day, issued>>

\* Mutant: parent_key_id is trusted to cascade.
DeleteKeyOnly(k) ==
  /\ k \in DOMAIN keys
  /\ Delete({k})
  /\ UNCHANGED <<inflight, form, day, issued>>

DeleteKey(k) ==
  /\ k \in DOMAIN keys
  /\ Delete({k} \cup Children(k))
  /\ UNCHANGED <<inflight, form, day, issued>>

Toggle(k, on) ==
  /\ k \in DOMAIN keys
  /\ Update(k, [keys[k] EXCEPT !.active = on])
  /\ toggled' = toggled \cup {k}
  /\ UNCHANGED <<usage, accounts, inflight, form, day, issued, rebudgeted>>

\* Mutant: what the master has distributed is not looked at.
RechargeUnchecked(k, f) ==
  /\ k \in DOMAIN keys
  /\ keys[k].token_limit + f.tokens <= MaxTokens
  /\ SetBudget(k, keys[k].token_limit + f.tokens, keys[k].daily_limit, keys[k])
  /\ UNCHANGED <<usage, accounts, inflight, day, issued, toggled>>

\* recharge_api_key.  More days for a key that never expires give it an end.
Recharge(k, f) ==
  LET row == keys[k]
      master == row.parent
      tokens == row.token_limit + f.tokens
      daily == row.daily_limit + f.daily
      ends == IF f.days > 0 THEN Max({day, row.expires_at}) + f.days
              ELSE row.expires_at
  IN /\ k \in DOMAIN keys
     /\ master # None /\ f.tokens > 0 =>
          /\ Usable(master)
          /\ Limited(master) =>
               Allocated(master) + f.tokens <= keys[master].token_limit
     /\ tokens <= MaxTokens /\ daily <= MaxTokens /\ ends <= MaxDay + 1
     /\ SetBudget(k, tokens, daily, [row EXCEPT !.expires_at = ends])
     /\ UNCHANGED <<usage, accounts, inflight, day, issued, toggled>>

RechargeKey(k, f) == Recharge(k, f) /\ UNCHANGED form

-----------------------------------------------------------------------------
(* Resellers.  A session is valid exactly when its owner could log in: the  *)
(* account is active, or (for a session of the master key) the key usable.  *)

OpenForm(r) ==
  /\ form = None
  /\ r \in DOMAIN keys /\ keys[r].type = "reseller"
  /\ \/ \E a \in DOMAIN accounts :
          accounts[a].key = r /\ accounts[a].status = "active"
     \/ Usable(r)
  /\ form' = r
  /\ UNCHANGED <<keys, usage, accounts, inflight, day, issued, rebudgeted, toggled>>

\* create_reseller_client_key checks the master and inserts the key in two
\* transactions, with no await between them.
CreateClient(f) ==
  /\ form # None /\ Usable(form) /\ f.tokens > 0
  /\ Limited(form) =>
       /\ Allocated(form) + f.tokens <= keys[form].token_limit
       /\ f.tokens <= keys[form].token_limit - Used(form)
  /\ \E k \in Keys : Insert(k, Row("client", form, f))
  /\ form' = None
  /\ UNCHANGED <<usage, accounts, inflight, day, rebudgeted, toggled>>

RechargeClient(k, f) ==
  /\ form # None
  /\ k \in DOMAIN keys /\ keys[k].parent = form
  /\ Recharge(k, f)
  /\ form' = None

\* A form that is refused.
CloseForm ==
  /\ form # None
  /\ form' = None
  /\ UNCHANGED <<keys, usage, accounts, inflight, day, issued, rebudgeted, toggled>>

-----------------------------------------------------------------------------
(* Requests.  The waits for the rate limit and the usage window come after  *)
(* the key was verified, so a request counts as in flight from there on.    *)

\* verify_api_key; master keys cannot call models.
Admit(t, k) ==
  /\ inflight[t] = None
  /\ Usable(k) /\ keys[k].type = "client" /\ Total(k) < MaxTokens
  /\ inflight' = [inflight EXCEPT ![t] = k]
  /\ UNCHANGED <<keys, usage, accounts, form, day, issued, rebudgeted, toggled>>

\* _record_managed_usage after the answer.  For a key that is gone the INSERT
\* fails on its foreign key.
Charge(t, tokens) ==
  /\ inflight[t] # None
  /\ inflight' = [inflight EXCEPT ![t] = None]
  /\ usage' = IF inflight[t] \in DOMAIN keys
              THEN [usage EXCEPT ![inflight[t]].today = @ + tokens] ELSE usage
  /\ UNCHANGED <<keys, accounts, form, day, issued, rebudgeted, toggled>>

\* Refused by the rate limit or the window, failed, or left by its client.
EndUncharged(t) ==
  /\ inflight[t] # None
  /\ inflight' = [inflight EXCEPT ![t] = None]
  /\ UNCHANGED <<keys, usage, accounts, form, day, issued, rebudgeted, toggled>>

NewDay ==
  /\ day < MaxDay
  /\ day' = day + 1
  /\ usage' = [k \in Keys |-> [today |-> 0, earlier |-> Total(k)]]
  /\ UNCHANGED <<keys, accounts, inflight, form, issued, rebudgeted, toggled>>

Operator ==
  \/ \E f \in Forms :
       \/ CreateKey("client", f)
       \/ CreateKey("reseller", [f EXCEPT !.daily = 0])
       \/ \E k \in Keys : RechargeKey(k, f)
       \/ \E a \in Accounts : Approve(a, f)
  \/ \E a \in Accounts :
       \/ Signup(a)
       \/ DeleteAccount(a)
       \/ \E k \in Keys : Attach(a, k)
       \/ \E status \in {"active", "suspended"} : SetStatus(a, status)
       \/ \E f \in Forms : RechargeReseller(a, f.tokens)
       \/ \E n \in Removals : RechargeReseller(a, -n)
  \/ \E k \in Keys :
       \/ DeleteKey(k)
       \/ \E on \in BOOLEAN : Toggle(k, on)

Reseller ==
  \/ \E r \in Keys : OpenForm(r)
  \/ \E f \in Forms :
       \/ CreateClient(f)
       \/ \E k \in Keys : RechargeClient(k, f)

Traffic ==
  \E t \in Requests :
    \/ \E k \in Keys : Admit(t, k)
    \/ \E n \in 0..MaxCharge : Charge(t, n)
    \/ EndUncharged(t)

Next ==
  \/ edits < MaxEdits /\ (Operator \/ Reseller) /\ edits' = edits + 1
  \/ (CloseForm \/ Traffic \/ NewDay) /\ UNCHANGED edits
Spec == Init /\ [][Next]_vars

-----------------------------------------------------------------------------
(* Properties.                                                              *)

InFlight(S) == {t \in Requests : inflight[t] \in S}

\* What k and its clients use stays below the limits by less than `slack`.
WithinSlack(k, slack) ==
  /\ Limited(k) => Used(k) < keys[k].token_limit + slack
  /\ keys[k].daily_limit > 0 => UsedToday(k) < keys[k].daily_limit + slack

Slack(S) == MaxCharge * Cardinality(Requests \ InFlight(S))

\* However admissions, charges, recharges and days interleave, a client key
\* overshoots its balance and its daily limit by less than what the requests
\* in flight may cost: those charged and those still to be charged never add up
\* to more.
ClientBudget ==
  \A k \in DOMAIN keys \ rebudgeted :
    keys[k].type = "client" => WithinSlack(k, Slack({k}))

\* The same for a master key, for which the requests of all its clients count.
MasterBudget ==
  \A k \in DOMAIN keys \ rebudgeted :
    keys[k].type = "reseller" => WithinSlack(k, Slack(Children(k)))

\* A reseller never distributes more than its balance, so a client with tokens
\* left is refused for its master only by what others overshot.
NotOversold ==
  \A r \in DOMAIN keys \ rebudgeted :
    keys[r].type = "reseller" /\ Limited(r) =>
      Allocated(r) <= keys[r].token_limit

\* While a reseller is pending or suspended no client of it is admitted, unless
\* an operator switches the master key on by hand.
SuspensionHolds ==
  \A a \in DOMAIN accounts :
    accounts[a].status # "active" /\ accounts[a].key \notin toggled =>
      \A k \in {accounts[a].key} \cup Children(accounts[a].key) : ~Usable(k)

\* Nothing refers to a key that is gone: parents (which no foreign key keeps),
\* accounts and usage; and a master belongs to one account.
NoOrphans ==
  /\ \A k \in DOMAIN keys :
       keys[k].parent # None =>
         keys[k].parent \in DOMAIN keys /\ keys[keys[k].parent].type = "reseller"
  /\ \A a, b \in DOMAIN accounts :
       /\ accounts[a].key \in DOMAIN keys
       /\ keys[accounts[a].key].type = "reseller"
       /\ accounts[a].key = accounts[b].key => a = b
  /\ \A k \in Keys : Total(k) > 0 => k \in DOMAIN keys

\* No client, no reseller and no key of it spends more than it was given.
BudgetsHold == ClientBudget /\ MasterBudget /\ NotOversold

\* Whatever is created, suspended and deleted, the tables fit together.
KeysSound == TypeOK /\ SuspensionHolds /\ NoOrphans
=============================================================================
