------------------------- MODULE CredentialStartup -------------------------
(***************************************************************************)
(* What lifespan in main.py does with the credential files of one provider *)
(* before the first request: their discovery, a scan that drops files of   *)
(* the same account, the initialization of the others in parallel, and the *)
(* assembly of the list that rotates, which drops the duplicates that      *)
(* became known only now.                                                  *)
(***************************************************************************)
EXTENDS Integers, Sequences

CONSTANTS
  FileCount,  \* credential files, in the order of their names
  Accounts,   \* accounts, as email addresses
  NoAccount   \* no address: nothing in the file, or nothing from the provider

ASSUME StartupConstants ==
  /\ FileCount \in Nat /\ NoAccount \notin Accounts
  /\ {"none", "error"} \cap (Accounts \cup {NoAccount}) = {}

Files == 1..FileCount

VARIABLES
  kind,       \* "env": from environment variables; "local": in oauth_creds;
              \* "path": elsewhere, named by the environment
  stored,     \* the account each file names
  owner,      \* the account the provider names for it
  works,      \* whether initialize_token succeeds
  pass,       \* "discover", "scan", "initialize", "assemble", "serve"
  at,         \* the next file of a scan or an assembly
  processed,  \* processed_emails: account -> file
  found,      \* the result of discover_and_prepare
  toInit,     \* credentials_to_initialize
  result,     \* results of process_credential, by file
  final       \* final_oauth_credentials

startVars == <<kind, stored, owner, works, pass, at, processed, found,
              toInit, result, final>>

NoFile == 0

\* The kinds are tried in this order, and the first one that has any file is
\* the only one used.
Chosen ==
  LET Of(k) == {f \in Files : kind[f] = k}
  IN IF Of("env") # {} THEN Of("env")
     ELSE IF Of("local") # {} THEN Of("local") ELSE Of("path")

StartInit ==
  /\ kind \in [Files -> {"env", "local", "path"}]
  /\ stored \in [Files -> Accounts \cup {NoAccount}]
  /\ owner \in [Files -> Accounts \cup {NoAccount}]
  \* get_user_info prefers the address in the file.
  /\ \A f \in Files : stored[f] # NoAccount => owner[f] = stored[f]
  /\ works \in [Files -> BOOLEAN]
  \* Nobody looks into the files that are not chosen.
  /\ \A f \in Files \ Chosen : owner[f] = NoAccount /\ works[f]
  /\ pass = "discover" /\ at = 1 /\ found = {}
  /\ processed = [a \in Accounts |-> NoFile]
  /\ toInit = {} /\ result = [f \in Files |-> "none"] /\ final = {}

\* discover_and_prepare: a file named by a path is copied, if it can be.
Discover ==
  /\ pass = "discover" /\ pass' = "scan"
  /\ \E missing \in SUBSET {f \in Chosen : kind[f] = "path"} : found' = Chosen \ missing
  /\ UNCHANGED <<kind, stored, owner, works, at, processed, toInit, result, final>>

\* What the scan knows of a credential: nothing of one in the environment.
NamedAccount(f) == IF kind[f] = "env" THEN NoAccount ELSE stored[f]

Skip ==
  /\ pass \in {"scan", "assemble"} /\ at \in Files \ found
  /\ at' = at + 1
  /\ UNCHANGED <<kind, stored, owner, works, pass, processed, found, toInit, result, final>>

Scan ==
  /\ pass = "scan" /\ at \in found
  /\ LET a == NamedAccount(at)
         duplicate == a # NoAccount /\ processed[a] # NoFile
     IN /\ toInit' = IF duplicate THEN toInit ELSE toInit \cup {at}
        /\ processed' = IF a # NoAccount /\ ~duplicate
                        THEN [processed EXCEPT ![a] = at] ELSE processed
  /\ at' = at + 1
  /\ UNCHANGED <<kind, stored, owner, works, pass, result, final, found>>

Scanned ==
  /\ pass = "scan" /\ at \notin Files
  /\ pass' = "initialize"
  /\ UNCHANGED <<kind, stored, owner, works, at, processed, toInit, result, final, found>>

\* process_credential
Initialize(f) ==
  /\ pass = "initialize" /\ f \in toInit /\ result[f] = "none"
  /\ result' = [result EXCEPT ![f] = IF works[f] THEN owner[f] ELSE "error"]
  /\ UNCHANGED <<kind, stored, owner, works, pass, at, processed, toInit, final, found>>

Gathered ==
  /\ pass = "initialize" /\ \A f \in toInit : result[f] # "none"
  /\ pass' = "assemble" /\ at' = 1
  /\ UNCHANGED <<kind, stored, owner, works, processed, toInit, result, final, found>>

TakenNever(a, f) == FALSE
\* Another file has the account already.
Taken(a, f) == processed[a] \notin {NoFile, f}

Assemble ==
  /\ pass = "assemble" /\ at \in found
  /\ LET a == result[at]
     IN IF a \in {"none", "error"} \/ (a # NoAccount /\ Taken(a, at))
        THEN UNCHANGED <<processed, stored, final>>
        ELSE /\ final' = final \cup {at}
             /\ IF a = NoAccount THEN UNCHANGED <<processed, stored>>
                ELSE /\ processed' = [processed EXCEPT ![a] = at]
                     /\ stored' = [stored EXCEPT ![at] = IF kind[at] = "env" THEN @ ELSE a]
  /\ at' = at + 1
  /\ UNCHANGED <<kind, owner, works, pass, toInit, result, found>>

Serve ==
  /\ pass = "assemble" /\ at \notin Files
  /\ pass' = "serve"
  /\ UNCHANGED <<kind, stored, owner, works, at, processed, toInit, result, final, found>>

StartNext ==
  \/ Discover \/ Skip \/ Scan \/ Scanned \/ Gathered \/ Assemble \/ Serve
  \/ \E f \in Files : Initialize(f)

StartSpec == StartInit /\ [][StartNext]_startVars

-----------------------------------------------------------------------------
(* Properties.                                                              *)

\* No account rotates twice: its limits hold for the account, not for a file.
OneFilePerAccount ==
  \A f, g \in final : f # g /\ owner[f] = owner[g] => owner[f] = NoAccount

\* A working file is left out only for another file that names its account.
\* (That file itself need not work: then the account is lost until it is
\* removed.)
LeftOutForAnother ==
  pass = "serve" =>
    \A f \in found \ final : works[f] =>
      \E g \in found \ {f} : owner[g] = owner[f] /\ (g \in final \/ ~works[g])

\* Of the files of one account one rotates.
StartSound == OneFilePerAccount /\ LeftOutForAnother
=============================================================================
