--------------------------- MODULE CredentialFiles ---------------------------
(***************************************************************************)
(* The OAuth credential files of a provider as the credential tool keeps     *)
(* them: set up by a login, relabelled and deleted (credential_tool.py, the   *)
(* management methods of google_oauth_base.py).                              *)
(***************************************************************************)
EXTENDS Integers, FiniteSets, FiniteSetsExt

CONSTANTS
  Owners,     \* accounts; an account's email is the account itself
  MaxNumber,  \* bound: numbers of files
  MaxRelabel, \* bound: emails edited
  NoFile, Unreadable

ASSUME FileConstants ==
  /\ MaxNumber \in Nat \ {0} /\ MaxRelabel \in Nat
  /\ NoFile # Unreadable
  /\ {NoFile, Unreadable} \cap [owner : Owners, email : Owners] = {}

VARIABLES
  creds,     \* by number: NoFile, Unreadable or [owner, email]
  byHand,    \* emails that were entered by hand, or replaced by such a one
  relabels

fileVars == <<creds, byHand, relabels>>

FileNumbers == 1..MaxNumber
Readable == {n \in FileNumbers : creds[n] \notin {NoFile, Unreadable}}
\* _find_existing_credential_by_email, in the order of the directory
Labelled(e) == {n \in Readable : creds[n].email = e}
\* Mutant: the files are counted.
NumberByCount == Cardinality({n \in FileNumbers : creds[n] # NoFile}) + 1
\* _get_next_credential_number
NextNumber == Max({0} \cup {n \in FileNumbers : creds[n] # NoFile}) + 1

FilesInit ==
  /\ creds = [n \in FileNumbers |-> NoFile]
  /\ byHand = {} /\ relabels = 0

\* setup_credential: a login of an account updates the file with its email.
SetUp(o) ==
  /\ \E n \in IF Labelled(o) # {} THEN Labelled(o) ELSE {NextNumber} :
       /\ n \in FileNumbers
       /\ creds' = [creds EXCEPT ![n] = [owner |-> o, email |-> o]]
  /\ UNCHANGED <<byHand, relabels>>

\* _edit_oauth_credential_email writes the file in place.
Relabel(n, e) ==
  /\ n \in Readable /\ relabels < MaxRelabel /\ relabels' = relabels + 1
  /\ byHand' = byHand \cup {e, creds[n].email}
  /\ creds' \in {[creds EXCEPT ![n] = [@ EXCEPT !.email = e]],
                 [creds EXCEPT ![n] = Unreadable]}

\* delete_credential; the list shows only files that can be read.
Delete(n) ==
  /\ n \in Readable /\ creds' = [creds EXCEPT ![n] = NoFile]
  /\ UNCHANGED <<byHand, relabels>>

FilesNext ==
  \/ \E o \in Owners : SetUp(o)
  \/ \E n \in FileNumbers : Delete(n) \/ \E e \in Owners : Relabel(n, e)

FilesSpec == FilesInit /\ [][FilesNext]_fileVars

----------------------------------------------------------------------------
\* However often an account logs in, and files before and after its own are
\* deleted or lost meanwhile, it has one file, unless an email was changed by
\* hand (setup_credential, "deduplication").
OneFileAnOwner ==
  \A n, m \in Readable :
    n # m /\ creds[n].owner = creds[m].owner => creds[n].owner \in byHand

\* A login never takes the file of another account: a number is not given
\* again while its file exists, readable or not (_get_next_credential_number).
FilesKept ==
  \A n \in FileNumbers :
    creds[n] = Unreadable \/ (n \in Readable /\ creds[n].email \notin byHand')
      => \/ creds'[n] \in {NoFile, creds[n]}
         \/ n \in Readable /\ creds'[n].owner = creds[n].owner

\* Credential files are one for each owner and never taken from another.
FilesSound == []OneFileAnOwner /\ [][FilesKept]_fileVars
=============================================================================
