--------------------------- MODULE SessionTracker ---------------------------
(***************************************************************************)
(* Which requests belong to one session, so that sequential routing stays  *)
(* with one credential: a request is recognised by fingerprints that       *)
(* earlier requests left for a time - the names it gives its session, the  *)
(* ids of its tool calls, its first messages, and more weakly the first    *)
(* text of its user.                                                        *)
(*                                                                         *)
(* infer_session_id has no await and is one action.  A fingerprint is a    *)
(* value; hashes and the extraction of texts are left out, so that equal   *)
(* fingerprints are equal inputs.                                           *)
(***************************************************************************)
EXTENDS Naturals, Sequences

CONSTANTS
  Requests, \* records [of, named, tools, opening, text]: the conversation a
            \* request is of, known to its client only, and its fingerprints,
            \* each a sequence; of the last three there is one or none
  NoSession,
  Ttl,
  Persist,  \* persist_to_disk
  MaxClock, \* bound on the time
  MaxBegun \* bound on the sessions that are begun

Strong(r) == r.named \o r.tools \o r.opening
Elements(s) == {s[i] : i \in DOMAIN s}
Prints(r) == Elements(Strong(r)) \cup Elements(r.text)
Conversations == {r.of : r \in Requests}

\* Fingerprints come in sequences; what requests have in common makes them one
\* conversation.
ASSUME SessionConstants ==
  /\ Ttl \in Nat \ {0} /\ NoSession \notin Nat /\ MaxClock \in Nat /\ MaxBegun \in Nat
  /\ \A r \in Requests : \A s \in {r.named, r.tools, r.opening, r.text} :
       s \in Seq(Elements(s))
  /\ \A r, q \in Requests : Prints(r) \cap Prints(q) # {} => r.of = q.of

VARIABLES
  records, \* _records: fingerprint -> [session, expires]
  stored,  \* what is in the file
  issued,  \* how many sessions were begun
  clock,
  latest,  \* conversation -> the session and time of its last answer (history)
  behind,  \* the last answer is not in the file (history)
  switched \* conversations that got another session in time (history)

sessionVars == <<records, stored, issued, clock, latest, behind, switched>>

Empty == [f \in {} |-> NoSession]
NoAnswer == [session |-> NoSession, at |-> 0]

SessionInit ==
  /\ records = Empty /\ stored = Empty
  /\ issued = 0 /\ clock = 0
  /\ latest = [c \in Conversations |-> NoAnswer] /\ behind = FALSE
  /\ switched = {}

Living(rs) == {f \in DOMAIN rs : rs[f].expires > clock}
Pruned(rs) == [f \in Living(rs) |-> rs[f]]

\* The first fingerprint of a sequence that is known.
Known(s) == {i \in DOMAIN s : s[i] \in Living(records)}
FirstKnown(s) == s[CHOOSE i \in Known(s) : \A j \in Known(s) : i <= j]

IsKnown(r) == Known(Strong(r)) # {} \/ Known(r.text) # {}
Session(r) ==
  IF Known(Strong(r)) # {} THEN records[FirstKnown(Strong(r))].session
  ELSE IF Known(r.text) # {} THEN records[FirstKnown(r.text)].session
  ELSE issued + 1

\* Mutant: a request that is recognised prolongs what recognised it only.
RefreshedFound(r) ==
  IF Known(Strong(r)) # {} THEN {FirstKnown(Strong(r))}
  ELSE IF Known(r.text) # {} THEN Elements(r.text) ELSE Prints(r)

InTime(c) == latest[c].session # NoSession /\ clock < latest[c].at + Ttl

\* A request recognised by its text alone leaves no other fingerprint.
Refreshed(r) ==
  IF Known(Strong(r)) = {} /\ Known(r.text) # {} THEN Elements(r.text) ELSE Prints(r)

\* Writing the file may fail, also in the middle, and is not tried again.
Save ==
  \/ /\ Persist /\ stored' = records' /\ behind' = FALSE
  \/ /\ Persist /\ stored' \in {stored, Empty} /\ behind' = TRUE
  \/ /\ ~Persist /\ UNCHANGED stored /\ behind' = TRUE

Infer(r) ==
  /\ Prints(r) # {} /\ (IsKnown(r) \/ issued < MaxBegun)
  /\ records' = [f \in Living(records) \cup Refreshed(r) |->
                   IF f \in Refreshed(r)
                   THEN [session |-> Session(r), expires |-> clock + Ttl]
                   ELSE records[f]]
  /\ issued' = IF IsKnown(r) THEN issued ELSE issued + 1
  /\ latest' = [latest EXCEPT ![r.of] = [session |-> Session(r), at |-> clock]]
  /\ switched' = IF InTime(r.of) /\ latest[r.of].session # Session(r)
                 THEN switched \cup {r.of} ELSE switched
  /\ Save
  /\ UNCHANGED clock

\* A request without any fingerprint only clears away what has expired.
InferNothing(r) ==
  /\ Prints(r) = {}
  /\ records' = Pruned(records)
  /\ UNCHANGED <<stored, issued, clock, latest, behind, switched>>

\* The process starts anew; what the file lacks is forgotten.
RestartTracker ==
  /\ records' = Pruned(stored)
  /\ latest' = IF behind THEN [c \in Conversations |-> NoAnswer] ELSE latest
  /\ UNCHANGED <<stored, issued, clock, behind, switched>>

TimePasses ==
  /\ clock < MaxClock /\ clock' = clock + 1
  /\ UNCHANGED <<records, stored, issued, latest, behind, switched>>

SessionNext ==
  \/ \E r \in Requests : Infer(r) \/ InferNothing(r)
  \/ RestartTracker \/ TimePasses

SessionSpec == SessionInit /\ [][SessionNext]_sessionVars

-----------------------------------------------------------------------------
(* Properties.                                                              *)

\* Fingerprints that lead to one session are of one conversation: nobody gets
\* a session, and with it the credential, of somebody else's.
SessionsApart ==
  \A f, g \in DOMAIN records : records[f].session = records[g].session =>
    \A r, q \in Requests : f \in Prints(r) /\ g \in Prints(q) => r.of = q.of

\* A conversation is steady when one fingerprint, strong or weak, comes with
\* each of its requests, whatever else changes from turn to turn.
Anchors(c) == {f \in UNION {Prints(r) : r \in Requests} :
                 \A r \in Requests : r.of = c => f \in Prints(r)}

\* A steady conversation that goes on in time is known by its anchor.
AnchorKept ==
  \A c \in Conversations : InTime(c) =>
    \A f \in Anchors(c) :
      f \in Living(records) /\ records[f].session = latest[c].session

\* It keeps its session as long as it goes on in time, over turns, expiries of
\* its older fingerprints and restarts that lost nothing.
SteadyStays == \A c \in switched : Anchors(c) = {}

SessionKept == SessionsApart /\ AnchorKept /\ SteadyStays
=============================================================================
