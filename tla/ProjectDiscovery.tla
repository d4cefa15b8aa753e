--------------------------- MODULE ProjectDiscovery ---------------------------
(* How the project and the tier of one Gemini CLI credential file are found     *)
(* (GeminiAuthBase._discover_project_id): the start, which wants its tier, and   *)
(* requests, which want its project, look into the caches and the file, and ask  *)
(* Google's services otherwise: Code Assist, a scan of the account's projects,   *)
(* onboarding, or the list of projects as the last resort.  Nothing keeps two of *)
(* them from asking at the same time.  A project is named by where it came from. *)
EXTENDS Naturals

CONSTANTS Requests,      \* requests and quota jobs that need the project
          Startup,       \* initialize_credentials
          Unknown,
          MaxPolls,      \* polls of an onboarding, 150 in the code
          MaxReboots     \* bound

\* Where a project comes from, and the tiers.
Sources == {"configured", "server", "scanned", "listed"}
Tiers == {"FREE", "PRO"}

ASSUME DiscoveryConstants ==
  /\ Unknown \notin Sources \cup Tiers /\ Startup \notin Requests
  /\ MaxPolls \in Nat /\ MaxReboots \in Nat

VARIABLES configured, \* GEMINI_CLI_PROJECT_ID: "configured", or Unknown
          known,      \* project_id_cache and project_tier_cache of the path
          metadata,   \* _proxy_metadata of the credential file
          account,    \* Google's side: [tier, project, offer, scan, listed]
          finder,     \* [pc, project, polls] of each task
          reboots,
          unsaved,    \* history: a write of the metadata failed
          raced       \* history: two discoveries were under way at once
discVars == <<configured, known, metadata, account, finder, reboots, unsaved, raced>>

DiscTasks == Requests \cup {Startup}
Nothing == [project |-> Unknown, tier |-> Unknown]
Resting == [pc |-> "idle", project |-> Unknown, polls |-> 0]
AtStart ==
  [t \in DiscTasks |-> [Resting EXCEPT !.pc = IF t = Startup THEN "start" ELSE "idle"]]
Discovering(t) == finder[t].pc \notin {"idle", "start"}

DiscInit ==
  /\ configured \in {Unknown, "configured"}
  /\ known = Nothing /\ metadata = Nothing
  /\ account \in [tier : Tiers \cup {Unknown}, project : {Unknown, "server"},
                  offer : Tiers \cup {Unknown}, scan : BOOLEAN, listed : BOOLEAN]
  /\ account.tier = Unknown => account.project = Unknown
  /\ account.tier # Unknown => account.offer \in {Unknown, account.tier}
  /\ finder = AtStart
  /\ reboots = 0 /\ unsaved = FALSE /\ raced = FALSE

Goes(t, pc) == finder' = [finder EXCEPT ![t].pc = pc]
Ends(t) == finder' = [finder EXCEPT ![t] = Resting]

Onboards(t, project) ==
  finder' = [finder EXCEPT ![t] = [pc |-> "onboard", project |-> project, polls |-> 0]]

\* _persist_project_metadata, which may fail.
WriteMetadata(project, tier) ==
  \/ /\ metadata' = [project |-> project, tier |-> IF tier = Unknown THEN metadata.tier ELSE tier]
     /\ UNCHANGED unsaved
  \/ unsaved' = TRUE /\ UNCHANGED metadata

\* The end of a successful discovery.
Found(t, project, tier) ==
  /\ known' = [project |-> project, tier |-> IF tier = Unknown THEN known.tier ELSE tier]
  /\ WriteMetadata(project, tier) /\ Ends(t)

----------------------------------------------------------------------------
\* The caches, then the file, then the services.
LookUp(t) ==
  IF known.project # Unknown THEN Ends(t) /\ UNCHANGED <<known, raced>>
  ELSE IF metadata.project # Unknown
  THEN /\ known' = [metadata EXCEPT !.tier = IF @ = Unknown THEN known.tier ELSE @]
       /\ Ends(t) /\ UNCHANGED raced
  ELSE /\ Goes(t, "load") /\ raced' = (raced \/ \E u \in DiscTasks \ {t} : Discovering(u))
       /\ UNCHANGED known

\* A request, once the start is over.
Need(t) ==
  /\ t \in Requests /\ finder[t].pc = "idle" /\ finder[Startup].pc = "idle"
  /\ LookUp(t)
  /\ UNCHANGED <<metadata, account, reboots, unsaved>>

\* initialize_credentials: the tier of the file, or a discovery.
Start ==
  LET loaded == [project |-> IF metadata.project # Unknown THEN metadata.project ELSE known.project,
                 tier |-> metadata.tier]
  IN  /\ finder[Startup].pc = "start"
      /\ known' = loaded
      /\ IF metadata.tier # Unknown \/ loaded.project # Unknown
         THEN Ends(Startup) ELSE Goes(Startup, "load")
      /\ UNCHANGED <<metadata, account, reboots, unsaved, raced>>

----------------------------------------------------------------------------
\* loadCodeAssist of an account the server knows: its own project, else the
\* configured one, else a scan; or the account must be onboarded.
LoadAssist(t) ==
  /\ finder[t].pc = "load"
  /\ IF account.tier # Unknown /\ (account.project # Unknown \/ configured # Unknown)
     THEN Found(t, IF account.project # Unknown THEN account.project ELSE configured, account.tier)
     ELSE /\ Goes(t, IF account.tier # Unknown THEN "scan" ELSE "offer")
          /\ UNCHANGED <<known, metadata, unsaved>>
  /\ UNCHANGED <<account, reboots, raced>>

\* _scan_gcp_projects_for_code_assist.
ScanProjects(t) ==
  /\ finder[t].pc = "scan"
  /\ \/ account.scan /\ Found(t, "scanned", account.tier)
     \/ Goes(t, "offer") /\ UNCHANGED <<known, metadata, unsaved>>
  /\ UNCHANGED <<account, reboots, raced>>

\* The tier to onboard with; for a paid one an existing project is looked for.
Offer(t) ==
  /\ finder[t].pc = "offer"
  /\ \/ account.offer = Unknown /\ Ends(t)
     \/ /\ account.offer # Unknown
        /\ \/ Onboards(t, configured)
           \/ /\ account.offer = "PRO" /\ configured = Unknown /\ account.scan
              /\ Onboards(t, "scanned")
  /\ UNCHANGED <<known, metadata, account, reboots, unsaved, raced>>

\* Mutant: the tier is cached as soon as the onboarding is asked for.
OnboardEager(t) ==
  /\ finder[t].pc = "onboard"
  /\ IF finder[t].polls = MaxPolls THEN Ends(t) /\ UNCHANGED known
     ELSE /\ finder' = [finder EXCEPT ![t].polls = @ + 1]
          /\ known' = [known EXCEPT !.tier = account.offer]
  /\ UNCHANGED <<metadata, account, reboots, unsaved, raced>>

\* onboardUser, sent again until it is done or has been sent too often.
Onboard(t) ==
  /\ finder[t].pc = "onboard"
  /\ IF finder[t].polls = MaxPolls THEN Ends(t)
     ELSE finder' = [finder EXCEPT ![t].polls = @ + 1]
  /\ UNCHANGED <<known, metadata, account, reboots, unsaved, raced>>

\* The onboarding is done: the server names a project or leaves that to the
\* configuration; without any the discovery fails.
Onboarded(t) ==
  /\ finder[t].pc = "onboard"
  /\ \E made \in BOOLEAN :
       LET server == IF finder[t].project # Unknown THEN finder[t].project
                     ELSE IF made THEN "server" ELSE account.project
           project == IF server # Unknown THEN server ELSE configured
       IN  /\ account' = [account EXCEPT !.tier = account.offer, !.project = server]
           /\ IF project # Unknown THEN Found(t, project, account.offer)
              ELSE Ends(t) /\ UNCHANGED <<known, metadata, unsaved>>
  /\ UNCHANGED <<reboots, raced>>

\* loadCodeAssist or onboardUser fails.
Fail(t) ==
  /\ finder[t].pc \in {"load", "onboard"} /\ Goes(t, "list")
  /\ UNCHANGED <<known, metadata, account, reboots, unsaved, raced>>

\* The first active project of the account, or no project at all.
List(t) ==
  /\ finder[t].pc = "list"
  /\ \/ account.listed /\ Found(t, "listed", Unknown)
     \/ Ends(t) /\ UNCHANGED <<known, metadata, unsaved>>
  /\ UNCHANGED <<account, reboots, raced>>

\* get_credential_tier_name: the tier of the file, and its project if none is cached.
LoadTier ==
  /\ known.tier = Unknown /\ metadata.tier # Unknown /\ finder[Startup].pc = "idle"
  /\ known' = [tier |-> metadata.tier,
                project |-> IF known.project = Unknown THEN metadata.project ELSE known.project]
  /\ UNCHANGED <<metadata, account, finder, reboots, unsaved, raced>>

Reboot ==
  /\ reboots < MaxReboots /\ reboots' = reboots + 1
  /\ known' = Nothing
  /\ finder' = AtStart
  /\ UNCHANGED <<metadata, account, unsaved, raced>>

DiscNext ==
  /\ \/ Start \/ LoadTier \/ Reboot
     \/ \E t \in DiscTasks :
          \/ Need(t) \/ LoadAssist(t) \/ ScanProjects(t) \/ Offer(t)
          \/ Onboard(t) \/ Onboarded(t) \/ Fail(t) \/ List(t)
  /\ UNCHANGED configured
DiscSpec == DiscInit /\ [][DiscNext]_discVars

----------------------------------------------------------------------------
\* A tier decides on priorities and limits: the one in use is the one Google
\* has given the account, not one that was only hoped for.
TierIsAccounts == known.tier # Unknown => known.tier = account.tier

\* The next start finds what this one has, unless it could not be written.
FileIsCache == known.project # Unknown /\ ~unsaved => metadata = known

\* A project guessed from the list never goes with a tier that Google gave for
\* another project, as long as discoveries did not overlap.
GuessHasNoTier == ~raced /\ known.project = "listed" => known.tier = Unknown

\* A tier once on file is never dropped again.
TierSurvives == metadata.tier # Unknown => metadata'.tier # Unknown

\* Project and tier are what Google and the file say, and a tier is not lost.
ProjectKept ==
  [](TierIsAccounts /\ FileIsCache /\ GuessHasNoTier) /\ [][TierSurvives]_metadata
=============================================================================
