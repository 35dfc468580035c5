------------------------ MODULE PlatformConnections ------------------------
(***************************************************************************)
(* The Meta connections of a client: the authorization that makes one, the *)
(* choice of its accounts, its end, and what publishing and reading        *)
(* through it can do to it (platform-connection-service.ts,                *)
(* facebook-service.ts, instagram-service.ts, platform-registry-service.ts,*)
(* meta-auth.ts).                                                          *)
(*                                                                         *)
(* The owner's handlers hold the client's row for update from their checks *)
(* to their writes; a schedule holds it for share; workers and readers do  *)
(* not ask for it.  A handler is two steps, its checks and its commit, and *)
(* the row's lock is what it is in the code: a condition of the first.     *)
(*                                                                         *)
(* Publishing, metrics and comments are verified together here, as one     *)
(* capability.  No refresh is modelled: no adapter of the code has one.    *)
(***************************************************************************)
EXTENDS Integers, FiniteSets

CONSTANTS Principals,   \* Meta users who may authorize: the key of a connection
          NoPrincipal,
          Pages,        \* Facebook Pages
          Profiles,     \* Instagram profiles
          Flows,        \* bound: authorizations under way at once
          MaxReads,     \* bound: reads of a platform under way at once
          MaxRows       \* bound: connections and accounts that authorizations have made

ASSUME ConnectionAssumption ==
  Pages \cap Profiles = {} /\ NoPrincipal \notin Principals /\ {MaxReads, MaxRows} \subseteq Nat

SocialAccounts == Pages \cup Profiles
\* UNUSABLE stands for TOKEN_EXPIRED and PERMISSION_MISSING, which nothing tells apart.
Links == {"NONE", "CONNECTED", "UNUSABLE", "DISCONNECTED"}
Scopes == {"pages_manage_posts", "other_required", "instagram"}
RequiredScopes == Scopes \ {"instagram"}
ApiJobs == {"NONE", "PENDING", "RUNNING", "UNKNOWN", "WAITING_CONFIGURATION"}
BlockedByReauthorization == {"PENDING", "RUNNING", "UNKNOWN"}
BlockedByChange == BlockedByReauthorization \cup {"WAITING_CONFIGURATION"}

VARIABLES
  conLink,     \* the PlatformConnection of each principal: status, is there a token?
  conAccount,  \* the SocialAccount rows: owner, selected, token, verified, page's rights
  conLegacy,   \* the FacebookPageConnection of a page, set up by hand
  conJob,      \* the latest API publish job of an account, and its kind of adapter
  conFlow,     \* the OAuth states: handed out or not
  conTxn,      \* the transaction that holds the client's row for update, if any
  conSharing,  \* accounts for which a schedule is validated and not yet written
  conReads     \* requests under way: the account and the connection as they were read

conVars == <<conLink, conAccount, conLegacy, conJob, conFlow, conTxn, conSharing, conReads>>

Idle == [kind |-> "none"]
HasJob(S, statuses) == \E a \in S : conJob[a].status \in statuses
AccountsOf(p) == {a \in SocialAccounts : conAccount[a].owner = p}
Rows(p, found) ==
  Cardinality({p} \cup {q \in Principals : conLink[q].status # "NONE"})
  + Cardinality(found \cup {a \in SocialAccounts : conAccount[a].owner # NoPrincipal})

\* A row of the seed: selected by default, of no connection.
ConInit ==
  /\ conLink = [p \in Principals |-> [status |-> "NONE", secret |-> FALSE]]
  /\ conAccount = [a \in SocialAccounts |-> [owner |-> NoPrincipal, selected |-> a \in Pages,
                     secret |-> FALSE, verified |-> FALSE, offers |-> FALSE]]
  /\ conLegacy = [a \in Pages |-> "NONE"]
  /\ conJob = [a \in SocialAccounts |-> [status |-> "NONE", legacy |-> FALSE]]
  /\ conFlow = [f \in Flows |-> "none"]
  /\ conTxn = Idle
  /\ conSharing = {}
  /\ conReads = {}

\* lockClient: FOR UPDATE waits for every holder.  lockConnection and lockAccountIds are
\* taken only under it, before the writes that would take them anyway.
ClientFree == conTxn = Idle /\ conSharing = {}

-----------------------------------------------------------------------------
(* Authorization *)

StartPlatformConnection(f) ==
  /\ conFlow[f] = "none"
  /\ conFlow' = [conFlow EXCEPT ![f] = "issued"]
  /\ UNCHANGED <<conLink, conAccount, conLegacy, conJob, conTxn, conSharing, conReads>>

\* The state is spent before anything else is done, or runs out; an exchange that fails
\* leaves only a line in the log.
ConsumeState(f) ==
  /\ conFlow[f] = "issued"
  /\ conFlow' = [conFlow EXCEPT ![f] = "none"]
  /\ UNCHANGED <<conLink, conAccount, conLegacy, conJob, conTxn, conSharing, conReads>>

\* mapPage: what a page lets its token do, by the rights on it and the scopes granted.
Offers(a, creators, granted) ==
  /\ a \in creators /\ "pages_manage_posts" \in granted
  /\ a \in Profiles => "instagram" \in granted

\* Mutant: the accounts of the connection alone are looked at.
AccountsOfConnection(p, found) == AccountsOf(p)

\* The accounts of the connection and those discovered, of whatever connection they are.
Affected(p, found) == AccountsOf(p) \cup found

Waiting(S) == {a \in S : conJob[a].status = "WAITING_CONFIGURATION"}

\* What the platform tells of a user, by three requests: the accounts on the first page of
\* them, those the user may post to, and the scopes granted.
discoverAccounts ==
  {d \in [principal : Principals, found : SUBSET SocialAccounts, creators : SUBSET SocialAccounts,
          granted : SUBSET Scopes] : d.creators \subseteq d.found}

\* The checks of completePlatformConnection, on what the platform told of pages, rights and
\* scopes.  A job that waits for this repair lets it pass if it repairs its account.  The
\* state, which nobody else reads, counts as spent only here.
BeginComplete(f) ==
  /\ conFlow[f] = "issued" /\ ClientFree
  /\ \E d \in discoverAccounts :
       LET p == d.principal
           found == d.found
           granted == d.granted
           offers == {a \in found : Offers(a, d.creators, granted)}
           waiting == Waiting(Affected(p, found))
       IN  /\ Rows(p, found) <= MaxRows
           /\ ~HasJob(Affected(p, found), BlockedByReauthorization)
           /\ waiting \subseteq found
           /\ waiting # {} => RequiredScopes \subseteq granted
           /\ \A a \in waiting : conAccount[a].verified => a \in offers
           /\ conTxn' = [kind |-> "complete", principal |-> p, found |-> found,
                         offers |-> offers, waiting |-> waiting,
                         granted |-> RequiredScopes \subseteq granted]
  /\ conFlow' = [conFlow EXCEPT ![f] = "none"]
  /\ UNCHANGED <<conLink, conAccount, conLegacy, conJob, conSharing, conReads>>

\* An account that is not found again.
Forgotten(row) == [row EXCEPT !.selected = FALSE, !.secret = FALSE, !.verified = FALSE]

\* An account that is found: what waits for it keeps its selection and its rights.
Discovered(a, t) ==
  [conAccount[a] EXCEPT
     !.owner = t.principal, !.secret = TRUE, !.offers = a \in t.offers,
     !.selected = a \in t.waiting /\ @,
     !.verified = IF a \in t.waiting /\ conAccount[a].selected THEN a \in t.offers
                  ELSE a \in t.waiting /\ @]

CommitComplete ==
  /\ conTxn.kind = "complete"
  /\ LET t == conTxn
     IN  /\ conLink' = [conLink EXCEPT ![t.principal] =
              [status |-> IF t.granted THEN "CONNECTED" ELSE "UNUSABLE",
               secret |-> TRUE]]
         /\ conAccount' = [a \in SocialAccounts |->
              IF a \in t.found THEN Discovered(a, t)
              ELSE IF a \in AccountsOf(t.principal) THEN Forgotten(conAccount[a])
              ELSE conAccount[a]]
  /\ conTxn' = Idle
  /\ UNCHANGED <<conLegacy, conJob, conFlow, conSharing, conReads>>

-----------------------------------------------------------------------------
(* Choice and end *)

\* The accounts that lose something: a selection, or a verified right.
Losing(p, chosen) ==
  {a \in AccountsOf(p) : IF a \in chosen THEN conAccount[a].verified /\ ~conAccount[a].offers
                         ELSE conAccount[a].selected \/ conAccount[a].verified}

\* The form carries the selection it showed, which must still be the current one.
BeginSelect(p) ==
  /\ ClientFree /\ conLink[p].status = "CONNECTED"
  /\ \E chosen \in SUBSET AccountsOf(p) \ {{}} :
       /\ ~HasJob(Losing(p, chosen), BlockedByChange)
       /\ conTxn' = [kind |-> "select", principal |-> p, chosen |-> chosen]
  /\ UNCHANGED <<conLink, conAccount, conLegacy, conJob, conFlow, conSharing, conReads>>

\* selectedCapabilityData of the chosen ones.
CommitSelect ==
  /\ conTxn.kind = "select"
  /\ conAccount' = [a \in SocialAccounts |->
       IF a \notin AccountsOf(conTxn.principal) THEN conAccount[a]
       ELSE [conAccount[a] EXCEPT !.selected = a \in conTxn.chosen,
                                  !.verified = a \in conTxn.chosen /\ conAccount[a].offers]]
  /\ conTxn' = Idle
  /\ UNCHANGED <<conLink, conLegacy, conJob, conFlow, conSharing, conReads>>

BeginDisconnect(p) ==
  /\ ClientFree /\ conLink[p].status # "NONE"
  /\ ~HasJob(AccountsOf(p), BlockedByChange)
  /\ conTxn' = [kind |-> "disconnect", principal |-> p]
  /\ UNCHANGED <<conLink, conAccount, conLegacy, conJob, conFlow, conSharing, conReads>>

\* Mutant: the tokens of the accounts are left where they are.
KeepsSecret(row) == [row EXCEPT !.selected = FALSE, !.verified = FALSE]

Cleared(row) == Forgotten(row)

\* The platform is told afterwards; whether it hears of it is only noted.
CommitDisconnect ==
  /\ conTxn.kind = "disconnect"
  /\ conLink' = [conLink EXCEPT ![conTxn.principal] =
                   [status |-> "DISCONNECTED", secret |-> FALSE]]
  /\ conAccount' = [a \in SocialAccounts |->
       IF a \in AccountsOf(conTxn.principal) THEN Cleared(conAccount[a]) ELSE conAccount[a]]
  /\ conTxn' = Idle
  /\ UNCHANGED <<conLegacy, conJob, conFlow, conSharing, conReads>>

-----------------------------------------------------------------------------
(* A page set up by hand: neither step asks for the client's row or for jobs *)

Unverified(a) == conAccount' = [conAccount EXCEPT ![a].verified = FALSE]

ConfigureFacebookPage(a) ==
  /\ conLegacy' = [conLegacy EXCEPT ![a] = "UNVERIFIED"]
  /\ Unverified(a)
  /\ UNCHANGED <<conLink, conJob, conFlow, conTxn, conSharing, conReads>>

\* Whatever the page had become while its platform was asked.
ValidateFacebookPage(a) ==
  /\ conLegacy[a] # "NONE"
  /\ \E ok \in BOOLEAN :
       /\ conLegacy' = [conLegacy EXCEPT ![a] = IF ok THEN "VERIFIED" ELSE "UNVERIFIED"]
       /\ conAccount' = [conAccount EXCEPT ![a].verified = ok]
  /\ UNCHANGED <<conLink, conJob, conFlow, conTxn, conSharing, conReads>>

-----------------------------------------------------------------------------
(* Use *)

OAuthReady(a) == /\ conAccount[a].owner # NoPrincipal /\ conAccount[a].secret
                 /\ conLink[conAccount[a].owner].status = "CONNECTED"

LegacyReady(a) == a \in Pages /\ conLegacy[a] = "VERIFIED"

\* selectLiveAdapter: the target of a live schedule, if there is one.
LiveTarget(a) ==
  /\ conAccount[a].selected /\ conAccount[a].verified
  /\ OAuthReady(a) \/ LegacyReady(a)

\* schedulePublication holds the client's row for share from its validation to its commit.
BeginLiveSchedule(a) ==
  /\ conTxn = Idle /\ \A s \in conSharing : s.account # a
  /\ conJob[a].status = "NONE" /\ LiveTarget(a)
  /\ conSharing' = conSharing \cup {[account |-> a, legacy |-> ~OAuthReady(a)]}
  /\ UNCHANGED <<conLink, conAccount, conLegacy, conJob, conFlow, conTxn, conReads>>

CommitLiveSchedule(s) ==
  /\ conJob' = [conJob EXCEPT ![s.account] = [status |-> "PENDING", legacy |-> s.legacy]]
  /\ conSharing' = conSharing \ {s}
  /\ UNCHANGED <<conLink, conAccount, conLegacy, conFlow, conTxn, conReads>>

Moved(a, to) == conJob' = [conJob EXCEPT ![a].status = to]

\* The token of the connection is refused: what the row had become is not asked.
LinkFails(p) == conLink' = IF p = NoPrincipal THEN conLink
                           ELSE [conLink EXCEPT ![p].status = "UNUSABLE"]

\* The same of an account, and of the row a page set up by hand has.
Refused(p, a, legacyToo) ==
  /\ LinkFails(p)
  /\ Unverified(a)
  /\ conLegacy' = IF legacyToo /\ conLegacy[a] # "NONE"
                  THEN [conLegacy EXCEPT ![a] = "UNVERIFIED"] ELSE conLegacy

\* A claimed job whose account has no usable adapter is parked; a token found expired marks
\* the connection, whatever its status.
ResolvePublishAdapter(a) ==
  /\ conJob[a].status = "RUNNING" /\ Moved(a, "WAITING_CONFIGURATION")
  /\ \/ /\ conAccount[a].owner # NoPrincipal
        /\ a \in Profiles => LiveTarget(a)
        /\ LinkFails(conAccount[a].owner)
        /\ IF a \in Profiles THEN Unverified(a) ELSE UNCHANGED conAccount
     \/ /\ ~(IF conJob[a].legacy THEN LegacyReady(a) /\ conAccount[a].verified
             ELSE OAuthReady(a) /\ conAccount[a].selected
                  /\ (a \in Profiles => conAccount[a].verified))
        /\ UNCHANGED <<conLink, conAccount>>
  /\ UNCHANGED <<conLegacy, conFlow, conTxn, conSharing, conReads>>

\* What becomes of a job of which the worker or an operator disposes.
JobMoves(a) ==
  /\ \/ conJob[a].status = "PENDING" /\ \E to \in {"RUNNING", "NONE"} : Moved(a, to)
     \/ conJob[a].status = "RUNNING" /\ \E to \in {"PENDING", "UNKNOWN", "NONE"} : Moved(a, to)
     \/ conJob[a].status \in {"UNKNOWN", "WAITING_CONFIGURATION"} /\ Moved(a, "NONE")
  /\ UNCHANGED <<conLink, conAccount, conLegacy, conFlow, conTxn, conSharing, conReads>>

\* The call of a job is refused for its token or its rights.
PublishRefused(a) ==
  /\ conJob[a].status = "RUNNING" /\ Moved(a, "NONE")
  /\ Refused(conAccount[a].owner, a, a \in Pages)
  /\ UNCHANGED <<conFlow, conTxn, conSharing, conReads>>

\* Metrics, comments, or the state of a post are read with the account as it is now.
BeginRead(a) ==
  /\ Cardinality(conReads) < MaxReads /\ conAccount[a].verified
  /\ conReads' = conReads \cup {[account |-> a, owner |-> conAccount[a].owner]}
  /\ UNCHANGED <<conLink, conAccount, conLegacy, conJob, conFlow, conTxn, conSharing>>

\* The platform answers, or refuses the token that was used: the connection is marked, and a
\* page without one has its row of its own marked.
EndRead(r) ==
  /\ conReads' = conReads \ {r}
  /\ \/ UNCHANGED <<conLink, conAccount, conLegacy>>
     \/ Refused(r.owner, r.account, r.account \in Pages /\ r.owner = NoPrincipal)
  /\ UNCHANGED <<conJob, conFlow, conTxn, conSharing>>

-----------------------------------------------------------------------------
ConNext ==
  \/ \E f \in Flows : StartPlatformConnection(f) \/ ConsumeState(f) \/ BeginComplete(f)
  \/ \E p \in Principals : BeginSelect(p) \/ BeginDisconnect(p)
  \/ CommitComplete \/ CommitSelect \/ CommitDisconnect
  \/ \E a \in Pages : ConfigureFacebookPage(a) \/ ValidateFacebookPage(a)
  \/ \E a \in SocialAccounts : \/ BeginLiveSchedule(a) \/ ResolvePublishAdapter(a)
                               \/ JobMoves(a) \/ PublishRefused(a) \/ BeginRead(a)
  \/ \E s \in conSharing : CommitLiveSchedule(s)
  \/ \E r \in conReads : EndRead(r)

ConSpec == ConInit /\ [][ConNext]_conVars

-----------------------------------------------------------------------------
(* Properties *)

\* While an API job may still publish, or waits to be repaired, its account stays chosen, and
\* an OAuth job's account stays on a connection that has a token, with a token of its own:
\* no authorization, choice or disconnection takes from under a job what it needs
\* (assertNoActiveApiJobs and the lock of the client).
ActiveJobKeepsAccount ==
  \A a \in SocialAccounts : conJob[a].status # "NONE" =>
    /\ conAccount[a].selected
    /\ IF conJob[a].legacy THEN conLegacy[a] # "NONE"
       ELSE /\ conAccount[a].owner # NoPrincipal /\ conAccount[a].secret
            /\ conLink[conAccount[a].owner].secret

\* A connection without a token has no account that is chosen or keeps a token, however
\* late answers and expiries rewrite its status after a disconnection.
SecretsGoTogether ==
  \A a \in SocialAccounts :
    conAccount[a].owner # NoPrincipal /\ ~conLink[conAccount[a].owner].secret =>
      ~conAccount[a].selected /\ ~conAccount[a].secret
=============================================================================
