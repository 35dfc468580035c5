----------------------- MODULE PlatformConnectionsProofs -----------------------
(***************************************************************************)
(* No authorization, choice or disconnection takes from under a publish    *)
(* job what it needs, and a connection without a token leaves no account   *)
(* of its own with one: proof for any users, pages and profiles, and any   *)
(* number of authorizations and reads under way.                           *)
(***************************************************************************)
EXTENDS PlatformConnections, TLAPS

-----------------------------------------------------------------------------
(* The invariant *)

Owners == Principals \cup {NoPrincipal}

LinkRows == [status : Links, secret : BOOLEAN]
AccountRows == [owner : Owners, selected : BOOLEAN, secret : BOOLEAN, verified : BOOLEAN, offers : BOOLEAN]
JobRows == [status : ApiJobs, legacy : BOOLEAN]
Txns ==
  {Idle}
  \cup [kind : {"complete"}, principal : Principals, found : SUBSET SocialAccounts,
        offers : SUBSET SocialAccounts, waiting : SUBSET SocialAccounts, granted : BOOLEAN]
  \cup [kind : {"select"}, principal : Principals, chosen : SUBSET SocialAccounts]
  \cup [kind : {"disconnect"}, principal : Principals]

ConTypeOK ==
  /\ conLink \in [Principals -> LinkRows]
  /\ conAccount \in [SocialAccounts -> AccountRows]
  /\ conLegacy \in [Pages -> {"NONE", "UNVERIFIED", "VERIFIED"}]
  /\ conJob \in [SocialAccounts -> JobRows]
  /\ conFlow \in [Flows -> {"none", "issued"}]
  /\ conTxn \in Txns
  /\ conSharing \subseteq [account : SocialAccounts, legacy : BOOLEAN]
  /\ conReads \subseteq [account : SocialAccounts, owner : Owners]

\* What a job of the account, of either kind of adapter, needs.
Serves(a, legacy) ==
  /\ conAccount[a].selected
  /\ IF legacy THEN a \in Pages /\ conLegacy[a] # "NONE"
     ELSE /\ conAccount[a].owner # NoPrincipal /\ conAccount[a].secret
          /\ conLink[conAccount[a].owner].secret

Active(a) == conJob[a].status # "NONE"

JobInv == \A a \in SocialAccounts : Active(a) => Serves(a, conJob[a].legacy)

\* What a schedule has validated holds until it is written.
SharingInv == \A s \in conSharing : Serves(s.account, s.legacy)

\* A connection is marked connected only with a token.
LinkInv == \A p \in Principals : conLink[p].status = "CONNECTED" => conLink[p].secret

\* What a handler has checked holds until its commit: no schedule is between its validation and
\* its write, and the jobs of the accounts that will lose something are over.
TxnInv ==
  /\ conTxn # Idle => conSharing = {}
  /\ conTxn.kind = "complete" =>
       \A a \in Affected(conTxn.principal, conTxn.found) :
         Active(a) => a \in conTxn.found /\ a \in conTxn.waiting
  /\ conTxn.kind = "select" =>
       /\ conLink[conTxn.principal].secret
       /\ \A a \in AccountsOf(conTxn.principal) : Active(a) => a \in conTxn.chosen
  /\ conTxn.kind = "disconnect" => \A a \in AccountsOf(conTxn.principal) : ~Active(a)

ConInv == ConTypeOK /\ JobInv /\ SharingInv /\ LinkInv /\ TxnInv /\ SecretsGoTogether

-----------------------------------------------------------------------------
(* Steps *)

\* There is no job, and no connection.
LEMMA ConInitInv == ConInit => ConInv
<1> SUFFICES ASSUME ConInit PROVE ConInv
  OBVIOUS
<1>1. ConTypeOK
  BY DEF ConInit, ConTypeOK, LinkRows, AccountRows, JobRows, Txns, Idle, Owners, Links, ApiJobs
<1>2. JobInv /\ SharingInv /\ LinkInv /\ SecretsGoTogether
  BY DEF ConInit, JobInv, Active, SharingInv, LinkInv, SecretsGoTogether
<1>3. TxnInv
  BY DEF ConInit, TxnInv, Idle
<1> QED BY <1>1, <1>2, <1>3 DEF ConInv

\* A step that begins no job and takes no account, no token and no choice away.
LEMMA MildStep ==
  ASSUME ConInv, ConTypeOK',
         \A p \in Principals : /\ conLink'[p].secret = conLink[p].secret
                               /\ conLink'[p].status = "CONNECTED" => conLink[p].status = "CONNECTED",
         \A a \in SocialAccounts :
            /\ conAccount'[a].owner = conAccount[a].owner
            /\ conAccount'[a].selected = conAccount[a].selected
            /\ conAccount'[a].secret = conAccount[a].secret
            /\ conJob'[a].status # "NONE" => /\ conJob[a].status # "NONE"
                                             /\ conJob'[a].legacy = conJob[a].legacy,
         \A a \in Pages : conLegacy[a] # "NONE" => conLegacy'[a] # "NONE",
         UNCHANGED <<conTxn, conSharing>>
  PROVE  ConInv'
<1>1. \A a \in SocialAccounts : conAccount[a].owner \in Owners
  BY DEF ConInv, ConTypeOK, AccountRows
<1>2. \A a \in SocialAccounts, legacy \in BOOLEAN : Serves(a, legacy) => Serves(a, legacy)'
  BY <1>1 DEF Serves, Owners
<1>3. JobInv'
  BY <1>2 DEF ConInv, JobInv, Active, ConTypeOK, JobRows
<1>4. SharingInv'
  BY <1>2 DEF ConInv, SharingInv, ConTypeOK
<1>5. LinkInv'
  BY DEF ConInv, LinkInv
<1>6. SecretsGoTogether'
  BY <1>1 DEF ConInv, SecretsGoTogether, Owners
<1>7. \A p : AccountsOf(p)' = AccountsOf(p)
  BY DEF AccountsOf
<1>8. TxnInv'
  <2>1. \A a \in SocialAccounts : Active(a)' => Active(a)
    BY DEF Active
  <2>2. \A p : AccountsOf(p) \subseteq SocialAccounts
    BY DEF AccountsOf
  <2>3. CASE conTxn.kind = "complete"
    <3>1. conTxn.found \subseteq SocialAccounts
      BY <2>3 DEF ConInv, ConTypeOK, Txns, Idle
    <3> QED BY <2>1, <2>2, <2>3, <3>1, <1>7 DEF ConInv, TxnInv, Affected
  <2>4. CASE conTxn.kind = "select"
    <3>1. conTxn.principal \in Principals
      BY <2>4 DEF ConInv, ConTypeOK, Txns, Idle
    <3> QED BY <2>1, <2>2, <2>4, <3>1, <1>7 DEF ConInv, TxnInv
  <2>5. CASE conTxn.kind \notin {"complete", "select"}
    BY <2>1, <2>2, <2>5, <1>7 DEF ConInv, TxnInv
  <2> QED BY <2>3, <2>4, <2>5
<1> QED BY <1>3, <1>4, <1>5, <1>6, <1>8 DEF ConInv

\* Only the authorizations under way change.
LEMMA FlowStep ==
  ASSUME ConInv, NEW f \in Flows, NEW to \in {"none", "issued"}, conFlow' = [conFlow EXCEPT ![f] = to],
         UNCHANGED <<conLink, conAccount, conLegacy, conJob, conTxn, conSharing, conReads>>
  PROVE  ConInv'
<1>1. ConTypeOK'
  BY DEF ConInv, ConTypeOK
<1> QED BY <1>1, MildStep

\* A page's row of its own is written, and its right with it.
LEMMA LegacyStep ==
  ASSUME ConInv, NEW a \in Pages, NEW to \in {"UNVERIFIED", "VERIFIED"}, NEW ok \in BOOLEAN,
         conLegacy' = [conLegacy EXCEPT ![a] = to],
         conAccount' = [conAccount EXCEPT ![a].verified = ok],
         UNCHANGED <<conLink, conJob, conFlow, conTxn, conSharing, conReads>>
  PROVE  ConInv'
<1>1. conAccount \in [SocialAccounts -> AccountRows] /\ a \in SocialAccounts
  BY DEF ConInv, ConTypeOK, SocialAccounts
<1>2. /\ conAccount' \in [SocialAccounts -> AccountRows]
      /\ \A b \in SocialAccounts : /\ conAccount'[b].owner = conAccount[b].owner
                                   /\ conAccount'[b].selected = conAccount[b].selected
                                   /\ conAccount'[b].secret = conAccount[b].secret
  BY <1>1 DEF AccountRows
<1>3. /\ conLegacy' \in [Pages -> {"NONE", "UNVERIFIED", "VERIFIED"}]
      /\ \A b \in Pages : conLegacy[b] # "NONE" => conLegacy'[b] # "NONE"
  BY DEF ConInv, ConTypeOK
<1>4. ConTypeOK'
  BY <1>2, <1>3 DEF ConInv, ConTypeOK
<1> QED BY <1>2, <1>3, <1>4, MildStep

\* A job that is there moves on, or ends.
LEMMA MovedJobs ==
  ASSUME ConInv, NEW a \in SocialAccounts, Active(a), NEW to \in ApiJobs, Moved(a, to)
  PROVE  /\ conJob' \in [SocialAccounts -> JobRows]
         /\ \A b \in SocialAccounts : conJob'[b].status # "NONE" =>
              conJob[b].status # "NONE" /\ conJob'[b].legacy = conJob[b].legacy
BY DEF Moved, Active, ConInv, ConTypeOK, JobRows

\* A connection is marked, whatever it had become.
LEMMA FailedLinks ==
  ASSUME ConInv, NEW p \in Owners, LinkFails(p)
  PROVE  /\ conLink' \in [Principals -> LinkRows]
         /\ \A q \in Principals : /\ conLink'[q].secret = conLink[q].secret
                                  /\ conLink'[q].status = "CONNECTED" => conLink[q].status = "CONNECTED"
BY DEF LinkFails, Owners, ConInv, ConTypeOK, LinkRows, Links

\* An account loses its right, and nothing else.
LEMMA UnverifiedAccounts ==
  ASSUME ConInv, NEW a \in SocialAccounts, Unverified(a)
  PROVE  /\ conAccount' \in [SocialAccounts -> AccountRows]
         /\ \A b \in SocialAccounts : /\ conAccount'[b].owner = conAccount[b].owner
                                      /\ conAccount'[b].selected = conAccount[b].selected
                                      /\ conAccount'[b].secret = conAccount[b].secret
BY ZenonT(40) DEF Unverified, ConInv, ConTypeOK, AccountRows

\* The platform refuses: connection, account and the page's row are marked.
LEMMA RefusedRows ==
  ASSUME ConInv, NEW p \in Owners, NEW a \in SocialAccounts, NEW legacyToo \in BOOLEAN,
         legacyToo => a \in Pages, Refused(p, a, legacyToo)
  PROVE  /\ conLink' \in [Principals -> LinkRows]
         /\ conAccount' \in [SocialAccounts -> AccountRows]
         /\ conLegacy' \in [Pages -> {"NONE", "UNVERIFIED", "VERIFIED"}]
         /\ \A q \in Principals : /\ conLink'[q].secret = conLink[q].secret
                                  /\ conLink'[q].status = "CONNECTED" => conLink[q].status = "CONNECTED"
         /\ \A b \in SocialAccounts : /\ conAccount'[b].owner = conAccount[b].owner
                                      /\ conAccount'[b].selected = conAccount[b].selected
                                      /\ conAccount'[b].secret = conAccount[b].secret
         /\ \A b \in Pages : conLegacy[b] # "NONE" => conLegacy'[b] # "NONE"
<1>1. LinkFails(p) /\ Unverified(a)
  BY DEF Refused
<1>2. /\ conLegacy' \in [Pages -> {"NONE", "UNVERIFIED", "VERIFIED"}]
      /\ \A b \in Pages : conLegacy[b] # "NONE" => conLegacy'[b] # "NONE"
  BY DEF Refused, ConInv, ConTypeOK
<1> QED BY <1>1, <1>2, FailedLinks, UnverifiedAccounts

\* A claimed job is parked.
LEMMA ResolveStep ==
  ASSUME ConInv, NEW a \in SocialAccounts, ResolvePublishAdapter(a) PROVE ConInv'
<1>1. Active(a) /\ Moved(a, "WAITING_CONFIGURATION") /\ conAccount[a].owner \in Owners
  BY DEF ResolvePublishAdapter, Active, ConInv, ConTypeOK, AccountRows
<1>2. /\ conJob' \in [SocialAccounts -> JobRows]
      /\ \A b \in SocialAccounts : conJob'[b].status # "NONE" =>
           conJob[b].status # "NONE" /\ conJob'[b].legacy = conJob[b].legacy
  BY <1>1, MovedJobs DEF ApiJobs
<1>3. LinkFails(conAccount[a].owner) \/ UNCHANGED conLink
  BY DEF ResolvePublishAdapter
<1>4. /\ conLink' \in [Principals -> LinkRows]
      /\ \A q \in Principals : /\ conLink'[q].secret = conLink[q].secret
                               /\ conLink'[q].status = "CONNECTED" => conLink[q].status = "CONNECTED"
  BY <1>1, <1>3, FailedLinks DEF ConInv, ConTypeOK
<1>5. Unverified(a) \/ UNCHANGED conAccount
  BY DEF ResolvePublishAdapter
<1>6. /\ conAccount' \in [SocialAccounts -> AccountRows]
      /\ \A b \in SocialAccounts : /\ conAccount'[b].owner = conAccount[b].owner
                                   /\ conAccount'[b].selected = conAccount[b].selected
                                   /\ conAccount'[b].secret = conAccount[b].secret
  BY <1>5, UnverifiedAccounts DEF ConInv, ConTypeOK
<1>7. UNCHANGED <<conLegacy, conFlow, conTxn, conSharing, conReads>>
  BY DEF ResolvePublishAdapter
<1>8. ConTypeOK'
  BY <1>2, <1>4, <1>6, <1>7 DEF ConInv, ConTypeOK
<1> QED BY <1>2, <1>4, <1>6, <1>7, <1>8, MildStep

\* The worker or an operator disposes of a job.
LEMMA JobMovesStep == ASSUME ConInv, NEW a \in SocialAccounts, JobMoves(a) PROVE ConInv'
<1>1. PICK to \in ApiJobs : Active(a) /\ Moved(a, to)
  BY DEF JobMoves, Active, ApiJobs
<1>2. UNCHANGED <<conLink, conAccount, conLegacy, conFlow, conTxn, conSharing, conReads>>
  BY DEF JobMoves
<1>3. /\ conJob' \in [SocialAccounts -> JobRows]
      /\ \A b \in SocialAccounts : conJob'[b].status # "NONE" =>
           conJob[b].status # "NONE" /\ conJob'[b].legacy = conJob[b].legacy
  BY <1>1, MovedJobs
<1>4. ConTypeOK'
  BY <1>2, <1>3 DEF ConInv, ConTypeOK
<1> QED BY <1>2, <1>3, <1>4, MildStep

\* The call of a job is refused.
LEMMA PublishRefusedStep ==
  ASSUME ConInv, NEW a \in SocialAccounts, PublishRefused(a) PROVE ConInv'
<1>1. /\ Active(a) /\ Moved(a, "NONE") /\ conAccount[a].owner \in Owners
      /\ Refused(conAccount[a].owner, a, a \in Pages)
      /\ UNCHANGED <<conFlow, conTxn, conSharing, conReads>>
  BY DEF PublishRefused, Active, ConInv, ConTypeOK, AccountRows
<1>2. /\ conJob' \in [SocialAccounts -> JobRows]
      /\ \A b \in SocialAccounts : conJob'[b].status # "NONE" =>
           conJob[b].status # "NONE" /\ conJob'[b].legacy = conJob[b].legacy
  BY <1>1, MovedJobs DEF ApiJobs
<1>3. (a \in Pages) \in BOOLEAN
  OBVIOUS
<1>4. /\ conLink' \in [Principals -> LinkRows]
      /\ conAccount' \in [SocialAccounts -> AccountRows]
      /\ conLegacy' \in [Pages -> {"NONE", "UNVERIFIED", "VERIFIED"}]
      /\ \A q \in Principals : /\ conLink'[q].secret = conLink[q].secret
                               /\ conLink'[q].status = "CONNECTED" => conLink[q].status = "CONNECTED"
      /\ \A b \in SocialAccounts : /\ conAccount'[b].owner = conAccount[b].owner
                                   /\ conAccount'[b].selected = conAccount[b].selected
                                   /\ conAccount'[b].secret = conAccount[b].secret
      /\ \A b \in Pages : conLegacy[b] # "NONE" => conLegacy'[b] # "NONE"
  BY <1>1, <1>3, RefusedRows
<1>5. ConTypeOK'
  BY <1>1, <1>2, <1>4 DEF ConInv, ConTypeOK
<1> QED BY <1>1, <1>2, <1>4, <1>5, MildStep

\* A read begins, and ends with an answer or with the refusal of a token of long ago.
LEMMA BeginReadStep == ASSUME ConInv, NEW a \in SocialAccounts, BeginRead(a) PROVE ConInv'
<1>1. /\ conReads' = conReads \cup {[account |-> a, owner |-> conAccount[a].owner]}
      /\ UNCHANGED <<conLink, conAccount, conLegacy, conJob, conFlow, conTxn, conSharing>>
  BY DEF BeginRead
<1>2. conAccount[a].owner \in Owners
  BY DEF ConInv, ConTypeOK, AccountRows
<1>3. ConTypeOK'
  BY <1>1, <1>2 DEF ConInv, ConTypeOK
<1> QED BY <1>1, <1>3, MildStep

LEMMA EndReadStep == ASSUME ConInv, NEW r \in conReads, EndRead(r) PROVE ConInv'
<1>1. /\ conReads' = conReads \ {r} /\ r.account \in SocialAccounts /\ r.owner \in Owners
      /\ UNCHANGED <<conJob, conFlow, conTxn, conSharing>>
  BY DEF EndRead, ConInv, ConTypeOK
<1>2. CASE UNCHANGED <<conLink, conAccount, conLegacy>>
  <2>1. ConTypeOK'
    BY <1>1, <1>2 DEF ConInv, ConTypeOK
  <2> QED BY <1>1, <1>2, <2>1, MildStep
<1>3. CASE Refused(r.owner, r.account, r.account \in Pages /\ r.owner = NoPrincipal)
  <2>1. (r.account \in Pages /\ r.owner = NoPrincipal) \in BOOLEAN
    OBVIOUS
  <2>2. /\ conLink' \in [Principals -> LinkRows]
        /\ conAccount' \in [SocialAccounts -> AccountRows]
        /\ conLegacy' \in [Pages -> {"NONE", "UNVERIFIED", "VERIFIED"}]
        /\ \A q \in Principals : /\ conLink'[q].secret = conLink[q].secret
                                 /\ conLink'[q].status = "CONNECTED" => conLink[q].status = "CONNECTED"
        /\ \A b \in SocialAccounts : /\ conAccount'[b].owner = conAccount[b].owner
                                     /\ conAccount'[b].selected = conAccount[b].selected
                                     /\ conAccount'[b].secret = conAccount[b].secret
        /\ \A b \in Pages : conLegacy[b] # "NONE" => conLegacy'[b] # "NONE"
    BY <1>1, <1>3, <2>1, RefusedRows
  <2>3. ConTypeOK'
    BY <1>1, <2>2 DEF ConInv, ConTypeOK
  <2> QED BY <1>1, <2>2, <2>3, MildStep
<1> QED BY <1>2, <1>3 DEF EndRead

-----------------------------------------------------------------------------
(* Schedules *)

\* The target of a schedule serves the adapter that will be chosen.
LEMMA TargetServes ==
  ASSUME ConInv, NEW a \in SocialAccounts, LiveTarget(a) PROVE Serves(a, ~OAuthReady(a))
<1>1. conAccount[a].selected
  BY DEF LiveTarget
<1>2. CASE OAuthReady(a)
  <2>1. conAccount[a].owner \in Principals
    BY <1>2 DEF OAuthReady, ConInv, ConTypeOK, AccountRows, Owners
  <2> QED BY <1>1, <1>2, <2>1 DEF OAuthReady, Serves, ConInv, LinkInv
<1>3. CASE ~OAuthReady(a)
  BY <1>1, <1>3 DEF LiveTarget, LegacyReady, Serves
<1> QED BY <1>2, <1>3

\* A schedule that shares the client's row joins only while no exclusive transaction runs.
LEMMA BeginLiveStep ==
  ASSUME ConInv, NEW a \in SocialAccounts, BeginLiveSchedule(a) PROVE ConInv'
<1> DEFINE s == [account |-> a, legacy |-> ~OAuthReady(a)]
<1>1. /\ conTxn = Idle /\ conSharing' = conSharing \cup {s}
      /\ UNCHANGED <<conLink, conAccount, conLegacy, conJob, conFlow, conTxn, conReads>>
  BY DEF BeginLiveSchedule
<1>2. s \in [account : SocialAccounts, legacy : BOOLEAN] /\ Serves(s.account, s.legacy)
  BY TargetServes DEF BeginLiveSchedule, OAuthReady
<1> HIDE DEF s
<1>3. ConTypeOK'
  BY <1>1, <1>2 DEF ConInv, ConTypeOK
<1>4. JobInv' /\ LinkInv' /\ SecretsGoTogether'
  BY <1>1 DEF ConInv, JobInv, Active, Serves, LinkInv, SecretsGoTogether
<1>5. SharingInv'
  BY <1>1, <1>2 DEF ConInv, SharingInv, Serves
<1>6. TxnInv'
  BY <1>1 DEF TxnInv, Idle
<1> QED BY <1>3, <1>4, <1>5, <1>6 DEF ConInv

\* The job it leaves has the account the transaction saw.
LEMMA CommitLiveStep ==
  ASSUME ConInv, NEW s \in conSharing, CommitLiveSchedule(s) PROVE ConInv'
<1>1. /\ conJob' = [conJob EXCEPT ![s.account] = [status |-> "PENDING", legacy |-> s.legacy]]
      /\ conSharing' = conSharing \ {s}
      /\ UNCHANGED <<conLink, conAccount, conLegacy, conFlow, conTxn, conReads>>
      /\ s.account \in SocialAccounts /\ s.legacy \in BOOLEAN
  BY DEF CommitLiveSchedule, ConInv, ConTypeOK
<1>2. ConTypeOK'
  BY <1>1 DEF ConInv, ConTypeOK, JobRows, ApiJobs
<1>3. Serves(s.account, s.legacy)
  BY DEF ConInv, SharingInv
<1>4. ASSUME NEW a \in SocialAccounts, conJob'[a].status # "NONE"
      PROVE  Serves(a, conJob'[a].legacy)
  <2>1. CASE a = s.account
    BY <1>1, <1>3, <2>1 DEF ConInv, ConTypeOK
  <2>2. CASE a # s.account
    <3>1. conJob'[a] = conJob[a]
      BY <1>1, <2>2
    <3> QED BY <1>4, <3>1 DEF ConInv, JobInv, Active
  <2> QED BY <2>1, <2>2
<1>5. \A a \in SocialAccounts, legacy \in BOOLEAN : Serves(a, legacy)' <=> Serves(a, legacy)
  BY <1>1 DEF Serves
<1>6. JobInv'
  BY <1>2, <1>4, <1>5 DEF JobInv, Active, ConTypeOK, JobRows
<1>7. SharingInv'
  BY <1>1, <1>5 DEF ConInv, SharingInv, ConTypeOK
<1>8. LinkInv' /\ SecretsGoTogether'
  BY <1>1 DEF ConInv, LinkInv, SecretsGoTogether
<1>9. conTxn = Idle
  BY DEF ConInv, TxnInv
<1>10. TxnInv'
  BY <1>1, <1>9 DEF TxnInv, Idle
<1> QED BY <1>2, <1>6, <1>7, <1>8, <1>10 DEF ConInv

-----------------------------------------------------------------------------
(* The owner's handlers *)

\* A handler has checked, and holds the client's row.
LEMMA BeginTxn ==
  ASSUME ConInv, ClientFree, conTxn' \in Txns, conFlow' \in [Flows -> {"none", "issued"}], TxnInv',
         UNCHANGED <<conLink, conAccount, conLegacy, conJob, conSharing, conReads>>
  PROVE  ConInv'
<1>1. ConTypeOK'
  BY DEF ConInv, ConTypeOK
<1>2. JobInv' /\ SharingInv' /\ LinkInv' /\ SecretsGoTogether'
  BY DEF ConInv, JobInv, Active, Serves, SharingInv, LinkInv, SecretsGoTogether
<1> QED BY <1>1, <1>2 DEF ConInv

\* The jobs of accounts that are affected wait for this repair.
LEMMA BeginCompleteStep == ASSUME ConInv, NEW f \in Flows, BeginComplete(f) PROVE ConInv'
<1>1. PICK d \in discoverAccounts :
        LET p == d.principal
            found == d.found
            granted == d.granted
            offers == {a \in found : Offers(a, d.creators, granted)}
            waiting == Waiting(Affected(p, found))
        IN  /\ ~HasJob(Affected(p, found), BlockedByReauthorization)
            /\ waiting \subseteq found
            /\ conTxn' = [kind |-> "complete", principal |-> p, found |-> found,
                          offers |-> offers, waiting |-> waiting,
                          granted |-> RequiredScopes \subseteq granted]
  BY DEF BeginComplete
<1> DEFINE affected == Affected(d.principal, d.found)
<1>2. /\ d.principal \in Principals /\ d.found \subseteq SocialAccounts
  BY DEF discoverAccounts
<1>3. /\ conTxn'.kind = "complete" /\ conTxn'.principal = d.principal /\ conTxn'.found = d.found
      /\ conTxn'.waiting = Waiting(affected) /\ Waiting(affected) \subseteq d.found
      /\ ~HasJob(affected, BlockedByReauthorization)
  BY <1>1
<1>4. affected \subseteq SocialAccounts
  BY <1>2 DEF Affected, AccountsOf
<1>5. conTxn' \in Txns
  <2>1. \A o, w : o \subseteq d.found /\ w \subseteq d.found =>
          [kind |-> "complete", principal |-> d.principal, found |-> d.found, offers |-> o,
           waiting |-> w, granted |-> RequiredScopes \subseteq d.granted] \in Txns
    BY <1>2 DEF Txns
  <2>2. {a \in d.found : Offers(a, d.creators, d.granted)} \subseteq d.found
    OBVIOUS
  <2> QED BY <1>1, <2>1, <2>2
<1>6. /\ ClientFree /\ conFlow' = [conFlow EXCEPT ![f] = "none"]
      /\ UNCHANGED <<conLink, conAccount, conLegacy, conJob, conSharing, conReads>>
  BY DEF BeginComplete
<1>7. TxnInv'
  <2>1. \A a \in affected : Active(a) => a \in Waiting(affected)
    BY <1>3, <1>4 DEF Active, HasJob, BlockedByReauthorization, Waiting, ConInv, ConTypeOK, JobRows, ApiJobs
  <2>2. Affected(d.principal, d.found)' = affected
    BY <1>6 DEF Affected, AccountsOf
  <2>3. \A a \in affected : Active(a)' <=> Active(a)
    BY <1>6 DEF Active
  <2>4. conSharing' = {}
    BY <1>6 DEF ClientFree
  <2>5. \A a \in Affected(conTxn.principal, conTxn.found)' :
          Active(a)' => a \in conTxn'.found /\ a \in conTxn'.waiting
    <3>1. Affected(conTxn.principal, conTxn.found)' = affected
      BY <1>3, <1>6 DEF Affected, AccountsOf
    <3> HIDE DEF affected
    <3> QED BY <1>3, <2>1, <2>3, <3>1
  <2> HIDE DEF affected
  <2> QED BY <1>3, <2>4, <2>5 DEF TxnInv
<1>8. conFlow' \in [Flows -> {"none", "issued"}]
  BY <1>6 DEF ConInv, ConTypeOK
<1> QED BY <1>5, <1>6, <1>7, <1>8, BeginTxn

\* A row that is found is the connection's, with a token; the choice of one that waits stays.
LEMMA DiscoveredRow ==
  ASSUME ConInv, NEW a \in SocialAccounts, conTxn.kind = "complete"
  PROVE  /\ Discovered(a, conTxn) \in AccountRows
         /\ Discovered(a, conTxn).owner = conTxn.principal /\ conTxn.principal \in Principals
         /\ Discovered(a, conTxn).secret
         /\ a \in conTxn.waiting => Discovered(a, conTxn).selected = conAccount[a].selected
<1>1. conTxn.principal \in Principals /\ conAccount[a] \in AccountRows
  BY DEF ConInv, ConTypeOK, Txns, Idle
<1>2. (a \in conTxn.offers) \in BOOLEAN /\ (a \in conTxn.waiting) \in BOOLEAN
  OBVIOUS
<1> QED BY <1>1, <1>2 DEF Discovered, AccountRows, Owners

\* The rows of the accounts as an authorization leaves them.
LEMMA CommitCompleteStep == ASSUME ConInv, CommitComplete PROVE ConInv'
<1> DEFINE t == conTxn
           Old == AccountsOf(t.principal)
<1>1. /\ t.kind = "complete" /\ t.principal \in Principals /\ t.found \subseteq SocialAccounts
      /\ t.granted \in BOOLEAN /\ t # Idle
  BY DEF CommitComplete, ConInv, ConTypeOK, Txns, Idle
<1>2. /\ conLink' = [conLink EXCEPT ![t.principal] =
           [status |-> IF t.granted THEN "CONNECTED" ELSE "UNUSABLE", secret |-> TRUE]]
      /\ conAccount' = [a \in SocialAccounts |->
           IF a \in t.found THEN Discovered(a, t)
           ELSE IF a \in Old THEN Forgotten(conAccount[a]) ELSE conAccount[a]]
      /\ conTxn' = Idle /\ UNCHANGED <<conLegacy, conJob, conFlow, conSharing, conReads>>
  BY DEF CommitComplete
<1>3. /\ conLink' \in [Principals -> LinkRows] /\ conLink'[t.principal].secret
      /\ \A q \in Principals \ {t.principal} : conLink'[q] = conLink[q]
  BY <1>1, <1>2 DEF ConInv, ConTypeOK, LinkRows, Links
<1>4. \A a \in SocialAccounts : Forgotten(conAccount[a]) \in AccountRows
                                /\ Forgotten(conAccount[a]).owner = conAccount[a].owner
  BY DEF Forgotten, ConInv, ConTypeOK, AccountRows
<1>5. \A a \in SocialAccounts : conAccount[a] \in AccountRows
  BY DEF ConInv, ConTypeOK
<1>6. ConTypeOK'
  <2>1. conAccount' \in [SocialAccounts -> AccountRows]
    BY <1>1, <1>2, <1>4, <1>5, DiscoveredRow
  <2>2. Idle \in Txns
    BY DEF Txns
  <2> QED BY <1>2, <1>3, <2>1, <2>2 DEF ConInv, ConTypeOK
<1>7. \A a \in SocialAccounts : Active(a) /\ a \in t.found \cup Old => a \in t.found /\ a \in t.waiting
  BY <1>1 DEF ConInv, TxnInv, Affected
<1>8. ASSUME NEW a \in SocialAccounts, conJob'[a].status # "NONE"
      PROVE  Serves(a, conJob[a].legacy)'
  <2>1. Serves(a, conJob[a].legacy) /\ Active(a) /\ conJob[a].legacy \in BOOLEAN
    BY <1>2, <1>8 DEF ConInv, JobInv, Active, ConTypeOK, JobRows
  <2>2. CASE a \in t.found \cup Old
    <3>1. conAccount'[a] = Discovered(a, t) /\ a \in t.waiting
      BY <1>2, <1>7, <2>1, <2>2
    <3>2. /\ conAccount'[a].owner = t.principal /\ conAccount'[a].secret
          /\ conAccount'[a].selected = conAccount[a].selected /\ t.principal # NoPrincipal
      BY <1>1, <3>1, DiscoveredRow, ConnectionAssumption DEF ConnectionAssumption
    <3> QED BY <1>2, <1>3, <2>1, <3>2 DEF Serves
  <2>3. CASE a \notin t.found \cup Old
    <3>1. conAccount'[a] = conAccount[a] /\ conAccount[a].owner # t.principal
          /\ conAccount[a].owner \in Owners
      BY <1>2, <1>5, <2>3 DEF AccountsOf, AccountRows
    <3> QED BY <1>2, <1>3, <2>1, <3>1 DEF Serves, Owners
  <2> QED BY <2>2, <2>3
<1>9. JobInv'
  BY <1>2, <1>8 DEF JobInv, Active
<1>10. SharingInv' /\ TxnInv'
  BY <1>1, <1>2 DEF ConInv, TxnInv, SharingInv, Idle
<1>11. LinkInv'
  BY <1>1, <1>3 DEF ConInv, LinkInv
<1>12. SecretsGoTogether'
  <2> SUFFICES ASSUME NEW a \in SocialAccounts, conAccount'[a].owner # NoPrincipal,
                      ~conLink'[conAccount'[a].owner].secret
               PROVE  ~conAccount'[a].selected /\ ~conAccount'[a].secret
    BY DEF SecretsGoTogether
  <2>1. conAccount'[a].owner # t.principal
    BY <1>3
  <2>2. a \notin t.found
    BY <1>1, <1>2, <2>1, DiscoveredRow
  <2>3. a \notin Old
    BY <1>2, <1>4, <2>1, <2>2 DEF AccountsOf
  <2>4. conAccount'[a] = conAccount[a] /\ conAccount[a].owner \in Principals
    BY <1>2, <1>5, <2>2, <2>3 DEF AccountRows, Owners
  <2> QED BY <1>3, <2>1, <2>4 DEF ConInv, SecretsGoTogether
<1> QED BY <1>6, <1>9, <1>10, <1>11, <1>12 DEF ConInv

\* Who would lose something has no job.
LEMMA BeginSelectStep == ASSUME ConInv, NEW p \in Principals, BeginSelect(p) PROVE ConInv'
<1>1. PICK chosen \in SUBSET AccountsOf(p) :
        /\ ~HasJob(Losing(p, chosen), BlockedByChange)
        /\ conTxn' = [kind |-> "select", principal |-> p, chosen |-> chosen]
  BY DEF BeginSelect
<1>2. /\ ClientFree /\ conLink[p].status = "CONNECTED"
      /\ UNCHANGED <<conLink, conAccount, conLegacy, conJob, conFlow, conSharing, conReads>>
  BY DEF BeginSelect
<1>3. conTxn' \in Txns /\ conFlow' \in [Flows -> {"none", "issued"}]
  BY <1>1, <1>2 DEF Txns, AccountsOf, ConInv, ConTypeOK
<1>4. \A a \in AccountsOf(p) : Active(a) => a \in chosen
  <2> SUFFICES ASSUME NEW a \in AccountsOf(p), Active(a), a \notin chosen PROVE FALSE
    OBVIOUS
  <2>1. a \in SocialAccounts /\ conAccount[a].selected
    BY DEF AccountsOf, ConInv, JobInv, Serves
  <2>2. a \in Losing(p, chosen)
    BY <2>1 DEF Losing
  <2>3. conJob[a].status \in BlockedByChange
    BY <2>1 DEF Active, BlockedByChange, BlockedByReauthorization, ConInv, ConTypeOK, JobRows, ApiJobs
  <2> QED BY <1>1, <2>2, <2>3 DEF HasJob
<1>5. TxnInv'
  <2>1. conLink'[p].secret /\ conSharing' = {}
    BY <1>2 DEF ConInv, LinkInv, ClientFree
  <2>2. \A a \in AccountsOf(p)' : Active(a)' => a \in chosen
    BY <1>2, <1>4 DEF AccountsOf, Active
  <2>3. /\ conTxn'.kind = "select" /\ conTxn'.principal = p /\ conTxn'.chosen = chosen
    BY <1>1
  <2> QED BY <2>1, <2>2, <2>3 DEF TxnInv, AccountsOf
<1> QED BY <1>2, <1>3, <1>5, BeginTxn

\* The accounts of the connection are chosen, or not.
LEMMA CommitSelectStep == ASSUME ConInv, CommitSelect PROVE ConInv'
<1> DEFINE t == conTxn
           Own == AccountsOf(t.principal)
<1>1. t.kind = "select" /\ t.principal \in Principals
  <2>1. t \in Txns /\ t.kind = "select"
    BY DEF CommitSelect, ConInv, ConTypeOK
  <2>2. t \in [kind : {"select"}, principal : Principals, chosen : SUBSET SocialAccounts]
    BY <2>1 DEF Txns, Idle
  <2> QED BY <2>1, <2>2
<1>2. /\ conAccount' = [a \in SocialAccounts |->
           IF a \notin Own THEN conAccount[a]
           ELSE [conAccount[a] EXCEPT !.selected = a \in t.chosen,
                                      !.verified = a \in t.chosen /\ conAccount[a].offers]]
      /\ conTxn' = Idle /\ UNCHANGED <<conLink, conLegacy, conJob, conFlow, conSharing, conReads>>
  BY DEF CommitSelect
<1>3. \A a \in SocialAccounts :
        /\ conAccount'[a] \in AccountRows
        /\ conAccount'[a].owner = conAccount[a].owner
        /\ conAccount'[a].secret = conAccount[a].secret
        /\ a \in Own => (conAccount'[a].selected <=> a \in t.chosen)
        /\ a \notin Own => conAccount'[a].selected = conAccount[a].selected
  <2> SUFFICES ASSUME NEW a \in SocialAccounts
               PROVE  /\ conAccount'[a] \in AccountRows
                      /\ conAccount'[a].owner = conAccount[a].owner
                      /\ conAccount'[a].secret = conAccount[a].secret
                      /\ a \in Own => (conAccount'[a].selected <=> a \in t.chosen)
                      /\ a \notin Own => conAccount'[a].selected = conAccount[a].selected
    OBVIOUS
  <2>1. conAccount[a] \in AccountRows
    BY DEF ConInv, ConTypeOK
  <2>2. (a \in t.chosen) \in BOOLEAN /\ (a \in t.chosen /\ conAccount[a].offers) \in BOOLEAN
    OBVIOUS
  <2>3. CASE a \in Own
    <3>1. conAccount'[a] = [conAccount[a] EXCEPT !.selected = a \in t.chosen,
                              !.verified = a \in t.chosen /\ conAccount[a].offers]
      BY <1>2, <2>3
    <3> QED BY <2>1, <2>2, <2>3, <3>1 DEF AccountRows
  <2>4. CASE a \notin Own
    BY <1>2, <2>1, <2>4
  <2> QED BY <2>3, <2>4
<1>4. ConTypeOK'
  <2>1. Idle \in Txns
    BY DEF Txns
  <2>2. conAccount' \in [SocialAccounts -> AccountRows]
    BY <1>2, <1>3
  <2> QED BY <1>2, <2>1, <2>2 DEF ConInv, ConTypeOK
<1>5. \A a \in Own : Active(a) => a \in t.chosen
  BY <1>1 DEF ConInv, TxnInv
<1>6. JobInv'
  <2> SUFFICES ASSUME NEW a \in SocialAccounts, Active(a)' PROVE Serves(a, conJob[a].legacy)'
    BY DEF JobInv
  <2>1. Active(a) /\ Serves(a, conJob[a].legacy)
    BY <1>2 DEF Active, ConInv, JobInv
  <2>2. conAccount'[a].selected
    BY <1>3, <1>5, <2>1 DEF Serves
  <2> QED BY <1>2, <1>3, <2>1, <2>2 DEF Serves
<1>7. SharingInv' /\ TxnInv'
  <2>0. conTxn.kind = "select" /\ conTxn' = Idle /\ conSharing' = conSharing
    BY DEF CommitSelect
  <2>1. conTxn # Idle /\ Idle.kind = "none"
    BY <2>0 DEF Idle
  <2>2. conSharing' = {}
    BY <2>0, <2>1 DEF ConInv, TxnInv
  <2> QED BY <2>0, <2>1, <2>2 DEF TxnInv, SharingInv
<1>8. LinkInv'
  BY <1>2 DEF ConInv, LinkInv
<1>9. SecretsGoTogether'
  <2> SUFFICES ASSUME NEW a \in SocialAccounts, conAccount'[a].owner # NoPrincipal,
                      ~conLink'[conAccount'[a].owner].secret
               PROVE  ~conAccount'[a].selected /\ ~conAccount'[a].secret
    BY DEF SecretsGoTogether
  <2>1. ~conAccount[a].selected /\ ~conAccount[a].secret
    BY <1>2, <1>3 DEF ConInv, SecretsGoTogether
  <2>2. a \notin Own
    BY <1>1, <1>2, <1>3 DEF AccountsOf, ConInv, TxnInv
  <2> QED BY <1>3, <2>1, <2>2
<1> QED BY <1>4, <1>6, <1>7, <1>8, <1>9 DEF ConInv

\* None of the accounts has a job.
LEMMA BeginDisconnectStep == ASSUME ConInv, NEW p \in Principals, BeginDisconnect(p) PROVE ConInv'
<1>1. /\ ClientFree /\ ~HasJob(AccountsOf(p), BlockedByChange)
      /\ conTxn' = [kind |-> "disconnect", principal |-> p]
      /\ UNCHANGED <<conLink, conAccount, conLegacy, conJob, conFlow, conSharing, conReads>>
  BY DEF BeginDisconnect
<1>2. conTxn' \in Txns /\ conFlow' \in [Flows -> {"none", "issued"}]
  BY <1>1 DEF Txns, ConInv, ConTypeOK
<1>3. \A a \in AccountsOf(p) : ~Active(a)
  BY <1>1 DEF AccountsOf, Active, HasJob, BlockedByChange, BlockedByReauthorization, ConInv,
              ConTypeOK, JobRows, ApiJobs
<1>4. TxnInv'
  <2>1. conTxn'.kind = "disconnect" /\ conTxn'.principal = p
    BY <1>1
  <2> QED BY <1>1, <1>3, <2>1 DEF TxnInv, ClientFree, AccountsOf, Active
<1> QED BY <1>1, <1>2, <1>4, BeginTxn

\* The connection and all of its accounts lose their tokens.
LEMMA CommitDisconnectStep == ASSUME ConInv, CommitDisconnect PROVE ConInv'
<1> DEFINE p == conTxn.principal
           Own == AccountsOf(p)
<1>1. conTxn.kind = "disconnect" /\ p \in Principals
  BY DEF CommitDisconnect, ConInv, ConTypeOK, Txns, Idle
<1>2. /\ conLink' = [conLink EXCEPT ![p] = [status |-> "DISCONNECTED", secret |-> FALSE]]
      /\ conAccount' = [a \in SocialAccounts |-> IF a \in Own THEN Cleared(conAccount[a]) ELSE conAccount[a]]
      /\ conTxn' = Idle /\ UNCHANGED <<conLegacy, conJob, conFlow, conSharing, conReads>>
  BY DEF CommitDisconnect
<1>3. /\ conLink' \in [Principals -> LinkRows] /\ conLink'[p].status = "DISCONNECTED"
      /\ \A q \in Principals \ {p} : conLink'[q] = conLink[q]
  BY <1>1, <1>2 DEF ConInv, ConTypeOK, LinkRows, Links
<1>4. \A a \in SocialAccounts :
        /\ conAccount[a] \in AccountRows /\ Cleared(conAccount[a]) \in AccountRows
        /\ ~Cleared(conAccount[a]).selected /\ ~Cleared(conAccount[a]).secret
  BY DEF Cleared, Forgotten, ConInv, ConTypeOK, AccountRows
<1>5. ConTypeOK'
  <2>1. conAccount' \in [SocialAccounts -> AccountRows]
    BY <1>2, <1>4
  <2>2. Idle \in Txns
    BY DEF Txns
  <2> QED BY <1>2, <1>3, <2>1, <2>2 DEF ConInv, ConTypeOK
<1>6. JobInv'
  <2> SUFFICES ASSUME NEW a \in SocialAccounts, Active(a)' PROVE Serves(a, conJob[a].legacy)'
    BY DEF JobInv
  <2>1. Active(a) /\ Serves(a, conJob[a].legacy)
    BY <1>2 DEF Active, ConInv, JobInv
  <2>2. a \notin Own
    BY <1>1, <2>1 DEF ConInv, TxnInv
  <2>3. conAccount'[a] = conAccount[a] /\ conAccount[a].owner # p /\ conAccount[a].owner \in Owners
    BY <1>2, <1>4, <2>2 DEF AccountsOf, AccountRows
  <2> QED BY <1>2, <1>3, <2>1, <2>3 DEF Serves, Owners
<1>7. SharingInv' /\ TxnInv'
  BY <1>1, <1>2 DEF ConInv, TxnInv, SharingInv, Idle
<1>8. LinkInv'
  BY <1>3 DEF ConInv, LinkInv
<1>9. SecretsGoTogether'
  <2> SUFFICES ASSUME NEW a \in SocialAccounts, conAccount'[a].owner # NoPrincipal,
                      ~conLink'[conAccount'[a].owner].secret
               PROVE  ~conAccount'[a].selected /\ ~conAccount'[a].secret
    BY DEF SecretsGoTogether
  <2>1. CASE a \in Own
    BY <1>2, <1>4, <2>1
  <2>2. CASE a \notin Own
    <3>1. conAccount'[a] = conAccount[a] /\ conAccount[a].owner # p /\ conAccount[a].owner \in Owners
      BY <1>2, <1>4, <2>2 DEF AccountsOf, AccountRows
    <3> QED BY <1>3, <3>1 DEF ConInv, SecretsGoTogether, Owners
  <2> QED BY <2>1, <2>2
<1> QED BY <1>5, <1>6, <1>7, <1>8, <1>9 DEF ConInv

-----------------------------------------------------------------------------
(* Theorems *)

\* Every step keeps what the handlers rely on.
LEMMA ConNextInv == ConInv /\ [ConNext]_conVars => ConInv'
<1> SUFFICES ASSUME ConInv, [ConNext]_conVars PROVE ConInv'
  OBVIOUS
<1>1. ASSUME NEW f \in Flows, StartPlatformConnection(f) \/ ConsumeState(f) \/ BeginComplete(f)
      PROVE  ConInv'
  BY <1>1, FlowStep, BeginCompleteStep DEF StartPlatformConnection, ConsumeState
<1>2. ASSUME NEW p \in Principals, BeginSelect(p) \/ BeginDisconnect(p) PROVE ConInv'
  BY <1>2, BeginSelectStep, BeginDisconnectStep
<1>3. CASE CommitComplete \/ CommitSelect \/ CommitDisconnect
  BY <1>3, CommitCompleteStep, CommitSelectStep, CommitDisconnectStep
<1>4. ASSUME NEW a \in Pages, ConfigureFacebookPage(a) PROVE ConInv'
  BY <1>4, LegacyStep DEF ConfigureFacebookPage, Unverified
<1>5. ASSUME NEW a \in Pages, ValidateFacebookPage(a) PROVE ConInv'
  BY <1>5, LegacyStep DEF ValidateFacebookPage
<1>6. ASSUME NEW a \in SocialAccounts,
             \/ BeginLiveSchedule(a) \/ ResolvePublishAdapter(a) \/ JobMoves(a)
             \/ PublishRefused(a) \/ BeginRead(a)
      PROVE  ConInv'
  BY <1>6, BeginLiveStep, ResolveStep, JobMovesStep, PublishRefusedStep, BeginReadStep
<1>7. ASSUME NEW s \in conSharing, CommitLiveSchedule(s) PROVE ConInv'
  BY <1>7, CommitLiveStep
<1>8. ASSUME NEW r \in conReads, EndRead(r) PROVE ConInv'
  BY <1>8, EndReadStep
<1>9. CASE UNCHANGED conVars
  <2>1. ConTypeOK'
    BY <1>9 DEF conVars, ConInv, ConTypeOK
  <2> QED BY <1>9, <2>1, MildStep DEF conVars
<1> QED BY <1>1, <1>2, <1>3, <1>4, <1>5, <1>6, <1>7, <1>8, <1>9 DEF ConNext

\* What a handler, a schedule or a job relies on stays true while it does.
THEOREM ConnectionInvariant == ConSpec => []ConInv
<1> QED BY ConInitInv, ConNextInv, PTL DEF ConSpec

\* Whatever authorizations, choices, disconnections, answers and refusals come between, an API
\* job that may still publish has its account chosen and the tokens it needs.
THEOREM JobsKeepTheirAccount == ConSpec => []ActiveJobKeepsAccount
<1>1. ConInv => ActiveJobKeepsAccount
  BY DEF ConInv, JobInv, Active, Serves, ActiveJobKeepsAccount
<1> QED BY <1>1, ConnectionInvariant, PTL

\* A connection without a token leaves no account of its own chosen or with one.
THEOREM SecretsLeaveTogether == ConSpec => []SecretsGoTogether
<1>1. ConInv => SecretsGoTogether
  BY DEF ConInv
<1> QED BY <1>1, ConnectionInvariant, PTL
=============================================================================
