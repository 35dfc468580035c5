----------------------------- MODULE MCPublishing -----------------------------
(* Bounds for TLC of the life of one item and of the connections items are published through. *)
(* They share no state here: a behaviour is one of either, and the other rests.               *)
EXTENDS ContentLifecycle, PlatformConnections, TLC

CONSTANTS c1, page, person, p1, p2, profile, f1

VARIABLE active

AllModes == {"LIVE", "DRAFT", "DEMO"}
OneItem == {c1}
AllAccounts == {page, person}
ByHandOnly == {person}
FirstSlot == {1}
TwoPrincipals == {p1, p2}
OnePage == {page}
OneProfile == {profile}
OneFlow == {f1}
AnyPrincipal == Permutations(TwoPrincipals)

PublishingInit ==
  /\ active \in {"content", "connections"}
  /\ Init /\ ConInit
  /\ active # "content" => \A i \in Items : item[i].account = page

\* The others rest.
On(c) == /\ active = c /\ UNCHANGED active
         /\ IF c = "content" THEN TRUE ELSE UNCHANGED vars
         /\ IF c = "connections" THEN TRUE ELSE UNCHANGED conVars

PublishingNext ==
  \/ \E i \in Items : \/ On("content") /\ CheckForReview(i)
                      \/ On("content") /\ SubmitForReview(i)
                      \/ On("content") /\ EditContentVersion(i)
                      \/ On("content") /\ ReviewContent(i)
                      \/ On("content") /\ RequestContentChanges(i)
                      \/ On("content") /\ StartManualPublish(i)
                      \/ On("content") /\ RecordManualPublishResult(i)
                      \/ On("content") /\ BeginSchedule(i)
                      \/ On("content") /\ BeginQueueAssignment(i)
  \/ \E i \in Items, v \in Versions : \/ On("content") /\ Claim(i, v)
                                      \/ On("content") /\ GiveUpClaim(i, v)
                                      \/ On("content") /\ Dispatch(i, v)
                                      \/ On("content") /\ RecordResult(i, v)
                                      \/ On("content") /\ BeginReconciliation(i, v)
                                      \/ On("content") /\ ReconcileUnknownPublish(i, v)
                                      \/ On("content") /\ AskPlatform(i, v)
                                      \/ On("content") /\ ReceiveAnswer(i, v)
                                      \/ On("content") /\ WriteAnswer(i, v)
                                      \/ On("content") /\ UpdateTask(i, v)
  \/ \E S \in SUBSET Items \ {{}} : On("content") /\ BeginMove(S)
  \/ \E t \in txns : \/ On("content") /\ CommitSchedule(t)
                     \/ On("content") /\ CommitMove(t)
  \/ On("content") /\ UpdateProductFacts
  \/ On("content") /\ ChangeMode
  \/ \E f \in Flows : \/ On("connections") /\ StartPlatformConnection(f)
                      \/ On("connections") /\ ConsumeState(f)
                      \/ On("connections") /\ BeginComplete(f)
  \/ \E p \in Principals : \/ On("connections") /\ BeginSelect(p)
                           \/ On("connections") /\ BeginDisconnect(p)
  \/ On("connections") /\ CommitComplete
  \/ On("connections") /\ CommitSelect
  \/ On("connections") /\ CommitDisconnect
  \/ \E a \in Pages : \/ On("connections") /\ ConfigureFacebookPage(a)
                      \/ On("connections") /\ ValidateFacebookPage(a)
  \/ \E a \in SocialAccounts : \/ On("connections") /\ BeginLiveSchedule(a)
                               \/ On("connections") /\ ResolvePublishAdapter(a)
                               \/ On("connections") /\ JobMoves(a)
                               \/ On("connections") /\ PublishRefused(a)
                               \/ On("connections") /\ BeginRead(a)
  \/ \E s \in conSharing : On("connections") /\ CommitLiveSchedule(s)
  \/ \E r \in conReads : On("connections") /\ EndRead(r)

PublishingSpec == PublishingInit /\ [][PublishingNext]_<<active, vars, conVars>>
=============================================================================
