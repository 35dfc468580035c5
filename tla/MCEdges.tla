------------------------------- MODULE MCEdges -------------------------------
(* Bounds for TLC of components at the edges of the system: notifications with senders that   *)
(* stall, logins, uploads, the pages of the asset library, imports of comments, the monthly   *)
(* report and the analytics.  They share no state: a behaviour is one of a single component,   *)
(* and the others rest.                                                                       *)
EXTENDS NotificationDelivery, LoginRateLimit, AssetStore, AssetPages, LeadImport, MonthlyReport,
        AnalyticsQueries, TLC

CONSTANTS k1, c1, w1, w2, none, a1, a2, address, origin, u1, u2, file, i1, i2, b1, account

VARIABLE active

OneChannel == {c1}
Anywhere == SendPoints
TwoAttempts == {a1, a2}
OneAddress == {address}
OneOrigin == {origin}
TwoUploads == {u1, u2}
OneFile == {file}
TwoImporters == {i1, i2}
OneJob == {b1}
OneAccount == {account}
ShortGrains == [day |-> 1, week |-> 2, month |-> 3]
\* Clocks set forward, and east of UTC clocks set back.
Forward == [before |-> 0, after |-> 1, at |-> 3]
Back == [before |-> 1, after |-> 0, at |-> 2]
SomeZones == {Forward, Back}
Alike == Permutations({w1, w2}) \cup Permutations({i1, i2})

EdgesInit ==
  /\ active \in {"notifications", "logins", "uploads", "pages", "comments", "reports", "analytics"}
  /\ Init /\ LogInit /\ AstInit /\ PagInit /\ LeaInit /\ MonInit /\ AnaInit
  /\ active # "pages" => pagRows = 0 /\ pagMatching = {}
  /\ active # "comments" => leaInteraction = {}
  /\ active # "reports" => monZone = Forward

\* The others rest.
On(c) == /\ active = c /\ UNCHANGED active
         /\ IF c = "notifications" THEN TRUE ELSE UNCHANGED vars
         /\ IF c = "logins" THEN TRUE ELSE UNCHANGED logVars
         /\ IF c = "uploads" THEN TRUE ELSE UNCHANGED astVars
         /\ IF c = "pages" THEN TRUE ELSE UNCHANGED pagVars
         /\ IF c = "comments" THEN TRUE ELSE UNCHANGED leaVars
         /\ IF c = "reports" THEN TRUE ELSE UNCHANGED monVars
         /\ IF c = "analytics" THEN TRUE ELSE UNCHANGED anaVars

EdgesNext ==
  \/ \E p \in Processes : \/ \E k \in Keys : On("notifications") /\ StartEvent(p, k)
                          \/ On("notifications") /\ PlanEvent(p)
                          \/ On("notifications") /\ CommitEvent(p)
                          \/ On("notifications") /\ RollBackEvent(p)
                          \/ On("notifications") /\ ClaimPrepared(p)
                          \/ On("notifications") /\ SkipPrepared(p)
                          \/ On("notifications") /\ DispatchEnds(p)
                          \/ On("notifications") /\ ClaimNext(p)
                          \/ On("notifications") /\ LoadDelivery(p)
                          \/ On("notifications") /\ TransportEnds(p)
                          \/ On("notifications") /\ MarkDelivery(p)
                          \/ On("notifications") /\ EndpointReceives(p)
                          \/ On("notifications") /\ MarkingThrows(p)
                          \/ On("notifications") /\ Crash(p)
                          \/ On("notifications") /\ Restart(p)
  \/ On("notifications") /\ Tick
  \/ \E d \in Ids : On("notifications") /\ LeaseGoesStale(d)
  \/ \E a \in Attempts :
       \/ \E email \in Emails, origins \in {{}} \cup {{o} : o \in Origins} :
            On("logins") /\ CheckLoginAllowed(a, email, origins)
       \/ On("logins") /\ VerifyFails(a)
       \/ On("logins") /\ VerifySucceeds(a)
       \/ On("logins") /\ ProcessEnds(a)
       \/ \E k \in LoginKeys : \/ On("logins") /\ ReadFailures(a, k)
                               \/ On("logins") /\ RecordFailure(a, k)
  \/ On("logins") /\ LoginClockTicks
  \/ \E u \in Uploads : \/ On("uploads") /\ BeginUpload(u)
                        \/ On("uploads") /\ PutSucceeds(u)
                        \/ On("uploads") /\ PutFails(u)
                        \/ On("uploads") /\ CreateAsset(u)
                        \/ On("uploads") /\ LookForRow(u)
                        \/ On("uploads") /\ DeleteObject(u)
                        \/ On("uploads") /\ ProcessStops(u)
  \/ On("uploads") /\ AllUploaded
  \/ On("pages") /\ AskPage
  \/ On("pages") /\ FetchBatch
  \/ On("pages") /\ AnswerPage
  \/ On("pages") /\ StartAgain
  \/ On("pages") /\ AssetUploaded
  \/ \E i \in Importers : \/ On("comments") /\ importInteraction(i)
                          \/ On("comments") /\ syncFacebookComments(i)
                          \/ On("comments") /\ CreateInteraction(i)
                          \/ On("comments") /\ FindInteraction(i)
                          \/ On("comments") /\ BackfillLead(i)
                          \/ On("comments") /\ FindLead(i)
                          \/ On("comments") /\ DispatchLead(i)
                          \/ On("comments") /\ ImportFails(i)
  \/ \E c \in Comments :
       \/ \E status \in LeadStatuses : On("comments") /\ updateLeadStatus(c, status)
       \/ \E status \in LeadTaskStatuses : On("comments") /\ SetLeadTask(c, status)
  \/ On("reports") /\ MonthTicks
  \/ On("reports") /\ InteractionIsImported
  \/ On("reports") /\ createMockMetricSnapshots
  \/ On("reports") /\ syncFacebookMetrics
  \/ \E j \in Publications : \/ On("reports") /\ CreateJob(j)
                             \/ On("reports") /\ JobIsPublished(j)
  \/ \E month \in 0 .. LastInstant : On("reports") /\ generateMonthlyOperationReport(month)
  \/ On("reports") /\ FindClient
  \/ On("reports") /\ buildMonthlyReviewFactsV1
  \/ On("reports") /\ CreateReport
  \/ On("analytics") /\ AnalyticsTicks
  \/ \E a \in AnaAccounts : \/ On("analytics") /\ SyncPageMetrics(a)
                            \/ On("analytics") /\ syncFacebookPostMetrics(a)
                            \/ On("analytics") /\ MockMetrics(a)

EdgesSpec == EdgesInit /\ [][EdgesNext]_<<active, vars, logVars, astVars, pagVars, leaVars, monVars,
                                       anaVars>>
=============================================================================
