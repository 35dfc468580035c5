----------------------------- MODULE LeadImport -----------------------------
(***************************************************************************)
(* Comments and messages become interactions, and those that ask to buy    *)
(* become leads with a task and a notification (interaction-service.ts,    *)
(* syncFacebookComments of facebook-service.ts).  The same comment is      *)
(* imported again and again, by syncs of one post that may overlap, and    *)
(* may be edited in between: the unique keys of Interaction and Lead are   *)
(* all that keeps the imports apart.                                       *)
(*                                                                         *)
(* What the platform shows is chosen anew with every read.  A lead whose   *)
(* status is REPLIED, HANDED_OFF, CLOSED or DISMISSED is "closed" here,    *)
(* and a task IN_PROGRESS is one to do: the code treats them alike.        *)
(* Accounts, and who may write, are left out.                              *)
(***************************************************************************)
EXTENDS Integers

CONSTANTS Importers,    \* bound: the imports and syncs there may be
          LastComment   \* bound: the comments of a post

ASSUME LastCommentAssumption == LastComment \in Nat \ {0}

Comments == 1 .. LastComment
Texts == {"nothing", "praise", "inquiry"}
LeadStatuses == {"NEW", "WAITING_FEEDBACK", "closed"}
LeadTaskStatuses == {"TODO", "WAITING_EXTERNAL", "COMPLETED", "CANCELLED"}
LeadTaskOpen == {"TODO", "WAITING_EXTERNAL"}

VARIABLES
  leaInteraction,   \* the comments with an Interaction row
  leaLead,          \* each comment's Lead row: its handoffStatus, or "none"
  leaTask,          \* the status of the lead's ManualTask, or "none"
  leaNotified,      \* the comments with a prepared URGENT_LEAD notification
  leaImporter       \* each import: where it is, and what it has done

leaVars == <<leaInteraction, leaLead, leaTask, leaNotified, leaImporter>>

\* "told" are the comments for which the import has answered with a lead.
IdleImporter == [phase |-> "idle", page |-> [c \in Comments |-> "absent"],
                 at |-> 0, done |-> {}, told |-> {}]

\* What was imported before asked for nothing.
LeaInit ==
  /\ leaInteraction \in SUBSET Comments
  /\ leaLead = [c \in Comments |-> "none"]
  /\ leaTask = [c \in Comments |-> "none"]
  /\ leaNotified = {}
  /\ leaImporter = [p \in Importers |-> IdleImporter]

ImporterAt(p, phase) == leaImporter[p].phase = phase
ImporterGoes(p, phase) == leaImporter' = [leaImporter EXCEPT ![p].phase = phase]

\* Like praise and thumbs, text without one of the words of intentRules is no lead.
classifyIntent(text) == text = "inquiry"

Wanted(p) == classifyIntent(leaImporter[p].page[leaImporter[p].at])

-----------------------------------------------------------------------------
(* A manual import, and a sync: one import after the other *)

\* The comments a page has left, in its order.
Left(i) == {c \in Comments : i.page[c] # "absent" /\ c > i.at}

\* The next one to import, if there is one.
Upcoming(i) == {c \in Left(i) : \A d \in Left(i) : c <= d}

\* Its import begins: the schema of an interaction refuses a comment without text, and with it
\* the rest of the page.
NextComment(i) ==
  IF Upcoming(i) = {} THEN [i EXCEPT !.phase = "over"]
  ELSE LET c == CHOOSE d \in Upcoming(i) : TRUE
       IN  [i EXCEPT !.at = c, !.phase = IF i.page[c] = "nothing" THEN "refused" ELSE "creating"]

\* The import has answered, with a lead or without.
Answered(i, told) ==
  NextComment([i EXCEPT !.done = @ \cup {i.at}, !.told = IF told THEN @ \cup {i.at} ELSE @])

importInteraction(p) ==
  /\ ImporterAt(p, "idle")
  /\ \E c \in Comments, text \in Texts :
       leaImporter' = [leaImporter EXCEPT ![p] = NextComment([@ EXCEPT !.page[c] = text])]
  /\ UNCHANGED <<leaInteraction, leaLead, leaTask, leaNotified>>

\* The first page of a post's comments, those without a message among them.
readComments == [Comments -> Texts \cup {"absent"}]

syncFacebookComments(p) ==
  /\ ImporterAt(p, "idle")
  /\ \E page \in readComments :
       leaImporter' = [leaImporter EXCEPT ![p] = NextComment([@ EXCEPT !.page = page])]
  /\ UNCHANGED <<leaInteraction, leaLead, leaTask, leaNotified>>

-----------------------------------------------------------------------------
(* The import of one comment *)

\* Within the caller's transaction.
createLeadBundle(c) ==
  /\ leaLead' = [leaLead EXCEPT ![c] = "NEW"]
  /\ leaTask' = [leaTask EXCEPT ![c] = "TODO"]
  /\ leaNotified' = leaNotified \cup {c}

\* The transaction.  An insert that meets the key of another transaction waits for its end.
CreateInteraction(p) ==
  LET c == leaImporter[p].at
  IN  /\ ImporterAt(p, "creating")
      /\ IF c \in leaInteraction
         THEN ImporterGoes(p, "duplicate") /\ UNCHANGED <<leaInteraction, leaLead, leaTask, leaNotified>>
         ELSE /\ leaInteraction' = leaInteraction \cup {c}
              /\ IF Wanted(p)
                 THEN createLeadBundle(c) /\ ImporterGoes(p, "dispatching")
                 ELSE /\ UNCHANGED <<leaLead, leaTask, leaNotified>>
                      /\ leaImporter' = [leaImporter EXCEPT ![p] = Answered(@, FALSE)]

\* Mutant: a comment that was there before is not looked at again.
NothingToAdd(p) == FALSE

\* The comment asks to buy, and the row found has no lead.
NeedsLead(p) == Wanted(p) /\ leaLead[leaImporter[p].at] = "none"

FindInteraction(p) ==
  /\ ImporterAt(p, "duplicate")
  /\ IF NeedsLead(p)
     THEN ImporterGoes(p, "backfilling")
     ELSE leaImporter' = [leaImporter EXCEPT ![p] = Answered(@, leaLead[@.at] # "none")]
  /\ UNCHANGED <<leaInteraction, leaLead, leaTask, leaNotified>>

\* Another import may have added the lead since.
BackfillLead(p) ==
  LET c == leaImporter[p].at
  IN  /\ ImporterAt(p, "backfilling")
      /\ IF leaLead[c] # "none"
         THEN ImporterGoes(p, "conflicting") /\ UNCHANGED <<leaLead, leaTask, leaNotified>>
         ELSE createLeadBundle(c) /\ ImporterGoes(p, "dispatching")
      /\ UNCHANGED leaInteraction

FindLead(p) ==
  /\ ImporterAt(p, "conflicting")
  /\ leaImporter' = [leaImporter EXCEPT ![p] = Answered(@, leaLead[@.at] # "none")]
  /\ UNCHANGED <<leaInteraction, leaLead, leaTask, leaNotified>>

\* Whether the deliveries went out or not, nothing is thrown; a worker's loop sends the rest.
DispatchLead(p) ==
  /\ ImporterAt(p, "dispatching")
  /\ leaImporter' = [leaImporter EXCEPT ![p] = Answered(@, TRUE)]
  /\ UNCHANGED <<leaInteraction, leaLead, leaTask, leaNotified>>

\* A statement fails, or the process stops: what was committed stays.
ImportFails(p) ==
  /\ leaImporter[p].phase \notin {"idle", "over", "refused", "failed"}
  /\ ImporterGoes(p, "failed")
  /\ UNCHANGED <<leaInteraction, leaLead, leaTask, leaNotified>>

-----------------------------------------------------------------------------
(* An operator follows a lead up *)

updateLeadStatus(c, status) ==
  /\ leaLead[c] # "none"
  /\ leaLead' = [leaLead EXCEPT ![c] = status]
  /\ leaTask' = [leaTask EXCEPT ![c] =
       IF status = "NEW" \/ @ \notin LeadTaskOpen THEN @
       ELSE IF status = "WAITING_FEEDBACK" THEN "WAITING_EXTERNAL" ELSE "COMPLETED"]
  /\ UNCHANGED <<leaInteraction, leaNotified, leaImporter>>

\* The route of tasks sets any status; a lead's task is no task of a publication.
SetLeadTask(c, status) ==
  /\ leaTask[c] # "none"
  /\ leaTask' = [leaTask EXCEPT ![c] = status]
  /\ UNCHANGED <<leaInteraction, leaLead, leaNotified, leaImporter>>

LeaNext ==
  \/ \E p \in Importers :
       \/ importInteraction(p) \/ syncFacebookComments(p) \/ CreateInteraction(p)
       \/ FindInteraction(p) \/ BackfillLead(p) \/ FindLead(p) \/ DispatchLead(p) \/ ImportFails(p)
  \/ \E c \in Comments : \/ \E status \in LeadStatuses : updateLeadStatus(c, status)
                         \/ \E status \in LeadTaskStatuses : SetLeadTask(c, status)

LeaSpec == LeaInit /\ [][LeaNext]_leaVars

-----------------------------------------------------------------------------
(* Properties *)

\* An import that has answered for a comment that asks to buy has answered with its lead, and
\* that lead has its task and its notification, whoever else imported the comment, in whatever
\* words, and whatever failed in between (the two catches of importInteraction).
NoIntentLost ==
  \A p \in Importers : \A c \in leaImporter[p].done :
    classifyIntent(leaImporter[p].page[c]) =>
      c \in leaImporter[p].told /\ c \in leaNotified /\ leaLead[c] # "none" /\ leaTask[c] # "none"

\* A sync that neither failed nor stopped has imported the comments of the page it read
\* (docs/exec-plans/active/phase-2-facebook-page.md:49: "读取指定已发布帖子的公开评论并按平台 ID 去重导入").
PageIsImported ==
  \A p \in Importers : leaImporter[p].phase \in {"over", "refused"} =>
    \A c \in Comments : leaImporter[p].page[c] \notin {"absent", "nothing"} => c \in leaInteraction
=============================================================================
