------------------------- MODULE ContentGeneration -------------------------
(***************************************************************************)
(* What the text model is asked for, and what becomes of its answers: the  *)
(* generation of content, new variants of it, brand suggestions, the       *)
(* strategies content is bound to and the monthly limit on usage           *)
(* (content-service.ts, content-composition-service.ts, usage-service.ts,  *)
(* social-strategy-service.ts, ai-content-pipeline-service.ts,             *)
(* brand-autofill-service.ts, manual-content-service.ts).                  *)
(*                                                                         *)
(* A request reads what it needs outside any transaction, reserves units,  *)
(* waits for the model, settles, and writes under locks after it has       *)
(* compared what it read with what holds now.  Product, client and         *)
(* strategies may change between any two of these steps, the reservation   *)
(* may run out, the month may turn, and the process may die.               *)
(*                                                                         *)
(* A reservation is of one unit; the limit of the client is not changed.   *)
(* A request that fails before it has reserved anything is simply over.    *)
(* The manual task a refusal by the limit opens, the variants' drafts and  *)
(* the lines of the audit log are left out: nothing here reads them.       *)
(***************************************************************************)
EXTENDS Integers, FiniteSets, Sequences

CONSTANTS Requests,
          Writers,        \* bound: the requests that work on content
          Drafts,         \* bound: the content items there may be
          UsageLimit,     \* Client.usageMonthlyLimit
          MaxBeyond,      \* bound: units used beyond what was reserved
          MaxFacts,       \* bound: versions of the product's facts
          MaxEdits,       \* bound: the version up to which a person edits an item
          MaxStrategies   \* bound: versions of the strategy

ASSUME GenerationAssumption ==
  /\ Writers \subseteq Requests
  /\ {UsageLimit, MaxBeyond, MaxStrategies} \subseteq Nat
  /\ {MaxFacts, MaxEdits} \subseteq Nat \ {0}

Strategies == 1..MaxStrategies
NoStrategy == 0

VARIABLES
  genMode,      \* Client.mode
  genFacts,     \* Product.dataVersion; its fields change with it
  genStrategy,  \* the SocialStrategy of each version: status, has it a confirmedAt?
  genItem,      \* the items: for each version the facts its text goes back to; the
                \* productDataVersion all have, the strategy of the plan
  genRow,       \* the RESERVED UsageReservation of a request: does it still count?
  genUsed,      \* UsageLog of this month: units that were reserved, and units beyond that
  genCall       \* the requests under way and what they have read

genVars == <<genMode, genFacts, genStrategy, genItem, genRow, genUsed, genCall>>

NoDraft == [texts |-> <<>>, label |-> 0, strategy |-> NoStrategy]
NoCall == [phase |-> "idle", kind |-> "none", item |-> {}, version |-> 0, label |-> 0,
           facts |-> 0, mode |-> "none", strategy |-> NoStrategy, standing |-> "none"]

GenInit ==
  /\ genMode \in {"DRAFT", "LIVE"}
  /\ genFacts = 1
  /\ genStrategy = [s \in Strategies |-> [status |-> "NONE", confirmed |-> FALSE]]
  /\ genItem = [i \in Drafts |-> NoDraft]
  /\ genRow = [r \in Requests |-> "none"]
  /\ genUsed = [reserved |-> 0, beyond |-> 0]
  /\ genCall = [r \in Requests |-> NoCall]

WithStatus(status) == {s \in Strategies : genStrategy[s].status = status}
CurrentVersion(i) == Len(genItem[i].texts)

\* selectStrategyForGeneration: the strategies it may return with their standing; where it
\* refuses there is none.
SelectStrategyForGeneration ==
  IF WithStatus("CONFIRMED") # {} THEN WithStatus("CONFIRMED") \X {"CONFIRMED"}
  ELSE IF genMode = "LIVE" THEN {}
  ELSE IF WithStatus("DRAFT") # {} THEN WithStatus("DRAFT") \X {"DRAFT"}
  ELSE {<<NoStrategy, "NONE">>}

\* resolveStrategyForComposition: the strategy of the plan, whatever has become of it.
ResolveStrategyForComposition(i) ==
  LET s == genItem[i].strategy
  IN  IF genMode = "LIVE" /\ (s = NoStrategy \/ ~genStrategy[s].confirmed) THEN {}
      ELSE {<<s, "any">>}

-----------------------------------------------------------------------------
(* A request reads *)

\* Bound: the row of a process that died is the only one it leaves; what comes next begins
\* once that row's time is over.
MayBegin(r) ==
  \/ genCall[r].phase = "idle"
  \/ genCall[r].phase = "dead" /\ genRow[r] \in {"none", "lapsed"}

\* The product is read with its version, its fields in a second query.
ReadProduct(r) ==
  /\ MayBegin(r)
  /\ genCall' = [genCall EXCEPT ![r] =
       [NoCall EXCEPT !.phase = "facts", !.kind = "plan", !.label = genFacts]]
  /\ UNCHANGED <<genMode, genFacts, genStrategy, genItem, genRow, genUsed>>

\* getCompositionItem, on the version the editor saw.
ReadItem(r, i) ==
  /\ MayBegin(r) /\ CurrentVersion(i) # 0
  /\ genCall' = [genCall EXCEPT ![r] =
       [NoCall EXCEPT !.phase = "facts", !.kind = "variant", !.item = {i},
                      !.version = CurrentVersion(i)]]
  /\ UNCHANGED <<genMode, genFacts, genStrategy, genItem, genRow, genUsed>>

\* Facts, mode and strategy as they are after that; from here on they are copies.
ReadFacts(r) ==
  /\ genCall[r].phase = "facts"
  /\ \E b \in IF genCall[r].kind = "plan" THEN SelectStrategyForGeneration
              ELSE UNION {ResolveStrategyForComposition(i) : i \in genCall[r].item} :
       genCall' = [genCall EXCEPT ![r] =
         [@ EXCEPT !.phase = "reserve", !.facts = genFacts, !.mode = genMode,
                   !.strategy = b[1], !.standing = b[2]]]
  /\ UNCHANGED <<genMode, genFacts, genStrategy, genItem, genRow, genUsed>>

\* createBrandAutofillDraft has only the operator's material to send.
BeginBrandAutofill(r) ==
  /\ MayBegin(r)
  /\ genCall' = [genCall EXCEPT ![r] = [NoCall EXCEPT !.phase = "reserve", !.kind = "brand"]]
  /\ UNCHANGED <<genMode, genFacts, genStrategy, genItem, genRow, genUsed>>

-----------------------------------------------------------------------------
(* Usage *)

\* The reservations that hold a part of this month's limit.
Counted == {r \in Requests : genRow[r] = "counted"}

\* Mutant: what others have reserved is not looked at.
FitsAlone == genUsed.reserved + genUsed.beyond + 1 <= UsageLimit

FitsLimit == genUsed.reserved + genUsed.beyond + Cardinality(Counted) + 1 <= UsageLimit

\* The sweep of reserveUsage, for the whole client.
Swept == [r \in Requests |-> IF genRow[r] = "lapsed" THEN "none" ELSE genRow[r]]

\* reserveUsage, under the lock of the client's row: the log of a settlement refers to that
\* row, and its insert waits for the lock, so the two sums are of one moment.
ReserveUsage(r) ==
  /\ genCall[r].phase = "reserve"
  /\ IF FitsLimit
     THEN /\ genRow' = [Swept EXCEPT ![r] = "counted"]
          /\ genCall' = [genCall EXCEPT ![r].phase = "calling"]
     ELSE /\ genRow' = Swept
          /\ genCall' = [genCall EXCEPT ![r] = NoCall]
  /\ UNCHANGED <<genMode, genFacts, genStrategy, genItem, genUsed>>

\* The simulated model needs no reservation and its use is logged apart; brand suggestions are
\* not asked of it.
SimulatedAnswer(r) ==
  /\ genCall[r].phase = "reserve" /\ genCall[r].kind # "brand"
  /\ genCall' = [genCall EXCEPT ![r].phase = "answered"]
  /\ UNCHANGED <<genMode, genFacts, genStrategy, genItem, genRow, genUsed>>

\* The answer is accepted and paid for, with what it took; a reservation swept in the
\* meantime fails the request, and no use is logged.
SettleUsage(r) ==
  /\ genCall[r].phase = "calling" /\ genRow[r] # "none"
  /\ \E units \in 0..2 :
       LET covered == IF r \in Counted /\ units > 0 THEN 1 ELSE 0
       IN  /\ genUsed.beyond + units - covered <= MaxBeyond
           /\ genUsed' = [reserved |-> genUsed.reserved + covered,
                          beyond |-> genUsed.beyond + units - covered]
  /\ genRow' = [genRow EXCEPT ![r] = "none"]
  /\ genCall' = [genCall EXCEPT ![r] = IF genCall[r].kind = "brand" THEN NoCall
                                       ELSE [genCall[r] EXCEPT !.phase = "answered"]]
  /\ UNCHANGED <<genMode, genFacts, genStrategy, genItem>>

\* Mutant: a failure leaves the reservation to its time to live.
KeptUntilItLapses(r) == genRow

\* releaseUsage
Released(r) == [genRow EXCEPT ![r] = "none"]

\* The model fails, its answer is refused, or the settlement is.
CallFails(r) ==
  /\ genCall[r].phase = "calling"
  /\ genRow' = Released(r)
  /\ genCall' = [genCall EXCEPT ![r] = NoCall]
  /\ UNCHANGED <<genMode, genFacts, genStrategy, genItem, genUsed>>

-----------------------------------------------------------------------------
(* A request writes *)

\* Mutant: the facts are not compared again.
SameBinding(c) ==
  /\ genMode = c.mode
  /\ <<c.strategy, c.standing>> \in SelectStrategyForGeneration

\* What generateContentPlan finds as it was, under the locks of client and product.
PlanStillHolds(c) ==
  /\ genMode = c.mode
  /\ <<c.strategy, c.standing>> \in SelectStrategyForGeneration
  /\ genFacts = c.label

GenerateContentPlan(r, i) ==
  /\ genCall[r].phase = "answered" /\ genCall[r].kind = "plan"
  /\ CurrentVersion(i) = 0 /\ PlanStillHolds(genCall[r])
  /\ genItem' = [genItem EXCEPT ![i] =
       [texts |-> <<genCall[r].facts>>, label |-> genCall[r].label,
        strategy |-> genCall[r].strategy]]
  /\ genCall' = [genCall EXCEPT ![r] = NoCall]
  /\ UNCHANGED <<genMode, genFacts, genStrategy, genRow, genUsed>>

\* Mutant: neither the mode nor the confirmation is looked at again.
SameStrategy(c, i) == genItem[i].strategy = c.strategy

\* What editContentVersion compares for a variant, under the locks of item and client.
VariantStillHolds(c, i) ==
  /\ genItem[i].strategy = c.strategy /\ genMode = c.mode
  /\ genMode = "LIVE" /\ c.strategy # NoStrategy => genStrategy[c.strategy].confirmed

SeenIsCurrent(c, i) == CurrentVersion(i) = c.version

\* The new version keeps the label of the one it replaces, though newer facts were read.
WriteVariant(r, i) ==
  /\ genCall[r].phase = "answered" /\ i \in genCall[r].item
  /\ CurrentVersion(i) <= MaxEdits
  /\ SeenIsCurrent(genCall[r], i) /\ VariantStillHolds(genCall[r], i)
  /\ genItem' = [genItem EXCEPT ![i].texts = Append(@, genCall[r].facts)]
  /\ genCall' = [genCall EXCEPT ![r] = NoCall]
  /\ UNCHANGED <<genMode, genFacts, genStrategy, genRow, genUsed>>

\* Something had changed, the output was incomplete, or another write failed.
WriteRefused(r) ==
  /\ genCall[r].phase = "answered"
  /\ genCall' = [genCall EXCEPT ![r] = NoCall]
  /\ UNCHANGED <<genMode, genFacts, genStrategy, genItem, genRow, genUsed>>

\* What is left of it is its reservation.
ProcessDies(r) ==
  /\ genCall[r].phase \notin {"idle", "dead"}
  /\ genCall' = [genCall EXCEPT ![r] =
       IF genRow[r] = "none" THEN NoCall ELSE [NoCall EXCEPT !.phase = "dead"]]
  /\ UNCHANGED <<genMode, genFacts, genStrategy, genItem, genRow, genUsed>>

-----------------------------------------------------------------------------
(* What others do meanwhile *)

\* createManualContent, in one transaction, for whose lock of the client's row the audit of a
\* change of facts waits; in LIVE too it may go without a strategy.
CreateManualContent(i) ==
  /\ CurrentVersion(i) = 0
  /\ \E s \in IF WithStatus("CONFIRMED") = {} THEN {NoStrategy} ELSE WithStatus("CONFIRMED") :
       genItem' = [genItem EXCEPT ![i] = [texts |-> <<genFacts>>,
                                          label |-> genFacts, strategy |-> s]]
  /\ UNCHANGED <<genMode, genFacts, genStrategy, genRow, genUsed, genCall>>

\* An edit or an autosave goes on from the current text, restoreContentVersion from another.
EditByHand(i) ==
  /\ CurrentVersion(i) \in 1..MaxEdits - 1
  /\ \E v \in 1..CurrentVersion(i) :
       genItem' = [genItem EXCEPT ![i].texts = Append(@, @[v])]
  /\ UNCHANGED <<genMode, genFacts, genStrategy, genRow, genUsed, genCall>>

ProductFactsChange ==
  /\ genFacts < MaxFacts
  /\ genFacts' = genFacts + 1
  /\ UNCHANGED <<genMode, genStrategy, genItem, genRow, genUsed, genCall>>

ClientModeChanges ==
  /\ genMode' = IF genMode = "LIVE" THEN "DRAFT" ELSE "LIVE"
  /\ UNCHANGED <<genFacts, genStrategy, genItem, genRow, genUsed, genCall>>

\* The draft the form showed is replaced by a new version.
CreateSocialStrategyDraft(s) ==
  /\ \A t \in Strategies : (genStrategy[t].status = "NONE") <=> t >= s
  /\ genStrategy' = [t \in Strategies |->
       IF t = s THEN [status |-> "DRAFT", confirmed |-> FALSE]
       ELSE IF t \in WithStatus("DRAFT") THEN [genStrategy[t] EXCEPT !.status = "ARCHIVED"]
       ELSE genStrategy[t]]
  /\ UNCHANGED <<genMode, genFacts, genItem, genRow, genUsed, genCall>>

Archived(t) == IF t \in WithStatus("CONFIRMED")
               THEN [genStrategy[t] EXCEPT !.status = "ARCHIVED"] ELSE genStrategy[t]

\* A complete draft; whoever confirms names it.
ConfirmSocialStrategy(s) ==
  /\ genStrategy[s].status = "DRAFT"
  /\ genStrategy' = [t \in Strategies |-> IF t = s THEN [status |-> "CONFIRMED", confirmed |-> TRUE]
                                          ELSE Archived(t)]
  /\ UNCHANGED <<genMode, genFacts, genItem, genRow, genUsed, genCall>>

\* Five minutes pass: nothing stops the request that waits for the model.
ReservationLapses(r) ==
  /\ genRow[r] \in {"counted", "lastMonth"}
  /\ genRow' = [genRow EXCEPT ![r] = "lapsed"]
  /\ UNCHANGED <<genMode, genFacts, genStrategy, genItem, genUsed, genCall>>

\* Only rows made in a month count for it.
MonthTurns ==
  /\ genUsed' = [reserved |-> 0, beyond |-> 0]
  /\ genRow' = [r \in Requests |-> IF r \in Counted THEN "lastMonth" ELSE genRow[r]]
  /\ UNCHANGED <<genMode, genFacts, genStrategy, genItem, genCall>>

-----------------------------------------------------------------------------
GenNext ==
  \/ \E r \in Writers : ReadProduct(r) \/ ReadFacts(r)
  \/ \E r \in Requests : \/ BeginBrandAutofill(r)
                         \/ ReserveUsage(r) \/ SimulatedAnswer(r) \/ SettleUsage(r)
                         \/ CallFails(r) \/ WriteRefused(r) \/ ProcessDies(r)
                         \/ ReservationLapses(r)
  \/ \E r \in Writers, i \in Drafts : ReadItem(r, i) \/ GenerateContentPlan(r, i) \/ WriteVariant(r, i)
  \/ \E i \in Drafts : CreateManualContent(i) \/ EditByHand(i)
  \/ \E s \in Strategies : CreateSocialStrategyDraft(s) \/ ConfirmSocialStrategy(s)
  \/ ProductFactsChange \/ ClientModeChanges \/ MonthTurns

GenSpec == GenInit /\ [][GenNext]_genVars

-----------------------------------------------------------------------------
(* Properties *)

\* However many requests reserve at once, what is reserved and what reservations have paid for
\* in time stay within the client's monthly limit (reserveUsage holds the client's row).
LimitKept == genUsed.reserved + Cardinality(Counted) <= UsageLimit

\* Only a request that still waits for the model, or whose process died, holds a reservation
\* (releaseUsage on every way out).
NoReservationLeaks ==
  \A r \in Counted : genCall[r].phase \in {"calling", "dead"}

\* The monthly quota is given out once, to those who use it.
UsageWithinLimit == LimitKept /\ NoReservationLeaks

\* The version of the facts that content is labelled with is the one its first text was
\* written from, though product and fields are read apart; and content whose label is current,
\* which checkContent passes, was written from the facts that hold now in all its versions,
\* through any sequence of variants, edits and restorations.
LabelsTellTheTruth ==
  \A i \in Drafts : CurrentVersion(i) # 0 =>
    /\ genItem[i].texts[1] = genItem[i].label
    /\ genItem[i].label = genFacts =>
         \A v \in 1..CurrentVersion(i) : genItem[i].texts[v] = genFacts

\* What the model writes for a LIVE client belongs to a strategy that a person has confirmed,
\* though strategies and mode change while the model is at work.
LiveContentIsConfirmed ==
  [][\A r \in Requests, i \in Drafts :
       genCall'[r] # genCall[r] /\ genItem'[i].texts # genItem[i].texts /\ genMode' = "LIVE" =>
         genItem'[i].strategy # NoStrategy /\ genStrategy'[genItem'[i].strategy].confirmed]_genVars

=============================================================================
