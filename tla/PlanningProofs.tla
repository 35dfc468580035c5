----------------------------- MODULE PlanningProofs -----------------------------
(***************************************************************************)
(* Proofs about what is planned.  The making of content by the text model  *)
(* (ContentGeneration), for any number of requests, items and strategies:  *)
(* the monthly limit, the labels of texts, the strategies of LIVE content. *)
(* And the times things are planned for (ScheduleTimes), for any zones     *)
(* that change their offset once, any length of a day and any queue.       *)
(***************************************************************************)
EXTENDS ContentGeneration, ScheduleTimes, FiniteSetTheorems, TLAPS

-----------------------------------------------------------------------------
(* Content generation: invariant *)

CallPhases == {"idle", "facts", "reserve", "calling", "answered", "dead"}

\* The phases of a request that has read the facts.
Informed == {"reserve", "calling", "answered"}

Standings == {"none", "NONE", "DRAFT", "CONFIRMED", "any"}

CallRows == [phase : CallPhases, kind : {"none", "plan", "variant", "brand"}, item : SUBSET Drafts,
             version : Nat, label : Nat, facts : Nat, mode : {"none", "DRAFT", "LIVE"},
             strategy : 0..MaxStrategies, standing : Standings]

StrategyRows == [status : {"NONE", "DRAFT", "CONFIRMED", "ARCHIVED"}, confirmed : BOOLEAN]

DraftRows == [texts : Seq(Nat), label : Nat, strategy : 0..MaxStrategies]

GenTypeOK ==
  /\ genMode \in {"DRAFT", "LIVE"}
  /\ genFacts \in Nat
  /\ genStrategy \in [Strategies -> StrategyRows]
  /\ genItem \in [Drafts -> DraftRows]
  /\ genRow \in [Requests -> {"none", "counted", "lapsed", "lastMonth"}]
  /\ genUsed \in [reserved : Nat, beyond : Nat]
  /\ genCall \in [Requests -> CallRows]

\* No more of the limit is given out than there is, and only to who still uses it.
QuotaInv == IsFiniteSet(Counted) /\ LimitKept /\ NoReservationLeaks

\* The first text of an item is of the facts it is labelled with, the others are of these or of
\* newer ones; and newer than the product's there are none.
DraftInv(d, facts) ==
  d.texts # <<>> =>
    /\ d.texts[1] = d.label
    /\ \A v \in 1..Len(d.texts) : d.label <= d.texts[v] /\ d.texts[v] <= facts

\* What a request has read: a plan the product's version before its facts, a variant an item
\* that was there, whose label is older than what it then read; and in LIVE a strategy.
CallInv(c, facts, item) ==
  /\ c.kind = "plan" => c.label <= facts
  /\ c.phase \in Informed => c.facts <= facts
  /\ c.kind = "plan" /\ c.phase \in Informed => c.label <= c.facts
  /\ c.item # {} => c.kind = "variant"
  /\ \A i \in c.item :
       /\ item[i].texts # <<>>
       /\ c.phase \in Informed => item[i].label <= c.facts
       /\ c.phase \in Informed /\ c.mode = "LIVE" => c.strategy # NoStrategy

ReadsInv ==
  /\ \A i \in Drafts : DraftInv(genItem[i], genFacts)
  /\ \A r \in Requests : CallInv(genCall[r], genFacts, genItem)

\* A strategy is confirmed by a person, and not otherwise.
StrategyInv == \A s \in WithStatus("CONFIRMED") : genStrategy[s].confirmed

GenInv == GenTypeOK /\ QuotaInv /\ ReadsInv /\ StrategyInv

\* Nothing is written and nothing is read.
LEMMA EmptyRecords ==
  /\ NoDraft \in DraftRows /\ NoDraft.texts = <<>>
  /\ NoCall \in CallRows /\ NoCall.phase = "idle" /\ NoCall.kind = "none" /\ NoCall.item = {}
  /\ NoStrategy \in 0..MaxStrategies /\ NoStrategy = 0
  /\ \A s \in Strategies : s \in 0..MaxStrategies /\ s # NoStrategy
BY GenerationAssumption DEF GenerationAssumption, NoDraft, NoCall, DraftRows, CallRows, CallPhases,
   Standings, NoStrategy, Strategies

-----------------------------------------------------------------------------
(* Content generation: steps *)

\* No row counts at first.
LEMMA GenInitInv == GenInit => GenInv
<1> SUFFICES ASSUME GenInit PROVE GenInv
  OBVIOUS
<1>1. GenTypeOK
  BY EmptyRecords DEF GenInit, GenTypeOK, StrategyRows
<1>2. Counted = {}
  BY DEF GenInit, Counted
<1>3. QuotaInv
  BY <1>2, FS_EmptySet, GenerationAssumption
  DEF GenInit, QuotaInv, LimitKept, NoReservationLeaks, GenerationAssumption
<1>4. ReadsInv
  BY EmptyRecords DEF GenInit, ReadsInv, DraftInv, CallInv, Informed
<1>5. StrategyInv
  BY DEF GenInit, StrategyInv, WithStatus
<1> QED BY <1>1, <1>3, <1>4, <1>5 DEF GenInv

\* Fewer rows count, and no more is used: every holder is one that was there, and still may be.
LEMMA QuotaShrinks ==
  ASSUME GenInv, GenTypeOK', Counted' \subseteq Counted,
         genUsed'.reserved + Cardinality(Counted') <= genUsed.reserved + Cardinality(Counted),
         \A r \in Counted' : genCall'[r].phase \in {"calling", "dead"}
  PROVE  QuotaInv'
<1>1. IsFiniteSet(Counted)' /\ Cardinality(Counted) \in Nat /\ Cardinality(Counted') \in Nat
  BY FS_Subset, FS_CardinalityType DEF GenInv, QuotaInv
<1>2. LimitKept'
  BY <1>1, GenerationAssumption
  DEF GenInv, GenTypeOK, QuotaInv, LimitKept, GenerationAssumption
<1> QED BY <1>1, <1>2 DEF QuotaInv, NoReservationLeaks

\* The rows stay, and a request that holds one goes on waiting or is dead.
LEMMA QuotaSame ==
  ASSUME GenInv, GenTypeOK', UNCHANGED <<genRow, genUsed>>,
         \A r \in Counted : genCall'[r].phase \in {"calling", "dead"}
  PROVE  QuotaInv'
<1>1. Counted' = Counted
  BY DEF Counted
<1>2. Cardinality(Counted) \in Nat
  BY FS_CardinalityType DEF GenInv, QuotaInv
<1>3. genUsed'.reserved + Cardinality(Counted') <= genUsed.reserved + Cardinality(Counted)
  BY <1>1, <1>2 DEF GenInv, GenTypeOK
<1> QED BY <1>1, <1>3, QuotaShrinks

\* A request moves: what it knows is true, and it does not walk away from a reservation.
LEMMA CallStep ==
  ASSUME GenInv, NEW r \in Requests, NEW row \in CallRows,
         genCall' = [genCall EXCEPT ![r] = row], CallInv(row, genFacts, genItem),
         r \in Counted => row.phase \in {"calling", "dead"},
         UNCHANGED <<genMode, genFacts, genStrategy, genItem, genRow, genUsed>>
  PROVE  GenInv'
<1>1. GenTypeOK'
  BY DEF GenInv, GenTypeOK
<1>2. genCall'[r] = row /\ \A q \in Requests \ {r} : genCall'[q] = genCall[q]
  BY DEF GenInv, GenTypeOK
<1>3. \A q \in Counted : genCall'[q].phase \in {"calling", "dead"}
  BY <1>2 DEF GenInv, QuotaInv, NoReservationLeaks, Counted
<1>4. QuotaInv'
  BY <1>1, <1>3, QuotaSame
<1>5. ReadsInv'
  BY <1>2 DEF GenInv, ReadsInv
<1>6. StrategyInv'
  BY DEF GenInv, StrategyInv, WithStatus
<1> QED BY <1>1, <1>4, <1>5, <1>6 DEF GenInv

\* What a request that has read nothing knows is true.
LEMMA NothingRead ==
  ASSUME NEW c \in CallRows, c.item = {}, c.kind # "plan", c.phase \in Informed => c.facts = 0, GenInv
  PROVE  CallInv(c, genFacts, genItem)
BY DEF CallInv, GenInv, GenTypeOK

\* A request begins where there was none, or none that still counts.
LEMMA MayBeginFree == ASSUME GenInv, NEW r \in Requests, MayBegin(r) PROVE r \notin Counted
BY DEF MayBegin, Counted, GenInv, QuotaInv, NoReservationLeaks

\* The product is read, and its version with it.
LEMMA ReadProductStep == ASSUME GenInv, NEW r \in Writers, ReadProduct(r) PROVE GenInv'
<1> DEFINE row == [NoCall EXCEPT !.phase = "facts", !.kind = "plan", !.label = genFacts]
<1>1. r \in Requests /\ r \notin Counted
  BY MayBeginFree, GenerationAssumption DEF GenerationAssumption, ReadProduct
<1>2. /\ row \in CallRows /\ row.phase = "facts" /\ row.label = genFacts /\ row.item = {}
  BY EmptyRecords DEF CallRows, CallPhases, GenInv, GenTypeOK
<1>3. genCall' = [genCall EXCEPT ![r] = row]
  BY DEF ReadProduct
<1>4. UNCHANGED <<genMode, genFacts, genStrategy, genItem, genRow, genUsed>>
  BY DEF ReadProduct
<1> HIDE DEF row
<1>5. CallInv(row, genFacts, genItem)
  BY <1>2 DEF CallInv, Informed, GenInv, GenTypeOK
<1> QED BY <1>1, <1>2, <1>3, <1>4, <1>5, CallStep

\* An item that is there is read.
LEMMA ReadItemStep ==
  ASSUME GenInv, NEW r \in Writers, NEW i \in Drafts, ReadItem(r, i) PROVE GenInv'
<1> DEFINE row == [NoCall EXCEPT !.phase = "facts", !.kind = "variant", !.item = {i},
                                 !.version = CurrentVersion(i)]
<1>1. r \in Requests /\ r \notin Counted
  BY MayBeginFree, GenerationAssumption DEF GenerationAssumption, ReadItem
<1>2. genItem[i].texts \in Seq(Nat) /\ CurrentVersion(i) \in Nat /\ CurrentVersion(i) # 0
  BY DEF GenInv, GenTypeOK, DraftRows, CurrentVersion, ReadItem
<1>3. genItem[i].texts # <<>>
  BY <1>2 DEF CurrentVersion
<1>4. /\ row \in CallRows /\ row.phase = "facts" /\ row.kind = "variant" /\ row.item = {i}
  BY <1>2, EmptyRecords DEF CallRows, CallPhases
<1>5. genCall' = [genCall EXCEPT ![r] = row]
  BY DEF ReadItem
<1>6. UNCHANGED <<genMode, genFacts, genStrategy, genItem, genRow, genUsed>>
  BY DEF ReadItem
<1> HIDE DEF row
<1>7. CallInv(row, genFacts, genItem)
  BY <1>3, <1>4 DEF CallInv, Informed
<1> QED BY <1>1, <1>4, <1>5, <1>6, <1>7, CallStep

\* A strategy that a request may be bound to is one there is, and in LIVE a variant has one.
LEMMA StrategiesOffered ==
  ASSUME GenInv
  PROVE  /\ \A b \in SelectStrategyForGeneration :
              /\ b[1] \in 0..MaxStrategies /\ b[2] \in Standings
              /\ genMode = "LIVE" => b[1] # NoStrategy /\ genStrategy[b[1]].confirmed
         /\ \A i \in Drafts : \A b \in ResolveStrategyForComposition(i) :
              /\ b[1] \in 0..MaxStrategies /\ b[2] \in Standings
              /\ genMode = "LIVE" => b[1] # NoStrategy
<1>1. \A st : WithStatus(st) \subseteq Strategies
  BY DEF WithStatus
<1>2. ASSUME NEW b \in SelectStrategyForGeneration
      PROVE  /\ b[1] \in 0..MaxStrategies /\ b[2] \in Standings
             /\ genMode = "LIVE" => b[1] # NoStrategy /\ genStrategy[b[1]].confirmed
  <2>1. CASE WithStatus("CONFIRMED") # {}
    <3>1. b[1] \in WithStatus("CONFIRMED") /\ b[2] = "CONFIRMED"
      BY <2>1, <1>2 DEF SelectStrategyForGeneration
    <3> QED BY <3>1, <1>1, EmptyRecords DEF Standings, GenInv, StrategyInv
  <2>2. CASE WithStatus("CONFIRMED") = {}
    <3>1. /\ genMode # "LIVE"
          /\ b[1] \in WithStatus("DRAFT") \cup {NoStrategy} /\ b[2] \in {"DRAFT", "NONE"}
      BY <2>2, <1>2 DEF SelectStrategyForGeneration
    <3> QED BY <3>1, <1>1, EmptyRecords DEF Standings
  <2> QED BY <2>1, <2>2
<1>3. ASSUME NEW i \in Drafts, NEW b \in ResolveStrategyForComposition(i)
      PROVE  /\ b[1] \in 0..MaxStrategies /\ b[2] \in Standings
             /\ genMode = "LIVE" => b[1] # NoStrategy
  BY <1>3 DEF ResolveStrategyForComposition, Standings, GenInv, GenTypeOK, DraftRows
<1> QED BY <1>2, <1>3

\* Facts are read: none are newer, and those of its label or of its item's are not older.
LEMMA ReadFactsStep == ASSUME GenInv, NEW r \in Writers, ReadFacts(r) PROVE GenInv'
<1> DEFINE Offered == IF genCall[r].kind = "plan" THEN SelectStrategyForGeneration
                      ELSE UNION {ResolveStrategyForComposition(i) : i \in genCall[r].item}
<1>1. r \in Requests /\ genCall[r] \in CallRows /\ genCall[r].phase = "facts"
  BY GenerationAssumption DEF GenerationAssumption, GenInv, GenTypeOK, ReadFacts
<1>2. PICK b \in Offered :
        genCall' = [genCall EXCEPT ![r] =
          [@ EXCEPT !.phase = "reserve", !.facts = genFacts, !.mode = genMode,
                    !.strategy = b[1], !.standing = b[2]]]
  BY DEF ReadFacts
<1> DEFINE row == [genCall[r] EXCEPT !.phase = "reserve", !.facts = genFacts, !.mode = genMode,
                                     !.strategy = b[1], !.standing = b[2]]
<1>3. /\ b[1] \in 0..MaxStrategies /\ b[2] \in Standings
      /\ genMode = "LIVE" => b[1] # NoStrategy
  <2>1. CASE genCall[r].kind = "plan"
    BY <2>1, <1>2, StrategiesOffered
  <2>2. CASE genCall[r].kind # "plan"
    <3>1. PICK i \in genCall[r].item : b \in ResolveStrategyForComposition(i)
      BY <2>2, <1>2
    <3>2. i \in Drafts
      BY <1>1 DEF CallRows
    <3> QED BY <3>1, <3>2, StrategiesOffered
  <2> QED BY <2>1, <2>2
<1>4. /\ row \in CallRows /\ row.phase = "reserve" /\ row.facts = genFacts /\ row.mode = genMode
      /\ row.strategy = b[1] /\ row.kind = genCall[r].kind /\ row.label = genCall[r].label
      /\ row.item = genCall[r].item
  BY <1>1, <1>3 DEF CallRows, CallPhases, GenInv, GenTypeOK
<1>5. genCall' = [genCall EXCEPT ![r] = row]
  BY <1>2
<1>6. UNCHANGED <<genMode, genFacts, genStrategy, genItem, genRow, genUsed>> /\ r \notin Counted
  BY <1>1 DEF ReadFacts, GenInv, QuotaInv, NoReservationLeaks
<1> HIDE DEF row
<1>7. CallInv(row, genFacts, genItem)
  <2>1. CallInv(genCall[r], genFacts, genItem) /\ genFacts \in Nat
    BY <1>1 DEF GenInv, ReadsInv, GenTypeOK
  <2>2. \A i \in genCall[r].item : genItem[i].texts # <<>> /\ genItem[i].label <= genFacts
    <3> SUFFICES ASSUME NEW i \in genCall[r].item
                 PROVE  genItem[i].texts # <<>> /\ genItem[i].label <= genFacts
      OBVIOUS
    <3>1. i \in Drafts /\ genItem[i].texts # <<>>
      BY <1>1, <2>1 DEF CallRows, CallInv
    <3>2. genItem[i].texts \in Seq(Nat) /\ 1 \in 1..Len(genItem[i].texts)
      BY <3>1 DEF GenInv, GenTypeOK, DraftRows
    <3> QED BY <3>1, <3>2 DEF GenInv, ReadsInv, DraftInv
  <2> QED BY <1>3, <1>4, <2>1, <2>2 DEF CallInv
<1> QED BY <1>1, <1>4, <1>5, <1>6, <1>7, CallStep

\* A brand suggestion reads nothing of all this.
LEMMA BeginBrandStep == ASSUME GenInv, NEW r \in Requests, BeginBrandAutofill(r) PROVE GenInv'
<1> DEFINE row == [NoCall EXCEPT !.phase = "reserve", !.kind = "brand"]
<1>1. r \notin Counted
  BY MayBeginFree DEF BeginBrandAutofill
<1>2. /\ row \in CallRows /\ row.kind = "brand" /\ row.item = {} /\ row.facts = 0
  BY EmptyRecords DEF CallRows, CallPhases, NoCall
<1>3. genCall' = [genCall EXCEPT ![r] = row]
  BY DEF BeginBrandAutofill
<1>4. UNCHANGED <<genMode, genFacts, genStrategy, genItem, genRow, genUsed>>
  BY DEF BeginBrandAutofill
<1> HIDE DEF row
<1>5. CallInv(row, genFacts, genItem)
  BY <1>2, NothingRead
<1> QED BY <1>1, <1>2, <1>3, <1>4, <1>5, CallStep

\* What the calls know, when one of them changes and neither product nor items do.
LEMMA ReadsCall ==
  ASSUME GenInv, NEW r \in Requests, NEW row \in CallRows,
         genCall' = [genCall EXCEPT ![r] = row], CallInv(row, genFacts, genItem),
         UNCHANGED <<genFacts, genItem>>
  PROVE  ReadsInv'
<1>1. genCall'[r] = row /\ \A q \in Requests \ {r} : genCall'[q] = genCall[q]
  BY DEF GenInv, GenTypeOK
<1> QED BY <1>1 DEF GenInv, ReadsInv

\* A request that is over.
LEMMA NoCallKnows == GenInv => CallInv(NoCall, genFacts, genItem)
BY EmptyRecords DEF CallInv, Informed

\* A request goes on with what it has read.
LEMMA PhaseKnows ==
  ASSUME GenInv, NEW r \in Requests, NEW p \in CallPhases,
         p \in Informed => genCall[r].phase \in Informed
  PROVE  /\ [genCall[r] EXCEPT !.phase = p] \in CallRows
         /\ [genCall[r] EXCEPT !.phase = p].phase = p
         /\ CallInv([genCall[r] EXCEPT !.phase = p], genFacts, genItem)
<1> DEFINE row == [genCall[r] EXCEPT !.phase = p]
<1>1. genCall[r] \in CallRows /\ CallInv(genCall[r], genFacts, genItem)
  BY DEF GenInv, GenTypeOK, ReadsInv
<1>2. /\ row \in CallRows /\ row.phase = p /\ row.kind = genCall[r].kind
      /\ row.label = genCall[r].label /\ row.facts = genCall[r].facts /\ row.item = genCall[r].item
      /\ row.mode = genCall[r].mode /\ row.strategy = genCall[r].strategy
  BY <1>1 DEF CallRows
<1> HIDE DEF row
<1>3. CallInv(row, genFacts, genItem)
  BY <1>1, <1>2 DEF CallInv
<1> QED BY <1>2, <1>3 DEF row

\* Nothing is confirmed anew.
LEMMA StrategySame == ASSUME GenInv, UNCHANGED genStrategy PROVE StrategyInv'
BY DEF GenInv, StrategyInv, WithStatus

\* A unit is reserved where there is one left; or the request is over.
LEMMA ReserveStep == ASSUME GenInv, NEW r \in Requests, ReserveUsage(r) PROVE GenInv'
<1> DEFINE calling == [genCall[r] EXCEPT !.phase = "calling"]
<1>1. /\ genCall[r] \in CallRows /\ genCall[r].phase = "reserve" /\ r \notin Counted
      /\ Swept \in [Requests -> {"none", "counted", "lapsed", "lastMonth"}]
      /\ genUsed.reserved \in Nat /\ genUsed.beyond \in Nat
  BY DEF ReserveUsage, Swept, GenInv, GenTypeOK, QuotaInv, NoReservationLeaks
<1>2. IsFiniteSet(Counted) /\ Cardinality(Counted) \in Nat
  BY FS_CardinalityType DEF GenInv, QuotaInv
<1>3. CASE FitsLimit
  <2>1. /\ genCall' = [genCall EXCEPT ![r] = calling] /\ genRow' = [Swept EXCEPT ![r] = "counted"]
        /\ UNCHANGED <<genMode, genFacts, genStrategy, genItem, genUsed>>
    BY <1>3 DEF ReserveUsage
  <2>2. calling \in CallRows /\ calling.phase = "calling" /\ CallInv(calling, genFacts, genItem)
    BY <1>1, PhaseKnows DEF CallPhases, Informed
  <2> HIDE DEF calling
  <2>3. GenTypeOK'
    BY <1>1, <2>1, <2>2 DEF GenInv, GenTypeOK
  <2>4. ReadsInv'
    BY <2>1, <2>2, ReadsCall
  <2>5. Counted' \subseteq Counted \cup {r}
    BY <1>1, <2>1 DEF Counted, Swept, GenInv, GenTypeOK
  <2>6. /\ IsFiniteSet(Counted \cup {r}) /\ Cardinality(Counted \cup {r}) = Cardinality(Counted) + 1
    BY <1>1, <1>2, FS_AddElement
  <2>7. /\ IsFiniteSet(Counted') /\ Cardinality(Counted') \in Nat
        /\ Cardinality(Counted') <= Cardinality(Counted) + 1
    BY <2>5, <2>6, FS_Subset, FS_CardinalityType
  <2>8. LimitKept'
    BY <1>1, <1>2, <1>3, <2>1, <2>7, GenerationAssumption
    DEF FitsLimit, LimitKept, GenerationAssumption
  <2>9. NoReservationLeaks'
    BY <2>1, <2>2, <2>5 DEF GenInv, GenTypeOK, QuotaInv, NoReservationLeaks, Counted
  <2> QED BY <2>1, <2>3, <2>4, <2>7, <2>8, <2>9, StrategySame DEF GenInv, QuotaInv
<1>4. CASE ~FitsLimit
  <2>1. /\ genCall' = [genCall EXCEPT ![r] = NoCall] /\ genRow' = Swept
        /\ UNCHANGED <<genMode, genFacts, genStrategy, genItem, genUsed>>
    BY <1>4 DEF ReserveUsage
  <2>2. GenTypeOK'
    BY <1>1, <2>1, EmptyRecords DEF GenInv, GenTypeOK
  <2>3. ReadsInv'
    BY <2>1, NoCallKnows, EmptyRecords, ReadsCall
  <2>4. Counted' = Counted
    BY <2>1 DEF Counted, Swept
  <2>5. \A q \in Counted' : genCall'[q].phase \in {"calling", "dead"}
    BY <1>1, <2>1, <2>4 DEF GenInv, GenTypeOK, QuotaInv, NoReservationLeaks, Counted
  <2>6. QuotaInv'
    BY <1>1, <1>2, <2>1, <2>2, <2>4, <2>5, QuotaShrinks
  <2> QED BY <2>1, <2>2, <2>3, <2>6, StrategySame DEF GenInv
<1> QED BY <1>3, <1>4

\* The simulated model answers at once.
LEMMA SimulatedStep == ASSUME GenInv, NEW r \in Requests, SimulatedAnswer(r) PROVE GenInv'
<1> DEFINE row == [genCall[r] EXCEPT !.phase = "answered"]
<1>1. row \in CallRows /\ CallInv(row, genFacts, genItem)
  BY PhaseKnows DEF CallPhases, Informed, SimulatedAnswer
<1>2. genCall' = [genCall EXCEPT ![r] = row] /\ r \notin Counted
  BY DEF SimulatedAnswer, GenInv, QuotaInv, NoReservationLeaks
<1>3. UNCHANGED <<genMode, genFacts, genStrategy, genItem, genRow, genUsed>>
  BY DEF SimulatedAnswer
<1> HIDE DEF row
<1> QED BY <1>1, <1>2, <1>3, CallStep

\* A unit reserved in this month becomes one that is used; what was not reserved is counted apart.
LEMMA SettleStep == ASSUME GenInv, NEW r \in Requests, SettleUsage(r) PROVE GenInv'
<1>1. PICK units \in 0..2 :
        LET covered == IF r \in Counted /\ units > 0 THEN 1 ELSE 0
        IN  genUsed' = [reserved |-> genUsed.reserved + covered,
                        beyond |-> genUsed.beyond + units - covered]
  BY DEF SettleUsage
<1> DEFINE row == IF genCall[r].kind = "brand" THEN NoCall
                  ELSE [genCall[r] EXCEPT !.phase = "answered"]
           covered == IF r \in Counted /\ units > 0 THEN 1 ELSE 0
<1>2. row \in CallRows /\ CallInv(row, genFacts, genItem)
  BY PhaseKnows, NoCallKnows, EmptyRecords DEF CallPhases, Informed, SettleUsage
<1>3. /\ genCall' = [genCall EXCEPT ![r] = row] /\ genRow' = [genRow EXCEPT ![r] = "none"]
      /\ UNCHANGED <<genMode, genFacts, genStrategy, genItem>>
  BY DEF SettleUsage
<1>4. /\ genUsed.reserved \in Nat /\ genUsed.beyond \in Nat
      /\ IsFiniteSet(Counted) /\ Cardinality(Counted) \in Nat
  BY FS_CardinalityType DEF GenInv, GenTypeOK, QuotaInv
<1> HIDE DEF row
<1>5. GenTypeOK'
  <2>1. genUsed' \in [reserved : Nat, beyond : Nat]
    BY <1>1, <1>4
  <2> QED BY <1>2, <1>3, <2>1 DEF GenInv, GenTypeOK
<1>6. ReadsInv'
  BY <1>2, <1>3, ReadsCall
<1>7. Counted' = Counted \ {r}
  BY <1>3 DEF Counted, GenInv, GenTypeOK
<1>8. genUsed'.reserved + Cardinality(Counted') <= genUsed.reserved + Cardinality(Counted)
  <2>1. Cardinality(Counted \ {r}) = IF r \in Counted THEN Cardinality(Counted) - 1 ELSE Cardinality(Counted)
    BY <1>4, FS_RemoveElement
  <2> QED BY <1>1, <1>4, <1>7, <2>1
<1>9. \A q \in Counted' : genCall'[q].phase \in {"calling", "dead"}
  BY <1>3, <1>7 DEF GenInv, GenTypeOK, QuotaInv, NoReservationLeaks, Counted
<1>10. QuotaInv'
  BY <1>5, <1>7, <1>8, <1>9, QuotaShrinks
<1> QED BY <1>3, <1>5, <1>6, <1>10, StrategySame DEF GenInv

\* The reservation goes with the request.
LEMMA CallFailsStep == ASSUME GenInv, NEW r \in Requests, CallFails(r) PROVE GenInv'
<1>1. /\ genCall' = [genCall EXCEPT ![r] = NoCall] /\ genRow' = [genRow EXCEPT ![r] = "none"]
      /\ UNCHANGED <<genMode, genFacts, genStrategy, genItem, genUsed>>
  BY DEF CallFails, Released
<1>2. GenTypeOK'
  BY <1>1, EmptyRecords DEF GenInv, GenTypeOK
<1>3. ReadsInv'
  BY <1>1, NoCallKnows, EmptyRecords, ReadsCall
<1>4. Counted' = Counted \ {r}
  BY <1>1 DEF Counted, GenInv, GenTypeOK
<1>5. /\ Cardinality(Counted') <= Cardinality(Counted)
      /\ Cardinality(Counted') \in Nat /\ Cardinality(Counted) \in Nat
  BY <1>4, FS_Subset, FS_CardinalityType DEF GenInv, QuotaInv
<1>6. genUsed'.reserved + Cardinality(Counted') <= genUsed.reserved + Cardinality(Counted)
  BY <1>1, <1>5 DEF GenInv, GenTypeOK
<1>7. \A q \in Counted' : genCall'[q].phase \in {"calling", "dead"}
  BY <1>1, <1>4 DEF GenInv, GenTypeOK, QuotaInv, NoReservationLeaks, Counted
<1>8. QuotaInv'
  BY <1>2, <1>4, <1>6, <1>7, QuotaShrinks
<1> QED BY <1>1, <1>2, <1>3, <1>8, StrategySame DEF GenInv

\* A refused answer leaves nothing: its reservation had been settled.
LEMMA WriteRefusedStep == ASSUME GenInv, NEW r \in Requests, WriteRefused(r) PROVE GenInv'
<1>1. r \notin Counted
  BY DEF WriteRefused, GenInv, QuotaInv, NoReservationLeaks
<1> QED BY <1>1, EmptyRecords, NoCallKnows, CallStep DEF WriteRefused

\* Whoever dies with a reservation is remembered as long as it counts.
LEMMA ProcessDiesStep == ASSUME GenInv, NEW r \in Requests, ProcessDies(r) PROVE GenInv'
<1> DEFINE row == IF genRow[r] = "none" THEN NoCall ELSE [NoCall EXCEPT !.phase = "dead"]
<1>1. /\ row \in CallRows /\ row.item = {} /\ row.kind = "none" /\ row.facts = 0
      /\ r \in Counted => row.phase = "dead"
  BY EmptyRecords DEF Counted, CallRows, CallPhases, NoCall
<1>2. genCall' = [genCall EXCEPT ![r] = row]
  BY DEF ProcessDies
<1>3. UNCHANGED <<genMode, genFacts, genStrategy, genItem, genRow, genUsed>>
  BY DEF ProcessDies
<1> HIDE DEF row
<1>4. CallInv(row, genFacts, genItem)
  BY <1>1, NothingRead
<1> QED BY <1>1, <1>2, <1>3, <1>4, CallStep

\* What a request knows stays true while items keep their labels and facts only get newer.
LEMMA CallKept ==
  ASSUME NEW c \in CallRows, NEW facts \in Nat, NEW facts2 \in Nat, facts <= facts2,
         NEW items \in [Drafts -> DraftRows], NEW items2,
         \A i \in Drafts : items[i].texts # <<>> =>
            items2[i].texts # <<>> /\ items2[i].label = items[i].label,
         CallInv(c, facts, items)
  PROVE  CallInv(c, facts2, items2)
<1>1. c.label \in Nat /\ c.facts \in Nat /\ c.item \subseteq Drafts
  BY DEF CallRows
<1>2. \A i \in c.item :
        /\ items2[i].texts # <<>>
        /\ c.phase \in Informed => items2[i].label <= c.facts
        /\ c.phase \in Informed /\ c.mode = "LIVE" => c.strategy # NoStrategy
  BY <1>1 DEF CallInv
<1>3. /\ c.kind = "plan" => c.label <= facts2
      /\ c.phase \in Informed => c.facts <= facts2
  BY <1>1 DEF CallInv
<1> QED BY <1>2, <1>3 DEF CallInv

\* An item is written: it is labelled as its texts are, and if it was there, as it was before.
\* The request that wrote it, if one did, is over.
LEMMA ItemStep ==
  ASSUME GenInv, NEW i \in Drafts, NEW row \in DraftRows,
         genItem' = [genItem EXCEPT ![i] = row], DraftInv(row, genFacts), row.texts # <<>>,
         genItem[i].texts # <<>> => row.label = genItem[i].label,
         \/ UNCHANGED genCall
         \/ \E r \in Requests : genCall[r].phase = "answered" /\ genCall' = [genCall EXCEPT ![r] = NoCall],
         UNCHANGED <<genMode, genFacts, genStrategy, genRow, genUsed>>
  PROVE  GenInv'
<1>1. /\ genItem \in [Drafts -> DraftRows] /\ genItem' \in [Drafts -> DraftRows] /\ genItem'[i] = row
      /\ \A k \in Drafts \ {i} : genItem'[k] = genItem[k]
      /\ genFacts \in Nat
  BY DEF GenInv, GenTypeOK
<1>2. /\ genCall' \in [Requests -> CallRows]
      /\ \A q \in Requests : genCall'[q] \in {genCall[q], NoCall}
      /\ \A q \in Requests : genCall'[q] # genCall[q] => genCall[q].phase = "answered"
  BY EmptyRecords DEF GenInv, GenTypeOK
<1>3. GenTypeOK'
  BY <1>1, <1>2 DEF GenInv, GenTypeOK
<1>4. \A q \in Counted : genCall'[q].phase \in {"calling", "dead"}
  BY <1>2 DEF GenInv, QuotaInv, NoReservationLeaks, Counted
<1>5. QuotaInv'
  BY <1>3, <1>4, QuotaSame
<1>6. \A k \in Drafts : DraftInv(genItem'[k], genFacts)
  BY <1>1 DEF GenInv, ReadsInv
<1>7. \A k \in Drafts : genItem[k].texts # <<>> =>
        genItem'[k].texts # <<>> /\ genItem'[k].label = genItem[k].label
  BY <1>1
<1>8. ASSUME NEW q \in Requests
      PROVE  CallInv(genCall'[q], genFacts, genItem')
  <2>1. CallInv(genCall'[q], genFacts, genItem) /\ genCall'[q] \in CallRows
    BY <1>2, NoCallKnows DEF GenInv, ReadsInv
  <2>2. genFacts <= genFacts
    BY <1>1
  <2> QED BY <2>1, <2>2, <1>1, <1>7, CallKept
<1>9. ReadsInv'
  BY <1>6, <1>8 DEF ReadsInv
<1> QED BY <1>3, <1>5, <1>9, StrategySame DEF GenInv

\* A new item with one text, of the facts it is labelled with, and none newer than the product's.
LEMMA FirstText ==
  ASSUME NEW facts \in Nat, NEW strategy \in 0..MaxStrategies, GenInv, facts <= genFacts
  PROVE  LET row == [texts |-> <<facts>>, label |-> facts, strategy |-> strategy]
         IN  row \in DraftRows /\ row.texts # <<>> /\ DraftInv(row, genFacts)
<1> DEFINE row == [texts |-> <<facts>>, label |-> facts, strategy |-> strategy]
<1>1. <<facts>> \in Seq(Nat) /\ Len(<<facts>>) = 1 /\ <<facts>>[1] = facts /\ <<facts>> # <<>>
  OBVIOUS
<1>2. row \in DraftRows /\ row.texts = <<facts>> /\ row.label = facts
  BY <1>1 DEF DraftRows
<1> HIDE DEF row
<1>3. DraftInv(row, genFacts)
  <2> SUFFICES ASSUME NEW v \in 1..Len(row.texts) PROVE row.label <= row.texts[v] /\ row.texts[v] <= genFacts
    BY <1>1, <1>2 DEF DraftInv
  <2>1. v = 1
    BY <1>1, <1>2
  <2> QED BY <2>1, <1>1, <1>2
<1> QED BY <1>1, <1>2, <1>3 DEF row

\* A text of no older facts than the label's is put behind the others.
LEMMA AnotherText ==
  ASSUME GenInv, NEW i \in Drafts, genItem[i].texts # <<>>, NEW facts \in Nat,
         genItem[i].label <= facts, facts <= genFacts
  PROVE  LET row == [genItem[i] EXCEPT !.texts = Append(@, facts)]
         IN  /\ row \in DraftRows /\ row.texts # <<>> /\ DraftInv(row, genFacts)
             /\ row.label = genItem[i].label /\ row.strategy = genItem[i].strategy
<1> DEFINE old == genItem[i]
           row == [old EXCEPT !.texts = Append(old.texts, facts)]
<1>1. /\ old \in DraftRows /\ old.texts \in Seq(Nat) /\ old.label \in Nat /\ old.texts # <<>>
      /\ DraftInv(old, genFacts)
  BY DEF GenInv, GenTypeOK, DraftRows, ReadsInv
<1> HIDE DEF old
<1>2. /\ Append(old.texts, facts) \in Seq(Nat) /\ Append(old.texts, facts) # <<>>
      /\ Len(Append(old.texts, facts)) = Len(old.texts) + 1
      /\ Append(old.texts, facts)[Len(old.texts) + 1] = facts
      /\ \A v \in 1..Len(old.texts) : Append(old.texts, facts)[v] = old.texts[v]
      /\ Len(old.texts) \in Nat \ {0}
  BY <1>1
<1>3. /\ row \in DraftRows /\ row.label = old.label /\ row.strategy = old.strategy
      /\ row.texts = Append(old.texts, facts)
  BY <1>1, <1>2 DEF DraftRows
<1> HIDE DEF row
<1>4. DraftInv(row, genFacts)
  <2>1. row.texts[1] = row.label
    BY <1>1, <1>2, <1>3 DEF DraftInv
  <2>2. ASSUME NEW v \in 1..Len(row.texts)
        PROVE  row.label <= row.texts[v] /\ row.texts[v] <= genFacts
    <3>1. CASE v \in 1..Len(old.texts)
      BY <3>1, <1>1, <1>2, <1>3 DEF DraftInv
    <3>2. CASE v = Len(old.texts) + 1
      BY <3>2, <1>2, <1>3 DEF old
    <3> QED BY <3>1, <3>2, <1>2, <1>3
  <2> QED BY <2>1, <2>2 DEF DraftInv
<1> QED BY <1>2, <1>3, <1>4 DEF row, old

\* What was read twice of the product was of one version: nothing is newer than what still holds.
LEMMA GeneratePlanStep ==
  ASSUME GenInv, NEW r \in Writers, NEW i \in Drafts, GenerateContentPlan(r, i) PROVE GenInv'
<1>1. /\ r \in Requests /\ genCall[r] \in CallRows /\ genFacts \in Nat
      /\ CallInv(genCall[r], genFacts, genItem)
  BY GenerationAssumption DEF GenerationAssumption, GenInv, GenTypeOK, ReadsInv
<1>2. genCall[r].facts = genFacts /\ genCall[r].label = genFacts
  BY <1>1 DEF GenerateContentPlan, PlanStillHolds, CallInv, Informed, CallRows
<1> DEFINE row == [texts |-> <<genFacts>>, label |-> genFacts, strategy |-> genCall[r].strategy]
<1>3. row \in DraftRows /\ row.texts # <<>> /\ DraftInv(row, genFacts)
  BY <1>1, FirstText DEF CallRows
<1>4. genItem' = [genItem EXCEPT ![i] = row]
  BY <1>2 DEF GenerateContentPlan
<1>5. /\ genCall[r].phase = "answered" /\ genCall' = [genCall EXCEPT ![r] = NoCall]
      /\ UNCHANGED <<genMode, genFacts, genStrategy, genRow, genUsed>>
      /\ Len(genItem[i].texts) = 0
  BY DEF GenerateContentPlan, CurrentVersion
<1>6. genItem[i].texts = <<>>
  BY <1>5 DEF GenInv, GenTypeOK, DraftRows
<1> HIDE DEF row
<1> QED BY <1>1, <1>3, <1>4, <1>5, <1>6, ItemStep

\* A variant is of facts that were read when its item was there already.
LEMMA WriteVariantStep ==
  ASSUME GenInv, NEW r \in Writers, NEW i \in Drafts, WriteVariant(r, i) PROVE GenInv'
<1>1. /\ r \in Requests /\ genCall[r] \in CallRows
      /\ CallInv(genCall[r], genFacts, genItem)
  BY GenerationAssumption DEF GenerationAssumption, GenInv, GenTypeOK, ReadsInv
<1>2. /\ genItem[i].texts # <<>> /\ genCall[r].facts \in Nat
      /\ genItem[i].label <= genCall[r].facts /\ genCall[r].facts <= genFacts
  BY <1>1 DEF WriteVariant, CallInv, Informed, CallRows
<1> DEFINE row == [genItem[i] EXCEPT !.texts = Append(@, genCall[r].facts)]
<1>3. /\ row \in DraftRows /\ row.texts # <<>> /\ DraftInv(row, genFacts)
      /\ row.label = genItem[i].label
  BY <1>2, AnotherText
<1>4. genItem' = [genItem EXCEPT ![i] = row]
  BY DEF WriteVariant, GenInv, GenTypeOK
<1>5. /\ genCall[r].phase = "answered" /\ genCall' = [genCall EXCEPT ![r] = NoCall]
      /\ UNCHANGED <<genMode, genFacts, genStrategy, genRow, genUsed>>
  BY DEF WriteVariant
<1> HIDE DEF row
<1> QED BY <1>1, <1>3, <1>4, <1>5, ItemStep

\* What a person writes is of the facts of now.
LEMMA CreateManualStep ==
  ASSUME GenInv, NEW i \in Drafts, CreateManualContent(i) PROVE GenInv'
<1>1. PICK st \in IF WithStatus("CONFIRMED") = {} THEN {NoStrategy} ELSE WithStatus("CONFIRMED") :
        genItem' = [genItem EXCEPT ![i] = [texts |-> <<genFacts>>, label |-> genFacts, strategy |-> st]]
  BY DEF CreateManualContent
<1>2. st \in 0..MaxStrategies
  BY EmptyRecords DEF WithStatus
<1> DEFINE row == [texts |-> <<genFacts>>, label |-> genFacts, strategy |-> st]
<1>3. row \in DraftRows /\ row.texts # <<>> /\ DraftInv(row, genFacts)
  BY <1>2, FirstText DEF GenInv, GenTypeOK
<1>4. /\ genItem[i].texts = <<>> /\ UNCHANGED <<genMode, genFacts, genStrategy, genRow, genUsed, genCall>>
  BY DEF CreateManualContent, CurrentVersion, GenInv, GenTypeOK, DraftRows
<1> HIDE DEF row
<1>5. genItem' = [genItem EXCEPT ![i] = row]
  BY <1>1 DEF row
<1> QED BY <1>3, <1>4, <1>5, ItemStep

\* A text is taken over from another version, with what it goes back to.
LEMMA EditByHandStep == ASSUME GenInv, NEW i \in Drafts, EditByHand(i) PROVE GenInv'
<1>1. PICK v \in 1..CurrentVersion(i) :
        genItem' = [genItem EXCEPT ![i].texts = Append(@, @[v])]
  BY DEF EditByHand
<1>2. genItem[i] \in DraftRows /\ genItem[i].texts \in Seq(Nat) /\ DraftInv(genItem[i], genFacts)
  BY DEF GenInv, GenTypeOK, DraftRows, ReadsInv
<1>3. genItem[i].texts # <<>> /\ v \in 1..Len(genItem[i].texts)
  BY <1>2 DEF CurrentVersion, EditByHand
<1>4. /\ genItem[i].texts[v] \in Nat
      /\ genItem[i].label <= genItem[i].texts[v] /\ genItem[i].texts[v] <= genFacts
  BY <1>2, <1>3 DEF DraftInv
<1> DEFINE row == [genItem[i] EXCEPT !.texts = Append(@, genItem[i].texts[v])]
<1>5. /\ row \in DraftRows /\ row.texts # <<>> /\ DraftInv(row, genFacts)
      /\ row.label = genItem[i].label
  BY <1>3, <1>4, AnotherText
<1>6. genItem' = [genItem EXCEPT ![i] = row]
  BY <1>1 DEF GenInv, GenTypeOK
<1>7. UNCHANGED <<genMode, genFacts, genStrategy, genRow, genUsed, genCall>>
  BY DEF EditByHand
<1> HIDE DEF row
<1> QED BY <1>3, <1>5, <1>6, <1>7, ItemStep

\* Facts get newer.
LEMMA FactsStep == ASSUME GenInv, ProductFactsChange PROVE GenInv'
<1>1. /\ genFacts \in Nat /\ genFacts' = genFacts + 1 /\ genItem \in [Drafts -> DraftRows]
      /\ UNCHANGED <<genMode, genStrategy, genItem, genRow, genUsed, genCall>>
  BY DEF ProductFactsChange, GenInv, GenTypeOK
<1>2. GenTypeOK'
  BY <1>1 DEF GenInv, GenTypeOK
<1>3. QuotaInv'
  BY <1>1, <1>2, QuotaSame DEF GenInv, QuotaInv, NoReservationLeaks
<1>4. ASSUME NEW i \in Drafts PROVE DraftInv(genItem[i], genFacts')
  <2>1. DraftInv(genItem[i], genFacts) /\ genItem[i].texts \in Seq(Nat)
    BY DEF GenInv, ReadsInv, GenTypeOK, DraftRows
  <2>2. \A v \in 1..Len(genItem[i].texts) : genItem[i].texts[v] \in Nat
    BY <2>1
  <2> QED BY <1>1, <2>1, <2>2 DEF DraftInv
<1>5. ASSUME NEW r \in Requests PROVE CallInv(genCall[r], genFacts', genItem)
  <2>1. CallInv(genCall[r], genFacts, genItem) /\ genCall[r] \in CallRows
    BY DEF GenInv, ReadsInv, GenTypeOK
  <2>2. genFacts' \in Nat /\ genFacts <= genFacts'
    BY <1>1
  <2> QED BY <1>1, <2>1, <2>2, CallKept
<1>6. ReadsInv'
  BY <1>1, <1>4, <1>5 DEF ReadsInv
<1> QED BY <1>1, <1>2, <1>3, <1>6, StrategySame DEF GenInv

\* Strategies change; only a person confirms.
LEMMA StrategiesStep ==
  ASSUME GenInv, genStrategy' \in [Strategies -> StrategyRows], genMode' \in {"DRAFT", "LIVE"},
         \A s \in Strategies : genStrategy'[s].status = "CONFIRMED" =>
            genStrategy'[s].confirmed \/ genStrategy'[s] = genStrategy[s],
         UNCHANGED <<genFacts, genItem, genRow, genUsed, genCall>>
  PROVE  GenInv'
<1>1. GenTypeOK'
  BY DEF GenInv, GenTypeOK
<1>2. QuotaInv'
  BY <1>1, QuotaSame DEF GenInv, QuotaInv, NoReservationLeaks
<1>3. ReadsInv'
  BY DEF GenInv, ReadsInv
<1>4. StrategyInv'
  BY DEF GenInv, StrategyInv, WithStatus
<1> QED BY <1>1, <1>2, <1>3, <1>4 DEF GenInv

\* A draft replaces the one before.
LEMMA DraftedStep ==
  ASSUME GenInv, NEW s \in Strategies, CreateSocialStrategyDraft(s) PROVE GenInv'
<1>1. genStrategy \in [Strategies -> StrategyRows] /\ genMode \in {"DRAFT", "LIVE"}
  BY DEF GenInv, GenTypeOK
<1>2. genStrategy' \in [Strategies -> StrategyRows]
  BY <1>1 DEF CreateSocialStrategyDraft, StrategyRows
<1>3. \A t \in Strategies : genStrategy'[t].status = "CONFIRMED" => genStrategy'[t] = genStrategy[t]
  BY <1>1 DEF CreateSocialStrategyDraft, StrategyRows
<1>4. UNCHANGED <<genMode, genFacts, genItem, genRow, genUsed, genCall>>
  BY DEF CreateSocialStrategyDraft
<1> QED BY <1>1, <1>2, <1>3, <1>4, StrategiesStep

\* A draft is confirmed in the place of the strategy that was.
LEMMA ConfirmedStep ==
  ASSUME GenInv, NEW s \in Strategies, ConfirmSocialStrategy(s) PROVE GenInv'
<1>1. genStrategy \in [Strategies -> StrategyRows] /\ genMode \in {"DRAFT", "LIVE"}
  BY DEF GenInv, GenTypeOK
<1>2. genStrategy' \in [Strategies -> StrategyRows]
  BY <1>1 DEF ConfirmSocialStrategy, Archived, StrategyRows
<1>3. \A t \in Strategies : genStrategy'[t].status = "CONFIRMED" =>
        genStrategy'[t].confirmed \/ genStrategy'[t] = genStrategy[t]
  BY <1>1 DEF ConfirmSocialStrategy, Archived, StrategyRows
<1>4. UNCHANGED <<genMode, genFacts, genItem, genRow, genUsed, genCall>>
  BY DEF ConfirmSocialStrategy
<1> QED BY <1>1, <1>2, <1>3, <1>4, StrategiesStep

\* Rows stop to count, by the time or by the month, whose sum begins anew.
LEMMA RowsStep ==
  ASSUME GenInv, genRow' \in [Requests -> {"none", "counted", "lapsed", "lastMonth"}],
         Counted' \subseteq Counted,
         genUsed' \in [reserved : Nat, beyond : Nat], genUsed'.reserved <= genUsed.reserved,
         UNCHANGED <<genMode, genFacts, genStrategy, genItem, genCall>>
  PROVE  GenInv'
<1>1. GenTypeOK'
  BY DEF GenInv, GenTypeOK
<1>2. /\ Cardinality(Counted') <= Cardinality(Counted)
      /\ Cardinality(Counted') \in Nat /\ Cardinality(Counted) \in Nat
  BY FS_Subset, FS_CardinalityType DEF GenInv, QuotaInv
<1>3. genUsed'.reserved + Cardinality(Counted') <= genUsed.reserved + Cardinality(Counted)
  BY <1>2 DEF GenInv, GenTypeOK
<1>4. QuotaInv'
  BY <1>1, <1>3, QuotaShrinks DEF GenInv, QuotaInv, NoReservationLeaks
<1>5. ReadsInv'
  BY DEF GenInv, ReadsInv
<1> QED BY <1>1, <1>4, <1>5, StrategySame DEF GenInv

\* A reservation outlives its time.
LEMMA LapsesStep == ASSUME GenInv, NEW r \in Requests, ReservationLapses(r) PROVE GenInv'
<1>1. /\ genRow' \in [Requests -> {"none", "counted", "lapsed", "lastMonth"}]
      /\ Counted' \subseteq Counted
  BY DEF ReservationLapses, GenInv, GenTypeOK, Counted
<1>2. /\ genUsed' = genUsed /\ genUsed \in [reserved : Nat, beyond : Nat]
      /\ genUsed.reserved <= genUsed.reserved
  BY DEF ReservationLapses, GenInv, GenTypeOK
<1> QED BY <1>1, <1>2, RowsStep DEF ReservationLapses

\* A new month has nothing used and nothing reserved.
LEMMA MonthStep == ASSUME GenInv, MonthTurns PROVE GenInv'
<1>1. /\ genRow' \in [Requests -> {"none", "counted", "lapsed", "lastMonth"}]
      /\ Counted' \subseteq Counted
  BY DEF MonthTurns, GenInv, GenTypeOK, Counted
<1>2. /\ genUsed' \in [reserved : Nat, beyond : Nat] /\ genUsed'.reserved <= genUsed.reserved
  BY DEF MonthTurns, GenInv, GenTypeOK
<1> QED BY <1>1, <1>2, RowsStep DEF MonthTurns

\* Every step keeps what holds of the requests and items.
LEMMA GenNextInv == GenInv /\ [GenNext]_genVars => GenInv'
<1> SUFFICES ASSUME GenInv, [GenNext]_genVars PROVE GenInv'
  OBVIOUS
<1>1. ASSUME NEW r \in Writers, ReadProduct(r) \/ ReadFacts(r) PROVE GenInv'
  BY <1>1, ReadProductStep, ReadFactsStep
<1>2. ASSUME NEW r \in Requests,
             \/ BeginBrandAutofill(r) \/ ReserveUsage(r) \/ SimulatedAnswer(r) \/ SettleUsage(r)
             \/ CallFails(r) \/ WriteRefused(r) \/ ProcessDies(r) \/ ReservationLapses(r)
      PROVE  GenInv'
  BY <1>2, BeginBrandStep, ReserveStep, SimulatedStep, SettleStep, CallFailsStep, WriteRefusedStep,
     ProcessDiesStep, LapsesStep
<1>3. ASSUME NEW r \in Writers, NEW i \in Drafts,
             ReadItem(r, i) \/ GenerateContentPlan(r, i) \/ WriteVariant(r, i)
      PROVE  GenInv'
  BY <1>3, ReadItemStep, GeneratePlanStep, WriteVariantStep
<1>4. ASSUME NEW i \in Drafts, CreateManualContent(i) \/ EditByHand(i) PROVE GenInv'
  BY <1>4, CreateManualStep, EditByHandStep
<1>5. ASSUME NEW s \in Strategies, CreateSocialStrategyDraft(s) \/ ConfirmSocialStrategy(s)
      PROVE  GenInv'
  BY <1>5, DraftedStep, ConfirmedStep
<1>6. CASE ProductFactsChange \/ MonthTurns
  BY <1>6, FactsStep, MonthStep
<1>7. CASE ClientModeChanges
  <2>1. /\ genMode' \in {"DRAFT", "LIVE"} /\ UNCHANGED genStrategy
        /\ genStrategy \in [Strategies -> StrategyRows]
    BY <1>7 DEF ClientModeChanges, GenInv, GenTypeOK
  <2> QED BY <1>7, <2>1, StrategiesStep DEF ClientModeChanges
<1>8. CASE UNCHANGED genVars
  BY <1>8 DEF genVars, GenInv, GenTypeOK, QuotaInv, LimitKept, NoReservationLeaks, Counted, ReadsInv,
              StrategyInv, WithStatus
<1> QED BY <1>1, <1>2, <1>3, <1>4, <1>5, <1>6, <1>7, <1>8 DEF GenNext

-----------------------------------------------------------------------------
(* Content generation: theorems *)

\* What the requests have read and reserved stays true until they use it.
THEOREM GenerationInvariant == GenSpec => []GenInv
<1> QED BY GenInitInv, GenNextInv, PTL DEF GenSpec

\* However many requests there are and whatever dies, lapses or turns between their steps, the
\* month's limit is never given out twice, and nobody holds a part of it for nothing.
THEOREM QuotaIsKept == GenSpec => []UsageWithinLimit
<1>1. GenInv => UsageWithinLimit
  BY DEF GenInv, QuotaInv, UsageWithinLimit
<1> QED BY <1>1, GenerationInvariant, PTL

\* Content is labelled with the facts its first text was written from, and what has a current
\* label was written from these facts in all its versions.
THEOREM LabelsAreTrue == GenSpec => []LabelsTellTheTruth
<1>1. GenInv => LabelsTellTheTruth
  <2> SUFFICES ASSUME GenInv, NEW i \in Drafts, CurrentVersion(i) # 0
               PROVE  /\ genItem[i].texts[1] = genItem[i].label
                      /\ genItem[i].label = genFacts =>
                           \A v \in 1..CurrentVersion(i) : genItem[i].texts[v] = genFacts
    BY DEF LabelsTellTheTruth
  <2>1. DraftInv(genItem[i], genFacts) /\ genItem[i].texts \in Seq(Nat) /\ genFacts \in Nat
    BY DEF GenInv, ReadsInv, GenTypeOK, DraftRows
  <2>2. genItem[i].texts # <<>>
    BY <2>1 DEF CurrentVersion
  <2>3. \A v \in 1..CurrentVersion(i) : genItem[i].texts[v] \in Nat
    BY <2>1 DEF CurrentVersion
  <2> QED BY <2>1, <2>2, <2>3 DEF DraftInv, CurrentVersion
<1> QED BY <1>1, GenerationInvariant, PTL

\* A request writes for a LIVE client only under a strategy that a person has confirmed.
LEMMA RequestsWriteConfirmed ==
  ASSUME GenInv, [GenNext]_genVars, NEW r \in Requests, NEW i \in Drafts,
         genCall'[r] # genCall[r], genItem'[i].texts # genItem[i].texts, genMode' = "LIVE"
  PROVE  genItem'[i].strategy # NoStrategy /\ genStrategy'[genItem'[i].strategy].confirmed
<1>1. PICK q \in Writers, k \in Drafts : GenerateContentPlan(q, k) \/ WriteVariant(q, k)
  <2>1. genItem' # genItem /\ genCall' # genCall
    OBVIOUS
  <2>2. \A q \in Writers : ~ReadProduct(q) /\ ~ReadFacts(q) /\ \A k \in Drafts : ~ReadItem(q, k)
    BY <2>1 DEF ReadProduct, ReadFacts, ReadItem
  <2>3. \A q \in Requests :
          /\ ~BeginBrandAutofill(q) /\ ~ReserveUsage(q) /\ ~SimulatedAnswer(q) /\ ~SettleUsage(q)
          /\ ~CallFails(q) /\ ~WriteRefused(q) /\ ~ProcessDies(q) /\ ~ReservationLapses(q)
    BY <2>1 DEF BeginBrandAutofill, ReserveUsage, SimulatedAnswer, SettleUsage, CallFails,
                WriteRefused, ProcessDies, ReservationLapses
  <2>4. \A k \in Drafts : ~CreateManualContent(k) /\ ~EditByHand(k)
    BY <2>1 DEF CreateManualContent, EditByHand
  <2>5. \A s \in Strategies : ~CreateSocialStrategyDraft(s) /\ ~ConfirmSocialStrategy(s)
    BY <2>1 DEF CreateSocialStrategyDraft, ConfirmSocialStrategy
  <2>6. ~ProductFactsChange /\ ~ClientModeChanges /\ ~MonthTurns /\ ~UNCHANGED genVars
    BY <2>1 DEF ProductFactsChange, ClientModeChanges, MonthTurns, genVars
  <2> QED BY <2>2, <2>3, <2>4, <2>5, <2>6 DEF GenNext
<1>2. /\ q \in Requests /\ genCall[q] \in CallRows /\ CallInv(genCall[q], genFacts, genItem)
      /\ genItem \in [Drafts -> DraftRows]
      /\ UNCHANGED <<genMode, genStrategy>> /\ genMode = "LIVE"
  BY <1>1, GenerationAssumption
  DEF GenerationAssumption, GenInv, GenTypeOK, ReadsInv, GenerateContentPlan, WriteVariant
<1>3. i = k
  BY <1>1, <1>2 DEF GenerateContentPlan, WriteVariant
<1>4. CASE GenerateContentPlan(q, k)
  <2>1. <<genCall[q].strategy, genCall[q].standing>> \in SelectStrategyForGeneration
    BY <1>4 DEF GenerateContentPlan, PlanStillHolds
  <2>2. genCall[q].strategy # NoStrategy /\ genStrategy[genCall[q].strategy].confirmed
    BY <2>1, <1>2, StrategiesOffered
  <2>3. genItem'[k].strategy = genCall[q].strategy
    BY <1>2, <1>4 DEF GenerateContentPlan
  <2> QED BY <1>2, <1>3, <2>2, <2>3
<1>5. CASE WriteVariant(q, k)
  <2>1. /\ genItem'[k].strategy = genItem[k].strategy
        /\ genCall[q].mode = "LIVE" /\ genItem[k].strategy = genCall[q].strategy
        /\ genCall[q].strategy # NoStrategy => genStrategy[genCall[q].strategy].confirmed
    BY <1>2, <1>5 DEF WriteVariant, VariantStillHolds
  <2>2. genCall[q].strategy # NoStrategy
    BY <1>2, <1>5, <2>1 DEF WriteVariant, CallInv, Informed
  <2> QED BY <1>2, <1>3, <2>1, <2>2
<1> QED BY <1>1, <1>4, <1>5

\* The same of all requests, whatever strategies and mode become while the model is at work.
THEOREM LiveIsConfirmed == GenSpec => LiveContentIsConfirmed
<1> DEFINE Confirmed == \A r \in Requests, i \in Drafts :
             genCall'[r] # genCall[r] /\ genItem'[i].texts # genItem[i].texts /\ genMode' = "LIVE" =>
               genItem'[i].strategy # NoStrategy /\ genStrategy'[genItem'[i].strategy].confirmed
<1>1. GenInv /\ [GenNext]_genVars => [Confirmed]_genVars
  BY RequestsWriteConfirmed
<1>2. GenSpec => [][Confirmed]_genVars
  BY <1>1, GenerationInvariant, PTL DEF GenSpec
<1> QED BY <1>2 DEF LiveContentIsConfirmed

-----------------------------------------------------------------------------
(* Times: days, clocks and the conversion *)

LEMMA DayOrMore ==
  \A k \in Int : (k >= 1 => k * DayQuarters >= DayQuarters) /\ (k <= -1 => k * DayQuarters <= -DayQuarters)
BY QueuesAssumption, SMTT(20)

\* A local time is a day and what the clock shows on it.
LEMMA DayAndClock ==
  \A l \in Int : /\ dayOf(l) \in Int /\ clockOf(l) \in 0 .. DayQuarters - 1
                 /\ l = dayOf(l) * DayQuarters + clockOf(l)
<1>1. DayQuarters \in Nat \ {0}
  BY QueuesAssumption
<1> QED BY <1>1, SMTT(20) DEF dayOf, clockOf

\* And of one day and clock only.
LEMMA SplitOnce ==
  ASSUME NEW d \in Int, NEW c \in 0 .. DayQuarters - 1
  PROVE  /\ d * DayQuarters + c \in Int
         /\ dayOf(d * DayQuarters + c) = d /\ clockOf(d * DayQuarters + c) = c
<1> DEFINE l == d * DayQuarters + c
           e == dayOf(l)
           f == clockOf(l)
<1>1. DayQuarters \in Int /\ c \in Int /\ c < DayQuarters /\ 0 <= c
  BY QueuesAssumption
<1>2. l \in Int /\ d * DayQuarters \in Int
  BY <1>1
<1>3. e \in Int /\ f \in 0 .. DayQuarters - 1 /\ l = e * DayQuarters + f
  BY <1>2, DayAndClock
<1> HIDE DEF e, f
<1>4. (d - e) * DayQuarters = d * DayQuarters - e * DayQuarters /\ e * DayQuarters \in Int
  BY <1>1, <1>3, SMTT(20)
<1>5. (d - e) * DayQuarters = f - c
  BY <1>1, <1>2, <1>3, <1>4
<1>6. ~(d - e >= 1) /\ ~(d - e <= -1)
  BY <1>1, <1>3, <1>5, DayOrMore
<1>7. d = e
  BY <1>3, <1>6
<1>8. f = c
  BY <1>1, <1>2, <1>3, <1>7
<1> QED BY <1>2, <1>7, <1>8 DEF e, f

\* A later day is at least a day's length later; and an earlier time is on no later day.
LEMMA DaysInOrder ==
  /\ \A d, e \in Int : d <= e => d * DayQuarters <= e * DayQuarters
  /\ \A l, m \in Int : l <= m => dayOf(l) <= dayOf(m)
<1> DEFINE D == DayQuarters
<1>1. D \in Int /\ D > 0
  BY QueuesAssumption
<1> HIDE DEF D
<1>2. ASSUME NEW d \in Int, NEW e \in Int, d < e PROVE d * D + D <= e * D
  <2>1. (e - d) * D = e * D - d * D /\ {d * D, e * D} \subseteq Int
    BY <1>1, SMTT(20)
  <2>2. (e - d) * D >= D
    BY <1>2, DayOrMore DEF D
  <2> QED BY <1>1, <2>1, <2>2
<1>3. \A d, e \in Int : d <= e => d * D <= e * D
  <2> SUFFICES ASSUME NEW d \in Int, NEW e \in Int, d <= e PROVE d * D <= e * D
    OBVIOUS
  <2>1. d * D \in Int /\ e * D \in Int
    BY <1>1
  <2>2. CASE d < e
    BY <1>1, <1>2, <2>1, <2>2
  <2>3. CASE d = e
    BY <2>1, <2>3
  <2> QED BY <2>2, <2>3
<1>4. ASSUME NEW l \in Int, NEW m \in Int, l <= m PROVE dayOf(l) <= dayOf(m)
  <2> SUFFICES ASSUME dayOf(m) < dayOf(l) PROVE FALSE
    BY DayAndClock
  <2>1. /\ l = dayOf(l) * D + clockOf(l) /\ clockOf(l) \in 0 .. D - 1 /\ dayOf(l) \in Int
        /\ m = dayOf(m) * D + clockOf(m) /\ clockOf(m) \in 0 .. D - 1 /\ dayOf(m) \in Int
    BY DayAndClock DEF D
  <2>2. dayOf(m) * D + D <= dayOf(l) * D
    BY <1>2, <2>1
  <2>3. dayOf(m) * D \in Int /\ dayOf(l) * D \in Int
    BY <1>1, <2>1
  <2> QED BY <1>1, <1>4, <2>1, <2>2, <2>3
<1> QED BY <1>3, <1>4 DEF D

LEMMA PartsAreInt ==
  ASSUME NEW zone \in TimZones, NEW t \in Int PROVE partsInZone(t, zone) \in Int
BY ZonesAssumption DEF partsInZone

\* zonedLocalDateTimeToUtc: three corrections and the look around find the instant at which a
\* clock in the zone shows a local time whenever there is just one, and otherwise find nothing.
THEOREM ConversionIsExact ==
  ASSUME NEW zone \in TimZones, NEW local \in Int, NEW t
  PROVE  t \in zonedLocalDateTimeToUtc(local, zone) <=> Once(local, zone, t)
<1> DEFINE b == zone.before
           a == zone.after
           u == Candidate(local, zone)
<1>1. b \in Int /\ a \in Int /\ zone.at \in Int /\ ScanReach \in Int /\ b - a \in -ScanReach .. ScanReach
  BY ZonesAssumption
<1>2. u \in {local - b, local - a} /\ u \in Int
  BY <1>1 DEF Candidate, partsInZone
<1>3. \A v : v \in Showing(local, zone) <=> \/ v = local - b /\ v < zone.at
                                            \/ v = local - a /\ ~(v < zone.at)
  BY <1>1 DEF Showing, partsInZone
<1>4. ASSUME t \in zonedLocalDateTimeToUtc(local, zone) PROVE Once(local, zone, t)
  <2>1. /\ t = u /\ partsInZone(u, zone) = local
        /\ {v \in u - ScanReach .. u + ScanReach : partsInZone(v, zone) = local} = {u}
    BY <1>4 DEF zonedLocalDateTimeToUtc
  <2>2. \A v \in Showing(local, zone) :
          v \in u - ScanReach .. u + ScanReach /\ partsInZone(v, zone) = local
    BY <1>1, <1>2, <1>3 DEF Showing
  <2>3. u \in Showing(local, zone)
    BY <1>1, <1>2, <2>1 DEF Showing
  <2> QED BY <2>1, <2>2, <2>3 DEF Once
<1>5. ASSUME Once(local, zone, t) PROVE t \in zonedLocalDateTimeToUtc(local, zone)
  <2>1. \A v : v \in Showing(local, zone) <=> v = t
    BY <1>5 DEF Once
  <2>2. t \in Int /\ partsInZone(t, zone) = local
    BY <1>1, <2>1 DEF Showing
  <2> DEFINE c(x) == IF x < zone.at THEN local - b ELSE local - a
  <2>3. \A x \in Int : x - (partsInZone(x, zone) - local) = c(x) /\ c(x) \in Int
    BY <1>1 DEF partsInZone
  <2>4. u = c(c(c(local)))
    BY <2>3 DEF Candidate
  <2>5. u = t
    <3>1. CASE t = local - b /\ t < zone.at
      <4>1. local - a < zone.at \/ local - a = t
        BY <1>1, <1>3, <2>1
      <4>2. \A x \in Int : c(c(x)) = t
        BY <1>1, <3>1, <4>1
      <4> QED BY <2>3, <2>4, <4>2
    <3>2. CASE t = local - a /\ ~(t < zone.at)
      <4>1. ~(local - b < zone.at) \/ local - b = t
        BY <1>1, <1>3, <2>1
      <4>2. \A x \in Int : c(c(x)) = t
        BY <1>1, <3>2, <4>1
      <4> QED BY <2>3, <2>4, <4>2
    <3> QED BY <1>3, <2>1, <3>1, <3>2
  <2>6. \A v \in t - ScanReach .. t + ScanReach : partsInZone(v, zone) = local => v = t
    BY <1>1, <1>3, <2>1, <2>2 DEF partsInZone
  <2>7. {v \in t - ScanReach .. t + ScanReach : partsInZone(v, zone) = local} = {t}
    BY <1>1, <2>2, <2>6
  <2> QED BY <2>2, <2>5, <2>7 DEF zonedLocalDateTimeToUtc
<1> QED BY <1>4, <1>5

\* For any rules of a queue, its zone and now.
LEMMA OccurrencesOfSlots ==
  ASSUME NEW queue \in [zone : TimZones, slots : QueueRules], NEW now \in Nat
  PROVE  LET today == dayOf(partsInZone(now, queue.zone))
             local(t) == partsInZone(t, queue.zone)
             isSlot(t) == \E s \in queue.slots : /\ s.dayOfWeek = dayOf(local(t)) % WeekDays
                                                 /\ s.clock = clockOf(local(t))
         IN  queueOccurrences(queue, now) =
               {t \in now + 1 .. now + (Horizon + 1) * DayQuarters + ScanReach :
                  isSlot(t) /\ Once(local(t), queue.zone, t) /\ dayOf(local(t)) <= today + Horizon}
<1> DEFINE today == dayOf(partsInZone(now, queue.zone))
           local(t) == partsInZone(t, queue.zone)
           isSlot(t) == \E s \in queue.slots :
                          s.dayOfWeek = dayOf(local(t)) % WeekDays /\ s.clock = clockOf(local(t))
           end == now + (Horizon + 1) * DayQuarters + ScanReach
           ofDay(d) == {d * DayQuarters + s.clock : s \in {r \in queue.slots : r.dayOfWeek = d % WeekDays}}
           offered == UNION {ofDay(d) : d \in today .. today + Horizon}
<1>1. /\ queue.zone \in TimZones /\ Horizon \in Nat /\ ScanReach \in Nat /\ DayQuarters \in Nat \ {0}
      /\ queue.slots \subseteq [dayOfWeek : 0 .. WeekDays - 1, clock : 0 .. DayQuarters - 1]
  BY QueuesAssumption, ZonesAssumption
<1>2. today \in Int /\ end \in Int /\ \A t \in Int : local(t) \in Int /\ dayOf(local(t)) \in Int
  BY <1>1, PartsAreInt, DayAndClock
<1>3. queueOccurrences(queue, now) =
        {t \in UNION {zonedLocalDateTimeToUtc(l, queue.zone) : l \in offered} : t > now}
  BY DEF queueOccurrences
<1>4. \A l \in offered : l \in Int
  BY SMTT(40), <1>1, <1>2, SplitOnce
<1>5. \A t : t \in queueOccurrences(queue, now) <=>
               /\ \E l \in offered : Once(l, queue.zone, t)
               /\ t > now
  BY <1>1, <1>3, <1>4, ConversionIsExact
<1>6. \A l, t : Once(l, queue.zone, t) => local(t) = l
  BY DEF Once, Showing
<1>7. \A l \in Int : \A t : Once(l, queue.zone, t) => t \in Int
  BY <1>1, ZonesAssumption DEF Once, Showing
<1>8. ASSUME NEW t \in Int
      PROVE  local(t) \in offered <=> isSlot(t) /\ dayOf(local(t)) \in today .. today + Horizon
  <2> DEFINE l == local(t)
  <2>1. l \in Int /\ dayOf(l) \in Int /\ clockOf(l) \in 0 .. DayQuarters - 1
        /\ l = dayOf(l) * DayQuarters + clockOf(l)
    BY <1>2, DayAndClock
  <2>2. ASSUME l \in offered PROVE isSlot(t) /\ dayOf(l) \in today .. today + Horizon
    <3>1. PICK d \in today .. today + Horizon : l \in ofDay(d)
      BY <2>2
    <3>2. PICK s \in queue.slots : s.dayOfWeek = d % WeekDays /\ l = d * DayQuarters + s.clock
      BY <3>1
    <3>3. d \in Int /\ s.clock \in 0 .. DayQuarters - 1
      BY <1>1, <1>2
    <3>4. dayOf(l) = d /\ clockOf(l) = s.clock
      BY <3>2, <3>3, SplitOnce
    <3> QED BY <3>2, <3>4
  <2>3. ASSUME isSlot(t), dayOf(l) \in today .. today + Horizon PROVE l \in offered
    <3>1. PICK s \in queue.slots : s.dayOfWeek = dayOf(l) % WeekDays /\ s.clock = clockOf(l)
      BY <2>3
    <3>2. l \in ofDay(dayOf(l))
      BY <2>1, <3>1
    <3> QED BY <2>3, <3>2
  <2> QED BY <2>2, <2>3
<1>9. ASSUME NEW t \in Int, t > now, Once(local(t), queue.zone, t) PROVE dayOf(local(t)) >= today
  <2>1. /\ queue.zone.before \in Int /\ queue.zone.after \in Int /\ queue.zone.at \in Int
        /\ \A v : v \in Showing(local(t), queue.zone) <=> v = t
    BY <1>1, <1>9, ZonesAssumption DEF Once
  <2>2. local(t) >= local(now)
    <3>1. CASE t < queue.zone.at \/ ~(now < queue.zone.at)
      BY <1>9, <2>1, <3>1 DEF partsInZone
    <3>2. CASE ~(t < queue.zone.at) /\ now < queue.zone.at
      <4> SUFFICES ASSUME local(t) < local(now) PROVE FALSE
        BY <1>2
      <4>1. local(t) = t + queue.zone.after /\ local(now) = now + queue.zone.before
        BY <3>2 DEF partsInZone
      <4> DEFINE v == local(t) - queue.zone.before
      <4>2. v \in Int /\ v < now /\ v < queue.zone.at
        BY <1>9, <2>1, <3>2, <4>1
      <4>3. v \in Showing(local(t), queue.zone)
        BY <2>1, <4>2 DEF Showing, partsInZone
      <4> QED BY <1>9, <2>1, <4>2, <4>3
    <3> QED BY <3>1, <3>2
  <2> QED BY <1>2, <2>2, DaysInOrder
<1>10. ASSUME NEW t \in Int, dayOf(local(t)) <= today + Horizon PROVE t <= end
  <2> DEFINE D == DayQuarters
             e == dayOf(local(t))
  <2>1. /\ local(t) = e * D + clockOf(local(t)) /\ clockOf(local(t)) \in 0 .. D - 1
        /\ local(now) = today * D + clockOf(local(now)) /\ clockOf(local(now)) \in 0 .. D - 1
        /\ e \in Int /\ local(t) \in Int /\ local(now) \in Int
    BY <1>2, DayAndClock
  <2>2. t <= now \/ t - now <= local(t) - local(now) + ScanReach
    <3>1. queue.zone.before \in Int /\ queue.zone.after \in Int /\ queue.zone.at \in Int
          /\ queue.zone.before - queue.zone.after \in -ScanReach .. ScanReach
      BY <1>1, ZonesAssumption
    <3> QED BY <1>1, <3>1 DEF partsInZone
  <2>3. e * D <= (today + Horizon) * D
    BY <1>1, <1>2, <1>10, <2>1, DaysInOrder
  <2>4. (today + Horizon) * D = today * D + Horizon * D /\ (Horizon + 1) * D = Horizon * D + D
        /\ {e * D, today * D, Horizon * D} \subseteq Int
    BY <1>1, <1>2, <2>1, SMTT(20)
  <2>5. local(t) - local(now) <= Horizon * D + D
    BY <1>1, <2>1, <2>3, <2>4
  <2> QED BY <1>1, <1>2, <2>1, <2>2, <2>4, <2>5
<1> HIDE DEF today, local, isSlot, end, ofDay, offered
<1>11. \A t : t \in queueOccurrences(queue, now) <=>
               /\ t \in now + 1 .. end
               /\ isSlot(t) /\ Once(local(t), queue.zone, t) /\ dayOf(local(t)) <= today + Horizon
  <2>1. \A t : t \in queueOccurrences(queue, now) <=>
               t \in Int /\ t > now /\ local(t) \in offered /\ Once(local(t), queue.zone, t)
    BY <1>4, <1>5, <1>6, <1>7
  <2> QED BY <2>1, <1>2, <1>8, <1>9, <1>10
<1> QED BY <1>2, <1>11 DEF today, local, isSlot, end

-----------------------------------------------------------------------------
(* Times: invariant *)

Forms == {NoForm} \cup [kind : {"page"}, zone : TimZones, at : Int, planned : BOOLEAN]
                  \cup [kind : {"queue"}, zone : TimZones, slots : QueueRules]

Plans == [at : Int, given : {"nothing", "instant"}]
           \cup [at : Int, given : {"plan", "report"}, local : Int, zone : TimZones]

\* A time that was given as a local one is the instant it names; zones come from the settings, and
\* what a form or a queue has of one, from there.
TimInv ==
  /\ timNow \in Nat /\ timZone \in TimZones
  /\ timForm \in Forms
  /\ timQueue # NoQueue => timQueue \in [zone : TimZones, slots : QueueRules]
  /\ timPlan \in Plans
  /\ PlannedAsGiven

LEMMA TimInitInv == TimInit => TimInv
<1> SUFFICES ASSUME TimInit PROVE TimInv
  OBVIOUS
<1>1. NoForm \in Forms /\ Unplanned \in Plans /\ Unplanned.given = "nothing"
  BY DEF Forms, Plans, Unplanned
<1> QED BY <1>1 DEF TimInit, TimInv, PlannedAsGiven

LEMMA LocalsAreInt == \A l \in Locals : l \in Int
<1>1. TimEnd \in Int
  BY QueuesAssumption DEF TimEnd
<1> QED BY <1>1, PartsAreInt DEF Locals

\* Whoever gives a local time plans for the instant at which a clock in the zone they saw shows it.
LEMMA GivenStep ==
  ASSUME TimInv, NEW how \in {"plan", "report"}, NEW local \in Int, NEW zone, NEW allowed,
         Given(how, local, zone, allowed)
  PROVE  timPlan' \in Plans /\ PlannedAsGiven'
<1>1. PICK t \in zonedLocalDateTimeToUtc(local, timZone) :
        timPlan' = [at |-> t, given |-> how, local |-> local, zone |-> zone]
  BY DEF Given
<1>2. zone = timZone /\ timZone \in TimZones
  BY DEF Given, TimezoneMatches, TimInv
<1>3. Once(local, zone, t)
  BY <1>1, <1>2, ConversionIsExact
<1>4. t \in Int
  BY <1>2, <1>3, ZonesAssumption DEF Once, Showing
<1>5. timPlan' \in Plans
  BY <1>1, <1>2, <1>4 DEF Plans
<1>6. timPlan'.local = local /\ timPlan'.zone = zone /\ timPlan'.at = t
  BY <1>1
<1> QED BY <1>3, <1>5, <1>6 DEF PlannedAsGiven

\* Forms and queues take their zone from what was shown, plans from the conversion.
LEMMA TimNextInv == TimInv /\ [TimNext]_timVars => TimInv'
<1> SUFFICES ASSUME TimInv, [TimNext]_timVars PROVE TimInv'
  OBVIOUS
<1>1. NoForm \in Forms
  BY DEF Forms
<1>2. ASSUME NEW z \in TimZones, SaveTimezone(z) PROVE TimInv'
  BY <1>2 DEF SaveTimezone, TimInv, PlannedAsGiven
<1>3. CASE OpenPage
  <2>1. timPlan.at \in Int /\ (timPlan # Unplanned) \in BOOLEAN
    BY DEF TimInv, Plans
  <2>2. timForm' \in Forms
    BY <1>3, <2>1 DEF OpenPage, TimInv, Forms
  <2> QED BY <1>3, <2>2 DEF OpenPage, TimInv, PlannedAsGiven
<1>4. ASSUME NEW slots \in QueueRules, CheckQueue(slots) PROVE TimInv'
  <2>1. timForm' \in Forms
    BY <1>4 DEF CheckQueue, TimezoneMatches, TimInv, Forms
  <2> QED BY <1>4, <2>1 DEF CheckQueue, TimInv, PlannedAsGiven
<1>5. CASE SaveQueue
  <2>1. timForm \in [kind : {"queue"}, zone : TimZones, slots : QueueRules]
    BY <1>5 DEF SaveQueue, TimInv, Forms, NoForm
  <2>2. timQueue' \in [zone : TimZones, slots : QueueRules]
    BY <1>5, <2>1 DEF SaveQueue
  <2> QED BY <1>1, <1>5, <2>2 DEF SaveQueue, TimInv, PlannedAsGiven
<1>6. ASSUME NEW local \in Locals, SchedulePublication(local) \/ ReportPublishedAt(local) PROVE TimInv'
  <2>1. timPlan' \in Plans /\ PlannedAsGiven'
    BY <1>6, LocalsAreInt, GivenStep DEF SchedulePublication, PlanLocal, ReportPublishedAt
  <2> QED BY <1>1, <1>6, <2>1 DEF SchedulePublication, ReportPublishedAt, TimInv
<1>7. ASSUME NEW day \in {dayOf(l) : l \in Locals}, MoveOnBoard(day) PROVE TimInv'
  <2>1. day \in Int
    BY LocalsAreInt, DayAndClock
  <2>2. timForm \in [kind : {"page"}, zone : TimZones, at : Int, planned : BOOLEAN]
    BY <1>7 DEF MoveOnBoard, TimInv, Forms, NoForm
  <2>3. clockOf(partsInZone(timForm.at, timForm.zone)) \in 0 .. DayQuarters - 1
    BY <2>2, PartsAreInt, DayAndClock
  <2>4. day * DayQuarters + clockOf(partsInZone(timForm.at, timForm.zone)) \in Int
    BY <2>1, <2>3, SplitOnce
  <2>5. timPlan' \in Plans /\ PlannedAsGiven'
    BY <1>7, <2>4, GivenStep DEF MoveOnBoard, PlanLocal
  <2> QED BY <1>1, <1>7, <2>5 DEF MoveOnBoard, TimInv
<1>8. CASE assignContentToQueue
  <2>1. PICK after \in 0 .. TimLast : \E t \in queueOccurrences(timQueue, after) :
          PlanLocal(partsInZone(t, timQueue.zone), timQueue.zone)
    BY <1>8 DEF assignContentToQueue
  <2>2. PICK t \in queueOccurrences(timQueue, after) :
          PlanLocal(partsInZone(t, timQueue.zone), timQueue.zone)
    BY <2>1
  <2>3. timQueue \in [zone : TimZones, slots : QueueRules] /\ after \in Nat
    BY <1>8, QueuesAssumption DEF assignContentToQueue, TimInv
  <2>4. t \in Int
    <3>1. after + 1 \in Int /\ after + (Horizon + 1) * DayQuarters + ScanReach \in Int
      BY <2>3, QueuesAssumption, ZonesAssumption
    <3> QED BY <2>2, <2>3, <3>1, OccurrencesOfSlots
  <2>5. timPlan' \in Plans /\ PlannedAsGiven'
    BY <2>2, <2>3, <2>4, PartsAreInt, GivenStep DEF PlanLocal
  <2> QED BY <1>8, <2>5 DEF assignContentToQueue, TimInv
<1>9. ASSUME NEW t \in 0 .. TimEnd, bulkReschedule(t) PROVE TimInv'
  <2>1. t \in Int
    BY QueuesAssumption DEF TimEnd
  <2>2. timPlan' \in Plans /\ timPlan'.given = "instant"
    BY <1>9, <2>1 DEF bulkReschedule, Plans
  <2> QED BY <1>9, <2>2 DEF bulkReschedule, TimInv, PlannedAsGiven
<1>10. CASE PlanEnds
  <2>1. Unplanned \in Plans /\ Unplanned.given = "nothing"
    BY DEF Plans, Unplanned
  <2> QED BY <1>10, <2>1 DEF PlanEnds, TimInv, PlannedAsGiven
<1>11. CASE TimeTicks
  BY <1>11 DEF TimeTicks, TimInv, PlannedAsGiven
<1>12. CASE UNCHANGED timVars
  BY <1>12 DEF timVars, TimInv, PlannedAsGiven
<1> QED BY <1>2, <1>3, <1>4, <1>5, <1>6, <1>7, <1>8, <1>9, <1>10, <1>11, <1>12 DEF TimNext

\* For any zones, days, queues and horizons, whatever the owner changes while a form is open: what
\* is planned is planned as given, only a time that does not exist or comes twice is refused,
\* and a queue offers its slots and nothing else.
THEOREM TimesAreKept == TimSpec => []TimesMeanWhatTheySay
<1>1. TimInv => TimesMeanWhatTheySay
  <2> SUFFICES ASSUME TimInv PROVE TimesMeanWhatTheySay
    OBVIOUS
  <2>1. PlannedAsGiven
    BY DEF TimInv
  <2>2. NothingElseIsRefused
    BY LocalsAreInt, ConversionIsExact DEF NothingElseIsRefused, TimInv, Once
  <2>3. QueueOffersItsSlots
    BY OccurrencesOfSlots DEF QueueOffersItsSlots, TimInv
  <2> QED BY <2>1, <2>2, <2>3 DEF TimesMeanWhatTheySay
<1> QED BY <1>1, TimInitInv, TimNextInv, PTL DEF TimSpec
=============================================================================
