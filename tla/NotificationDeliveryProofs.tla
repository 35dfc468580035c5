--------------------- MODULE NotificationDeliveryProofs ---------------------
(***************************************************************************)
(* Proofs about NotificationDelivery, for any number of keys, channels,    *)
(* processes, events, claims and crashes.                                  *)
(***************************************************************************)
EXTENDS NotificationDelivery, SequenceTheorems, TLAPS

Live(p) == proc[p].pc \in SendPoints

\* The token of a row is that of its last claim; a settled row has none.
RowInv ==
  \A d \in Deliveries :
    /\ RowOf(d).token \in {NoToken, RowOf(d).attempts}
    /\ RowOf(d).fresh => RowOf(d).token # NoToken
    /\ RowOf(d).status # "PENDING" => RowOf(d).token = NoToken

\* A process that sends works on a row, under a token that was the row's.
SendInv ==
  \A p \in Processes : Live(p) =>
    /\ Delivery(p) \in Deliveries
    /\ proc[p].token \in 1..RowOf(Delivery(p)).attempts

\* Two processes that send one delivery have claimed it apart.
TokenInv ==
  \A p, q \in Processes :
    p # q /\ Live(p) /\ Live(q) /\ Delivery(p) = Delivery(q) => proc[p].token # proc[q].token

\* Who has read under the lock still holds it, and what was read is still so.
PlanInv ==
  \A p \in Processes : At(p, "planned") =>
    /\ lock[proc[p].key] = p
    /\ KeyIsFree(p)
    /\ \A c \in proc[p].plan : Cooled(proc[p].key, c, proc[p].now)

\* An event makes one row of a channel at most.
CountInv == \A k \in Keys, c \in Channels : Len(row[k][c]) <= note[k]

ReachInv ==
  \A p \in Processes : /\ proc[p].reached => proc[p].pc \in {"sending", "answered"}
                       /\ proc[p].now <= clock

Inv == /\ TypeOK /\ RowInv /\ SendInv /\ TokenInv /\ PlanInv /\ CountInv /\ ReachInv
       /\ CooldownKept

-----------------------------------------------------------------------------
(* Rows.                                                                   *)

LEMMA RowTyped ==
  ASSUME TypeOK, NEW k \in Keys, NEW c \in Channels
  PROVE  /\ row[k] \in [Channels -> Seq(RowTypes)]
         /\ row[k][c] \in Seq(RowTypes)
         /\ Len(row[k][c]) \in Nat
         /\ DOMAIN row[k][c] = 1..Len(row[k][c])
         /\ \A i \in 1..Len(row[k][c]) : row[k][c][i] \in RowTypes
BY DEF TypeOK

LEMMA DeliveryTyped ==
  ASSUME TypeOK, NEW d \in Deliveries
  PROVE  /\ d \in Ids /\ d[1] \in Keys /\ d[2] \in Channels
         /\ d[3] \in 1..Len(row[d[1]][d[2]])
         /\ RowOf(d) \in RowTypes
<1>1. d \in Ids /\ d[1] \in Keys /\ d[2] \in Channels /\ d[3] \in 1..MaxEvents /\ Exists(d)
  BY DEF Deliveries, Ids
<1>2. d[3] \in 1..Len(row[d[1]][d[2]])
  BY <1>1, RowTyped, BoundsAssumption DEF Exists
<1> QED  BY <1>1, <1>2, RowTyped DEF RowOf

LEMMA ProcTyped ==
  ASSUME TypeOK, NEW p \in Processes
  PROVE  /\ proc[p] \in ProcTypes
         /\ proc[p].mine \subseteq Deliveries
BY DEF TypeOK

\* What SetRow does: the row of d is r, the others are as they were.
LEMMA SetRowMeans ==
  ASSUME TypeOK, NEW d \in Deliveries, NEW r \in RowTypes, SetRow(d, r)
  PROVE  /\ row' \in [Keys -> [Channels -> Seq(RowTypes)]]
         /\ \A k \in Keys, c \in Channels : Len(row[k][c])' = Len(row[k][c])
         /\ Deliveries' = Deliveries
         /\ RowOf(d)' = r
         /\ \A e \in Deliveries : e # d => RowOf(e)' = RowOf(e)
         /\ \A k \in Keys, c \in Channels : \A i \in 1..Len(row[k][c]) :
              row[k][c][i]' = IF d = <<k, c, i>> THEN r ELSE row[k][c][i]
<1> DEFINE k0 == d[1]  c0 == d[2]  i0 == d[3]
           s == [row[k0][c0] EXCEPT ![i0] = r]
<1>1. /\ k0 \in Keys /\ c0 \in Channels /\ i0 \in 1..Len(row[k0][c0])
      /\ d = <<k0, c0, i0>>
  BY DeliveryTyped DEF Ids
<1>2. row[k0][c0] \in Seq(RowTypes)
  BY <1>1, RowTyped
<1>3. /\ s \in Seq(RowTypes)
      /\ Len(s) = Len(row[k0][c0])
      /\ \A i \in 1..Len(row[k0][c0]) : s[i] = IF i = i0 THEN r ELSE row[k0][c0][i]
  BY <1>1, <1>2, ExceptSeq
<1>4. row' = [row EXCEPT ![k0] = [@ EXCEPT ![c0] = s]]
  BY DEF SetRow
<1> HIDE DEF s
<1>5. row \in [Keys -> [Channels -> Seq(RowTypes)]]
  BY DEF TypeOK
<1>6. \A k \in Keys, c \in Channels :
        row'[k][c] = IF k = k0 /\ c = c0 THEN s ELSE row[k][c]
  BY <1>1, <1>4, <1>5
<1>7. row' \in [Keys -> [Channels -> Seq(RowTypes)]]
  BY <1>1, <1>3, <1>4, <1>5
<1>8. \A k \in Keys, c \in Channels : Len(row[k][c])' = Len(row[k][c])
  BY <1>3, <1>6
<1>9. Deliveries' = Deliveries
  BY <1>8 DEF Deliveries, Exists, Ids
<1>10. \A k \in Keys, c \in Channels : \A i \in 1..Len(row[k][c]) :
         row[k][c][i]' = IF d = <<k, c, i>> THEN r ELSE row[k][c][i]
  <2> SUFFICES ASSUME NEW k \in Keys, NEW c \in Channels, NEW i \in 1..Len(row[k][c])
               PROVE  row'[k][c][i] = IF d = <<k, c, i>> THEN r ELSE row[k][c][i]
    OBVIOUS
  <2>1. CASE k = k0 /\ c = c0
    BY <1>1, <1>3, <1>6, <2>1
  <2>2. CASE ~(k = k0 /\ c = c0)
    BY <1>1, <1>6, <2>2
  <2> QED  BY <2>1, <2>2
<1>11. RowOf(d)' = r
  BY <1>1, <1>10 DEF RowOf
<1>12. \A e \in Deliveries : e # d => RowOf(e)' = RowOf(e)
  <2> SUFFICES ASSUME NEW e \in Deliveries, e # d  PROVE  RowOf(e)' = RowOf(e)
    OBVIOUS
  <2>1. /\ e[1] \in Keys /\ e[2] \in Channels /\ e[3] \in 1..Len(row[e[1]][e[2]])
        /\ e = <<e[1], e[2], e[3]>>
    BY DeliveryTyped DEF Ids
  <2> QED  BY <1>10, <2>1 DEF RowOf
<1> QED  BY <1>7, <1>8, <1>9, <1>10, <1>11, <1>12

-----------------------------------------------------------------------------
(* Steps of one shape.                                                     *)

\* The cooldown of a key is read of the rows of the key only.
LEMMA SameCooled ==
  ASSUME TypeOK, NEW k \in Keys, NEW c \in Channels, NEW now,
         Len(row[k][c])' = Len(row[k][c]),
         \A i \in 1..Len(row[k][c]) : row[k][c][i]'.createdAt = row[k][c][i].createdAt,
         row' \in [Keys -> [Channels -> Seq(RowTypes)]],
         Cooled(k, c, now)
  PROVE  Cooled(k, c, now)'
<1>1. row[k][c] \in Seq(RowTypes) /\ row'[k][c] \in Seq(RowTypes)
  BY DEF TypeOK
<1>2. CASE row[k][c] = <<>>
  <2>1. Len(row'[k][c]) = 0
    BY <1>2
  <2>2. row'[k][c] = <<>>
    BY <1>1, <2>1, EmptySeq
  <2> QED  BY <2>2 DEF Cooled
<1>3. CASE row[k][c] # <<>>
  <2>1. Len(row[k][c]) \in 1..Len(row[k][c])
    BY <1>1, <1>3, EmptySeq
  <2>2. now - row[k][c][Len(row[k][c])].createdAt >= Cooldown
    BY <1>3 DEF Cooled
  <2> QED  BY <2>1, <2>2 DEF Cooled
<1> QED  BY <1>2, <1>3

\* What a process that is no longer planning may be after a step.
Settles(p) ==
  /\ proc'[p].pc # "planned"
  /\ proc'[p].mine \subseteq Deliveries
  /\ proc'[p].reached => proc'[p].pc \in {"sending", "answered"}
  /\ proc'[p].now <= clock'
  /\ proc'[p].pc \in SendPoints =>
       /\ proc'[p].delivery \in Deliveries
       /\ \A d \in Deliveries : d = proc'[p].delivery => proc'[p].token \in 1..RowOf(d)'.attempts
       /\ \A q \in Processes :
            q # p /\ Live(q) /\ Delivery(q) = proc'[p].delivery => proc[q].token # proc'[p].token

\* A step that makes no delivery: it changes one process and may mark rows.
LEMMA StepInv ==
  ASSUME Inv, NEW p,
         note' = note, events' \in [Keys -> 0..MaxEvents], received' \in [Ids -> Nat],
         crashes' \in 0..MaxCrashes, clock' \in 0..MaxTime, clock' >= clock,
         lock' \in [Keys -> Processes \cup {NoProcess}],
         \A q \in Processes : q # p /\ At(q, "planned") => lock'[proc[q].key] = q,
         proc' \in [Processes -> ProcTypes],
         \A q \in Processes : q # p => proc'[q] = proc[q],
         p \in Processes => \/ proc'[p] = proc[p] /\ lock' = lock
                            \/ Settles(p),
         row' \in [Keys -> [Channels -> Seq(RowTypes)]],
         Deliveries' = Deliveries,
         \A k \in Keys, c \in Channels : Len(row[k][c])' = Len(row[k][c]),
         \A k \in Keys, c \in Channels : \A i \in 1..Len(row[k][c]) :
           row[k][c][i]'.createdAt = row[k][c][i].createdAt,
         \A d \in Deliveries : RowOf(d)'.attempts >= RowOf(d).attempts,
         RowInv'
  PROVE  Inv'
<1>1. TypeOK /\ RowInv /\ SendInv /\ TokenInv /\ PlanInv /\ CountInv /\ ReachInv /\ CooldownKept
  BY DEF Inv
<1>2. \A q \in Processes : \/ proc'[q] = proc[q] /\ (q = p => lock' = lock)
                           \/ q = p /\ Settles(q)
  OBVIOUS
<1>3. \A q \in Processes : proc[q] \in ProcTypes /\ proc[q].mine \subseteq Deliveries
  BY <1>1, ProcTyped
<1>4. \A q \in Processes : proc'[q].mine \subseteq Deliveries
  BY <1>2, <1>3 DEF Settles
<1>5. TypeOK'
  BY <1>1, <1>4 DEF TypeOK
<1>6. \A d \in Deliveries : RowOf(d) \in RowTypes /\ RowOf(d)' \in RowTypes
  <2>1. \A d \in Deliveries : RowOf(d) \in RowTypes
    BY <1>1, DeliveryTyped
  <2>2. \A d \in Deliveries' : RowOf(d)' \in RowTypes
    <3> SUFFICES ASSUME NEW d \in Deliveries  PROVE  RowOf(d)' \in RowTypes
      OBVIOUS
    <3>1. d[1] \in Keys /\ d[2] \in Channels /\ d[3] \in 1..Len(row[d[1]][d[2]])
      BY <1>1, DeliveryTyped
    <3>2. d[3] \in 1..Len(row'[d[1]][d[2]])
      BY <3>1
    <3>3. row'[d[1]][d[2]] \in Seq(RowTypes)
      BY <3>1
    <3> QED  BY <3>2, <3>3 DEF RowOf
  <2> QED  BY <2>1, <2>2
<1>7. SendInv'
  <2> SUFFICES ASSUME NEW q \in Processes, Live(q)'
               PROVE  /\ proc'[q].delivery \in Deliveries
                      /\ \A d \in Deliveries : d = proc'[q].delivery =>
                           proc'[q].token \in 1..RowOf(d)'.attempts
    BY DEF SendInv, Delivery
  <2>1. CASE proc'[q] = proc[q]
    <3>1. Live(q)
      BY <2>1 DEF Live
    <3>2. Delivery(q) \in Deliveries /\ proc[q].token \in 1..RowOf(Delivery(q)).attempts
      BY <1>1, <3>1 DEF SendInv
    <3>3. /\ RowOf(Delivery(q)).attempts \in Nat
          /\ \A d \in Deliveries : d = Delivery(q) => /\ RowOf(d)'.attempts \in Nat
                                                      /\ RowOf(d)'.attempts >= RowOf(d).attempts
      BY <1>6, <3>2, BoundsAssumption DEF RowTypes
    <3> QED  BY <2>1, <3>2, <3>3 DEF Delivery
  <2>2. CASE q = p /\ Settles(q)
    BY <2>2 DEF Settles, Live
  <2> QED  BY <1>2, <2>1, <2>2
<1>8. TokenInv'
  <2> SUFFICES ASSUME NEW q \in Processes, NEW r \in Processes, q # r, Live(q)', Live(r)',
                      proc'[q].delivery = proc'[r].delivery
               PROVE  proc'[q].token # proc'[r].token
    BY DEF TokenInv, Delivery
  <2>1. CASE proc'[q] = proc[q] /\ proc'[r] = proc[r]
    BY <1>1, <2>1 DEF TokenInv, Live, Delivery
  <2>2. CASE q = p /\ Settles(q)
    <3>1. proc'[r] = proc[r]
      BY <2>2
    <3> QED  BY <2>2, <3>1 DEF Settles, Live, Delivery
  <2>3. CASE r = p /\ Settles(r)
    <3>1. proc'[q] = proc[q]
      BY <2>3
    <3> QED  BY <2>3, <3>1 DEF Settles, Live, Delivery
  <2> QED  BY <1>2, <2>1, <2>2, <2>3
<1>9. PlanInv'
  <2>1. \A k \in Keys, c \in Channels, n \in Nat : Cooled(k, c, n) => Cooled(k, c, n)'
    BY <1>1, SameCooled
  <2> SUFFICES ASSUME NEW q \in Processes, At(q, "planned")'
               PROVE  /\ (lock[proc[q].key] = q)'
                      /\ KeyIsFree(q)'
                      /\ (\A c \in proc[q].plan : Cooled(proc[q].key, c, proc[q].now))'
    BY DEF PlanInv
  <2>2. proc'[q] = proc[q] /\ (q = p => lock' = lock)
    BY <1>2 DEF Settles, At
  <2>3. /\ lock[proc[q].key] = q /\ KeyIsFree(q)
        /\ \A c \in proc[q].plan : Cooled(proc[q].key, c, proc[q].now)
    BY <1>1, <2>2 DEF PlanInv, At
  <2>4. (lock[proc[q].key] = q)'
    BY <2>2, <2>3 DEF At
  <2>5. KeyIsFree(q)'
    BY <2>2, <2>3 DEF KeyIsFree
  <2>6. proc[q].key \in Keys /\ proc[q].plan \subseteq Channels /\ proc[q].now \in Nat
    BY <1>3, BoundsAssumption DEF ProcTypes
  <2>7. (\A c \in proc[q].plan : Cooled(proc[q].key, c, proc[q].now))'
    BY ZenonT(40), <2>1, <2>2, <2>3, <2>6 DEF Cooled
  <2> QED  BY <2>4, <2>5, <2>7
<1>10. CountInv'
  BY <1>1 DEF CountInv
<1>11. ReachInv'
  <2> SUFFICES ASSUME NEW q \in Processes
               PROVE  /\ proc'[q].reached => proc'[q].pc \in {"sending", "answered"}
                      /\ proc'[q].now <= clock'
    BY DEF ReachInv
  <2>1. proc[q].now \in Nat /\ clock \in Nat /\ clock' \in Nat
    BY <1>1, <1>3, BoundsAssumption DEF TypeOK, ProcTypes
  <2>2. CASE proc'[q] = proc[q]
    BY <1>1, <2>1, <2>2 DEF ReachInv
  <2>3. CASE Settles(q)
    BY <2>3 DEF Settles
  <2> QED  BY <1>2, <2>2, <2>3
<1>12. CooldownKept'
  <2> SUFFICES ASSUME NEW k \in Keys, NEW c \in Channels,
                      NEW i \in DOMAIN row'[k][c], NEW j \in DOMAIN row'[k][c], i < j
               PROVE  row'[k][c][j].createdAt - row'[k][c][i].createdAt >= Cooldown
    BY DEF CooldownKept
  <2>1. row[k][c] \in Seq(RowTypes) /\ row'[k][c] \in Seq(RowTypes)
    BY <1>1 DEF TypeOK
  <2>2. i \in 1..Len(row[k][c]) /\ j \in 1..Len(row[k][c])
    BY <2>1
  <2>3. row[k][c][j].createdAt - row[k][c][i].createdAt >= Cooldown
    BY <1>1, <2>1, <2>2 DEF CooldownKept
  <2> QED  BY <2>2, <2>3
<1> QED  BY <1>5, <1>7, <1>8, <1>9, <1>10, <1>11, <1>12 DEF Inv

\* A step that leaves the rows as they are.
LEMMA ProcStepInv ==
  ASSUME Inv, NEW p \in Processes, NEW s \in ProcTypes,
         proc' = [proc EXCEPT ![p] = s],
         row' = row, note' = note, clock' = clock,
         events' \in [Keys -> 0..MaxEvents], received' \in [Ids -> Nat],
         crashes' \in 0..MaxCrashes,
         lock' \in [Keys -> Processes \cup {NoProcess}],
         \A q \in Processes : q # p /\ At(q, "planned") => lock'[proc[q].key] = q,
         s.pc # "planned", s.mine \subseteq Deliveries,
         s.reached => s.pc \in {"sending", "answered"}, s.now <= clock,
         s.pc \in SendPoints => Live(p) /\ s.delivery = Delivery(p) /\ s.token = proc[p].token
  PROVE  Inv'
<1>1. TypeOK /\ RowInv /\ SendInv /\ TokenInv
  BY DEF Inv
<1>2. proc' \in [Processes -> ProcTypes] /\ proc'[p] = s
  BY <1>1 DEF TypeOK
<1>3. \A q \in Processes : q # p => proc'[q] = proc[q]
  BY <1>1 DEF TypeOK
<1>4. Deliveries' = Deliveries /\ RowInv'
  BY <1>1 DEF Deliveries, Exists, RowInv, RowOf
<1>5. \A d \in Deliveries : RowOf(d)' = RowOf(d) /\ RowOf(d).attempts \in Nat
  BY <1>1, DeliveryTyped, BoundsAssumption DEF RowOf, RowTypes
<1>6. Settles(p)
  <2>1. s.pc \in SendPoints =>
          /\ s.delivery \in Deliveries
          /\ \A d \in Deliveries : d = s.delivery => s.token \in 1..RowOf(d)'.attempts
          /\ \A q \in Processes :
               q # p /\ Live(q) /\ Delivery(q) = s.delivery => proc[q].token # s.token
    BY <1>1, <1>5 DEF SendInv, TokenInv
  <2> QED  BY <1>2, <2>1 DEF Settles
<1>7. clock' \in 0..MaxTime /\ clock' >= clock
  BY <1>1, BoundsAssumption DEF TypeOK
<1>8. row' \in [Keys -> [Channels -> Seq(RowTypes)]]
  BY <1>1 DEF TypeOK
<1>9. \A d \in Deliveries : RowOf(d)'.attempts >= RowOf(d).attempts
  BY <1>5
<1> QED  BY SMTT(40), <1>2, <1>3, <1>4, <1>6, <1>7, <1>8, <1>9, StepInv

\* A step that writes one row, but neither its time of creation nor, downwards, its claims.
LEMMA RowStepInv ==
  ASSUME Inv, NEW p \in Processes, NEW d \in Deliveries, NEW r \in RowTypes, NEW s \in ProcTypes,
         SetRow(d, r), r.createdAt = RowOf(d).createdAt, r.attempts >= RowOf(d).attempts,
         r.token \in {NoToken, r.attempts}, r.fresh => r.token # NoToken,
         r.status # "PENDING" => r.token = NoToken,
         proc' = [proc EXCEPT ![p] = s],
         note' = note, clock' = clock, events' = events, received' = received,
         crashes' = crashes, lock' = lock,
         \/ s = proc[p]
         \/ /\ s.pc # "planned" /\ s.mine \subseteq Deliveries
            /\ s.reached => s.pc \in {"sending", "answered"}
            /\ s.now <= clock
            /\ s.pc \in SendPoints =>
                 \/ Live(p) /\ s.delivery = Delivery(p) /\ s.token = proc[p].token
                 \/ s.delivery = d /\ s.token = r.attempts /\ r.attempts > RowOf(d).attempts
  PROVE  Inv'
<1>1. TypeOK /\ RowInv /\ SendInv /\ TokenInv /\ PlanInv
  BY DEF Inv
<1>2. /\ proc' \in [Processes -> ProcTypes] /\ proc'[p] = s
      /\ \A q \in Processes : q # p => proc'[q] = proc[q]
  BY <1>1 DEF TypeOK
<1>3. /\ row' \in [Keys -> [Channels -> Seq(RowTypes)]]
      /\ \A k \in Keys, c \in Channels : Len(row[k][c])' = Len(row[k][c])
      /\ Deliveries' = Deliveries
      /\ RowOf(d)' = r
      /\ \A e \in Deliveries : e # d => RowOf(e)' = RowOf(e)
      /\ \A k \in Keys, c \in Channels : \A i \in 1..Len(row[k][c]) :
           row[k][c][i]' = IF d = <<k, c, i>> THEN r ELSE row[k][c][i]
  BY <1>1, SetRowMeans
<1>4. \A k \in Keys, c \in Channels : \A i \in 1..Len(row[k][c]) :
        row[k][c][i]'.createdAt = row[k][c][i].createdAt
  <2> SUFFICES ASSUME NEW k \in Keys, NEW c \in Channels, NEW i \in 1..Len(row[k][c])
               PROVE  row[k][c][i]'.createdAt = row[k][c][i].createdAt
    OBVIOUS
  <2>1. d = <<k, c, i>> => RowOf(d) = row[k][c][i]
    BY DEF RowOf
  <2> QED  BY <1>3, <2>1
<1>5. \A e \in Deliveries : RowOf(e) \in RowTypes /\ RowOf(e).attempts \in Nat
  BY <1>1, DeliveryTyped, BoundsAssumption DEF RowTypes
<1>6. \A e \in Deliveries : RowOf(e)'.attempts >= RowOf(e).attempts
  BY <1>3, <1>5
<1>7. RowInv'
  <2> SUFFICES ASSUME NEW e \in Deliveries
               PROVE  /\ RowOf(e)'.token \in {NoToken, RowOf(e)'.attempts}
                      /\ RowOf(e)'.fresh => RowOf(e)'.token # NoToken
                      /\ RowOf(e)'.status # "PENDING" => RowOf(e)'.token = NoToken
    BY <1>3 DEF RowInv, NoToken
  <2> QED  BY <1>1, <1>3 DEF RowInv
<1>8. \A q \in Processes : Live(q) => /\ Delivery(q) \in Deliveries
                                      /\ proc[q].token \in 1..RowOf(Delivery(q)).attempts
  BY <1>1 DEF SendInv
<1>9. s = proc[p] \/ Settles(p)
  <2> SUFFICES ASSUME s # proc[p]  PROVE  Settles(p)
    OBVIOUS
  <2>1. ASSUME s.pc \in SendPoints
        PROVE  /\ s.delivery \in Deliveries
               /\ \A e \in Deliveries : e = s.delivery => s.token \in 1..RowOf(e)'.attempts
               /\ \A q \in Processes :
                    q # p /\ Live(q) /\ Delivery(q) = s.delivery => proc[q].token # s.token
    <3>1. CASE Live(p) /\ s.delivery = Delivery(p) /\ s.token = proc[p].token
      <4>1. s.delivery \in Deliveries /\ s.token \in 1..RowOf(s.delivery).attempts
        BY <1>8, <3>1
      <4>2. \A e \in Deliveries : RowOf(e)'.attempts \in Int
        BY <1>3, <1>5, BoundsAssumption DEF RowTypes
      <4>3. \A e \in Deliveries : e = s.delivery => s.token \in 1..RowOf(e)'.attempts
        BY <1>5, <1>6, <4>1, <4>2
      <4> QED  BY <1>1, <3>1, <4>1, <4>3 DEF TokenInv
    <3>2. CASE s.delivery = d /\ s.token = r.attempts /\ r.attempts > RowOf(d).attempts
      <4>1. r.attempts \in Nat
        BY BoundsAssumption DEF RowTypes
      <4>2. r.attempts \in 1..r.attempts
        BY <1>5, <3>2, <4>1
      <4>3. \A q \in Processes : Live(q) /\ Delivery(q) = d => proc[q].token # r.attempts
        BY <1>5, <1>8, <3>2, <4>1
      <4> QED  BY <1>3, <3>2, <4>2, <4>3
    <3> QED  BY <2>1, <3>1, <3>2
  <2> QED  BY <1>2, <2>1 DEF Settles
<1>10. /\ \A q \in Processes : q # p /\ At(q, "planned") => lock'[proc[q].key] = q
       /\ clock' \in 0..MaxTime /\ clock' >= clock
       /\ lock' \in [Keys -> Processes \cup {NoProcess}]
       /\ events' \in [Keys -> 0..MaxEvents] /\ received' \in [Ids -> Nat]
       /\ crashes' \in 0..MaxCrashes
  BY <1>1, BoundsAssumption DEF TypeOK, PlanInv
<1> QED  BY <1>2, <1>3, <1>4, <1>6, <1>7, <1>9, <1>10, StepInv

-----------------------------------------------------------------------------
(* Preparing an event.                                                     *)

LEMMA RestTyped ==
  ASSUME NEW pc \in Points
  PROVE  /\ Rest(pc) \in ProcTypes
         /\ Rest(pc).pc = pc /\ Rest(pc).mine = {} /\ ~Rest(pc).reached /\ Rest(pc).now = 0
<1>1. (CHOOSE k \in Keys : TRUE) \in Keys
  BY ProcessAssumption
<1>2. \E k \in Keys, c \in Channels : <<k, c, 1>> \in Ids
  BY ProcessAssumption, BoundsAssumption DEF Ids
<1>3. (CHOOSE d \in Ids : TRUE) \in Ids
  BY <1>2
<1> QED  BY <1>1, <1>3, BoundsAssumption DEF Rest, ProcTypes, Outcomes, NoToken

LEMMA InitInv == Init => Inv
<1> SUFFICES ASSUME Init  PROVE  Inv
  OBVIOUS
<1>1. \A p \in Processes : /\ proc[p] = Rest("idle") /\ proc[p] \in ProcTypes
                           /\ proc[p].pc = "idle" /\ proc[p].mine = {}
                           /\ ~proc[p].reached /\ proc[p].now = 0
  BY RestTyped DEF Init, Points
<1>2. \A k \in Keys, c \in Channels : row[k][c] = <<>>
  BY DEF Init
<1>3. TypeOK
  <2>1. row \in [Keys -> [Channels -> Seq(RowTypes)]]
    BY EmptySeq DEF Init
  <2>2. proc \in [Processes -> ProcTypes]
    BY <1>1 DEF Init
  <2> QED  BY <1>1, <2>1, <2>2, BoundsAssumption DEF Init, TypeOK
<1>4. Deliveries = {}
  <2> SUFFICES ASSUME NEW d \in Ids, Exists(d)  PROVE  FALSE
    BY DEF Deliveries
  <2>1. d[1] \in Keys /\ d[2] \in Channels /\ d[3] \in 1..MaxEvents
    BY DEF Ids
  <2>2. Len(row[d[1]][d[2]]) = 0
    BY <1>2, <2>1, EmptySeq
  <2> QED  BY <2>1, <2>2, BoundsAssumption DEF Exists
<1>5. RowInv /\ SendInv /\ TokenInv /\ PlanInv
  BY <1>1, <1>4 DEF RowInv, SendInv, TokenInv, PlanInv, Live, SendPoints, At
<1>6. CountInv /\ ReachInv /\ CooldownKept
  BY <1>1, <1>2, BoundsAssumption DEF Init, CountInv, ReachInv, CooldownKept
<1> QED  BY <1>3, <1>5, <1>6 DEF Inv

LEMMA StartEventInv ==
  ASSUME Inv, NEW p \in Processes, NEW k \in Keys, StartEvent(p, k)
  PROVE  Inv'
<1> DEFINE s == [Rest("waiting") EXCEPT !.key = k, !.now = clock]
<1>1. TypeOK /\ PlanInv
  BY DEF Inv
<1>2. /\ s \in ProcTypes /\ s.pc = "waiting" /\ s.mine = {} /\ ~s.reached /\ s.now = clock
  <2>1. /\ Rest("waiting") \in ProcTypes
        /\ Rest("waiting").pc = "waiting" /\ Rest("waiting").mine = {} /\ ~Rest("waiting").reached
    BY RestTyped DEF Points
  <2>2. clock \in 0..MaxTime
    BY <1>1 DEF TypeOK
  <2> QED  BY <2>1, <2>2 DEF ProcTypes
<1>3. events' \in [Keys -> 0..MaxEvents]
  BY <1>1, BoundsAssumption DEF StartEvent, TypeOK
<1>4. proc' = [proc EXCEPT ![p] = s]
  BY DEF StartEvent
<1> HIDE DEF s
<1>5. s.now <= clock
  BY <1>1, <1>2, BoundsAssumption DEF TypeOK
<1> QED  BY <1>1, <1>2, <1>3, <1>4, <1>5, ProcStepInv DEF StartEvent, TypeOK, PlanInv, SendPoints

\* A process that releases the lock of its key, or none, and forgets what it planned.
LEMMA RestStepInv ==
  ASSUME Inv, NEW p \in Processes, NEW pc \in {"idle", "down"},
         proc' = [proc EXCEPT ![p] = Rest(pc)],
         row' = row, note' = note, clock' = clock, events' = events, received' = received,
         crashes' \in 0..MaxCrashes,
         lock' \in [Keys -> Processes \cup {NoProcess}],
         \A k \in Keys : lock'[k] = lock[k] \/ lock[k] = p
  PROVE  Inv'
<1>1. TypeOK /\ PlanInv
  BY DEF Inv
<1>2. /\ Rest(pc) \in ProcTypes /\ Rest(pc).pc = pc /\ Rest(pc).mine = {}
      /\ ~Rest(pc).reached /\ Rest(pc).now = 0
  BY RestTyped DEF Points
<1>3. \A q \in Processes : q # p /\ At(q, "planned") => lock'[proc[q].key] = q
  <2> SUFFICES ASSUME NEW q \in Processes, q # p, At(q, "planned")
               PROVE  lock'[proc[q].key] = q
    OBVIOUS
  <2>1. lock[proc[q].key] = q
    BY <1>1 DEF PlanInv
  <2>2. proc[q].key \in Keys
    BY <1>1, ProcTyped DEF ProcTypes
  <2> QED  BY <2>1, <2>2
<1>4. Rest(pc).now <= clock
  BY <1>1, <1>2, BoundsAssumption DEF TypeOK
<1>5. events' \in [Keys -> 0..MaxEvents] /\ received' \in [Ids -> Nat]
  BY <1>1 DEF TypeOK
<1> QED  BY <1>2, <1>3, <1>4, <1>5, ProcStepInv DEF SendPoints

LEMMA RollBackEventInv ==
  ASSUME Inv, NEW p \in Processes, RollBackEvent(p)
  PROVE  Inv'
<1>1. TypeOK /\ PlanInv
  BY DEF Inv
<1>2. lock[proc[p].key] = p
  BY <1>1 DEF RollBackEvent, PlanInv
<1>3. /\ lock' \in [Keys -> Processes \cup {NoProcess}]
      /\ \A k \in Keys : lock'[k] = lock[k] \/ lock[k] = p
  BY <1>1, <1>2 DEF RollBackEvent, TypeOK
<1> QED  BY <1>1, <1>3, RestStepInv DEF RollBackEvent, TypeOK

LEMMA CrashInv ==
  ASSUME Inv, NEW p \in Processes, Crash(p)
  PROVE  Inv'
<1>1. TypeOK
  BY DEF Inv
<1>2. /\ lock' \in [Keys -> Processes \cup {NoProcess}]
      /\ \A k \in Keys : lock'[k] = lock[k] \/ lock[k] = p
  BY <1>1 DEF Crash, TypeOK
<1>3. crashes' \in 0..MaxCrashes
  BY <1>1, BoundsAssumption DEF Crash, TypeOK
<1> QED  BY <1>2, <1>3, RestStepInv DEF Crash

LEMMA RestartInv ==
  ASSUME Inv, NEW p \in Processes, Restart(p) \/ DispatchEnds(p)
  PROVE  Inv'
<1>1. TypeOK
  BY DEF Inv
<1>2. proc' = [proc EXCEPT ![p] = Rest("idle")]
  BY DEF Restart, DispatchEnds
<1>3. UNCHANGED <<note, row, lock, clock, events, received, crashes>>
  BY DEF Restart, DispatchEnds
<1> QED  BY ZenonT(30), <1>1, <1>2, <1>3, RestStepInv DEF TypeOK

LEMMA PlanEventInv ==
  ASSUME Inv, NEW p \in Processes, PlanEvent(p)
  PROVE  Inv'
<1> DEFINE k == proc[p].key
<1>1. TypeOK /\ RowInv /\ SendInv /\ TokenInv /\ PlanInv /\ CountInv /\ ReachInv /\ CooldownKept
  BY DEF Inv
<1>2. PICK on \in SUBSET Channels :
        proc' = [proc EXCEPT ![p] =
                   [@ EXCEPT !.pc = "planned", !.new = note[k] = 0,
                             !.plan = {c \in on : Cooled(k, c, proc[p].now)}]]
  BY ZenonT(30) DEF PlanEvent
<1>3. proc[p] \in ProcTypes /\ k \in Keys
  BY <1>1, ProcTyped DEF ProcTypes
<1>4. /\ proc'[p] \in ProcTypes /\ proc'[p].pc = "planned"
      /\ proc'[p].key = k /\ proc'[p].now = proc[p].now /\ proc'[p].mine = proc[p].mine
      /\ proc'[p].reached = proc[p].reached
      /\ proc'[p].new = (note[k] = 0)
      /\ proc'[p].plan = {c \in on : Cooled(k, c, proc[p].now)}
      /\ \A q \in Processes : q # p => proc'[q] = proc[q]
      /\ DOMAIN proc' = Processes
      /\ proc' \in [Processes -> ProcTypes]
  BY ZenonT(60), <1>1, <1>2, <1>3 DEF TypeOK, ProcTypes, Points
<1>5. /\ LockFree(k) /\ At(p, "waiting") /\ lock' = [lock EXCEPT ![k] = p]
      /\ UNCHANGED <<note, row, clock, events, received, crashes>>
  BY DEF PlanEvent
<1>6. Deliveries' = Deliveries
  BY <1>5 DEF Deliveries, Exists
<1>7. \A q \in Processes : proc[q].mine \subseteq Deliveries
  BY <1>1, ProcTyped
<1>8. \A q \in Processes : proc'[q].mine \subseteq Deliveries'
  BY <1>4, <1>6, <1>7
<1>9. lock' \in [Keys -> Processes \cup {NoProcess}]
  BY <1>1, <1>3, <1>5 DEF TypeOK
<1>10. TypeOK'
  BY <1>1, <1>4, <1>5, <1>8, <1>9 DEF TypeOK
<1>11. \A q \in Processes : ~Live(q)' \/ proc'[q] = proc[q]
  BY SMTT(40), <1>4 DEF Live, SendPoints
<1>12. RowInv'
  BY SMTT(40), <1>1, <1>5, <1>6 DEF RowInv, RowOf
<1>13. SendInv'
  BY <1>1, <1>5, <1>6, <1>11 DEF SendInv, Live, Delivery, RowOf
<1>14. TokenInv'
  BY <1>1, <1>11 DEF TokenInv, Live, Delivery
<1>15. PlanInv'
  <2> SUFFICES ASSUME NEW q \in Processes, At(q, "planned")'
               PROVE  /\ (lock[proc[q].key] = q)'
                      /\ KeyIsFree(q)'
                      /\ (\A c \in proc[q].plan : Cooled(proc[q].key, c, proc[q].now))'
    BY DEF PlanInv
  <2>1. CASE q = p
    BY <1>1, <1>3, <1>4, <1>5, <2>1 DEF KeyIsFree, Cooled, TypeOK
  <2>2. CASE q # p
    <3>1. proc'[q] = proc[q] /\ proc[q].key \in Keys
      BY <1>1, <1>4, <2>2, ProcTyped DEF ProcTypes
    <3>2. /\ lock[proc[q].key] = q /\ KeyIsFree(q)
          /\ \A c \in proc[q].plan : Cooled(proc[q].key, c, proc[q].now)
      BY <1>1, <3>1 DEF PlanInv, At
    <3>3. proc[q].key # k
      BY <1>5, <3>2, ProcessAssumption DEF LockFree
    <3>4. (lock[proc[q].key] = q)'
      BY <1>1, <1>5, <3>1, <3>2, <3>3 DEF TypeOK
    <3>5. KeyIsFree(q)'
      BY <1>5, <3>1, <3>2 DEF KeyIsFree
    <3>6. (\A c \in proc[q].plan : Cooled(proc[q].key, c, proc[q].now))'
      BY <1>5, <3>1, <3>2 DEF Cooled
    <3> QED  BY <3>4, <3>5, <3>6
  <2> QED  BY <2>1, <2>2
<1>16. CountInv' /\ CooldownKept'
  BY <1>1, <1>5 DEF CountInv, CooldownKept
<1>17. ReachInv'
  BY <1>1, <1>4, <1>5 DEF ReachInv, At
<1> QED  BY <1>10, <1>12, <1>13, <1>14, <1>15, <1>16, <1>17 DEF Inv

\* A new row is a delivery; the others are where they were.
LEMMA CommitRows ==
  ASSUME Inv, NEW p \in Processes, CommitEvent(p)
  PROVE  \E created \in proc[p].now..clock :
           /\ created \in 0..MaxTime
           /\ NewRow(created) \in RowTypes
           /\ row' \in [Keys -> [Channels -> Seq(RowTypes)]]
           /\ \A k \in Keys, c \in Channels :
                row'[k][c] = IF k = proc[p].key /\ c \in proc[p].plan
                             THEN Append(row[k][c], NewRow(created)) ELSE row[k][c]
<1>1. TypeOK
  BY DEF Inv
<1>2. PICK created \in proc[p].now..clock :
        row' = [row EXCEPT ![proc[p].key] = [c \in Channels |->
                  IF c \in proc[p].plan THEN Append(@[c], NewRow(created)) ELSE @[c]]]
  BY DEF CommitEvent
<1>3. /\ proc[p].key \in Keys /\ proc[p].now \in 0..MaxTime /\ clock \in 0..MaxTime
  BY <1>1, ProcTyped DEF ProcTypes, TypeOK
<1>4. created \in 0..MaxTime
  BY <1>2, <1>3, BoundsAssumption
<1>5. NewRow(created) \in RowTypes
  BY <1>4, BoundsAssumption DEF NewRow, RowTypes, NoToken
<1>6. row \in [Keys -> [Channels -> Seq(RowTypes)]]
  BY <1>1 DEF TypeOK
<1>7. \A k \in Keys, c \in Channels :
        row'[k][c] = IF k = proc[p].key /\ c \in proc[p].plan
                     THEN Append(row[k][c], NewRow(created)) ELSE row[k][c]
  BY <1>2, <1>3, <1>6
<1>8. \A c \in Channels : Append(row[proc[p].key][c], NewRow(created)) \in Seq(RowTypes)
  BY <1>3, <1>5, <1>6, AppendProperties
<1>9. row' \in [Keys -> [Channels -> Seq(RowTypes)]]
  BY <1>2, <1>3, <1>6, <1>8
<1> QED  BY <1>4, <1>5, <1>7, <1>9

LEMMA StillWithin ==
  ASSUME NEW a \in Nat, NEW i \in 1..a, NEW b, b = a \/ b = a + 1
  PROVE  i <= b
OBVIOUS

LEMMA MadeRow ==
  ASSUME NEW k, NEW c, NEW i, <<k, c, i>> \in Ids, i <= Len(row'[k][c])
  PROVE  <<k, c, i>> \in Deliveries'
<1>1. Exists(<<k, c, i>>)'
  BY DEF Exists
<1> QED  BY <1>1 DEF Deliveries

LEMMA CommitEventInv ==
  ASSUME Inv, NEW p \in Processes, CommitEvent(p)
  PROVE  Inv'
<1> DEFINE k0 == proc[p].key
<1>1. TypeOK /\ RowInv /\ SendInv /\ TokenInv /\ PlanInv /\ CountInv /\ ReachInv /\ CooldownKept
  BY DEF Inv
<1>2. PICK created \in proc[p].now..clock :
           /\ created \in 0..MaxTime
           /\ NewRow(created) \in RowTypes
           /\ row' \in [Keys -> [Channels -> Seq(RowTypes)]]
           /\ \A k \in Keys, c \in Channels :
                row'[k][c] = IF k = k0 /\ c \in proc[p].plan
                             THEN Append(row[k][c], NewRow(created)) ELSE row[k][c]
  BY CommitRows
<1>3. /\ At(p, "planned") /\ KeyIsFree(p) /\ note[k0] < MaxEvents
      /\ note' = [note EXCEPT ![k0] = @ + 1]
      /\ lock' = [lock EXCEPT ![k0] = NoProcess]
      /\ proc' = [proc EXCEPT ![p] =
                    [Rest("dispatching") EXCEPT
                       !.mine = {<<k0, c, Len(row[k0][c]) + 1>> : c \in proc[p].plan}]]
      /\ UNCHANGED <<clock, events, received, crashes>>
  BY DEF CommitEvent
<1>4. /\ k0 \in Keys /\ proc[p].plan \subseteq Channels /\ proc[p].now \in Nat
      /\ clock \in Nat /\ MaxTime \in Nat /\ Cooldown \in Nat
      /\ note[k0] \in Nat /\ note \in [Keys -> 0..MaxEvents]
  BY <1>1, ProcTyped, BoundsAssumption DEF ProcTypes, TypeOK
<1>5. \A k \in Keys, c \in Channels :
        /\ row[k][c] \in Seq(RowTypes) /\ Len(row[k][c]) \in Nat
        /\ DOMAIN row[k][c] = 1..Len(row[k][c])
        /\ \A i \in 1..Len(row[k][c]) : row[k][c][i] \in RowTypes
  BY <1>1, RowTyped
<1>6. \A k \in Keys, c \in Channels :
        /\ k = k0 /\ c \in proc[p].plan => Len(row'[k][c]) = Len(row[k][c]) + 1
        /\ ~(k = k0 /\ c \in proc[p].plan) => Len(row'[k][c]) = Len(row[k][c])
        /\ \A i \in 1..Len(row[k][c]) : row'[k][c][i] = row[k][c][i]
        /\ k = k0 /\ c \in proc[p].plan =>
             row'[k][c][Len(row[k][c]) + 1] = NewRow(created)
  <2> SUFFICES ASSUME NEW k \in Keys, NEW c \in Channels
               PROVE  /\ k = k0 /\ c \in proc[p].plan => Len(row'[k][c]) = Len(row[k][c]) + 1
                      /\ ~(k = k0 /\ c \in proc[p].plan) => Len(row'[k][c]) = Len(row[k][c])
                      /\ \A i \in 1..Len(row[k][c]) : row'[k][c][i] = row[k][c][i]
                      /\ k = k0 /\ c \in proc[p].plan =>
                           row'[k][c][Len(row[k][c]) + 1] = NewRow(created)
    OBVIOUS
  <2>1. row[k][c] \in Seq(RowTypes) /\ NewRow(created) \in RowTypes
    BY SMTT(30), <1>2, <1>5
  <2>2. CASE k = k0 /\ c \in proc[p].plan
    <3>1. row'[k][c] = Append(row[k][c], NewRow(created))
      BY <1>2, <2>2
    <3>2. /\ Len(Append(row[k][c], NewRow(created))) = Len(row[k][c]) + 1
          /\ \A i \in 1..Len(row[k][c]) : Append(row[k][c], NewRow(created))[i] = row[k][c][i]
          /\ Append(row[k][c], NewRow(created))[Len(row[k][c]) + 1] = NewRow(created)
      BY <2>1, AppendProperties
    <3> QED  BY <2>2, <3>1, <3>2
  <2>3. CASE ~(k = k0 /\ c \in proc[p].plan)
    <3>1. row'[k][c] = row[k][c]
      BY <1>2, <2>3
    <3> QED  BY <2>3, <3>1
  <2> QED  BY <2>2, <2>3
<1> HIDE DEF k0
<1>7. Deliveries \subseteq Deliveries' /\ \A d \in Deliveries : RowOf(d)' = RowOf(d)
  <2> SUFFICES ASSUME NEW d \in Deliveries  PROVE  d \in Deliveries' /\ RowOf(d)' = RowOf(d)
    OBVIOUS
  <2>1. d \in Ids /\ d[1] \in Keys /\ d[2] \in Channels /\ d[3] \in 1..Len(row[d[1]][d[2]])
    BY <1>1, DeliveryTyped
  <2>2. row'[d[1]][d[2]][d[3]] = row[d[1]][d[2]][d[3]]
    BY <1>6, <2>1
  <2>3. /\ Len(row[d[1]][d[2]]) \in Nat
        /\ \/ Len(row'[d[1]][d[2]]) = Len(row[d[1]][d[2]])
           \/ Len(row'[d[1]][d[2]]) = Len(row[d[1]][d[2]]) + 1
    BY <1>5, <1>6, <2>1
  <2>4. d[3] <= Len(row'[d[1]][d[2]])
    BY <2>1, <2>3, StillWithin
  <2> QED  BY <2>1, <2>2, <2>4 DEF Deliveries, Exists, RowOf
<1>8. \A d \in Deliveries' : d \in Deliveries \/ RowOf(d)' = NewRow(created)
  <2> SUFFICES ASSUME NEW d \in Ids, d[3] <= Len(row'[d[1]][d[2]]), d \notin Deliveries
               PROVE  row'[d[1]][d[2]][d[3]] = NewRow(created)
    BY DEF Deliveries, Exists, RowOf
  <2>1. d[1] \in Keys /\ d[2] \in Channels /\ d[3] \in 1..MaxEvents
    BY DEF Ids
  <2>2. ~(d[3] <= Len(row[d[1]][d[2]]))
    BY DEF Deliveries, Exists
  <2>3. d[3] \in Nat /\ Len(row[d[1]][d[2]]) \in Nat
    BY <1>5, <2>1, BoundsAssumption
  <2>4. d[1] = k0 /\ d[2] \in proc[p].plan
    BY <1>6, <2>1, <2>2
  <2>5. Len(row'[d[1]][d[2]]) = Len(row[d[1]][d[2]]) + 1
    BY <1>6, <2>1, <2>4
  <2>6. d[3] = Len(row[d[1]][d[2]]) + 1
    BY SMTT(40), <2>2, <2>3, <2>5
  <2> QED  BY SMTT(40), <1>6, <2>1, <2>4, <2>6
<1>9. {<<k0, c, Len(row[k0][c]) + 1>> : c \in proc[p].plan} \subseteq Deliveries'
  <2> SUFFICES ASSUME NEW c \in proc[p].plan
               PROVE  <<k0, c, Len(row[k0][c]) + 1>> \in Deliveries'
    OBVIOUS
  <2>1. c \in Channels /\ Len(row[k0][c]) <= note[k0] /\ Len(row[k0][c]) \in Nat
    BY <1>1, <1>4, <1>5 DEF CountInv
  <2>2. Len(row[k0][c]) + 1 \in 1..MaxEvents
    BY SMTT(40), <1>3, <1>4, <2>1, BoundsAssumption
  <2>3. Len(row'[k0][c]) = Len(row[k0][c]) + 1
    BY <1>4, <1>6, <2>1
  <2>4. PICK n \in Nat : n = Len(row[k0][c])
    BY <2>1
  <2>5. <<k0, c, n + 1>> \in Ids
    BY <1>4, <2>1, <2>2, <2>4 DEF Ids
  <2>6. n + 1 <= Len(row'[k0][c])
    BY <2>3, <2>4
  <2>7. <<k0, c, n + 1>> \in Deliveries'
    BY <2>5, <2>6, MadeRow
  <2> QED  BY <2>4, <2>7
<1>10. /\ Rest("dispatching") \in ProcTypes
       /\ Rest("dispatching").pc = "dispatching"
       /\ ~Rest("dispatching").reached /\ Rest("dispatching").now = 0
  BY RestTyped DEF Points
<1>11. /\ proc'[p] \in ProcTypes /\ proc'[p].pc = "dispatching" /\ ~proc'[p].reached
       /\ proc'[p].now = 0
       /\ proc'[p].mine = {<<k0, c, Len(row[k0][c]) + 1>> : c \in proc[p].plan}
       /\ \A q \in Processes : q # p => proc'[q] = proc[q]
       /\ proc' \in [Processes -> ProcTypes]
  <2>1. Deliveries' \subseteq Ids
    BY DEF Deliveries
  <2> DEFINE s == [Rest("dispatching") EXCEPT
                     !.mine = {<<k0, c, Len(row[k0][c]) + 1>> : c \in proc[p].plan}]
  <2>2. /\ s \in ProcTypes /\ s.pc = "dispatching" /\ ~s.reached /\ s.now = 0
        /\ s.mine = {<<k0, c, Len(row[k0][c]) + 1>> : c \in proc[p].plan}
    BY <1>9, <1>10, <2>1 DEF ProcTypes
  <2>3. proc' = [proc EXCEPT ![p] = s]
    BY <1>3
  <2> HIDE DEF s
  <2> QED  BY <1>1, <2>2, <2>3 DEF TypeOK
<1>12. \A q \in Processes : proc'[q].mine \subseteq Deliveries'
  BY <1>1, <1>7, <1>9, <1>11, ProcTyped
<1>13. note' \in [Keys -> 0..MaxEvents]
  BY <1>3, <1>4, BoundsAssumption
<1>14. lock' \in [Keys -> Processes \cup {NoProcess}]
  BY <1>1, <1>3 DEF TypeOK
<1>15. TypeOK'
  BY <1>1, <1>2, <1>3, <1>11, <1>12, <1>13, <1>14 DEF TypeOK
<1>16. RowInv'
  BY <1>1, <1>7, <1>8 DEF RowInv, NewRow, NoToken
<1>17. SendInv'
  <2> SUFFICES ASSUME NEW q \in Processes, Live(q)'
               PROVE  (/\ Delivery(q) \in Deliveries
                       /\ proc[q].token \in 1..RowOf(Delivery(q)).attempts)'
    BY DEF SendInv
  <2>1. proc'[q] = proc[q] /\ Live(q)
    BY <1>11 DEF Live, SendPoints
  <2>2. Delivery(q) \in Deliveries /\ proc[q].token \in 1..RowOf(Delivery(q)).attempts
    BY <1>1, <2>1 DEF SendInv
  <2>3. Delivery(q)' = Delivery(q)
    BY <2>1 DEF Delivery
  <2>4. RowOf(Delivery(q))' = RowOf(Delivery(q))
    BY <1>7, <2>2, <2>3 DEF RowOf
  <2> QED  BY <1>7, <2>1, <2>2, <2>3, <2>4
<1>18. TokenInv'
  BY <1>1, <1>11 DEF TokenInv, Live, SendPoints, Delivery
<1>19. PlanInv'
  <2> SUFFICES ASSUME NEW q \in Processes, At(q, "planned")'
               PROVE  (/\ lock[proc[q].key] = q
                       /\ KeyIsFree(q)
                       /\ \A c \in proc[q].plan : Cooled(proc[q].key, c, proc[q].now))'
    BY DEF PlanInv
  <2>1. q # p /\ proc'[q] = proc[q] /\ At(q, "planned")
    BY <1>11 DEF At
  <2>2. proc[q].key \in Keys /\ proc[q].plan \subseteq Channels
    BY <1>1, ProcTyped DEF ProcTypes
  <2>3. /\ lock[proc[q].key] = q /\ KeyIsFree(q) /\ lock[k0] = p
        /\ \A c \in proc[q].plan : Cooled(proc[q].key, c, proc[q].now)
    BY <1>1, <1>3, <2>1 DEF PlanInv, k0
  <2>4. proc[q].key # k0
    BY <2>1, <2>3
  <2>5. lock'[proc'[q].key] = q /\ note'[proc[q].key] = note[proc[q].key]
    BY <1>1, <1>3, <2>1, <2>2, <2>3, <2>4 DEF TypeOK
  <2>6. \A c \in proc[q].plan : row'[proc[q].key][c] = row[proc[q].key][c]
    BY <1>2, <2>2, <2>4
  <2> QED  BY <2>1, <2>3, <2>5, <2>6 DEF KeyIsFree, Cooled
<1>20. CountInv'
  <2> SUFFICES ASSUME NEW k \in Keys, NEW c \in Channels
               PROVE  Len(row'[k][c]) <= note'[k]
    BY DEF CountInv
  <2>1. Len(row[k][c]) <= note[k] /\ note[k] \in Nat /\ Len(row[k][c]) \in Nat
    BY <1>1, <1>4, <1>5, BoundsAssumption DEF CountInv
  <2>2. note'[k] = IF k = k0 THEN note[k] + 1 ELSE note[k]
    BY <1>3, <1>4
  <2> QED  BY <1>6, <2>1, <2>2
<1>21. ReachInv'
  BY <1>1, <1>3, <1>4, <1>11 DEF ReachInv
<1>22. CooldownKept'
  <2> SUFFICES ASSUME NEW k \in Keys, NEW c \in Channels,
                      NEW i \in DOMAIN row'[k][c], NEW j \in DOMAIN row'[k][c], i < j
               PROVE  row'[k][c][j].createdAt - row'[k][c][i].createdAt >= Cooldown
    BY DEF CooldownKept
  <2> DEFINE n == Len(row[k][c])
  <2>1. n \in Nat /\ row'[k][c] \in Seq(RowTypes)
    BY <1>2, <1>5
  <2>2. i \in 1..Len(row'[k][c]) /\ j \in 1..Len(row'[k][c])
    BY <2>1
  <2>3. i \in 1..n
    BY <1>6, <2>1, <2>2
  <2>4. row'[k][c][i] = row[k][c][i] /\ row[k][c][i].createdAt \in Nat
    <3>1. row[k][c][i] \in RowTypes
      BY <1>5, <2>3
    <3>2. row[k][c][i].createdAt \in 0..MaxTime
      BY <3>1 DEF RowTypes
    <3> QED  BY <1>4, <1>6, <2>3, <3>2
  <2>5. CASE j \in 1..n
    <3>1. row'[k][c][j] = row[k][c][j]
      BY <1>6, <2>5
    <3>2. row[k][c][j].createdAt - row[k][c][i].createdAt >= Cooldown
      BY <1>1, <1>5, <2>3, <2>5 DEF CooldownKept
    <3> QED  BY <2>4, <3>1, <3>2
  <2>6. CASE j \notin 1..n
    <3>1. /\ k = k0 /\ c \in proc[p].plan /\ j = n + 1
          /\ row'[k][c][j] = NewRow(created)
      <4>1. k = k0 /\ c \in proc[p].plan
        BY <1>6, <2>2, <2>6
      <4>2. Len(row'[k][c]) = n + 1
        BY <1>6, <4>1
      <4>3. j = n + 1
        BY <2>1, <2>2, <2>6, <4>2
      <4> QED  BY <1>6, <4>1, <4>3
    <3>2. Cooled(k, c, proc[p].now)
      BY <1>1, <1>3, <3>1 DEF PlanInv, k0
    <3>3. n \in 1..n /\ row[k][c] # <<>>
      BY <2>1, <2>3, EmptySeq
    <3>4. proc[p].now - row[k][c][n].createdAt >= Cooldown
      BY <3>2, <3>3 DEF Cooled
    <3>5. row[k][c][n].createdAt \in Nat
      BY SMTT(40), <1>5, <3>3 DEF RowTypes
    <3>6. row[k][c][n].createdAt >= row[k][c][i].createdAt
      <4>1. CASE i = n
        BY <2>4, <4>1
      <4>2. CASE i # n
        <5>1. i < n
          BY <2>1, <2>3, <4>2
        <5>2. row[k][c][n].createdAt - row[k][c][i].createdAt >= Cooldown
          BY <1>1, <1>5, <2>3, <3>3, <5>1 DEF CooldownKept
        <5> QED  BY SMTT(40), <1>4, <2>4, <3>5, <5>2
      <4> QED  BY <4>1, <4>2
    <3>7. NewRow(created).createdAt = created /\ created >= proc[p].now
      BY <1>2, <1>4 DEF NewRow
    <3>8. created \in Nat
      BY <1>2, <1>4
    <3> HIDE DEF n
    <3> QED  BY <1>4, <2>4, <3>1, <3>4, <3>5, <3>6, <3>7, <3>8
  <2> QED  BY <2>5, <2>6
<1> QED  BY <1>15, <1>16, <1>17, <1>18, <1>19, <1>20, <1>21, <1>22 DEF Inv

-----------------------------------------------------------------------------
(* Sending.                                                                *)

\* What a process has left to do after a delivery.
LEMMA WithoutDeliveryTyped ==
  ASSUME TypeOK, NEW p \in Processes
  PROVE  /\ WithoutDelivery(p) \in ProcTypes
         /\ WithoutDelivery(p).pc = "dispatching" /\ ~WithoutDelivery(p).reached
         /\ WithoutDelivery(p).now = 0
         /\ WithoutDelivery(p).mine \subseteq Deliveries
<1>1. /\ Rest("dispatching") \in ProcTypes /\ Rest("dispatching").pc = "dispatching"
      /\ ~Rest("dispatching").reached /\ Rest("dispatching").now = 0
  BY RestTyped DEF Points
<1>2. proc[p].mine \subseteq Deliveries /\ Deliveries \subseteq Ids
  BY ProcTyped DEF Deliveries
<1> QED  BY <1>1, <1>2 DEF WithoutDelivery, ProcTypes

LEMMA ClaimInv ==
  ASSUME Inv, NEW p \in Processes, NEW d \in Deliveries, Claim(p, d),
         At(p, "dispatching") \/ At(p, "idle")
  PROVE  Inv'
<1> DEFINE r == [RowOf(d) EXCEPT !.token = RowOf(d).attempts + 1, !.fresh = TRUE,
                                 !.attempts = @ + 1]
           s == [proc[p] EXCEPT !.pc = "claimed", !.delivery = d,
                                !.token = RowOf(d).attempts + 1]
<1>1. TypeOK /\ RowInv /\ ReachInv
  BY DEF Inv
<1>2. RowOf(d) \in RowTypes /\ d \in Ids
  BY <1>1, DeliveryTyped
<1>3. RowOf(d).attempts \in 0..MaxClaims /\ RowOf(d).attempts < MaxClaims /\ Claimable(RowOf(d))
  BY <1>2 DEF Claim, RowTypes
<1>4. RowOf(d).attempts + 1 \in 0..MaxClaims /\ RowOf(d).attempts + 1 # NoToken
  BY <1>3, BoundsAssumption DEF NoToken
<1>5. /\ r \in RowTypes /\ r.createdAt = RowOf(d).createdAt
      /\ r.attempts = RowOf(d).attempts + 1 /\ r.token = RowOf(d).attempts + 1
      /\ r.status = "PENDING"
  BY <1>2, <1>3, <1>4 DEF RowTypes, Claimable
<1>6. proc[p] \in ProcTypes /\ proc[p].mine \subseteq Deliveries
      /\ ~proc[p].reached /\ proc[p].now <= clock
  BY <1>1, ProcTyped DEF ReachInv, At
<1>7. /\ s \in ProcTypes /\ s.pc = "claimed" /\ s.delivery = d
      /\ s.token = RowOf(d).attempts + 1
      /\ s.mine = proc[p].mine /\ s.now = proc[p].now /\ s.reached = proc[p].reached
  BY <1>2, <1>4, <1>6 DEF ProcTypes, Points, SendPoints
<1>8. SetRow(d, r) /\ proc' = [proc EXCEPT ![p] = s]
  BY DEF Claim
<1>9. UNCHANGED <<note, lock, clock, events, received, crashes>>
  BY DEF Claim
<1> HIDE DEF r, s
<1>10. r.attempts >= RowOf(d).attempts /\ r.attempts > RowOf(d).attempts
  BY <1>3, <1>5, BoundsAssumption
<1>11. r.token \in {NoToken, r.attempts} /\ r.token # NoToken
  BY <1>4, <1>5
<1>12. s.pc # "planned" /\ s.mine \subseteq Deliveries /\ ~s.reached /\ s.now <= clock
       /\ s.delivery = d /\ s.token = r.attempts
  BY <1>5, <1>6, <1>7
<1> QED  BY <1>5, <1>7, <1>8, <1>9, <1>10, <1>11, <1>12, RowStepInv

LEMMA ClaimStepInv ==
  ASSUME Inv, NEW p \in Processes, ClaimPrepared(p) \/ ClaimNext(p)
  PROVE  Inv'
<1>1. proc[p].mine \subseteq Deliveries
  BY ProcTyped DEF Inv
<1> QED  BY <1>1, ClaimInv DEF ClaimPrepared, ClaimNext

\* A step of a process that writes no row and takes or releases no lock.
LEMMA OwnStepInv ==
  ASSUME Inv, NEW p \in Processes, NEW s \in ProcTypes,
         proc' = [proc EXCEPT ![p] = s],
         received' \in [Ids -> Nat], UNCHANGED <<note, row, lock, clock, events, crashes>>,
         s.pc # "planned", s.mine \subseteq Deliveries,
         s.reached => s.pc \in {"sending", "answered"}, s.now <= clock,
         s.pc \in SendPoints => Live(p) /\ s.delivery = Delivery(p) /\ s.token = proc[p].token
  PROVE  Inv'
<1>1. /\ events' \in [Keys -> 0..MaxEvents] /\ crashes' \in 0..MaxCrashes
      /\ lock' \in [Keys -> Processes \cup {NoProcess}]
      /\ \A q \in Processes : q # p /\ At(q, "planned") => lock'[proc[q].key] = q
  BY DEF Inv, TypeOK, PlanInv
<1> QED  BY <1>1, ProcStepInv

LEMMA SkipPreparedInv ==
  ASSUME Inv, NEW p \in Processes, SkipPrepared(p)
  PROVE  Inv'
<1>1. TypeOK /\ ReachInv
  BY DEF Inv
<1>2. PICK d \in proc[p].mine : proc' = [proc EXCEPT ![p].mine = @ \ {d}]
  BY DEF SkipPrepared
<1> DEFINE s == [proc[p] EXCEPT !.mine = @ \ {d}]
<1>3. proc[p] \in ProcTypes /\ proc[p].mine \subseteq Deliveries /\ proc[p].pc = "dispatching"
      /\ ~proc[p].reached /\ proc[p].now <= clock
  BY <1>1, ProcTyped DEF ReachInv, SkipPrepared, At
<1>4. /\ s \in ProcTypes /\ s.pc = "dispatching" /\ s.mine \subseteq Deliveries
      /\ ~s.reached /\ s.now = proc[p].now
  BY <1>3 DEF ProcTypes
<1>5. proc' = [proc EXCEPT ![p] = s]
  BY <1>2
<1>6. UNCHANGED <<note, row, lock, clock, events, received, crashes>> /\ received' \in [Ids -> Nat]
  BY <1>1 DEF SkipPrepared, TypeOK
<1> HIDE DEF s
<1> QED  BY <1>3, <1>4, <1>5, <1>6, OwnStepInv DEF SendPoints

\* A process that sends goes on with its delivery.
LEMMA LiveStepInv ==
  ASSUME Inv, NEW p \in Processes, NEW s \in ProcTypes, Live(p),
         proc' = [proc EXCEPT ![p] = s],
         received' \in [Ids -> Nat], UNCHANGED <<note, row, lock, clock, events, crashes>>,
         s.pc \in SendPoints, s.reached => s.pc \in {"sending", "answered"},
         s.mine = proc[p].mine, s.now = proc[p].now,
         s.delivery = proc[p].delivery, s.token = proc[p].token
  PROVE  Inv'
<1>1. proc[p].mine \subseteq Deliveries /\ proc[p].now <= clock
  BY ProcTyped DEF Inv, ReachInv
<1> QED  BY <1>1, OwnStepInv DEF SendPoints, Delivery

LEMMA LoadDeliveryInv ==
  ASSUME Inv, NEW p \in Processes, LoadDelivery(p)
  PROVE  Inv'
<1>1. TypeOK /\ ReachInv
  BY DEF Inv
<1>2. proc[p] \in ProcTypes /\ proc[p].pc = "claimed" /\ Live(p) /\ ~proc[p].reached
  BY <1>1, ProcTyped DEF LoadDelivery, At, Live, SendPoints, ReachInv
<1>3. UNCHANGED <<note, row, lock, clock, events, received, crashes>> /\ received' \in [Ids -> Nat]
  BY <1>1 DEF LoadDelivery, TypeOK
<1>4. CASE proc' = [proc EXCEPT ![p] = WithoutDelivery(p)]
  <2>1. clock \in Nat
    BY <1>1, BoundsAssumption DEF TypeOK
  <2>2. PICK s \in ProcTypes : /\ s = WithoutDelivery(p) /\ s.pc = "dispatching" /\ ~s.reached
                               /\ s.now <= clock /\ s.mine \subseteq Deliveries
    BY <1>1, <2>1, WithoutDeliveryTyped
  <2>3. proc' = [proc EXCEPT ![p] = s]
    BY <1>4, <2>2
  <2> QED  BY <1>3, <2>2, <2>3, OwnStepInv DEF SendPoints
<1>5. ASSUME NEW pc \in {"sending", "answered"}, proc' = [proc EXCEPT ![p].pc = pc]
      PROVE  Inv'
  <2> DEFINE s == [proc[p] EXCEPT !.pc = pc]
  <2>1. /\ s \in ProcTypes /\ s.pc = pc /\ s.reached = proc[p].reached
        /\ s.mine = proc[p].mine /\ s.now = proc[p].now
        /\ s.delivery = proc[p].delivery /\ s.token = proc[p].token
    BY <1>2 DEF ProcTypes, Points, SendPoints
  <2>2. proc' = [proc EXCEPT ![p] = s]
    BY <1>5
  <2> HIDE DEF s
  <2> QED  BY <1>2, <1>3, <2>1, <2>2, LiveStepInv DEF SendPoints
<1> QED  BY <1>4, <1>5 DEF LoadDelivery

LEMMA EndpointReceivesInv ==
  ASSUME Inv, NEW p \in Processes, EndpointReceives(p)
  PROVE  Inv'
<1>1. TypeOK
  BY DEF Inv
<1> DEFINE s == [proc[p] EXCEPT !.reached = TRUE]
<1>2. proc[p] \in ProcTypes /\ proc[p].pc = "sending" /\ Live(p)
  BY <1>1, ProcTyped DEF EndpointReceives, At, Live, SendPoints
<1>3. /\ s \in ProcTypes /\ s.pc = "sending" /\ s.mine = proc[p].mine /\ s.now = proc[p].now
      /\ s.delivery = proc[p].delivery /\ s.token = proc[p].token
  BY <1>2 DEF ProcTypes
<1>4. proc' = [proc EXCEPT ![p] = s]
  BY DEF EndpointReceives
<1>5. received' \in [Ids -> Nat] /\ UNCHANGED <<note, row, lock, clock, events, crashes>>
  <2>1. Delivery(p) \in Ids /\ received \in [Ids -> Nat]
    BY <1>1, <1>2 DEF ProcTypes, Delivery, TypeOK
  <2>2. received' = [received EXCEPT ![Delivery(p)] = @ + 1]
    BY DEF EndpointReceives
  <2>3. received[Delivery(p)] + 1 \in Nat
    BY <2>1
  <2> QED  BY <2>1, <2>2, <2>3 DEF EndpointReceives
<1> HIDE DEF s
<1> QED  BY <1>2, <1>3, <1>4, <1>5, LiveStepInv DEF SendPoints

LEMMA TransportEndsInv ==
  ASSUME Inv, NEW p \in Processes, TransportEnds(p)
  PROVE  Inv'
<1>1. TypeOK
  BY DEF Inv
<1>2. PICK o \in Outcomes : proc' = [proc EXCEPT ![p] = [@ EXCEPT !.pc = "answered", !.outcome = o]]
  BY DEF TransportEnds
<1> DEFINE s == [proc[p] EXCEPT !.pc = "answered", !.outcome = o]
<1>3. proc[p] \in ProcTypes /\ Live(p)
  BY <1>1, ProcTyped DEF TransportEnds, At, Live, SendPoints
<1>4. /\ s \in ProcTypes /\ s.pc = "answered" /\ s.mine = proc[p].mine /\ s.now = proc[p].now
      /\ s.delivery = proc[p].delivery /\ s.token = proc[p].token
  BY <1>3 DEF ProcTypes, Points, SendPoints
<1>5. proc' = [proc EXCEPT ![p] = s]
  BY <1>2
<1>6. UNCHANGED <<note, row, lock, clock, events, received, crashes>> /\ received' \in [Ids -> Nat]
  BY <1>1 DEF TransportEnds, TypeOK
<1> HIDE DEF s
<1> QED  BY <1>3, <1>4, <1>5, <1>6, LiveStepInv DEF SendPoints

-----------------------------------------------------------------------------
(* Marking.                                                                *)

\* Marking a delivery writes an allowed row, or none.
LEMMA MarkMeans ==
  ASSUME Inv, NEW p \in Processes, Live(p), Mark(p) \/ UNCHANGED row
  PROVE  \/ row' = row
         \/ /\ MayMark(p)
            /\ Settled(RowOf(Delivery(p)), proc[p].outcome) \in RowTypes
            /\ SetRow(Delivery(p), Settled(RowOf(Delivery(p)), proc[p].outcome))
<1>1. TypeOK /\ Delivery(p) \in Deliveries
  BY DEF Inv, SendInv
<1>2. RowOf(Delivery(p)) \in RowTypes /\ proc[p].outcome \in Outcomes
  BY <1>1, DeliveryTyped, ProcTyped DEF ProcTypes
<1>3. \A r \in RowTypes, o \in Outcomes : Settled(r, o) \in RowTypes
  <2>1. NoToken \in 0..MaxClaims
    BY BoundsAssumption DEF NoToken
  <2> QED  BY <2>1 DEF Settled, RowTypes
<1> QED  BY <1>2, <1>3 DEF Mark

LEMMA MarkStepInv ==
  ASSUME Inv, NEW p \in Processes, NEW s \in ProcTypes, Live(p), Mark(p) \/ UNCHANGED row,
         proc' = [proc EXCEPT ![p] = s],
         UNCHANGED <<note, lock, clock, events, received, crashes>>,
         s.pc # "planned", s.mine \subseteq Deliveries,
         s.reached => s.pc \in {"sending", "answered"}, s.now <= clock,
         s.pc \in SendPoints => s.delivery = Delivery(p) /\ s.token = proc[p].token
  PROVE  Inv'
<1> DEFINE d == Delivery(p)
<1>1. TypeOK /\ d \in Deliveries
  BY DEF Inv, SendInv
<1>2. RowOf(d) \in RowTypes
  BY <1>1, DeliveryTyped
<1>3. CASE row' = row
  <2>1. received' \in [Ids -> Nat]
    BY <1>1 DEF TypeOK
  <2> QED  BY <1>3, <2>1, OwnStepInv
<1>4. CASE /\ Settled(RowOf(d), proc[p].outcome) \in RowTypes
           /\ SetRow(d, Settled(RowOf(d), proc[p].outcome))
  <2>1. PICK r \in RowTypes : r = Settled(RowOf(d), proc[p].outcome)
    BY <1>4
  <2>2. /\ r.createdAt = RowOf(d).createdAt /\ r.attempts = RowOf(d).attempts
        /\ r.token = NoToken /\ r.fresh = FALSE /\ SetRow(d, r)
    BY <1>2, <1>4, <2>1 DEF Settled, RowTypes
  <2>3. RowOf(d).attempts \in Nat
    BY <1>2, BoundsAssumption DEF RowTypes
  <2>4. r.attempts >= RowOf(d).attempts
    BY <2>2, <2>3
  <2> HIDE DEF d
  <2>5. s.pc \in SendPoints => Live(p) /\ s.delivery = Delivery(p) /\ s.token = proc[p].token
    OBVIOUS
  <2> QED  BY <1>1, <2>2, <2>4, <2>5, RowStepInv
<1> QED  BY <1>3, <1>4, MarkMeans

LEMMA MarkingThrowsInv ==
  ASSUME Inv, NEW p \in Processes, MarkingThrows(p)
  PROVE  Inv'
<1>1. TypeOK
  BY DEF Inv
<1> DEFINE s == [proc[p] EXCEPT !.outcome = "FAILED"]
<1>2. proc[p] \in ProcTypes /\ proc[p].pc = "answered" /\ Live(p)
      /\ proc[p].mine \subseteq Deliveries /\ proc[p].now <= clock
  BY <1>1, ProcTyped DEF MarkingThrows, At, Live, SendPoints, Inv, ReachInv
<1>3. /\ s \in ProcTypes /\ s.pc = "answered" /\ s.mine = proc[p].mine /\ s.now = proc[p].now
      /\ s.delivery = proc[p].delivery /\ s.token = proc[p].token
  BY <1>2 DEF ProcTypes, Outcomes
<1>4. proc' = [proc EXCEPT ![p] = s]
  BY DEF MarkingThrows
<1>5. UNCHANGED <<note, lock, clock, events, received, crashes>> /\ (Mark(p) \/ UNCHANGED row)
  BY DEF MarkingThrows
<1> HIDE DEF s
<1> QED  BY <1>2, <1>3, <1>4, <1>5, MarkStepInv DEF Delivery

LEMMA MarkDeliveryInv ==
  ASSUME Inv, NEW p \in Processes, MarkDelivery(p)
  PROVE  Inv'
<1>1. TypeOK
  BY DEF Inv
<1>2. Live(p)
  BY DEF MarkDelivery, At, Live, SendPoints
<1>3. clock \in Nat
  BY <1>1, BoundsAssumption DEF TypeOK
<1>4. PICK s \in ProcTypes : /\ s = WithoutDelivery(p) /\ s.pc = "dispatching" /\ ~s.reached
                             /\ s.now <= clock /\ s.mine \subseteq Deliveries
  BY <1>1, <1>3, WithoutDeliveryTyped
<1>5. proc' = [proc EXCEPT ![p] = s] /\ Mark(p)
      /\ UNCHANGED <<note, lock, clock, events, received, crashes>>
  BY <1>4 DEF MarkDelivery
<1> QED  BY <1>2, <1>4, <1>5, MarkStepInv DEF SendPoints

-----------------------------------------------------------------------------
(* Time.                                                                   *)

LEMMA LeaseGoesStaleInv ==
  ASSUME Inv, NEW d \in Ids, LeaseGoesStale(d)
  PROVE  Inv'
<1>1. TypeOK /\ RowInv
  BY DEF Inv
<1>2. d \in Deliveries
  BY DEF LeaseGoesStale, Deliveries
<1>3. RowOf(d) \in RowTypes
  BY <1>1, <1>2, DeliveryTyped
<1>4. PICK p \in Processes : TRUE
  BY ProcessAssumption
<1>5. PICK r \in RowTypes : r = [RowOf(d) EXCEPT !.fresh = FALSE]
  BY <1>3 DEF RowTypes
<1>6. /\ r.createdAt = RowOf(d).createdAt /\ r.attempts = RowOf(d).attempts
      /\ r.token = RowOf(d).token /\ r.fresh = FALSE /\ r.status = RowOf(d).status
  BY <1>3, <1>5 DEF RowTypes
<1>7. RowOf(d).attempts \in Nat
  BY <1>3, BoundsAssumption DEF RowTypes
<1>8. r.attempts >= RowOf(d).attempts
  BY <1>6, <1>7
<1>9. r.token \in {NoToken, r.attempts} /\ (r.status # "PENDING" => r.token = NoToken)
  BY <1>1, <1>2, <1>6 DEF RowInv
<1>10. SetRow(d, r) /\ UNCHANGED <<note, lock, proc, clock, events, received, crashes>>
  BY <1>5 DEF LeaseGoesStale
<1>11. proc[p] \in ProcTypes /\ proc' = [proc EXCEPT ![p] = proc[p]]
  BY <1>1, <1>10, ProcTyped DEF TypeOK
<1> QED  BY <1>2, <1>6, <1>8, <1>9, <1>10, <1>11, RowStepInv

LEMMA TickInv ==
  ASSUME Inv, Tick
  PROVE  Inv'
<1>1. TypeOK /\ PlanInv /\ RowInv
  BY DEF Inv
<1>2. PICK p \in Processes : TRUE
  BY ProcessAssumption
<1>3. clock' \in 0..MaxTime /\ clock' >= clock
  BY <1>1, BoundsAssumption DEF Tick, TypeOK
<1>4. UNCHANGED <<note, row, lock, proc, events, received, crashes>>
  BY DEF Tick
<1>5. Deliveries' = Deliveries /\ RowInv'
  BY <1>1, <1>4 DEF Deliveries, Exists, RowInv, RowOf
<1>6. \A d \in Deliveries : RowOf(d)'.attempts >= RowOf(d).attempts
  <2>1. \A d \in Deliveries : RowOf(d)' = RowOf(d) /\ RowOf(d).attempts \in Nat
    BY <1>1, <1>4, DeliveryTyped, BoundsAssumption DEF RowOf, RowTypes
  <2> QED  BY <2>1
<1>7. \A q \in Processes : q # p /\ At(q, "planned") => lock'[proc[q].key] = q
  BY <1>1, <1>4 DEF PlanInv
<1>8. /\ \A k \in Keys, c \in Channels : Len(row[k][c])' = Len(row[k][c])
      /\ \A k \in Keys, c \in Channels : \A i \in 1..Len(row[k][c]) :
           row[k][c][i]'.createdAt = row[k][c][i].createdAt
  BY <1>4
<1>9. /\ proc' \in [Processes -> ProcTypes] /\ row' \in [Keys -> [Channels -> Seq(RowTypes)]]
      /\ lock' \in [Keys -> Processes \cup {NoProcess}] /\ events' \in [Keys -> 0..MaxEvents]
      /\ received' \in [Ids -> Nat] /\ crashes' \in 0..MaxCrashes
      /\ proc'[p] = proc[p] /\ \A q \in Processes : q # p => proc'[q] = proc[q]
  BY <1>1, <1>4 DEF TypeOK
<1> QED  BY <1>3, <1>4, <1>5, <1>6, <1>7, <1>8, <1>9, StepInv

-----------------------------------------------------------------------------
(* The invariant.                                                          *)

LEMMA NextInv ==
  ASSUME Inv, [Next]_vars
  PROVE  Inv'
<1>1. CASE UNCHANGED vars
  BY ZenonT(40), <1>1 DEF vars, Inv, TypeOK, RowInv, SendInv, TokenInv, PlanInv, CountInv, ReachInv,
              CooldownKept, Deliveries, Exists, RowOf, Live, Delivery, At, KeyIsFree, Cooled
<1>2. CASE Next
  <2>1. ASSUME NEW p \in Processes, NEW k \in Keys, StartEvent(p, k)  PROVE  Inv'
    BY <2>1, StartEventInv
  <2>2. ASSUME NEW p \in Processes, PrepareStep(p)  PROVE  Inv'
    BY <2>2, PlanEventInv, CommitEventInv, RollBackEventInv DEF PrepareStep
  <2>3. ASSUME NEW p \in Processes, SendStep(p)  PROVE  Inv'
    BY <2>3, ClaimStepInv, SkipPreparedInv, RestartInv, LoadDeliveryInv, TransportEndsInv,
       MarkDeliveryInv DEF SendStep
  <2>4. ASSUME NEW p \in Processes,
               EndpointReceives(p) \/ MarkingThrows(p) \/ Crash(p) \/ Restart(p)
        PROVE  Inv'
    BY <2>4, EndpointReceivesInv, MarkingThrowsInv, CrashInv, RestartInv
  <2>5. ASSUME NEW d \in Ids, LeaseGoesStale(d)  PROVE  Inv'
    BY <2>5, LeaseGoesStaleInv
  <2> QED  BY <1>2, <2>1, <2>2, <2>3, <2>4, <2>5, TickInv DEF Next
<1> QED  BY SMTT(40), <1>1, <1>2

THEOREM Invariant == Spec => []Inv
BY InitInv, NextInv, PTL DEF Spec

\* Every reachable state has its type (prepareNotificationEvent, the dispatch functions).
THEOREM Typed == Spec => []TypeOK
<1>1. Inv => TypeOK
  BY DEF Inv
<1> QED  BY <1>1, Invariant, PTL

\* Two deliveries of a key and channel are a cooldown apart: the latest one is read under
\* the advisory lock, by a process that read the time before it asked for the lock.
THEOREM CooldownHolds == Spec => []CooldownKept
<1>1. Inv => CooldownKept
  BY DEF Inv
<1> QED  BY <1>1, Invariant, PTL

\* The insert of a notification never violates the unique key: the lock is held from the
\* read that found none to the commit.
THEOREM KeysDoNotConflict == Spec => []NoKeyConflict
<1>1. Inv => NoKeyConflict
  BY DEF Inv, PlanInv, NoKeyConflict
<1> QED  BY <1>1, Invariant, PTL

-----------------------------------------------------------------------------
(* What a step may do to a row.                                            *)

Marks(p, d) ==
  /\ MarkDelivery(p) \/ MarkingThrows(p)
  /\ Live(p) /\ Delivery(p) = d /\ MayMark(p)

\* The row of d stays, or d is claimed, or marked by a process that holds it, or its
\* lease goes stale.
RowStep(d) ==
  \/ RowOf(d)' = RowOf(d)
  \/ Claimable(RowOf(d))
  \/ \E p \in Processes : Marks(p, d)
  \/ LeaseGoesStale(d) /\ RowOf(d)' = [RowOf(d) EXCEPT !.fresh = FALSE]

LEMMA ClaimRowStep ==
  ASSUME Inv, NEW d \in Deliveries, NEW e \in Deliveries, NEW p, Claim(p, e)
  PROVE  RowStep(d)
<1>1. CASE d = e
  BY <1>1 DEF Claim, RowStep
<1>2. CASE d # e
  <2>1. TypeOK /\ RowOf(e) \in RowTypes
    BY DeliveryTyped DEF Inv
  <2>2. RowOf(e).attempts \in 0..MaxClaims /\ RowOf(e).attempts < MaxClaims
    BY <2>1 DEF RowTypes, Claim
  <2>3. RowOf(e).attempts + 1 \in 0..MaxClaims
    BY <2>2, BoundsAssumption
  <2>4. PICK r \in RowTypes : SetRow(e, r)
    BY <2>1, <2>3 DEF Claim, RowTypes
  <2>5. RowOf(d)' = RowOf(d)
    BY <1>2, <2>1, <2>4, SetRowMeans
  <2> QED  BY <2>5 DEF RowStep
<1> QED  BY <1>1, <1>2

LEMMA MarkRowStep ==
  ASSUME Inv, NEW d \in Deliveries, NEW p \in Processes, MarkDelivery(p) \/ MarkingThrows(p)
  PROVE  RowStep(d)
<1>1. Live(p) /\ (Mark(p) \/ UNCHANGED row)
  BY DEF MarkDelivery, MarkingThrows, At, Live, SendPoints
<1>2. TypeOK /\ Delivery(p) \in Deliveries
  BY <1>1 DEF Inv, SendInv
<1>3. CASE row' = row
  BY <1>3 DEF RowStep, RowOf
<1>4. CASE Delivery(p) = d /\ MayMark(p)
  BY <1>1, <1>4 DEF RowStep, Marks
<1>5. CASE /\ Delivery(p) # d
           /\ Settled(RowOf(Delivery(p)), proc[p].outcome) \in RowTypes
           /\ SetRow(Delivery(p), Settled(RowOf(Delivery(p)), proc[p].outcome))
  <2>1. RowOf(d)' = RowOf(d)
    BY <1>2, <1>5, SetRowMeans
  <2> QED  BY <2>1 DEF RowStep
<1> QED  BY <1>1, <1>3, <1>4, <1>5, MarkMeans

LEMMA CommitRowStep ==
  ASSUME Inv, NEW d \in Deliveries, NEW p \in Processes, CommitEvent(p)
  PROVE  RowStep(d)
<1> DEFINE k == d[1]  c == d[2]  i == d[3]
<1>1. TypeOK
  BY DEF Inv
<1>2. k \in Keys /\ c \in Channels /\ i \in 1..Len(row[k][c])
  BY <1>1, DeliveryTyped
<1>3. PICK created \in proc[p].now..clock :
           /\ NewRow(created) \in RowTypes
           /\ \A m \in Keys, e \in Channels :
                row'[m][e] = IF m = proc[p].key /\ e \in proc[p].plan
                             THEN Append(row[m][e], NewRow(created)) ELSE row[m][e]
  BY CommitRows DEF Inv
<1>4. row[k][c] \in Seq(RowTypes)
  BY <1>1, <1>2, RowTyped
<1>5. \/ row'[k][c] = row[k][c]
      \/ row'[k][c] = Append(row[k][c], NewRow(created))
  BY <1>2, <1>3
<1>6. Append(row[k][c], NewRow(created))[i] = row[k][c][i]
  BY <1>2, <1>3, <1>4, AppendProperties
<1>7. row'[k][c][i] = row[k][c][i]
  BY <1>5, <1>6
<1> QED  BY <1>7 DEF RowStep, RowOf

LEMMA StaleRowStep ==
  ASSUME Inv, NEW d \in Deliveries, NEW e \in Ids, LeaseGoesStale(e)
  PROVE  RowStep(d)
<1>1. TypeOK /\ e \in Deliveries
  BY DEF Inv, LeaseGoesStale, Deliveries
<1>2. RowOf(e) \in RowTypes
  BY <1>1, DeliveryTyped
<1>3. PICK r \in RowTypes : r = [RowOf(e) EXCEPT !.fresh = FALSE]
  BY <1>2 DEF RowTypes
<1>4. SetRow(e, r) /\ RowOf(e).fresh
  BY <1>3 DEF LeaseGoesStale
<1>5. RowOf(e)' = r /\ (d # e => RowOf(d)' = RowOf(d))
  BY <1>1, <1>4, SetRowMeans
<1>6. CASE d = e
  BY <1>3, <1>5, <1>6 DEF RowStep
<1>7. CASE d # e
  BY <1>5, <1>7 DEF RowStep
<1> QED  BY <1>6, <1>7

LEMMA RowSteps ==
  ASSUME Inv, NEW d \in Deliveries, [Next]_vars
  PROVE  RowStep(d)
<1>1. \A p \in Processes : proc[p].mine \subseteq Deliveries
  BY ProcTyped DEF Inv
<1>2. CASE row' = row
  BY <1>2 DEF RowStep, RowOf
<1>3. ASSUME NEW p \in Processes, PrepareStep(p)  PROVE  RowStep(d)
  BY <1>2, <1>3, CommitRowStep DEF PrepareStep, PlanEvent, RollBackEvent
<1>4. ASSUME NEW p \in Processes, ClaimPrepared(p) \/ ClaimNext(p)  PROVE  RowStep(d)
  BY <1>1, <1>4, ClaimRowStep DEF ClaimPrepared, ClaimNext
<1>5. ASSUME NEW p \in Processes, SendStep(p)  PROVE  RowStep(d)
  BY <1>2, <1>4, <1>5, MarkRowStep
     DEF SendStep, SkipPrepared, DispatchEnds, LoadDelivery, TransportEnds
<1>6. ASSUME NEW p \in Processes, \/ \E k \in Keys : StartEvent(p, k)
                                  \/ EndpointReceives(p) \/ Crash(p) \/ Restart(p)
      PROVE  RowStep(d)
  BY <1>2, <1>6 DEF StartEvent, EndpointReceives, Crash, Restart
<1>7. CASE UNCHANGED vars \/ Tick
  BY <1>2, <1>7 DEF vars, Tick
<1> QED  BY <1>3, <1>5, <1>6, <1>7, MarkRowStep, StaleRowStep DEF Next

\* A settled delivery is never written again: claims and marks ask for PENDING, and its
\* lease is gone.
THEOREM SettledStays == Spec => SettledIsFinal
<1>1. ASSUME Inv, [Next]_vars
      PROVE  \A d \in Ids : Exists(d) /\ RowOf(d).status # "PENDING" => RowOf(d)' = RowOf(d)
  <2> SUFFICES ASSUME NEW d \in Ids, Exists(d), RowOf(d).status # "PENDING"
               PROVE  RowOf(d)' = RowOf(d)
    OBVIOUS
  <2>1. d \in Deliveries
    BY DEF Deliveries
  <2>2. ~RowOf(d).fresh
    BY <1>1, <2>1 DEF Inv, RowInv
  <2>3. RowStep(d)
    BY <1>1, <2>1, RowSteps
  <2> QED  BY <2>2, <2>3 DEF RowStep, Claimable, Marks, MayMark, LeaseGoesStale
<1>2. ASSUME Inv, [Next]_vars
      PROVE  [\A d \in Ids : Exists(d) /\ RowOf(d).status # "PENDING" => RowOf(d)' = RowOf(d)]_vars
  BY <1>1, <1>2
<1> QED  BY <1>2, Invariant, PTL DEF Spec, SettledIsFinal

\* While a live claimant's lease is fresh nobody else writes the row: a take-over needs a
\* stale lease, and a mark needs the token, which no other live process has.
THEOREM LeaseHolds == Spec => LeaseProtects
<1>1. ASSUME Inv, [Next]_vars
      PROVE  \A d \in Ids, p \in Processes :
               Exists(d) /\ RowOf(d).fresh /\ Claimant(p, d) =>
                 \/ RowOf(d)' \in {RowOf(d), [RowOf(d) EXCEPT !.fresh = FALSE]}
                 \/ proc'[p] # proc[p]
  <2> SUFFICES ASSUME NEW d \in Ids, NEW p \in Processes,
                      Exists(d), RowOf(d).fresh, Claimant(p, d)
               PROVE  \/ RowOf(d)' \in {RowOf(d), [RowOf(d) EXCEPT !.fresh = FALSE]}
                      \/ proc'[p] # proc[p]
    OBVIOUS
  <2>1. d \in Deliveries
    BY DEF Deliveries
  <2>2. RowOf(d).token # NoToken
    BY <1>1, <2>1 DEF Inv, RowInv
  <2>3. RowStep(d)
    BY <1>1, <2>1, RowSteps
  <2>4. CASE Claimable(RowOf(d))
    BY <2>2, <2>4 DEF Claimable
  <2>5. ASSUME NEW q \in Processes, Marks(q, d)  PROVE  proc'[p] # proc[p]
    <3>1. q = p
      BY <1>1, <2>5 DEF Marks, MayMark, Claimant, Live, Inv, TokenInv
    <3>2. proc[p].pc = "answered"
      BY <2>5, <3>1 DEF Marks, MarkDelivery, MarkingThrows, At
    <3>3. CASE MarkDelivery(p)
      <4>1. proc'[p] = WithoutDelivery(p)
        BY <1>1, <3>3 DEF MarkDelivery, Inv, TypeOK
      <4>2. WithoutDelivery(p).pc = "dispatching"
        BY <1>1, WithoutDeliveryTyped DEF Inv
      <4> QED  BY <3>2, <4>1, <4>2
    <3>4. CASE MarkingThrows(p)
      <4>1. proc[p] \in ProcTypes /\ proc \in [Processes -> ProcTypes]
        BY <1>1 DEF Inv, TypeOK
      <4>2. proc'[p].outcome = "FAILED" /\ proc[p].outcome = "DELIVERED"
        BY <3>4, <4>1 DEF MarkingThrows, ProcTypes
      <4> QED  BY <4>2
    <3> QED  BY <2>5, <3>1, <3>3, <3>4 DEF Marks
  <2> QED  BY <2>3, <2>4, <2>5 DEF RowStep
<1>2. ASSUME Inv, [Next]_vars
      PROVE  [\A d \in Ids, p \in Processes :
                Exists(d) /\ RowOf(d).fresh /\ Claimant(p, d) =>
                  RowOf(d)' \in {RowOf(d), [RowOf(d) EXCEPT !.fresh = FALSE]}
                  \/ proc'[p] # proc[p]]_vars
  BY <1>1, <1>2
<1> QED  BY <1>2, Invariant, PTL DEF Spec, LeaseProtects

-----------------------------------------------------------------------------
(* No process paused past its lease.                                       *)

\* A process that sends has the lease, fresh, until it has answered; only a mark that
\* threw after it was carried out leaves it with a settled row.
HoldInv ==
  \A p \in Processes : Live(p) =>
    \/ Holds(p) /\ RowOf(Delivery(p)).fresh
    \/ At(p, "answered") /\ RowOf(Delivery(p)).status # "PENDING"

\* What the others do leaves the lease of a process that does not move.
LEMMA OthersHold ==
  ASSUME Inv, HoldInv, StallPoints = {}, [Next]_vars,
         NEW q \in Processes, Live(q), proc'[q] = proc[q]
  PROVE  \/ (Holds(q) /\ RowOf(Delivery(q)).fresh)'
         \/ (At(q, "answered") /\ RowOf(Delivery(q)).status # "PENDING")'
<1> DEFINE d == Delivery(q)
<1>1. d \in Deliveries /\ d \in Ids
  BY DEF Inv, SendInv, Deliveries
<1>2. RowStep(d)
  BY <1>1, RowSteps
<1>3. RowOf(d).fresh => RowOf(d).token # NoToken
  BY <1>1 DEF Inv, RowInv
<1>4. RowOf(d).status # "PENDING" => ~RowOf(d).fresh
  BY <1>1 DEF Inv, RowInv
<1>5. ASSUME NEW p \in Processes, Marks(p, d)  PROVE  RowOf(d)' = RowOf(d)
  <2>1. p # q
    <3>1. CASE MarkDelivery(p)
      <4>1. proc'[p] = WithoutDelivery(p) /\ WithoutDelivery(p).pc = "dispatching"
        BY <3>1, WithoutDeliveryTyped DEF MarkDelivery, Inv, TypeOK
      <4> QED  BY <3>1, <4>1 DEF MarkDelivery, At
    <3>2. CASE MarkingThrows(p)
      <4>1. proc[p] \in ProcTypes /\ proc \in [Processes -> ProcTypes]
        BY DEF Inv, TypeOK
      <4>2. proc'[p].outcome = "FAILED" /\ proc[p].outcome = "DELIVERED"
        BY <3>2, <4>1 DEF MarkingThrows, ProcTypes
      <4> QED  BY <4>2
    <3> QED  BY <1>5, <3>1, <3>2 DEF Marks
  <2>2. proc[p].token # proc[q].token
    BY <1>5, <2>1 DEF Inv, TokenInv, Marks
  <2>3. RowOf(d).status = "PENDING" /\ RowOf(d).token = proc[p].token
    BY <1>5 DEF Marks, MayMark
  <2> QED  BY <2>2, <2>3 DEF HoldInv, Holds
<1>6. CASE RowOf(d).status # "PENDING"
  <2>1. RowOf(d)' = RowOf(d)
    BY SMTT(40), <1>2, <1>4, <1>5, <1>6 DEF RowStep, Claimable, LeaseGoesStale
  <2>2. RowOf(Delivery(q))' = RowOf(Delivery(q)) /\ At(q, "answered")' /\ At(q, "answered")
    BY ZenonT(30), <1>6, <2>1 DEF HoldInv, Holds, Delivery, At, RowOf
  <2> QED  BY <1>6, <2>2
<1>7. CASE Holds(q) /\ RowOf(d).fresh
  <2>1. Claimant(q, d)
    BY <1>7 DEF Claimant, Holds, Live
  <2>2. RowOf(d)' = RowOf(d)
    BY <1>2, <1>3, <1>5, <1>7, <2>1 DEF RowStep, Claimable, LeaseGoesStale
  <2>3. RowOf(Delivery(q))' = RowOf(Delivery(q))
    BY <2>2 DEF Delivery, RowOf
  <2> QED  BY <1>7, <2>3 DEF Holds
<1> QED  BY <1>6, <1>7 DEF HoldInv

LEMMA HoldStepInv ==
  ASSUME Inv, HoldInv, StallPoints = {}, [Next]_vars
  PROVE  HoldInv'
<1> SUFFICES ASSUME NEW q \in Processes, Live(q)'
             PROVE  \/ (Holds(q) /\ RowOf(Delivery(q)).fresh)'
                    \/ (At(q, "answered") /\ RowOf(Delivery(q)).status # "PENDING")'
  BY DEF HoldInv
<1> DEFINE Goal == \/ (Holds(q) /\ RowOf(Delivery(q)).fresh)'
                   \/ (At(q, "answered") /\ RowOf(Delivery(q)).status # "PENDING")'
<1>1. TypeOK /\ proc[q] \in ProcTypes /\ proc \in [Processes -> ProcTypes]
  BY DEF Inv, TypeOK
<1>2. CASE proc'[q] = proc[q]
  <2>1. Live(q)
    BY <1>2 DEF Live
  <2> QED  BY <1>2, <2>1, OthersHold
<1>3. ASSUME NEW d \in Deliveries, Claim(q, d)  PROVE  Goal
  <2>1. RowOf(d) \in RowTypes
    BY <1>1, DeliveryTyped
  <2>2. RowOf(d).attempts + 1 \in 0..MaxClaims /\ RowOf(d).status = "PENDING"
    BY <1>3, <2>1, BoundsAssumption DEF Claim, RowTypes, Claimable
  <2> DEFINE r == [RowOf(d) EXCEPT !.token = RowOf(d).attempts + 1, !.fresh = TRUE,
                                   !.attempts = @ + 1]
  <2>3. /\ r \in RowTypes /\ r.status = "PENDING" /\ r.fresh
        /\ r.token = RowOf(d).attempts + 1 /\ SetRow(d, r)
    BY <1>3, <2>1, <2>2 DEF Claim, RowTypes
  <2> HIDE DEF r
  <2>4. RowOf(d)' = r
    BY <1>1, <2>3, SetRowMeans
  <2>5. proc'[q].delivery = d /\ proc'[q].token = RowOf(d).attempts + 1
    BY <1>1, <1>3 DEF Claim, ProcTypes
  <2> QED  BY <2>3, <2>4, <2>5 DEF Holds, Delivery, RowOf
<1>4. ASSUME Live(q), row' = row, proc'[q].delivery = proc[q].delivery,
             proc'[q].token = proc[q].token, Holds(q) \/ At(q, "answered")',
             RowOf(Delivery(q)).status # "PENDING" => At(q, "answered")'
      PROVE  Goal
  <2>1. Delivery(q)' = Delivery(q) /\ RowOf(Delivery(q))' = RowOf(Delivery(q))
    BY <1>4 DEF Delivery, RowOf
  <2> QED  BY <1>4, <2>1 DEF HoldInv, Holds
<1>5. CASE LoadDelivery(q)
  <2>1. Live(q) /\ row' = row /\ At(q, "claimed")
    BY <1>5 DEF LoadDelivery, At, Live, SendPoints
  <2>2. Holds(q) /\ RowOf(Delivery(q)).status = "PENDING"
    BY <2>1 DEF HoldInv, Holds, At
  <2>3. proc'[q].delivery = proc[q].delivery /\ proc'[q].token = proc[q].token
    BY <1>1, <1>5, <2>2 DEF LoadDelivery, ProcTypes
  <2> QED  BY <1>4, <2>1, <2>2, <2>3
<1>6. CASE EndpointReceives(q) \/ TransportEnds(q)
  <2>1. Live(q) /\ row' = row /\ At(q, "sending")
    BY <1>6 DEF EndpointReceives, TransportEnds, At, Live, SendPoints
  <2>2. Holds(q) /\ RowOf(Delivery(q)).status = "PENDING"
    BY <2>1 DEF HoldInv, Holds, At
  <2>3. proc'[q].delivery = proc[q].delivery /\ proc'[q].token = proc[q].token
    <3>1. CASE EndpointReceives(q)
      BY <1>1, <3>1 DEF EndpointReceives, ProcTypes
    <3>2. CASE TransportEnds(q)
      BY ZenonT(60), <1>1, <3>2 DEF TransportEnds, ProcTypes
    <3> QED  BY <1>6, <3>1, <3>2
  <2> QED  BY <1>4, <2>1, <2>2, <2>3
<1>7. CASE MarkingThrows(q)
  <2>1. Live(q) /\ At(q, "answered") /\ (Mark(q) \/ UNCHANGED row)
    BY <1>7 DEF MarkingThrows, At, Live, SendPoints
  <2>2. /\ proc'[q].delivery = proc[q].delivery /\ proc'[q].token = proc[q].token
        /\ At(q, "answered")'
    BY <1>1, <1>7 DEF MarkingThrows, ProcTypes, At
  <2>3. CASE row' = row
    BY <1>4, <2>1, <2>2, <2>3
  <2>4. CASE /\ Settled(RowOf(Delivery(q)), proc[q].outcome) \in RowTypes
             /\ SetRow(Delivery(q), Settled(RowOf(Delivery(q)), proc[q].outcome))
    <3>1. Delivery(q) \in Deliveries
      BY <2>1 DEF Inv, SendInv
    <3>2. RowOf(Delivery(q)) \in RowTypes /\ proc[q].outcome \in Outcomes
      BY <1>1, <3>1, DeliveryTyped DEF ProcTypes
    <3>3. PICK e \in Deliveries : e = Delivery(q)
      BY <3>1
    <3>4. RowOf(e)' = Settled(RowOf(e), proc[q].outcome)
      BY <1>1, <2>4, <3>3, SetRowMeans
    <3>5. Settled(RowOf(e), proc[q].outcome).status # "PENDING"
      BY <3>2, <3>3 DEF Settled, RowTypes, Outcomes
    <3>6. RowOf(Delivery(q))' = RowOf(e)'
      BY <2>2, <3>3 DEF Delivery, RowOf
    <3> QED  BY <2>2, <3>4, <3>5, <3>6
  <2> QED  BY <2>1, <2>3, <2>4, MarkMeans
<1>8. ASSUME NEW k \in Keys, StartEvent(q, k)  PROVE  FALSE
  <2>1. proc'[q].pc = "waiting"
    BY <1>1, <1>8, RestTyped DEF StartEvent, Points
  <2> QED  BY <2>1 DEF Live, SendPoints
<1>9. ASSUME PrepareStep(q)  PROVE  FALSE
  <2>1. Rest("dispatching") \in ProcTypes /\ Rest("dispatching").pc = "dispatching"
        /\ Rest("idle").pc = "idle"
    BY RestTyped DEF Points
  <2>2. CASE PlanEvent(q)
    BY <1>1, <2>2 DEF PlanEvent, ProcTypes, Live, SendPoints
  <2>3. CASE CommitEvent(q)
    BY <1>1, <2>1, <2>3 DEF CommitEvent, ProcTypes, Live, SendPoints
  <2>4. CASE RollBackEvent(q)
    BY <1>1, <2>1, <2>4 DEF RollBackEvent, Live, SendPoints
  <2> QED  BY <1>9, <2>2, <2>3, <2>4 DEF PrepareStep
<1>10. CASE SkipPrepared(q) \/ DispatchEnds(q) \/ MarkDelivery(q) \/ Crash(q) \/ Restart(q)
  <2>1. /\ Rest("idle").pc = "idle" /\ Rest("down").pc = "down"
        /\ WithoutDelivery(q).pc = "dispatching"
    BY <1>1, RestTyped, WithoutDeliveryTyped DEF Points
  <2>2. proc'[q].pc \in {"dispatching", "idle", "down"}
    BY <1>1, <1>10, <2>1
       DEF SkipPrepared, DispatchEnds, MarkDelivery, Crash, Restart, At, ProcTypes
  <2> QED  BY <2>2 DEF Live, SendPoints
<1>11. CASE ClaimPrepared(q) \/ ClaimNext(q)
  <2>1. proc[q].mine \subseteq Deliveries
    BY <1>1, ProcTyped
  <2> QED  BY <1>3, <1>11, <2>1 DEF ClaimPrepared, ClaimNext
<1>12. CASE proc'[q] # proc[q]
  <2>1. CASE \/ \E k \in Keys : StartEvent(q, k)
             \/ PrepareStep(q) \/ SendStep(q)
             \/ EndpointReceives(q) \/ MarkingThrows(q) \/ Crash(q) \/ Restart(q)
    BY <2>1, <1>5, <1>6, <1>7, <1>8, <1>9, <1>10, <1>11 DEF SendStep
  <2>2. ASSUME NEW p \in Processes, p # q,
               \/ \E k \in Keys : StartEvent(p, k)
               \/ PrepareStep(p) \/ SendStep(p)
               \/ EndpointReceives(p) \/ MarkingThrows(p) \/ Crash(p) \/ Restart(p)
        PROVE  FALSE
    <3>1. CASE (\E k \in Keys : StartEvent(p, k)) \/ PrepareStep(p)
      BY ZenonT(60), <1>1, <1>12, <2>2, <3>1
         DEF StartEvent, PrepareStep, PlanEvent, CommitEvent, RollBackEvent
    <3>2. CASE SendStep(p)
      BY ZenonT(60), <1>1, <1>12, <2>2, <3>2
         DEF SendStep, ClaimPrepared, SkipPrepared, DispatchEnds, ClaimNext, Claim, LoadDelivery,
             TransportEnds, MarkDelivery
    <3>3. CASE EndpointReceives(p) \/ MarkingThrows(p) \/ Crash(p) \/ Restart(p)
      BY <1>1, <1>12, <2>2, <3>3 DEF EndpointReceives, MarkingThrows, Crash, Restart
    <3> QED  BY <2>2, <3>1, <3>2, <3>3
  <2>3. proc' # proc
    BY <1>12
  <2> QED  BY <2>1, <2>2, <2>3 DEF Next, Tick, LeaseGoesStale, vars
<1> QED  BY <1>2, <1>12

\* If no process is paused past its lease, two are never in the request of one delivery:
\* each would hold the lease, under tokens that differ.
THEOREM OneSender == ASSUME StallPoints = {}  PROVE Spec => []OneSenderAtATime
<1>1. Init => HoldInv
  BY RestTyped DEF Init, HoldInv, Live, SendPoints, Points
<1>2. Inv /\ HoldInv /\ [Next]_vars => HoldInv'
  BY HoldStepInv
<1>3. Inv /\ HoldInv => OneSenderAtATime
  <2> SUFFICES ASSUME Inv, HoldInv, NEW p \in Processes, NEW q \in Processes,
                      At(p, "sending"), At(q, "sending"), Delivery(p) = Delivery(q), p # q
               PROVE  FALSE
    BY DEF OneSenderAtATime
  <2>1. Live(p) /\ Live(q)
    BY DEF At, Live, SendPoints
  <2>2. Holds(p) /\ Holds(q)
    BY <2>1 DEF HoldInv, At
  <2> QED  BY <2>1, <2>2 DEF Inv, TokenInv, Holds
<1> QED  BY <1>1, <1>2, <1>3, Invariant, PTL DEF Spec

-----------------------------------------------------------------------------
(* How often an endpoint is reached.                                       *)

Working(d) == \E p \in Processes : Live(p) /\ Delivery(p) = d

\* A process that may still reach the endpoint under its claim.
Unsent(p) == proc[p].pc \in {"claimed", "sending"} /\ ~proc[p].reached

\* A row without a token was never claimed.  A claim reaches the endpoint once at most.  A claim that
\* no process works on any more was cut off by a crash, and a crash cuts off one claim at most.
ClaimsInv ==
  /\ \A d \in Ids \ Deliveries : received[d] = 0
  /\ \A d \in Deliveries :
       /\ RowOf(d).status = "PENDING" /\ RowOf(d).token = NoToken => RowOf(d).attempts = 0
       /\ RowOf(d).attempts <= 1 + crashes
       /\ RowOf(d).status = "PENDING" /\ RowOf(d).token # NoToken /\ ~Working(d) =>
            RowOf(d).attempts <= crashes
       /\ received[d] <= RowOf(d).attempts
  /\ \A p \in Processes : Unsent(p) => received[Delivery(p)] < RowOf(Delivery(p)).attempts

\* A step that neither claims nor reaches an endpoint: rows are made or settled, processes leave
\* settled deliveries, or one crashes.
LEMMA NoClaimStep ==
  ASSUME Inv, ClaimsInv,
         crashes' \in Nat, crashes' >= crashes, received' = received,
         Deliveries \subseteq Deliveries',
         \A d \in Deliveries :
           /\ RowOf(d)'.attempts = RowOf(d).attempts
           /\ RowOf(d)'.status = "PENDING" =>
                RowOf(d).status = "PENDING" /\ RowOf(d)'.token = RowOf(d).token,
         \A d \in Deliveries' \ Deliveries :
           RowOf(d)'.token = NoToken /\ RowOf(d)'.attempts = 0,
         \/ crashes' = crashes + 1
         \/ \A d \in Deliveries : RowOf(d)'.status = "PENDING" /\ Working(d) => Working(d)',
         \A p \in Processes : Unsent(p)' => Unsent(p) /\ Delivery(p)' = Delivery(p)
  PROVE  ClaimsInv'
<1>1. crashes \in Nat
  BY BoundsAssumption DEF Inv, TypeOK
<1>2. \A d \in Deliveries : RowOf(d).attempts \in Nat /\ received[d] \in Nat
  <2>1. TypeOK /\ received \in [Ids -> Nat]
    BY DEF Inv, TypeOK
  <2>2. \A d \in Deliveries : d \in Ids /\ RowOf(d) \in RowTypes
    BY <2>1, DeliveryTyped
  <2>3. \A d \in Deliveries : RowOf(d).attempts \in 0..MaxClaims
    BY <2>2 DEF RowTypes
  <2> QED  BY <2>1, <2>2, <2>3, BoundsAssumption
<1>3. \A d \in Ids \ Deliveries' : received'[d] = 0
  BY DEF ClaimsInv
<1>4. ASSUME NEW d \in Deliveries'
      PROVE  /\ (RowOf(d).status = "PENDING" /\ RowOf(d).token = NoToken =>
                   RowOf(d).attempts = 0)'
             /\ (RowOf(d).attempts <= 1 + crashes)'
             /\ (RowOf(d).status = "PENDING" /\ RowOf(d).token # NoToken /\ ~Working(d) =>
                   RowOf(d).attempts <= crashes)'
             /\ (received[d] <= RowOf(d).attempts)'
  <2>1. CASE d \notin Deliveries
    <3>1. d \in Ids
      BY <1>4 DEF Deliveries, Ids
    <3>2. received'[d] = 0
      BY <2>1, <3>1 DEF ClaimsInv
    <3> QED  BY <1>1, <1>4, <2>1, <3>2 DEF NoToken
  <2>2. CASE d \in Deliveries
    BY <1>1, <1>2, <2>2 DEF ClaimsInv, NoToken
  <2> QED  BY <2>1, <2>2
<1>5. ASSUME NEW p \in Processes, Unsent(p)'
      PROVE  (received[Delivery(p)] < RowOf(Delivery(p)).attempts)'
  <2>1. Unsent(p) /\ Delivery(p)' = Delivery(p)
    BY <1>5
  <2>2. Delivery(p) \in Deliveries
    BY <2>1 DEF Unsent, Inv, SendInv, Live, SendPoints
  <2>3. PICK d \in Deliveries : d = Delivery(p) /\ d = Delivery(p)'
    BY <2>1, <2>2
  <2>4. received[d] < RowOf(d).attempts /\ RowOf(d)'.attempts = RowOf(d).attempts
    BY <2>1, <2>3 DEF ClaimsInv
  <2>5. RowOf(Delivery(p))' = RowOf(d)' /\ received'[Delivery(p)'] = received[d]
    BY <2>3 DEF RowOf
  <2> QED  BY <2>4, <2>5
<1> QED  BY <1>3, <1>4, <1>5 DEF ClaimsInv

\* A step of one process that leaves the rows and the endpoints as they are.
LEMMA QuietProcess ==
  ASSUME Inv, ClaimsInv, NEW p \in Processes, NEW s,
         proc' = [proc EXCEPT ![p] = s], UNCHANGED <<row, received>>,
         crashes' \in Nat, crashes' >= crashes,
         \/ crashes' = crashes + 1
         \/ ~Live(p)
         \/ s.pc \in SendPoints /\ s.delivery = Delivery(p),
         s.pc \in {"claimed", "sending"} /\ ~s.reached => Unsent(p) /\ s.delivery = Delivery(p)
  PROVE  ClaimsInv'
<1>1. proc'[p] = s /\ \A q \in Processes : q # p => proc'[q] = proc[q]
  BY DEF Inv, TypeOK
<1>2. Deliveries' = Deliveries /\ \A d \in Deliveries : RowOf(d)' = RowOf(d)
  BY DEF Deliveries, Exists, RowOf
<1>3. \A q \in Processes : Unsent(q)' => Unsent(q) /\ Delivery(q)' = Delivery(q)
  BY <1>1 DEF Unsent, Delivery
<1>4. crashes' = crashes + 1 \/ \A q \in Processes : Live(q) => Live(q)' /\ Delivery(q)' = Delivery(q)
  BY <1>1 DEF Live, Delivery
<1>5. crashes' = crashes + 1 \/ \A d \in Deliveries : Working(d) => Working(d)'
  BY <1>4 DEF Working
<1> QED  BY <1>2, <1>3, <1>5, NoClaimStep

\* A commit appends rows without a token.
LEMMA CommitMakesRows ==
  ASSUME Inv, NEW p \in Processes, CommitEvent(p)
  PROVE  /\ Deliveries \subseteq Deliveries'
         /\ \A d \in Deliveries : RowOf(d)' = RowOf(d)
         /\ \A d \in Deliveries' \ Deliveries :
              RowOf(d)'.token = NoToken /\ RowOf(d)'.attempts = 0
<1>1. TypeOK
  BY DEF Inv
<1>2. PICK created \in proc[p].now..clock :
           /\ NewRow(created) \in RowTypes
           /\ \A m \in Keys, e \in Channels :
                row'[m][e] = IF m = proc[p].key /\ e \in proc[p].plan
                             THEN Append(row[m][e], NewRow(created)) ELSE row[m][e]
  BY CommitRows DEF Inv
<1>3. NewRow(created).token = NoToken /\ NewRow(created).attempts = 0
  BY DEF NewRow
<1> HIDE DEF NewRow
<1>4. ASSUME NEW k \in Keys, NEW c \in Channels
      PROVE  /\ Len(row[k][c]) \in Nat /\ Len(row'[k][c]) \in Nat
             /\ Len(row[k][c]) <= Len(row'[k][c])
             /\ \A i \in Nat \ {0} :
                  /\ i <= Len(row[k][c]) => row'[k][c][i] = row[k][c][i]
                  /\ ~(i <= Len(row[k][c])) /\ i <= Len(row'[k][c]) =>
                       row'[k][c][i] = NewRow(created)
  <2>1. row[k][c] \in Seq(RowTypes) /\ Len(row[k][c]) \in Nat
    BY <1>1, RowTyped
  <2>2. CASE row'[k][c] = row[k][c]
    BY <2>1, <2>2
  <2>3. CASE row'[k][c] = Append(row[k][c], NewRow(created))
    BY <1>2, <2>1, <2>3, AppendProperties
  <2> QED  BY <1>2, <2>2, <2>3
<1>5. ASSUME NEW d \in Ids
      PROVE  /\ Exists(d) => Exists(d)' /\ RowOf(d)' = RowOf(d)
             /\ Exists(d)' /\ ~Exists(d) => RowOf(d)' = NewRow(created)
  <2>1. d[1] \in Keys /\ d[2] \in Channels /\ d[3] \in 1..MaxEvents
    BY DEF Ids
  <2>2. PICK k \in Keys, c \in Channels, i \in Nat \ {0} : k = d[1] /\ c = d[2] /\ i = d[3]
    BY <2>1, BoundsAssumption
  <2>3. i <= Len(row[k][c]) => i <= Len(row'[k][c]) /\ row'[k][c][i] = row[k][c][i]
    BY <1>4
  <2>4. i <= Len(row'[k][c]) /\ ~(i <= Len(row[k][c])) => row'[k][c][i] = NewRow(created)
    BY <1>4
  <2> QED  BY <2>2, <2>3, <2>4 DEF Exists, RowOf
<1> QED  BY <1>3, <1>5 DEF Deliveries, Ids

LEMMA PrepareClaims ==
  ASSUME Inv, ClaimsInv, NEW p \in Processes, PrepareStep(p) \/ \E k \in Keys : StartEvent(p, k)
  PROVE  ClaimsInv'
<1>1. crashes' = crashes /\ crashes \in Nat /\ received' = received /\ ~Live(p)
  <2>1. crashes \in Nat
    BY BoundsAssumption DEF Inv, TypeOK
  <2>2. CASE \E k \in Keys : StartEvent(p, k)
    BY <2>1, <2>2 DEF StartEvent, At, Live, SendPoints
  <2>3. CASE PrepareStep(p)
    BY <2>1, <2>3 DEF PrepareStep, PlanEvent, CommitEvent, RollBackEvent, At, Live, SendPoints
  <2> QED  BY <2>2, <2>3
<1>2. proc[p] \in ProcTypes
  BY ProcTyped DEF Inv
<1>3. /\ Rest("idle").pc = "idle" /\ Rest("dispatching").pc = "dispatching"
      /\ Rest("waiting").pc = "waiting"
      /\ Rest("waiting") \in ProcTypes /\ Rest("dispatching") \in ProcTypes
  BY RestTyped DEF Points
<1>4. PICK s : proc' = [proc EXCEPT ![p] = s] /\ s.pc \notin SendPoints
  <2>1. ASSUME NEW k \in Keys, StartEvent(p, k)
        PROVE  \E s : proc' = [proc EXCEPT ![p] = s] /\ s.pc \notin SendPoints
    <3> DEFINE s == [Rest("waiting") EXCEPT !.key = k, !.now = clock]
    <3>1. s.pc = "waiting"
      BY <1>3 DEF ProcTypes
    <3>2. proc' = [proc EXCEPT ![p] = s]
      BY <2>1 DEF StartEvent
    <3> HIDE DEF s
    <3> QED  BY <3>1, <3>2 DEF SendPoints
  <2>2. CASE PlanEvent(p)
    <3>1. PICK on \in SUBSET Channels :
            proc' = [proc EXCEPT ![p] =
                       [@ EXCEPT !.pc = "planned", !.new = note[proc[p].key] = 0,
                                 !.plan = {c \in on : Cooled(proc[p].key, c, proc[p].now)}]]
      BY <2>2 DEF PlanEvent
    <3> DEFINE s == [proc[p] EXCEPT !.pc = "planned", !.new = note[proc[p].key] = 0,
                                    !.plan = {c \in on : Cooled(proc[p].key, c, proc[p].now)}]
    <3>2. s.pc = "planned" /\ proc' = [proc EXCEPT ![p] = s]
      BY <1>2, <3>1 DEF ProcTypes
    <3> HIDE DEF s
    <3> QED  BY <3>2 DEF SendPoints
  <2>3. CASE CommitEvent(p)
    <3> DEFINE s == [Rest("dispatching") EXCEPT
                       !.mine = {<<proc[p].key, c, Len(row[proc[p].key][c]) + 1>> :
                                   c \in proc[p].plan}]
    <3>1. s.pc = "dispatching"
      BY <1>3 DEF ProcTypes
    <3>2. proc' = [proc EXCEPT ![p] = s]
      BY <2>3 DEF CommitEvent
    <3> HIDE DEF s
    <3> QED  BY <3>1, <3>2 DEF SendPoints
  <2>4. CASE RollBackEvent(p)
    BY <1>3, <2>4 DEF RollBackEvent, SendPoints
  <2> QED  BY <2>1, <2>2, <2>3, <2>4 DEF PrepareStep
<1>5. CASE row' = row
  <2>1. crashes' \in Nat /\ crashes' >= crashes
    BY <1>1
  <2>2. ~(s.pc \in {"claimed", "sending"})
    BY <1>4 DEF SendPoints
  <2> QED  BY <1>1, <1>4, <1>5, <2>1, <2>2, QuietProcess
<1>6. CASE CommitEvent(p)
  <2>1. /\ Deliveries \subseteq Deliveries'
        /\ \A d \in Deliveries : RowOf(d)' = RowOf(d)
        /\ \A d \in Deliveries' \ Deliveries :
             RowOf(d)'.token = NoToken /\ RowOf(d)'.attempts = 0
    BY <1>6, CommitMakesRows
  <2>2. proc'[p] = s /\ \A q \in Processes : q # p => proc'[q] = proc[q]
    BY <1>4 DEF Inv, TypeOK
  <2>3. \A q \in Processes : /\ Unsent(q)' => Unsent(q) /\ Delivery(q)' = Delivery(q)
                             /\ Live(q) => Live(q)' /\ Delivery(q)' = Delivery(q)
    BY <1>1, <1>4, <2>2 DEF Unsent, Live, Delivery, SendPoints
  <2>4. \A d \in Deliveries : Working(d) => Working(d)'
    BY <2>3 DEF Working
  <2> QED  BY <1>1, <2>1, <2>3, <2>4, NoClaimStep
<1> QED  BY <1>5, <1>6 DEF PrepareStep, StartEvent, PlanEvent, RollBackEvent

LEMMA MarkClaims ==
  ASSUME Inv, HoldInv, ClaimsInv, NEW p \in Processes, MarkDelivery(p) \/ MarkingThrows(p)
  PROVE  ClaimsInv'
<1>1. /\ Live(p) /\ At(p, "answered") /\ (Mark(p) \/ UNCHANGED row)
      /\ crashes' = crashes /\ received' = received
  BY DEF MarkDelivery, MarkingThrows, At, Live, SendPoints
<1>2. TypeOK /\ crashes \in Nat /\ proc[p] \in ProcTypes
  BY ProcTyped, BoundsAssumption DEF Inv, TypeOK
<1>3. PICK d \in Deliveries : d = Delivery(p)
  BY <1>1 DEF Inv, SendInv
<1>4. RowOf(d) \in RowTypes /\ proc[p].outcome \in Outcomes
  BY <1>2, <1>3, DeliveryTyped DEF ProcTypes
<1>5. /\ Deliveries' = Deliveries
      /\ \A e \in Deliveries : /\ RowOf(e)'.attempts = RowOf(e).attempts
                               /\ RowOf(e)'.status = "PENDING" => RowOf(e)' = RowOf(e)
                               /\ e # d => RowOf(e)' = RowOf(e)
  <2>1. CASE row' = row
    BY <2>1 DEF Deliveries, Exists, RowOf
  <2>2. CASE /\ Settled(RowOf(d), proc[p].outcome) \in RowTypes
             /\ SetRow(d, Settled(RowOf(d), proc[p].outcome))
    <3>1. /\ Deliveries' = Deliveries
          /\ RowOf(d)' = Settled(RowOf(d), proc[p].outcome)
          /\ \A e \in Deliveries : e # d => RowOf(e)' = RowOf(e)
      BY <1>2, <2>2, SetRowMeans
    <3>2. /\ Settled(RowOf(d), proc[p].outcome).attempts = RowOf(d).attempts
          /\ Settled(RowOf(d), proc[p].outcome).status # "PENDING"
      BY <1>4 DEF Settled, RowTypes, Outcomes
    <3> QED  BY <3>1, <3>2
  <2> QED  BY <1>1, <1>3, <2>1, <2>2, MarkMeans
<1>6. \A q \in Processes : q # p => proc'[q] = proc[q]
  BY <1>2 DEF MarkDelivery, MarkingThrows, TypeOK
<1>7. \/ proc'[p].pc = "answered" /\ proc'[p].delivery = proc[p].delivery
      \/ proc'[p].pc = "dispatching" /\ RowOf(d)'.status # "PENDING"
  <2>1. CASE MarkingThrows(p)
    BY <1>2, <2>1 DEF MarkingThrows, At, TypeOK, ProcTypes
  <2>2. CASE MarkDelivery(p)
    <3>1. proc'[p] = WithoutDelivery(p) /\ WithoutDelivery(p).pc = "dispatching" /\ Mark(p)
      BY <1>2, <2>2, WithoutDeliveryTyped DEF MarkDelivery, TypeOK
    <3>2. CASE RowOf(d).status # "PENDING"
      BY <1>5, <3>1, <3>2
    <3>3. CASE RowOf(d).status = "PENDING"
      <4>1. Holds(p)
        BY <1>1, <1>3, <3>3 DEF HoldInv
      <4>2. SetRow(d, Settled(RowOf(d), proc[p].outcome))
        BY <1>3, <3>1, <4>1 DEF Mark, MayMark, Holds
      <4>3. /\ Settled(RowOf(d), proc[p].outcome) \in RowTypes
            /\ Settled(RowOf(d), proc[p].outcome).status # "PENDING"
        <5>1. NoToken \in 0..MaxClaims
          BY BoundsAssumption DEF NoToken
        <5> QED  BY <1>4, <5>1 DEF Settled, RowTypes, Outcomes
      <4>4. RowOf(d)' = Settled(RowOf(d), proc[p].outcome)
        BY <1>2, <4>2, <4>3, SetRowMeans
      <4> QED  BY <3>1, <4>3, <4>4
    <3> QED  BY <3>2, <3>3
  <2> QED  BY <2>1, <2>2
<1>8. \A e \in Deliveries : RowOf(e)'.status = "PENDING" /\ Working(e) => Working(e)'
  BY <1>1, <1>3, <1>6, <1>7 DEF Working, Live, Delivery, SendPoints
<1>9. \A q \in Processes : Unsent(q)' => Unsent(q) /\ Delivery(q)' = Delivery(q)
  BY <1>6, <1>7 DEF Unsent, Delivery
<1> QED  BY <1>1, <1>2, <1>5, <1>8, <1>9, NoClaimStep DEF NoToken

\* A claim is the first of its row, or follows one that nobody works on any more.
LEMMA ClaimClaims ==
  ASSUME Inv, HoldInv, ClaimsInv, NEW p \in Processes, NEW d \in Deliveries, Claim(p, d),
         ~Live(p)
  PROVE  ClaimsInv'
<1> DEFINE r == [RowOf(d) EXCEPT !.token = RowOf(d).attempts + 1, !.fresh = TRUE,
                                 !.attempts = @ + 1]
<1>1. TypeOK /\ crashes \in Nat /\ crashes' = crashes /\ received' = received
  BY BoundsAssumption DEF Inv, TypeOK, Claim
<1>2. RowOf(d) \in RowTypes /\ d \in Ids
  BY <1>1, DeliveryTyped
<1>3. RowOf(d).attempts \in 0..MaxClaims /\ RowOf(d).attempts < MaxClaims /\ Claimable(RowOf(d))
  BY <1>2 DEF Claim, RowTypes
<1>4. RowOf(d).attempts + 1 \in 0..MaxClaims /\ RowOf(d).attempts + 1 # NoToken
  BY <1>3, BoundsAssumption DEF NoToken
<1>5. /\ r \in RowTypes /\ r.attempts = RowOf(d).attempts + 1 /\ r.token # NoToken /\ SetRow(d, r)
  BY <1>2, <1>3, <1>4 DEF RowTypes, Claim
<1> HIDE DEF r
<1>6. /\ Deliveries' = Deliveries /\ RowOf(d)' = r
      /\ \A e \in Deliveries : e # d => RowOf(e)' = RowOf(e)
  BY <1>1, <1>5, SetRowMeans
<1>7. /\ proc'[p].pc = "claimed" /\ proc'[p].delivery = d
      /\ \A q \in Processes : q # p => proc'[q] = proc[q]
  BY <1>1, ProcTyped DEF Claim, TypeOK, ProcTypes
<1>8. \A q \in Processes : q # p =>
        /\ Live(q) => Live(q)'
        /\ Unsent(q)' => Unsent(q)
        /\ Delivery(q)' = Delivery(q)
  BY <1>7 DEF Live, Unsent, Delivery
<1>9. Working(d)'
  BY <1>7 DEF Working, Live, Delivery, SendPoints
<1>10. ASSUME NEW e \in Deliveries, Working(e)  PROVE Working(e)'
  <2>1. PICK q \in Processes : Live(q) /\ Delivery(q) = e
    BY <1>10 DEF Working
  <2>2. q # p
    BY <2>1
  <2>3. Live(q)' /\ Delivery(q)' = e
    BY <1>8, <2>1, <2>2
  <2> QED  BY <2>3 DEF Working
<1>11. RowOf(d).attempts <= crashes
  <2>1. CASE RowOf(d).token = NoToken
    BY <1>1, <1>3, <2>1 DEF ClaimsInv, Claimable
  <2>2. CASE RowOf(d).token # NoToken
    <3>1. RowOf(d).status = "PENDING" /\ ~RowOf(d).fresh
      BY <1>3, <2>2 DEF Claimable
    <3>2. ~Working(d)
      BY <3>1 DEF Working, HoldInv
    <3> QED  BY <2>2, <3>1, <3>2 DEF ClaimsInv
  <2> QED  BY <2>1, <2>2
<1>12. received[d] \in Nat /\ received[d] <= RowOf(d).attempts /\ RowOf(d).attempts \in Nat
  BY <1>1, <1>2, <1>3, BoundsAssumption DEF ClaimsInv, TypeOK
<1>13. ASSUME NEW e \in Deliveries
       PROVE  /\ (RowOf(e).status = "PENDING" /\ RowOf(e).token = NoToken =>
                    RowOf(e).attempts = 0)'
              /\ (RowOf(e).attempts <= 1 + crashes)'
              /\ (RowOf(e).status = "PENDING" /\ RowOf(e).token # NoToken /\ ~Working(e) =>
                    RowOf(e).attempts <= crashes)'
              /\ (received[e] <= RowOf(e).attempts)'
  <2>1. CASE e = d
    <3>1. RowOf(d)' = r /\ r.attempts <= 1 + crashes /\ received[d] <= r.attempts
      BY <1>1, <1>5, <1>6, <1>11, <1>12
    <3>2. RowOf(e)' = r /\ received'[e] = received[d] /\ Working(e)'
      BY <1>1, <1>9, <2>1, <3>1 DEF RowOf, Working
    <3> QED  BY <1>1, <1>5, <3>1, <3>2 DEF NoToken
  <2>2. CASE e # d
    BY <1>1, <1>6, <1>10, <2>2 DEF ClaimsInv, NoToken
  <2> QED  BY <2>1, <2>2
<1>14. ASSUME NEW q \in Processes, Unsent(q)'
       PROVE  (received[Delivery(q)] < RowOf(Delivery(q)).attempts)'
  <2>1. CASE q = p
    <3>1. RowOf(Delivery(q))' = RowOf(d)' /\ received'[Delivery(q)'] = received[d]
      BY <1>1, <1>7, <2>1 DEF Delivery, RowOf
    <3> QED  BY <1>5, <1>6, <1>12, <3>1
  <2>2. CASE q # p
    <3>1. Unsent(q) /\ Live(q) /\ Delivery(q)' = Delivery(q)
      BY <1>8, <1>14, <2>2 DEF Unsent, Live, SendPoints
    <3>2. PICK e \in Deliveries : e = Delivery(q) /\ e = Delivery(q)'
      BY <3>1 DEF Inv, SendInv
    <3>3. received[e] < RowOf(e).attempts
      BY <3>1, <3>2 DEF ClaimsInv
    <3>4. RowOf(Delivery(q))' = RowOf(e)' /\ received'[Delivery(q)'] = received[e]
      BY <1>1, <3>2 DEF RowOf
    <3>5. received[e] < RowOf(e)'.attempts
      <4>1. CASE e = d
        <5>1. RowOf(e)' = r
          BY <1>6, <4>1 DEF RowOf
        <5> QED  BY <1>5, <1>12, <3>3, <4>1, <5>1
      <4>2. CASE e # d
        BY <1>6, <3>3, <4>2
      <4> QED  BY <4>1, <4>2
    <3> QED  BY <3>4, <3>5
  <2> QED  BY <2>1, <2>2
<1>15. \A e \in Ids \ Deliveries' : received'[e] = 0
  BY <1>1, <1>6 DEF ClaimsInv
<1> QED  BY <1>6, <1>13, <1>14, <1>15 DEF ClaimsInv

\* The request of a claim arrives once; no other process is in a request of the delivery.
LEMMA ReceiveClaims ==
  ASSUME Inv, HoldInv, ClaimsInv, NEW p \in Processes, EndpointReceives(p)
  PROVE  ClaimsInv'
<1>1. TypeOK /\ crashes' = crashes /\ row' = row /\ At(p, "sending") /\ Live(p) /\ Unsent(p)
  BY DEF Inv, EndpointReceives, At, Live, Unsent, SendPoints
<1>2. PICK d \in Deliveries : d = Delivery(p)
  BY <1>1 DEF Inv, SendInv
<1>3. Deliveries' = Deliveries /\ \A e \in Deliveries : RowOf(e)' = RowOf(e)
  BY <1>1 DEF Deliveries, Exists, RowOf
<1>4. d \in Ids /\ received \in [Ids -> Nat] /\ RowOf(d) \in RowTypes
  BY <1>1, DeliveryTyped DEF TypeOK
<1>5. RowOf(d).attempts \in Nat /\ received[d] < RowOf(d).attempts
  BY <1>1, <1>2, <1>4, BoundsAssumption DEF RowTypes, ClaimsInv
<1>6. received' = [received EXCEPT ![d] = @ + 1]
  BY <1>2 DEF EndpointReceives
<1>7. received'[d] <= RowOf(d).attempts /\ \A e \in Ids : e # d => received'[e] = received[e]
  BY <1>4, <1>5, <1>6
<1>8. /\ proc'[p].reached /\ proc'[p].pc = "sending" /\ proc'[p].delivery = d
      /\ \A q \in Processes : q # p => proc'[q] = proc[q]
  BY <1>1, <1>2, ProcTyped DEF EndpointReceives, TypeOK, ProcTypes, At, Delivery
<1>9. \A q \in Processes : Live(q) => Live(q)' /\ Delivery(q)' = Delivery(q)
  BY <1>2, <1>8 DEF Live, Delivery, SendPoints
<1>10. \A e \in Deliveries : Working(e) => Working(e)'
  BY <1>9 DEF Working
<1>11. ASSUME NEW q \in Processes, Unsent(q)'
       PROVE  (received[Delivery(q)] < RowOf(Delivery(q)).attempts)'
  <2>1. q # p /\ Unsent(q) /\ Live(q) /\ Delivery(q)' = Delivery(q)
    BY <1>8, <1>11 DEF Unsent, Live, Delivery, SendPoints
  <2>2. Delivery(q) # d
    <3>1. Holds(p) /\ Holds(q)
      BY <1>1, <2>1 DEF HoldInv, At, Unsent
    <3> QED  BY <1>1, <1>2, <2>1, <3>1 DEF Inv, TokenInv, Holds
  <2>3. PICK e \in Deliveries : e = Delivery(q) /\ e = Delivery(q)'
    BY <2>1 DEF Inv, SendInv
  <2>4. received[e] < RowOf(e).attempts /\ e # d /\ e \in Ids
    BY <2>1, <2>2, <2>3 DEF ClaimsInv, Deliveries
  <2>5. RowOf(Delivery(q))' = RowOf(e)' /\ received'[Delivery(q)'] = received'[e]
    BY <2>3 DEF RowOf
  <2> QED  BY <1>3, <1>7, <2>4, <2>5
<1>12. \A e \in Ids \ Deliveries : received'[e] = 0
  BY <1>7 DEF ClaimsInv
<1>13. \A e \in Deliveries : e \in Ids /\ received'[e] <= RowOf(e).attempts
  BY <1>7 DEF ClaimsInv, Deliveries
<1>14. \A e \in Deliveries :
         /\ (RowOf(e).status = "PENDING" /\ RowOf(e).token = NoToken => RowOf(e).attempts = 0)'
         /\ (RowOf(e).attempts <= 1 + crashes)'
         /\ (RowOf(e).status = "PENDING" /\ RowOf(e).token # NoToken /\ ~Working(e) =>
               RowOf(e).attempts <= crashes)'
         /\ (received[e] <= RowOf(e).attempts)'
  BY <1>1, <1>3, <1>10, <1>13 DEF ClaimsInv, NoToken
<1> QED  BY <1>3, <1>11, <1>12, <1>14 DEF ClaimsInv

\* The other steps of a process: with the lease held it does not leave a delivery that is open,
\* unless it crashes.
LEMMA ProcessClaims ==
  ASSUME Inv, HoldInv, ClaimsInv, NEW p \in Processes,
         \/ SkipPrepared(p) \/ DispatchEnds(p) \/ LoadDelivery(p) \/ TransportEnds(p)
         \/ Crash(p) \/ Restart(p)
  PROVE  ClaimsInv'
<1>1. TypeOK /\ crashes \in Nat /\ proc[p] \in ProcTypes
  BY ProcTyped, BoundsAssumption DEF Inv, TypeOK
<1>2. Rest("idle").pc = "idle" /\ Rest("down").pc = "down"
  BY RestTyped DEF Points
<1>3. CASE SkipPrepared(p)
  <2>1. PICK d \in proc[p].mine : proc' = [proc EXCEPT ![p] = [proc[p] EXCEPT !.mine = @ \ {d}]]
    BY <1>3 DEF SkipPrepared
  <2> DEFINE s == [proc[p] EXCEPT !.mine = @ \ {d}]
  <2>2. s.pc = "dispatching" /\ ~Live(p) /\ proc' = [proc EXCEPT ![p] = s]
    BY <1>1, <1>3, <2>1 DEF SkipPrepared, At, Live, SendPoints, ProcTypes
  <2> HIDE DEF s
  <2>3. /\ UNCHANGED <<row, received>> /\ crashes' \in Nat /\ crashes' >= crashes
        /\ ~(s.pc \in {"claimed", "sending"})
    BY <1>1, <1>3, <2>2 DEF SkipPrepared
  <2> QED  BY <2>2, <2>3, QuietProcess
<1>4. CASE DispatchEnds(p) \/ Restart(p)
  <2>1. /\ ~Live(p) /\ proc' = [proc EXCEPT ![p] = Rest("idle")]
        /\ UNCHANGED <<row, received>> /\ crashes' \in Nat /\ crashes' >= crashes
    BY <1>1, <1>4 DEF DispatchEnds, Restart, At, Live, SendPoints
  <2>2. ~(Rest("idle").pc \in {"claimed", "sending"})
    BY <1>2
  <2> QED  BY <2>1, <2>2, QuietProcess
<1>5. CASE Crash(p)
  <2>1. /\ proc' = [proc EXCEPT ![p] = Rest("down")] /\ crashes' = crashes + 1
        /\ UNCHANGED <<row, received>> /\ crashes' \in Nat /\ crashes' >= crashes
    BY <1>1, <1>5 DEF Crash
  <2>2. ~(Rest("down").pc \in {"claimed", "sending"})
    BY <1>2
  <2> QED  BY <2>1, <2>2, QuietProcess
<1>6. CASE LoadDelivery(p)
  <2>1. At(p, "claimed") /\ Live(p)
    BY <1>6 DEF LoadDelivery, At, Live, SendPoints
  <2>2. Holds(p)
    BY <2>1 DEF HoldInv, At
  <2>3. PICK pc \in {"sending", "answered"} : proc' = [proc EXCEPT ![p] = [proc[p] EXCEPT !.pc = pc]]
    BY <1>6, <2>2 DEF LoadDelivery
  <2> DEFINE s == [proc[p] EXCEPT !.pc = pc]
  <2>4. /\ s.pc = pc /\ s.delivery = Delivery(p) /\ s.reached = proc[p].reached
        /\ proc' = [proc EXCEPT ![p] = s]
    BY <1>1, <2>3 DEF ProcTypes, Delivery
  <2> HIDE DEF s
  <2>5. /\ UNCHANGED <<row, received>> /\ crashes' \in Nat /\ crashes' >= crashes
        /\ s.pc \in SendPoints
        /\ ~s.reached => Unsent(p)
    BY <1>1, <1>6, <2>1, <2>4 DEF LoadDelivery, SendPoints, Unsent, At
  <2> QED  BY <2>4, <2>5, QuietProcess
<1>7. CASE TransportEnds(p)
  <2>1. PICK o \in Outcomes :
          proc' = [proc EXCEPT ![p] = [proc[p] EXCEPT !.pc = "answered", !.outcome = o]]
    BY <1>7 DEF TransportEnds
  <2> DEFINE s == [proc[p] EXCEPT !.pc = "answered", !.outcome = o]
  <2>2. s.pc = "answered" /\ s.delivery = Delivery(p) /\ proc' = [proc EXCEPT ![p] = s]
    BY <1>1, <2>1 DEF ProcTypes, Delivery
  <2> HIDE DEF s
  <2>3. /\ UNCHANGED <<row, received>> /\ crashes' \in Nat /\ crashes' >= crashes
        /\ s.pc \in SendPoints /\ ~(s.pc \in {"claimed", "sending"})
    <3>1. UNCHANGED <<row, received, crashes>>
      BY <1>7 DEF TransportEnds
    <3> QED  BY <1>1, <2>2, <3>1 DEF SendPoints
  <2> QED  BY <2>2, <2>3, QuietProcess
<1> QED  BY <1>3, <1>4, <1>5, <1>6, <1>7

\* Time, and steps that change nothing.
LEMMA TimeClaims ==
  ASSUME Inv, ClaimsInv, Tick \/ UNCHANGED vars \/ \E d \in Ids : LeaseGoesStale(d)
  PROVE  ClaimsInv'
<1>1. /\ TypeOK /\ crashes \in Nat /\ crashes' = crashes /\ received' = received /\ proc' = proc
  <2>1. TypeOK /\ crashes \in Nat
    BY BoundsAssumption DEF Inv, TypeOK
  <2> QED  BY <2>1 DEF Tick, LeaseGoesStale, vars
<1>2. /\ \A p \in Processes : Unsent(p)' => Unsent(p) /\ Delivery(p)' = Delivery(p)
      /\ \A d \in Deliveries : Working(d) => Working(d)'
  BY <1>1 DEF Unsent, Delivery, Working, Live
<1>3. /\ Deliveries' = Deliveries
      /\ \A d \in Deliveries : /\ RowOf(d)'.attempts = RowOf(d).attempts
                               /\ RowOf(d)'.status = RowOf(d).status
                               /\ RowOf(d)'.token = RowOf(d).token
  <2>1. CASE row' = row
    BY <2>1 DEF Deliveries, Exists, RowOf
  <2>2. ASSUME NEW e \in Ids, LeaseGoesStale(e)
        PROVE  /\ Deliveries' = Deliveries
               /\ \A d \in Deliveries : /\ RowOf(d)'.attempts = RowOf(d).attempts
                                        /\ RowOf(d)'.status = RowOf(d).status
                                        /\ RowOf(d)'.token = RowOf(d).token
    <3>1. e \in Deliveries
      BY <2>2 DEF LeaseGoesStale, Deliveries
    <3>2. RowOf(e) \in RowTypes
      BY <1>1, <3>1, DeliveryTyped
    <3>3. PICK r \in RowTypes : r = [RowOf(e) EXCEPT !.fresh = FALSE]
      BY <3>2 DEF RowTypes
    <3>4. r.attempts = RowOf(e).attempts /\ r.status = RowOf(e).status /\ r.token = RowOf(e).token
      BY <3>2, <3>3 DEF RowTypes
    <3>5. SetRow(e, r)
      BY <2>2, <3>3 DEF LeaseGoesStale
    <3>6. /\ Deliveries' = Deliveries /\ RowOf(e)' = r
          /\ \A d \in Deliveries : d # e => RowOf(d)' = RowOf(d)
      BY <1>1, <3>1, <3>5, SetRowMeans
    <3> QED  BY <3>4, <3>6
  <2> QED  BY <2>1, <2>2 DEF Tick, vars
<1> QED  BY <1>1, <1>2, <1>3, NoClaimStep

\* If no process is paused past its lease, an endpoint gets a delivery once, and once more for
\* every process that died: a claim reaches it once, and only a crash leads to another claim
\* (claimPreparedDelivery, claimNextDelivery, dispatchClaimedNotificationDelivery).
THEOREM ResentOnlyAfterCrash == ASSUME StallPoints = {}  PROVE Spec => []ResentAfterCrashOnly
<1>1. Init => HoldInv /\ ClaimsInv
  <2> SUFFICES ASSUME Init  PROVE HoldInv /\ ClaimsInv
    OBVIOUS
  <2>1. \A p \in Processes : proc[p].pc = "idle"
    BY RestTyped DEF Init, Points
  <2>2. \A d \in Ids : ~Exists(d) /\ received[d] = 0
    <3> SUFFICES ASSUME NEW d \in Ids  PROVE ~Exists(d) /\ received[d] = 0
      OBVIOUS
    <3>1. d[1] \in Keys /\ d[2] \in Channels /\ d[3] \in 1..MaxEvents
      BY DEF Ids
    <3>2. Len(row[d[1]][d[2]]) = 0
      BY <3>1, EmptySeq DEF Init
    <3> QED  BY <3>1, <3>2, BoundsAssumption DEF Exists, Init
  <2> QED  BY <2>1, <2>2 DEF HoldInv, ClaimsInv, Live, SendPoints, Unsent, Deliveries
<1>2. Inv /\ HoldInv /\ [Next]_vars => HoldInv'
  BY HoldStepInv
<1>3. ASSUME Inv, HoldInv, ClaimsInv, [Next]_vars  PROVE ClaimsInv'
  <2>1. ASSUME NEW p \in Processes, ClaimPrepared(p) \/ ClaimNext(p)  PROVE ClaimsInv'
    <3>1. ~Live(p) /\ proc[p].mine \subseteq Deliveries
      BY <1>3, <2>1, ProcTyped DEF ClaimPrepared, ClaimNext, At, Live, SendPoints, Inv
    <3> QED  BY <1>3, <2>1, <3>1, ClaimClaims DEF ClaimPrepared, ClaimNext
  <2>2. ASSUME NEW p \in Processes, SendStep(p)  PROVE ClaimsInv'
    BY <1>3, <2>1, <2>2, ProcessClaims, MarkClaims DEF SendStep
  <2>3. ASSUME NEW p \in Processes, \/ PrepareStep(p) \/ \E k \in Keys : StartEvent(p, k)
                                    \/ EndpointReceives(p) \/ MarkingThrows(p)
                                    \/ Crash(p) \/ Restart(p)
        PROVE  ClaimsInv'
    BY <1>3, <2>3, PrepareClaims, ReceiveClaims, MarkClaims, ProcessClaims
  <2> QED  BY <1>3, <2>2, <2>3, TimeClaims DEF Next
<1>4. Inv /\ ClaimsInv => ResentAfterCrashOnly
  <2> SUFFICES ASSUME Inv, ClaimsInv, NEW d \in Ids  PROVE received[d] <= 1 + crashes
    BY DEF ResentAfterCrashOnly
  <2>1. crashes \in Nat /\ received[d] \in Nat
    BY BoundsAssumption DEF Inv, TypeOK
  <2>2. CASE d \notin Deliveries
    BY <2>1, <2>2 DEF ClaimsInv
  <2>3. CASE d \in Deliveries
    <3>1. RowOf(d) \in RowTypes
      BY <2>3, DeliveryTyped DEF Inv
    <3>2. RowOf(d).attempts \in Nat
      BY <3>1, BoundsAssumption DEF RowTypes
    <3> QED  BY <2>1, <2>3, <3>2 DEF ClaimsInv
  <2> QED  BY <2>2, <2>3
<1> QED  BY <1>1, <1>2, <1>3, <1>4, Invariant, PTL DEF Spec
=============================================================================
