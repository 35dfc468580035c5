----------------------------- MODULE AssetPages -----------------------------
(***************************************************************************)
(* The asset library page by page (asset-library-service.ts,               *)
(* listAssetLibraryPage).  Whether an asset can be read from outside is    *)
(* not a column: a page looks at rows in batches and keeps those that      *)
(* match, until it is full or has looked at enough, and its cursor is the  *)
(* last row it looked at.  Assets are uploaded all the while.              *)
(*                                                                         *)
(* Rows are numbered as they were created and listed from the newest; what *)
(* the query itself filters by is left out, and a row's match is taken not *)
(* to change while somebody turns the pages.                               *)
(***************************************************************************)
EXTENDS Integers, FiniteSets, FiniteSetsExt

CONSTANTS Limit,        \* matching rows on a page
          BatchSize,    \* rows of one query
          MaxScanned,   \* rows a page looks at
          MaxAssets       \* bound: rows there may be

ASSUME PagesAssumption ==
  {Limit, BatchSize, MaxScanned} \subseteq Nat \ {0} /\ MaxAssets \in Nat

NoPosition == MaxAssets + 1

VARIABLES
  pagRows,      \* how many rows there are
  pagMatching,  \* the rows that match, of those there are and those to come
  pagPage,      \* the request: its items, the last row it looked at, how many
  pagCursor,    \* the cursor of the last answer
  pagShown,     \* the rows the answers have shown
  pagSeen       \* history: how many rows there were at the first query

pagVars == <<pagRows, pagMatching, pagPage, pagCursor, pagShown, pagSeen>>

NoPage == [phase |-> "none", items |-> {}, position |-> NoPosition, scanned |-> 0]

PagInit ==
  /\ pagRows \in 0..MaxAssets
  /\ pagMatching \in SUBSET (1..MaxAssets)
  /\ pagPage = NoPage
  /\ pagCursor = NoPosition
  /\ pagShown = {}
  /\ pagSeen = 0

\* A first page, or the one after the last answer.
AskPage ==
  /\ pagPage.phase = "none"
  /\ pagPage' = [NoPage EXCEPT !.phase = "scan", !.position = pagCursor]
  /\ pagSeen' = IF pagCursor = NoPosition THEN pagRows ELSE pagSeen
  /\ UNCHANGED <<pagRows, pagMatching, pagCursor, pagShown>>

\* The rows below a position, or all of them.
Below(position) == IF position = NoPosition THEN pagRows ELSE position - 1

PageFull(items, scanned) == Cardinality(items) = Limit \/ scanned = MaxScanned

\* Mutant: a batch that was cut short to look at no more than MaxScanned passes for the last.
EndsList(items, scanned, length) == length < BatchSize

\* The order matters: the last batch a page may look at is a short one.
ListEnds(items, scanned, length) == length < BatchSize /\ ~PageFull(items, scanned)

\* One query and the look at its rows, newest first.  A page that is full within a batch knows
\* that there is more.
FetchBatch ==
  /\ pagPage.phase = "scan"
  /\ LET top == Below(pagPage.position)
         allowed == MaxScanned - pagPage.scanned
         asked == IF BatchSize <= allowed THEN BatchSize ELSE allowed
         length == IF top < asked THEN top ELSE asked
         items(row) == pagPage.items \cup (pagMatching \cap row..top)
         scanned(row) == pagPage.scanned + top - row + 1
         lowest == top - length + 1
         full == {row \in lowest..top : PageFull(items(row), scanned(row))}
         last == IF full = {} THEN lowest ELSE Max(full)
     IN  pagPage' = [phase |-> IF full # {} /\ last > lowest THEN "more"
                               ELSE IF ListEnds(items(last), scanned(last), length) THEN "last"
                               ELSE IF full # {} THEN "look" ELSE "scan",
                     position |-> IF length = 0 THEN pagPage.position ELSE last,
                     items |-> items(last), scanned |-> scanned(last)]
  /\ UNCHANGED <<pagRows, pagMatching, pagCursor, pagShown, pagSeen>>

\* A page that is full at the end of a batch asks whether there is one more row.
AnswerPage ==
  /\ pagPage.phase \in {"more", "last", "look"}
  /\ pagShown' = pagShown \cup pagPage.items
  /\ LET more == pagPage.phase = "more" \/ (pagPage.phase = "look" /\ pagPage.position > 1)
     IN  /\ pagPage' = [NoPage EXCEPT !.phase = IF more THEN "none" ELSE "over"]
         /\ pagCursor' = IF more THEN pagPage.position ELSE NoPosition
  /\ UNCHANGED <<pagRows, pagMatching, pagSeen>>

\* The reader begins again.
StartAgain ==
  /\ pagPage.phase = "over"
  /\ pagPage' = NoPage
  /\ pagShown' = {}
  /\ UNCHANGED <<pagRows, pagMatching, pagCursor, pagSeen>>

AssetUploaded ==
  /\ pagRows < MaxAssets
  /\ pagRows' = pagRows + 1
  /\ UNCHANGED <<pagMatching, pagPage, pagCursor, pagShown, pagSeen>>

PagNext == AskPage \/ FetchBatch \/ AnswerPage \/ StartAgain \/ AssetUploaded

PagSpec == PagInit /\ [][PagNext]_pagVars

-----------------------------------------------------------------------------
(* Properties *)

\* Whoever turns the pages to the end has seen every matching asset that was there at the
\* first page, however few of the rows a page looks at match and whatever is uploaded
\* meanwhile; and no page shows an asset again.
PagesShowEverything ==
  /\ pagPage.phase = "over" => pagMatching \cap 1..pagSeen \subseteq pagShown
  /\ pagPage.items \cap pagShown = {}
=============================================================================
