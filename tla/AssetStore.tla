----------------------------- MODULE AssetStore -----------------------------
(***************************************************************************)
(* An uploaded file becomes an object in the storage and then a row that   *)
(* names it (product-service.ts uploadAsset, adapters/storage.ts,          *)
(* media-inspector.ts).  The two cannot be written together: when the      *)
(* second fails, or when its answer is lost, the first has to go or has to *)
(* stay, and the process may die between any two steps.                    *)
(*                                                                         *)
(* A transaction whose answer is lost is taken to be decided, one way or   *)
(* the other, by the time the upload looks whether its row is there.  Rows *)
(* of assets and products are never deleted, so the product an upload      *)
(* names is left out; every upload has a storage key of its own.           *)
(***************************************************************************)
EXTENDS FiniteSets

CONSTANTS Uploads,      \* bound: the uploads there may be
          Files         \* their contents: a checksum each

Providers == {"local", "s3"}
Kinds == {"media", "unsupported"}

VARIABLES
  astUpload,    \* each upload: where it is, its file, what it is stored by
  astObject,    \* the keys with an object: "none", "part" of the file or all of it
  astRow        \* the uploads with an Asset row

astVars == <<astUpload, astObject, astRow>>

NoUpload == [phase |-> "new", file |-> "none", provider |-> "none", kind |-> "none"]

AstInit ==
  /\ astUpload = [u \in Uploads |-> NoUpload]
  /\ astObject = [u \in Uploads |-> "none"]
  /\ astRow = {}

Is(u, phase) == astUpload[u].phase = phase
GoesTo(u, phase) == astUpload' = [astUpload EXCEPT ![u].phase = phase]

BeginUpload(u) ==
  /\ Is(u, "new")
  /\ \E file \in Files, provider \in Providers, kind \in Kinds :
       astUpload' = [astUpload EXCEPT ![u] =
         [phase |-> "putting", file |-> file, provider |-> provider, kind |-> kind]]
  /\ UNCHANGED <<astObject, astRow>>

\* The type is known once the whole file has passed.
PutSucceeds(u) ==
  /\ Is(u, "putting")
  /\ astObject' = [astObject EXCEPT ![u] = "whole"]
  /\ GoesTo(u, IF astUpload[u].kind = "unsupported" THEN "refused" ELSE "stored")
  /\ UNCHANGED astRow

\* What a put that did not end well may leave: a part of a file, or in the remote storage,
\* which keeps no parts, an object nobody was told of.
LeftOver(u) == {"none", IF astUpload[u].provider = "s3" THEN "whole" ELSE "part"}

\* The local adapter removes what it has written, if it can; the remote one leaves it.
PutFails(u) ==
  /\ Is(u, "putting")
  /\ \E left \in LeftOver(u) : /\ astObject' = [astObject EXCEPT ![u] = left]
                             /\ GoesTo(u, IF left = "none" THEN "over" ELSE "abandoned")
  /\ UNCHANGED astRow

Duplicate(u) == \E w \in astRow : astUpload[w].file = astUpload[u].file

\* The transaction, under the lock of the client's row.  What inspectVideo finds out about a
\* video, or that it finds out nothing, is only noted in the row.
CreateAsset(u) ==
  /\ Is(u, "stored")
  /\ IF Duplicate(u)
     THEN GoesTo(u, "failed") /\ UNCHANGED astRow
     ELSE \/ GoesTo(u, "over") /\ astRow' = astRow \cup {u}
          \/ GoesTo(u, "failed") /\ astRow' \in {astRow, astRow \cup {u}}
  /\ UNCHANGED astObject

\* Mutant: whatever failed, the object goes.
Unlooked(u) == FALSE

\* The row that names the object, if the transaction was committed after all.
Referenced(u) == u \in astRow

\* The upload looks for its row; where it cannot, the object stays.
LookForRow(u) ==
  /\ Is(u, "failed")
  /\ GoesTo(u, IF Referenced(u) THEN "over" ELSE "refused") \/ GoesTo(u, "abandoned")
  /\ UNCHANGED <<astObject, astRow>>

DeleteObject(u) ==
  /\ Is(u, "refused")
  /\ \/ astObject' = [astObject EXCEPT ![u] = "none"] /\ GoesTo(u, "over")
     \/ UNCHANGED astObject /\ GoesTo(u, "abandoned")
  /\ UNCHANGED astRow

\* Wherever it was, a put included.
ProcessStops(u) ==
  /\ astUpload[u].phase \notin {"new", "over", "abandoned"}
  /\ \E left \in IF Is(u, "putting") THEN LeftOver(u) ELSE {astObject[u]} :
       astObject' = [astObject EXCEPT ![u] = left]
  /\ GoesTo(u, "abandoned")
  /\ UNCHANGED astRow

\* There is nothing left to upload.
AllUploaded ==
  /\ \A u \in Uploads : astUpload[u].phase \in {"over", "abandoned"}
  /\ UNCHANGED astVars

AstNext ==
  \/ \E u \in Uploads : \/ BeginUpload(u) \/ PutSucceeds(u) \/ PutFails(u)
                        \/ CreateAsset(u) \/ LookForRow(u) \/ DeleteObject(u) \/ ProcessStops(u)
  \/ AllUploaded

AstSpec == AstInit /\ [][AstNext]_astVars

-----------------------------------------------------------------------------
(* Properties *)

\* Every asset has its file, whatever failed, stopped or went unanswered on the way; and what
\* is stored without a row is of an upload that is under way, that stopped, or that could not
\* clean up after itself (the catch of uploadAsset).
AssetsHaveTheirFiles ==
  \A u \in Uploads :
    /\ u \in astRow => astObject[u] = "whole"
    /\ Is(u, "over") => (astObject[u] # "none" <=> u \in astRow)
=============================================================================
