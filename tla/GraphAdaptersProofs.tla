------------------------ MODULE GraphAdaptersProofs ------------------------
(***************************************************************************)
(* Proofs about GraphAdapters, for any number of assets, polls and tries:  *)
(* the results of publish are honest, a call makes one post at most, and   *)
(* a call looks to the queue as PublishWorker has it.                      *)
(***************************************************************************)
EXTENDS GraphAdapters, TLAPS

\* No doubt is left by r.
Certain(r) == FinalStatus(r) \in {"FAILED", "RETRY"}

\* Until the request that publishes is sent there is nothing on the platform.
NothingPosted == remote.posts = 0 /\ ~remote.late /\ ~remote.told

\* What the reply to the request that publishes says of the platform.
ReplyIsTrue(r) ==
  /\ Refused(r) => NothingPosted
  /\ r.kind = "OK" /\ r.id => remote.posts = 1 /\ ~remote.late /\ remote.told
  /\ ~(r.kind = "OK" /\ r.id) => ~remote.told
  /\ remote.late => remote.posts = 0

\* The counters of a call are in range.
CallInRange ==
  /\ call.pc \in {"create", "wait"} =>
       /\ Assets \in 1..MaxAssets
       /\ call.asset \in 1..(Assets + 1)
  /\ call.pc = "wait" => call.asset <= Assets
  /\ call.pc \in {"create", "wait", "resolve"} => provider = "instagram"
  /\ call.pc = "open" => provider = "facebook"
  /\ call.pc = "resolve" => Assets \in 1..MaxAssets

\* The inductive invariant: what is on the platform, point by point.
Inv ==
  /\ AdaTypeOK
  /\ CallInRange
  /\ call.pc # "done" => result = Pending
  /\ call.pc \in {"validate", "resolve", "open"} => ~remote.sent
  /\ call.pc \in {"validate", "resolve", "open", "create", "wait"} => NothingPosted
  /\ call.pc = "post" /\ call.reply = NoReply => NothingPosted
  /\ call.pc = "post" /\ call.reply # NoReply => ReplyIsTrue(call.reply)
  /\ call.pc = "confirm" => remote.posts = 1 /\ ~remote.late /\ remote.told
  /\ remote.posts + (IF remote.late THEN 1 ELSE 0) <= 1
  /\ call.pc = "done" => result.status # "pending"
  /\ Certain(result) => NothingPosted
  /\ PublishedHasPost
  /\ ToldIdIsKept
  /\ PreDispatchSentNothing

-----------------------------------------------------------------------------
(* The results are of their type.                                          *)

LEMMA UnknownResult ==
  ASSUME NEW code \in Codes, NEW id \in BOOLEAN
  PROVE  /\ Unknown(code, id) \in Results
         /\ Unknown(code, id).status = "unknown"
         /\ Unknown(code, id).phase = "NONE"
         /\ Unknown(code, id).id = id
         /\ ~Certain(Unknown(code, id))
<1>1. /\ Unknown(code, id) \in Results
      /\ Unknown(code, id).status = "unknown"
      /\ Unknown(code, id).phase = "NONE"
      /\ Unknown(code, id).id = id
  BY DEF Unknown, Result, Results
<1> QED  BY <1>1 DEF Certain, FinalStatus

LEMMA FailedResult ==
  ASSUME NEW code \in Codes, NEW phase \in Phases \cup {"NONE"}, NEW retryable \in BOOLEAN
  PROVE  /\ Failed(code, phase, retryable) \in Results
         /\ Failed(code, phase, retryable).status = "failed"
         /\ Failed(code, phase, retryable).phase = phase
         /\ ~Failed(code, phase, retryable).id
  BY DEF Failed, Result, Results

LEMMA PublishedResult ==
  ASSUME NEW id \in BOOLEAN
  PROVE  /\ Published(id) \in Results
         /\ Published(id).status = "published"
         /\ Published(id).phase = "NONE"
         /\ Published(id).id = id
         /\ ~Certain(Published(id))
<1>1. /\ Published(id) \in Results
      /\ Published(id).status = "published"
      /\ Published(id).phase = "NONE"
      /\ Published(id).id = id
  BY DEF Published, Result, Results, Codes
<1> QED  BY <1>1 DEF Certain, FinalStatus

-----------------------------------------------------------------------------
(* What the two adapters make of a reply that is no success.               *)

\* A known code is an error by name or HTTP 429, and REMOTE_NOT_FOUND is no refusal.
LEMMA KnownCodeMeans ==
  ASSUME NEW r \in Replies, NEW T \in SUBSET {"TOKEN", "SESSION"},
         NEW R \in SUBSET {"RATE", "USAGE"}, NEW S
  PROVE  /\ KnownCode(r, T, R, S) \in
              {"NONE", "TOKEN_INVALID", "PERMISSION_DENIED", "RATE_LIMITED",
               "CONTENT_REJECTED", "MEDIA_INVALID", "REMOTE_NOT_FOUND"}
         /\ KnownCode(r, T, R, S) \notin {"NONE", "REMOTE_NOT_FOUND"} => Refused(r)
<1>1. r.error \in GraphErrors \cup {"NONE"}
  BY DEF Replies
<1>2. KnownCode(r, T, R, S) \in
        {"NONE", "TOKEN_INVALID", "PERMISSION_DENIED", "RATE_LIMITED",
         "CONTENT_REJECTED", "MEDIA_INVALID", "REMOTE_NOT_FOUND"}
  BY DEF KnownCode
<1>3. KnownCode(r, T, R, S) \notin {"NONE", "REMOTE_NOT_FOUND"} =>
        r.error \in GraphErrors \ {"PARAM", "OTHER"} \/ r.status = 429
  BY <1>1 DEF KnownCode, GraphErrors
<1> QED  BY <1>2, <1>3 DEF Refused

\* A failure is named by one of the codes.
LEMMA MetaCode ==
  ASSUME NEW r \in Replies
  PROVE  MetaGraphFailure(r).code \in Codes
<1> DEFINE known == KnownCode(r, {"TOKEN", "SESSION"}, {"RATE", "USAGE"}, {400, 404})
<1>1. known \in {"NONE", "TOKEN_INVALID", "PERMISSION_DENIED", "RATE_LIMITED",
                 "CONTENT_REJECTED", "MEDIA_INVALID", "REMOTE_NOT_FOUND"}
  BY KnownCodeMeans
<1>2. MetaGraphFailure(r).code \in
        {known, "NETWORK_TIMEOUT", "REMOTE_RESULT_UNKNOWN", "PLATFORM_API_ERROR"}
      /\ (known = "NONE" => MetaGraphFailure(r).code # known)
  BY DEF MetaGraphFailure
<1> HIDE DEF known
<1> QED  BY <1>1, <1>2 DEF Codes, MediaCodes

\* The Instagram adapter is certain of a failure only if the request was refused.
LEMMA InstagramFailureHonest ==
  ASSUME NEW r \in Replies
  PROVE  /\ InstagramFailure(r) \in Results
         /\ InstagramFailure(r).status \in {"unknown", "failed"}
         /\ InstagramFailure(r).phase # "PRE_DISPATCH"
         /\ ~InstagramFailure(r).id
         /\ Certain(InstagramFailure(r)) => Refused(r)
<1> DEFINE known == KnownCode(r, {"TOKEN", "SESSION"}, {"RATE", "USAGE"}, {400, 404})
<1>1. /\ known \in {"NONE", "TOKEN_INVALID", "PERMISSION_DENIED", "RATE_LIMITED",
                    "CONTENT_REJECTED", "MEDIA_INVALID", "REMOTE_NOT_FOUND"}
      /\ known \notin {"NONE", "REMOTE_NOT_FOUND"} => Refused(r)
  BY KnownCodeMeans
<1>2. DispatchPhase = "POST_DISPATCH"
  BY DEF DispatchPhase
<1> DEFINE f == MetaGraphFailure(r)
<1>6. known # "NONE" => f.code = known /\ ~f.uncertain /\ f.retryable = FALSE
  BY DEF MetaGraphFailure
<1>7. known = "NONE" =>
        \/ f.uncertain /\ f.code \in {"NETWORK_TIMEOUT", "REMOTE_RESULT_UNKNOWN"}
        \/ ~f.uncertain /\ f.code = "PLATFORM_API_ERROR" /\ f.retryable = FALSE
  <2> SUFFICES ASSUME known = "NONE"
               PROVE  \/ f.uncertain /\ f.code \in {"NETWORK_TIMEOUT", "REMOTE_RESULT_UNKNOWN"}
                      \/ ~f.uncertain /\ f.code = "PLATFORM_API_ERROR" /\ f.retryable = FALSE
    OBVIOUS
  <2>1. CASE r.kind \in Lost \/ r.status >= 500
    <3>1. f.uncertain /\ f.code = IF r.kind = "TIMEOUT" THEN "NETWORK_TIMEOUT"
                                  ELSE "REMOTE_RESULT_UNKNOWN"
      BY <1>2, <2>1 DEF MetaGraphFailure
    <3> QED  BY <3>1
  <2>2. CASE ~(r.kind \in Lost \/ r.status >= 500)
    <3>1. r.kind # "TIMEOUT"
      BY <2>2 DEF Lost
    <3>2. ~f.uncertain /\ f.code = "PLATFORM_API_ERROR" /\ f.retryable = FALSE
      BY <1>2, <2>2, <3>1 DEF MetaGraphFailure
    <3> QED  BY <3>2
  <2> QED  BY <2>1, <2>2
<1>8. InstagramFailure(r) = IF f.uncertain THEN Unknown(f.code, FALSE)
                            ELSE Failed(f.code, "POST_DISPATCH", f.retryable)
  BY <1>2 DEF InstagramFailure
<1> HIDE DEF known, f
<1>3. CASE known \notin {"NONE", "REMOTE_NOT_FOUND"}
  <2>1. InstagramFailure(r) = Failed(known, "POST_DISPATCH", FALSE)
    BY <1>3, <1>6, <1>8
  <2> QED  BY <2>1, <1>1, <1>3 DEF Failed, Result, Results, Codes, Phases, MediaCodes
<1>4. CASE known = "REMOTE_NOT_FOUND"
  <2>1. InstagramFailure(r) = Failed("REMOTE_NOT_FOUND", "POST_DISPATCH", FALSE)
    BY <1>4, <1>6, <1>8
  <2>2. FinalStatus(InstagramFailure(r)) = "UNKNOWN"
    BY <2>1 DEF Failed, Result, FinalStatus, ClassifyPublishFailure, DecidePublishRetry,
                ValidationCodes, MediaCodes, UncertainCategories
  <2> QED  BY <2>1, <2>2 DEF Failed, Result, Results, Codes, Phases, Certain
<1>5. CASE known = "NONE"
  <2>1. \/ InstagramFailure(r) = Unknown("NETWORK_TIMEOUT", FALSE)
        \/ InstagramFailure(r) = Unknown("REMOTE_RESULT_UNKNOWN", FALSE)
        \/ InstagramFailure(r) = Failed("PLATFORM_API_ERROR", "POST_DISPATCH", FALSE)
    BY <1>5, <1>7, <1>8
  <2>2. CASE InstagramFailure(r) = Unknown("NETWORK_TIMEOUT", FALSE)
    BY <2>2, UnknownResult, Zenon DEF Codes
  <2>3. CASE InstagramFailure(r) = Unknown("REMOTE_RESULT_UNKNOWN", FALSE)
    BY <2>3, UnknownResult, Zenon DEF Codes
  <2>4. CASE InstagramFailure(r) = Failed("PLATFORM_API_ERROR", "POST_DISPATCH", FALSE)
    <3>1. FinalStatus(InstagramFailure(r)) = "UNKNOWN"
      BY <2>4 DEF Failed, Result, FinalStatus, ClassifyPublishFailure,
                  DecidePublishRetry, ValidationCodes, MediaCodes, UncertainCategories
    <3> QED  BY <2>4, <3>1 DEF Failed, Result, Results, Codes, Phases, Certain
  <2> QED  BY <2>1, <2>2, <2>3, <2>4
<1> QED  BY <1>3, <1>4, <1>5

\* So is the Facebook adapter, whose failures name no phase and count as sent.
LEMMA FacebookFailureHonest ==
  ASSUME NEW r \in Replies
  PROVE  /\ FacebookFailure(r) \in Results
         /\ FacebookFailure(r).status \in {"unknown", "failed"}
         /\ FacebookFailure(r).phase # "PRE_DISPATCH"
         /\ ~FacebookFailure(r).id
         /\ Certain(FacebookFailure(r)) => Refused(r)
         /\ FacebookCode(r) \in Codes
<1> DEFINE known == KnownCode(r, {"TOKEN"}, {"RATE"}, {400})
<1>1. /\ known \in {"NONE", "TOKEN_INVALID", "PERMISSION_DENIED", "RATE_LIMITED",
                    "CONTENT_REJECTED", "MEDIA_INVALID", "REMOTE_NOT_FOUND"}
      /\ known \notin {"NONE", "REMOTE_NOT_FOUND"} => Refused(r)
  BY KnownCodeMeans
<1>2. FacebookCode(r) \in {"NETWORK_TIMEOUT", "REMOTE_RESULT_UNKNOWN", "API_ERROR", known}
  BY DEF FacebookCode, known
<1>3. FacebookCode(r) = known => known # "NONE"
  BY <1>1 DEF FacebookCode, known
<1> HIDE DEF known
<1>4. FacebookCode(r) \in Codes
  BY <1>1, <1>2 DEF Codes, MediaCodes
<1>5. CASE FacebookFailure(r).status = "unknown"
  <2>1. PICK code \in {"NETWORK_TIMEOUT", "REMOTE_RESULT_UNKNOWN"} :
          FacebookFailure(r) = Unknown(code, FALSE)
    BY ZenonT(60), <1>5 DEF FacebookFailure, Failed, Unknown, Result
  <2>2. code \in Codes
    BY DEF Codes
  <2> QED  BY <1>4, <2>1, <2>2, UnknownResult
<1>6. CASE FacebookFailure(r).status # "unknown"
  <2>1. /\ FacebookFailure(r) = Failed(FacebookCode(r), "NONE", FacebookCode(r) = "RATE_LIMITED")
        /\ FacebookCode(r) \in {"API_ERROR", known}
    BY <1>2, <1>6 DEF FacebookFailure, Failed, Unknown, Result
  <2>2. CASE known \notin {"NONE", "REMOTE_NOT_FOUND"} /\ FacebookCode(r) = known
    BY <1>1, <1>4, <2>1, <2>2 DEF Failed, Result, Results
  <2>3. CASE FacebookCode(r) \in {"API_ERROR", "REMOTE_NOT_FOUND"}
    <3>1. FinalStatus(FacebookFailure(r)) = "UNKNOWN"
      BY <2>1, <2>3 DEF Failed, Result, FinalStatus, ClassifyPublishFailure,
                        DecidePublishRetry, ValidationCodes, MediaCodes, UncertainCategories
    <3> QED  BY <1>4, <2>1, <3>1 DEF Failed, Result, Results, Certain
  <2> QED  BY <1>3, <2>1, <2>2, <2>3
<1> QED  BY <1>5, <1>6

-----------------------------------------------------------------------------
(* The steps.                                                              *)

LEMMA InitInv == AdaInit => Inv
<1> SUFFICES ASSUME AdaInit PROVE Inv
  OBVIOUS
<1>1. AdaTypeOK
  BY AdaptersAssumption DEF AdaInit, AdaTypeOK, CallPoints, Asks, Pending, Result, Results, Codes, NoReply
<1>2. ~Certain(result)
  BY DEF AdaInit, Pending, Result, Certain, FinalStatus
<1> QED
  BY <1>1, <1>2 DEF AdaInit, Inv, CallInRange, NothingPosted, PublishedHasPost, ToldIdIsKept,
                    PreDispatchSentNothing, Pending, Result

\* publish may end with any result that is true of the platform.
LEMMA FinishInv ==
  ASSUME Inv, NEW r \in Results, Finish(r), UNCHANGED <<provider, request, remote>>,
         r.status # "pending",
         Certain(r) => NothingPosted,
         r.status = "published" => remote.posts = 1,
         remote.told => r.status # "failed" /\ (r.status = "unknown" => r.id),
         r.phase = "PRE_DISPATCH" => ~remote.sent
  PROVE  Inv'
<1>1. /\ call' = [call EXCEPT !.pc = "done", !.reply = NoReply]
      /\ result' = r
  BY DEF Finish
<1>2. AdaTypeOK'
  BY <1>1 DEF Inv, AdaTypeOK, CallPoints
<1>3. call'.pc = "done"
  BY <1>1 DEF Inv, AdaTypeOK
<1>4. CallInRange'
  BY <1>3 DEF CallInRange
<1>5. Certain(result') => NothingPosted'
  BY <1>1 DEF NothingPosted
<1> QED
  BY <1>1, <1>2, <1>3, <1>4, <1>5
  DEF Inv, PublishedHasPost, ToldIdIsKept, PreDispatchSentNothing

\* publish may go on to any point whose condition on the platform holds.
LEMMA GotoInv ==
  ASSUME Inv, NEW pc \in CallPoints \ {"done"}, NEW asset \in 1..(MaxAssets + 1),
         Goto(pc, asset), UNCHANGED <<provider, request, remote>>,
         call.pc # "done",
         pc \in {"create", "wait"} => Assets \in 1..MaxAssets /\ asset \in 1..(Assets + 1),
         pc = "wait" => asset <= Assets,
         pc \in {"create", "wait", "resolve"} => provider = "instagram",
         pc = "open" => provider = "facebook",
         pc = "resolve" => Assets \in 1..MaxAssets,
         pc \in {"validate", "resolve", "open"} => ~remote.sent,
         pc # "confirm" => NothingPosted,
         pc = "confirm" => remote.posts = 1 /\ ~remote.late /\ remote.told
  PROVE  Inv'
<1>1. /\ call' = [pc |-> pc, asset |-> asset, tries |-> 1, polls |-> 0, reply |-> NoReply,
                  seen |-> FALSE]
      /\ result' = result
  BY DEF Goto
<1>2. AdaTypeOK'
  BY <1>1, AdaptersAssumption DEF Inv, AdaTypeOK
<1>3. CallInRange'
  BY <1>1 DEF CallInRange, Assets
<1>4. result' = Pending
  BY <1>1 DEF Inv
<1>5. ~Certain(Pending)
  BY DEF Pending, Result, Certain, FinalStatus
<1> QED
  BY <1>1, <1>2, <1>3, <1>4, <1>5
  DEF Inv, NothingPosted, PublishedHasPost, ToldIdIsKept, PreDispatchSentNothing, Pending,
      Result

\* The codes of a refusal before any request.
LEMMA RefusalCodes ==
  ASSUME Inv
  PROVE  InstagramRefusal \in Codes /\ FacebookRefusal \in Codes
<1>1. request.defect \in Defects /\ Assets \in Nat
  BY DEF Inv, AdaTypeOK, PublishRequests, Assets
<1> QED
  BY <1>1 DEF Defects, InstagramRefusal, FacebookRefusal, Codes, ValidationCodes, MediaCodes

LEMMA ValidateInstagramInv == Inv /\ ValidateInstagram => Inv'
<1> SUFFICES ASSUME Inv, ValidateInstagram PROVE Inv'
  OBVIOUS
<1> USE DEF ValidateInstagram, CallAt
<1>1. NothingPosted /\ ~remote.sent
  BY DEF Inv
<1>2. CASE InstagramRefusal = "NONE"
  <2>1. Assets \in 1..MaxAssets
    <3>1. request.defect \in Defects /\ Assets \in Nat
      BY DEF Inv, AdaTypeOK, PublishRequests, Assets
    <3> QED  BY <1>2, <3>1 DEF InstagramRefusal, Defects
  <2>2. 1 \in 1..(MaxAssets + 1) /\ "resolve" \in CallPoints \ {"done"}
    BY AdaptersAssumption DEF CallPoints
  <2> QED  BY <1>1, <1>2, <2>1, <2>2, GotoInv
<1>3. CASE InstagramRefusal # "NONE"
  <2> DEFINE r == Failed(InstagramRefusal, "PRE_DISPATCH", FALSE)
  <2>1. /\ r \in Results
        /\ r.status = "failed"
        /\ r.phase = "PRE_DISPATCH"
    BY ZenonT(60), RefusalCodes, FailedResult DEF Phases
  <2> HIDE DEF r
  <2>2. Finish(r)
    BY <1>3 DEF r
  <2>3. ~remote.told
    BY <1>1 DEF NothingPosted
  <2> QED  BY <1>1, <2>1, <2>2, <2>3, FinishInv
<1> QED  BY <1>2, <1>3

LEMMA ValidateFacebookInv == Inv /\ ValidateFacebook => Inv'
<1> SUFFICES ASSUME Inv, ValidateFacebook PROVE Inv'
  OBVIOUS
<1> USE DEF ValidateFacebook, CallAt
<1>1. NothingPosted /\ ~remote.sent
  BY DEF Inv
<1>2. CASE FacebookRefusal = "NONE"
  <2> DEFINE pc == IF Assets = 0 THEN "post" ELSE "open"
  <2>1. Goto(pc, 1) /\ pc \in {"post", "open"}
    BY <1>2
  <2> HIDE DEF pc
  <2>2. 1 \in 1..(MaxAssets + 1) /\ pc \in CallPoints \ {"done"}
    BY <2>1, AdaptersAssumption DEF CallPoints, Asks
  <2> QED  BY <1>1, <2>1, <2>2, GotoInv
<1>3. CASE FacebookRefusal # "NONE"
  <2> DEFINE r == Failed(FacebookRefusal, "NONE", FALSE)
  <2>1. /\ r \in Results
        /\ r.status = "failed"
        /\ r.phase = "NONE"
    BY ZenonT(60), RefusalCodes, FailedResult
  <2> HIDE DEF r
  <2>2. Finish(r)
    BY <1>3 DEF r
  <2>3. ~remote.told
    BY <1>1 DEF NothingPosted
  <2> QED  BY <1>1, <2>1, <2>2, <2>3, FinishInv
<1> QED  BY <1>2, <1>3

LEMMA ResolveMediaInv == Inv /\ ResolveMedia => Inv'
<1> SUFFICES ASSUME Inv, ResolveMedia PROVE Inv'
  OBVIOUS
<1> USE DEF ResolveMedia, CallAt
<1>1. /\ NothingPosted /\ ~remote.sent
      /\ provider = "instagram" /\ Assets \in 1..MaxAssets
  BY DEF Inv, CallInRange
<1>2. CASE Goto("create", 1)
  <2>1. /\ 1 \in 1..(MaxAssets + 1) /\ "create" \in CallPoints \ {"done"}
        /\ 1 \in 1..(Assets + 1)
    BY <1>1, AdaptersAssumption DEF CallPoints, Asks
  <2> QED  BY <1>1, <1>2, <2>1, GotoInv
<1>3. CASE Finish(Failed("MEDIA_URL_UNAVAILABLE", "PRE_DISPATCH", FALSE))
  <2> DEFINE r == Failed("MEDIA_URL_UNAVAILABLE", "PRE_DISPATCH", FALSE)
  <2>1. /\ r \in Results
        /\ r.status = "failed"
        /\ r.phase = "PRE_DISPATCH"
    BY DEF Failed, Result, Results, Codes, MediaCodes, Phases
  <2> HIDE DEF r
  <2>2. Finish(r)
    BY <1>3 DEF r
  <2>3. ~remote.told
    BY <1>1 DEF NothingPosted
  <2> QED  BY <1>1, <2>1, <2>2, <2>3, FinishInv
<1> QED  BY <1>2, <1>3

\* A result of unknown outcome without an id may end a call before an id was told.
LEMMA UnknownInv ==
  ASSUME Inv, Finish(Unknown("REMOTE_RESULT_UNKNOWN", FALSE)),
         UNCHANGED <<provider, request, remote>>, ~remote.told
  PROVE  Inv'
<1> DEFINE r == Unknown("REMOTE_RESULT_UNKNOWN", FALSE)
<1>1. /\ r \in Results
      /\ r.status = "unknown"
      /\ r.phase = "NONE"
      /\ ~Certain(r)
  BY UnknownResult DEF Codes
<1>2. Finish(r)
  OBVIOUS
<1> HIDE DEF r
<1> QED  BY <1>1, <1>2, FinishInv

LEMMA OpenMediaInv == Inv /\ OpenMedia => Inv'
<1> SUFFICES ASSUME Inv, OpenMedia PROVE Inv'
  OBVIOUS
<1> USE DEF OpenMedia, CallAt
<1>1. NothingPosted /\ ~remote.told
  BY DEF Inv, NothingPosted
<1>2. CASE Goto("post", 1)
  <2>1. 1 \in 1..(MaxAssets + 1) /\ "post" \in CallPoints \ {"done"}
    BY AdaptersAssumption DEF CallPoints, Asks
  <2> QED  BY <1>1, <1>2, <2>1, GotoInv
<1>3. CASE Finish(Unknown("REMOTE_RESULT_UNKNOWN", FALSE))
  BY <1>1, <1>3, UnknownInv
<1> QED  BY <1>2, <1>3

LEMMA RepliesAreReplies ==
  ASSUME NEW r \in Replies
  PROVE  r # NoReply
<1>1. r.kind # "NONE"
  BY DEF Replies, Lost
<1> QED  BY <1>1 DEF NoReply

\* A request that was lost says nothing of its fate.
LEMMA LostIsNotRefused ==
  ASSUME NEW r \in Replies, r.kind \in Lost
  PROVE  ~Refused(r) /\ r.kind # "OK"
<1>1. r.kind # "OK" /\ r.error = "NONE" /\ r.status = 0
  <2>1. CASE r \in [kind : Lost, status : {0}, error : {"NONE"}, id : {FALSE}]
    BY <2>1 DEF Lost
  <2>2. CASE r \notin [kind : Lost, status : {0}, error : {"NONE"}, id : {FALSE}]
    <3>1. r.kind \in {"GARBLED", "ERROR", "OK"}
      BY <2>2 DEF Replies
    <3> QED  BY <3>1 DEF Lost
  <2> QED  BY <2>1, <2>2
<1> QED  BY <1>1 DEF Refused, GraphErrors

\* What the platform makes of the request that publishes fits the reply.
LEMMA PlatformPostsTrue ==
  ASSUME NEW r \in Replies, AdaTypeOK, NothingPosted, PlatformPosts(r)
  PROVE  /\ remote' \in [sent : BOOLEAN, posts : Nat, live : BOOLEAN, late : BOOLEAN,
                         told : BOOLEAN]
         /\ ReplyIsTrue(r)'
         /\ (remote.posts + (IF remote.late THEN 1 ELSE 0) <= 1)'
<1>1. CASE /\ r.kind # "OK" \/ ~r.id
           /\ \E late \in {remote.late} \cup {l \in {TRUE} : r.kind \in Lost} :
                remote' = [remote EXCEPT !.sent = TRUE, !.late = late]
  <2>1. PICK late \in {remote.late} \cup {l \in {TRUE} : r.kind \in Lost} :
          remote' = [remote EXCEPT !.sent = TRUE, !.late = late]
    BY <1>1
  <2>2. late \in BOOLEAN /\ (late => r.kind \in Lost)
    BY DEF AdaTypeOK, NothingPosted
  <2>3. /\ remote'.posts = 0 /\ remote'.late = late /\ ~remote'.told
        /\ remote' \in [sent : BOOLEAN, posts : Nat, live : BOOLEAN, late : BOOLEAN,
                         told : BOOLEAN]
    BY <2>1, <2>2 DEF AdaTypeOK, NothingPosted
  <2>4. Refused(r) => ~late
    BY <2>2, LostIsNotRefused
  <2> QED  BY <1>1, <2>2, <2>3, <2>4 DEF ReplyIsTrue, NothingPosted
<1>2. CASE /\ ~Refused(r)
           /\ \E live \in BOOLEAN :
                remote' = [remote EXCEPT !.sent = TRUE, !.posts = @ + 1, !.live = live,
                                         !.told = r.kind = "OK" /\ r.id]
  <2>1. PICK live \in BOOLEAN :
          remote' = [remote EXCEPT !.sent = TRUE, !.posts = @ + 1, !.live = live,
                                   !.told = r.kind = "OK" /\ r.id]
    BY <1>2
  <2> DEFINE told == r.kind = "OK" /\ r.id
  <2>2. told \in BOOLEAN
    BY Zenon
  <2> HIDE DEF told
  <2>3. /\ remote'.posts = 1 /\ ~remote'.late
        /\ remote'.told = told
        /\ remote' \in [sent : BOOLEAN, posts : Nat, live : BOOLEAN, late : BOOLEAN,
                         told : BOOLEAN]
    <3>1. remote' = [remote EXCEPT !.sent = TRUE, !.posts = @ + 1, !.live = live,
                                   !.told = told]
      BY <2>1, Zenon DEF told
    <3>2. /\ remote \in [sent : BOOLEAN, posts : Nat, live : BOOLEAN, late : BOOLEAN,
                         told : BOOLEAN]
          /\ remote.posts = 0 /\ ~remote.late
      BY DEF AdaTypeOK, NothingPosted
    <3>3. remote' = [remote EXCEPT !.sent = TRUE, !.posts = 1, !.live = live, !.told = told]
      BY <3>1, <3>2
    <3> QED  BY <3>2, <3>3, <2>2
  <2>4. told <=> r.kind = "OK" /\ r.id
    BY Zenon DEF told
  <2> QED  BY <1>2, <2>3, <2>4 DEF ReplyIsTrue, NothingPosted
<1> QED  BY <1>1, <1>2 DEF PlatformPosts

LEMMA SendInv == Inv /\ Send => Inv'
<1> SUFFICES ASSUME Inv, Send PROVE Inv'
  OBVIOUS
<1> USE DEF CallAt
<1>1. PICK r \in Replies :
        /\ call' = [call EXCEPT !.reply = r, !.seen = remote.live]
        /\ IF CallAt("post") THEN PlatformPosts(r) ELSE remote' = [remote EXCEPT !.sent = TRUE]
  BY DEF Send
<1>2. /\ call.pc \in Asks /\ call.reply = NoReply
      /\ provider' = provider /\ request' = request /\ result' = result
      /\ result = Pending
  BY DEF Send, Inv, Asks
<1>3. /\ call'.pc = call.pc /\ call'.asset = call.asset /\ call'.reply = r
      /\ call' \in [pc : CallPoints, asset : 1..(MaxAssets + 1), tries : 1..MaxReads,
                    polls : 0..(PollMaxAttempts - 1), reply : Replies \cup {NoReply},
                    seen : BOOLEAN]
  BY <1>1 DEF Inv, AdaTypeOK
<1>4. CallInRange'
  BY <1>2, <1>3 DEF Inv, CallInRange, Assets
<1>5. ~Certain(Pending) /\ Pending.status = "pending" /\ Pending.phase = "NONE"
  BY DEF Certain, FinalStatus, Pending, Result
<1>6. CASE call.pc = "post"
  <2>1. /\ remote' \in [sent : BOOLEAN, posts : Nat, live : BOOLEAN, late : BOOLEAN,
                         told : BOOLEAN]
        /\ ReplyIsTrue(r)'
        /\ (remote.posts + (IF remote.late THEN 1 ELSE 0) <= 1)'
    BY <1>1, <1>2, <1>6, PlatformPostsTrue DEF Inv
  <2>2. AdaTypeOK'
    BY <1>2, <1>3, <2>1 DEF Inv, AdaTypeOK
  <2>3. ReplyIsTrue(call.reply)'
    BY <1>3, <2>1
  <2>4. call'.reply # NoReply
    BY <1>3, RepliesAreReplies
  <2> QED
    BY <1>2, <1>3, <1>4, <1>5, <1>6, <2>1, <2>2, <2>3, <2>4
    DEF Inv, PublishedHasPost, ToldIdIsKept, PreDispatchSentNothing
<1>7. CASE call.pc # "post"
  <2>1. /\ remote' \in [sent : BOOLEAN, posts : Nat, live : BOOLEAN, late : BOOLEAN,
                         told : BOOLEAN]
        /\ remote'.posts = remote.posts /\ remote'.late = remote.late
        /\ remote'.told = remote.told
    BY <1>1, <1>7 DEF Inv, AdaTypeOK
  <2>2. AdaTypeOK'
    BY <1>2, <1>3, <2>1 DEF Inv, AdaTypeOK
  <2>3. NothingPosted' = NothingPosted
    BY <2>1 DEF NothingPosted
  <2> QED
    BY <1>2, <1>3, <1>4, <1>5, <1>7, <2>1, <2>2, <2>3
    DEF Inv, Asks, PublishedHasPost, ToldIdIsKept, PreDispatchSentNothing
<1> QED  BY <1>6, <1>7

LEMMA TryAgainInv == Inv /\ TryAgain => Inv'
<1> SUFFICES ASSUME Inv, TryAgain PROVE Inv'
  OBVIOUS
<1>1. /\ call.pc \in {"wait", "confirm"}
      /\ call.tries < MaxReads
      /\ call' = [call EXCEPT !.tries = @ + 1, !.reply = NoReply]
      /\ UNCHANGED <<provider, request, remote, result>>
  BY DEF TryAgain, Again, Tries, Inv, AdaTypeOK
<1>2. /\ call'.pc = call.pc /\ call'.asset = call.asset
      /\ call' \in [pc : CallPoints, asset : 1..(MaxAssets + 1), tries : 1..MaxReads,
                    polls : 0..(PollMaxAttempts - 1), reply : Replies \cup {NoReply},
                    seen : BOOLEAN]
  <2>1. call \in [pc : CallPoints, asset : 1..(MaxAssets + 1), tries : 1..MaxReads,
                  polls : 0..(PollMaxAttempts - 1), reply : Replies \cup {NoReply},
                  seen : BOOLEAN]
    BY DEF Inv, AdaTypeOK
  <2>2. call.tries + 1 \in 1..MaxReads
    BY <1>1, <2>1, AdaptersAssumption
  <2> QED  BY <1>1, <2>1, <2>2
<1>3. AdaTypeOK'
  BY <1>1, <1>2 DEF Inv, AdaTypeOK
<1>4. CallInRange'
  BY <1>1, <1>2 DEF Inv, CallInRange, Assets
<1> QED
  BY <1>1, <1>2, <1>3, <1>4
  DEF Inv, NothingPosted, PublishedHasPost, ToldIdIsKept, PreDispatchSentNothing

LEMMA PlatformPostsLateInv == Inv /\ PlatformPostsLate => Inv'
<1> SUFFICES ASSUME Inv, PlatformPostsLate PROVE Inv'
  OBVIOUS
<1>1. /\ remote.late
      /\ remote' = [remote EXCEPT !.late = FALSE, !.posts = @ + 1]
      /\ UNCHANGED <<provider, request, call, result>>
  BY DEF PlatformPostsLate
<1>2. remote.posts = 0 /\ ~NothingPosted
  BY <1>1 DEF Inv, AdaTypeOK, NothingPosted
<1>3. /\ remote'.posts = 1 /\ ~remote'.late /\ remote'.told = remote.told
      /\ remote'.sent = remote.sent
      /\ remote' \in [sent : BOOLEAN, posts : Nat, live : BOOLEAN, late : BOOLEAN,
                      told : BOOLEAN]
  <2>1. remote \in [sent : BOOLEAN, posts : Nat, live : BOOLEAN, late : BOOLEAN,
                    told : BOOLEAN]
    BY DEF Inv, AdaTypeOK
  <2>2. remote' = [remote EXCEPT !.late = FALSE, !.posts = 1]
    BY <1>1, <1>2
  <2> QED  BY <2>1, <2>2
<1>4. AdaTypeOK'
  BY <1>1, <1>3 DEF Inv, AdaTypeOK
<1>5. CallInRange'
  BY <1>1 DEF Inv, CallInRange, Assets
<1>6. ReplyIsTrue(call.reply) => ReplyIsTrue(call.reply)'
  BY <1>1, <1>2, <1>3 DEF ReplyIsTrue, Refused
<1> QED
  BY <1>1, <1>2, <1>3, <1>4, <1>5, <1>6
  DEF Inv, PublishedHasPost, ToldIdIsKept, PreDispatchSentNothing

LEMMA PostBecomesPublicInv == Inv /\ PostBecomesPublic => Inv'
<1> SUFFICES ASSUME Inv, PostBecomesPublic PROVE Inv'
  OBVIOUS
<1>1. /\ remote' = [remote EXCEPT !.live = TRUE]
      /\ UNCHANGED <<provider, request, call, result>>
  BY DEF PostBecomesPublic
<1>2. /\ remote'.posts = remote.posts /\ remote'.late = remote.late
      /\ remote'.told = remote.told /\ remote'.sent = remote.sent
      /\ remote' \in [sent : BOOLEAN, posts : Nat, live : BOOLEAN, late : BOOLEAN,
                      told : BOOLEAN]
  BY <1>1 DEF Inv, AdaTypeOK
<1>3. AdaTypeOK'
  BY <1>1, <1>2 DEF Inv, AdaTypeOK
<1>4. CallInRange'
  BY <1>1 DEF Inv, CallInRange, Assets
<1>5. NothingPosted' = NothingPosted
  BY <1>2 DEF NothingPosted
<1>6. ReplyIsTrue(call.reply) => ReplyIsTrue(call.reply)'
  BY <1>1, <1>2, <1>5 DEF ReplyIsTrue, Refused
<1> QED
  BY <1>1, <1>2, <1>3, <1>4, <1>5, <1>6
  DEF Inv, PublishedHasPost, ToldIdIsKept, PreDispatchSentNothing

-----------------------------------------------------------------------------
(* The answers.                                                            *)

\* A reply that was read is one of Replies; for the Instagram adapter only "OK" is accepted.
LEMMA AnsweredReply ==
  ASSUME Inv, NEW pc, Answered(pc)
  PROVE  /\ call.pc = pc
         /\ call.reply \in Replies
         /\ provider = "instagram" => (Accepted(call.reply) <=> call.reply.kind = "OK")
BY DEF Answered, CallAt, Inv, AdaTypeOK, Accepted, NoError

\* From a container the call goes on to the next one or to the request that publishes.
LEMMA AfterContainerInv ==
  ASSUME Inv, call.pc \in {"create", "wait"}, AfterContainer,
         UNCHANGED <<provider, request, remote>>
  PROVE  Inv'
<1>1. /\ NothingPosted /\ provider = "instagram"
      /\ Assets \in 1..MaxAssets /\ call.asset \in 1..(Assets + 1)
  BY DEF Inv, CallInRange
<1>2. CASE Goto("create", call.asset + 1) /\ call.asset <= Assets
  <2>1. /\ call.asset + 1 \in 1..(Assets + 1) /\ call.asset + 1 \in 1..(MaxAssets + 1)
        /\ "create" \in CallPoints \ {"done"}
    BY <1>1, <1>2, AdaptersAssumption DEF CallPoints, Asks
  <2> QED  BY <1>1, <1>2, <2>1, GotoInv
<1>3. CASE Goto("post", call.asset)
  <2>1. call.asset \in 1..(MaxAssets + 1) /\ "post" \in CallPoints \ {"done"}
    BY <1>1, AdaptersAssumption DEF CallPoints, Asks
  <2> QED  BY <1>1, <1>3, <2>1, GotoInv
<1> QED  BY <1>2, <1>3 DEF AfterContainer

\* A failure of a container ends the call: nothing has been posted.
LEMMA ContainerFailureInv ==
  ASSUME Inv, call.pc \in {"create", "wait"}, call.reply \in Replies,
         Finish(InstagramFailure(call.reply)), UNCHANGED <<provider, request, remote>>
  PROVE  Inv'
<1> DEFINE r == InstagramFailure(call.reply)
<1>1. /\ r \in Results /\ r.status \in {"unknown", "failed"} /\ r.phase # "PRE_DISPATCH"
  BY InstagramFailureHonest
<1>2. NothingPosted /\ ~remote.told
  BY DEF Inv, NothingPosted
<1>3. Finish(r)
  OBVIOUS
<1> HIDE DEF r
<1> QED  BY <1>1, <1>2, <1>3, FinishInv

LEMMA ContainerCreatedInv == Inv /\ ContainerCreated => Inv'
<1> SUFFICES ASSUME Inv, ContainerCreated PROVE Inv'
  OBVIOUS
<1>1. /\ Answered("create") /\ UNCHANGED <<provider, request, remote>>
      /\ call.pc = "create" /\ call.reply \in Replies
  BY AnsweredReply DEF ContainerCreated
<1>2. /\ NothingPosted /\ ~remote.told /\ provider = "instagram"
      /\ Assets \in 1..MaxAssets /\ call.asset \in 1..(Assets + 1)
  BY <1>1 DEF Inv, CallInRange, NothingPosted
<1>3. CASE Finish(InstagramFailure(call.reply))
  BY <1>1, <1>3, ContainerFailureInv
<1>4. CASE Finish(Unknown("REMOTE_RESULT_UNKNOWN", FALSE))
  BY <1>1, <1>2, <1>4, UnknownInv
<1>5. CASE call.asset <= Assets /\ Goto("wait", call.asset)
  <2>1. call.asset \in 1..(MaxAssets + 1) /\ "wait" \in CallPoints \ {"done"}
    BY <1>2, AdaptersAssumption DEF CallPoints, Asks
  <2> QED  BY <1>1, <1>2, <1>5, <2>1, GotoInv
<1>6. CASE AfterContainer
  BY <1>1, <1>6, AfterContainerInv
<1> QED  BY <1>3, <1>4, <1>5, <1>6 DEF ContainerCreated

LEMMA ContainerPolledInv == Inv /\ ContainerPolled => Inv'
<1> SUFFICES ASSUME Inv, ContainerPolled PROVE Inv'
  OBVIOUS
<1>1. /\ Answered("wait") /\ UNCHANGED <<provider, request, remote>>
      /\ call.pc = "wait" /\ call.reply \in Replies
  BY AnsweredReply DEF ContainerPolled
<1>2. NothingPosted /\ ~remote.told
  BY <1>1 DEF Inv, NothingPosted
<1>3. CASE Finish(InstagramFailure(call.reply))
  BY <1>1, <1>3, ContainerFailureInv
<1>4. CASE AfterContainer
  BY <1>1, <1>4, AfterContainerInv
<1>5. CASE Finish(Failed("MEDIA_INVALID", "POST_DISPATCH", FALSE))
  <2> DEFINE r == Failed("MEDIA_INVALID", "POST_DISPATCH", FALSE)
  <2>1. /\ r \in Results /\ r.status = "failed" /\ r.phase = "POST_DISPATCH"
    BY DEF Failed, Result, Results, Codes, MediaCodes, Phases
  <2> HIDE DEF r
  <2>2. Finish(r)
    BY <1>5 DEF r
  <2> QED  BY <1>1, <1>2, <2>1, <2>2, FinishInv
<1>6. CASE /\ PollsLeft(Counted(call.polls))
           /\ call' = [call EXCEPT !.tries = 1, !.polls = Counted(@), !.reply = NoReply]
           /\ UNCHANGED result
  <2>1. call \in [pc : CallPoints, asset : 1..(MaxAssets + 1), tries : 1..MaxReads,
                  polls : 0..(PollMaxAttempts - 1), reply : Replies \cup {NoReply},
                  seen : BOOLEAN]
    BY DEF Inv, AdaTypeOK
  <2>2. call.polls + 1 \in 0..(PollMaxAttempts - 1) /\ 1 \in 1..MaxReads
    BY <1>6, <2>1, AdaptersAssumption DEF PollsLeft, Counted
  <2>3. /\ call' \in [pc : CallPoints, asset : 1..(MaxAssets + 1), tries : 1..MaxReads,
                      polls : 0..(PollMaxAttempts - 1), reply : Replies \cup {NoReply},
                      seen : BOOLEAN]
        /\ call'.pc = "wait" /\ call'.asset = call.asset
    BY <1>1, <1>6, <2>1, <2>2 DEF Counted
  <2>4. AdaTypeOK'
    BY <1>1, <1>6, <2>3 DEF Inv, AdaTypeOK
  <2>5. CallInRange'
    BY <1>1, <2>3 DEF Inv, CallInRange, Assets
  <2> QED
    BY <1>1, <1>2, <1>6, <2>3, <2>4, <2>5
    DEF Inv, NothingPosted, PublishedHasPost, ToldIdIsKept, PreDispatchSentNothing
<1>7. CASE Finish(Unknown("REMOTE_RESULT_UNKNOWN", FALSE))
  BY <1>1, <1>2, <1>7, UnknownInv
<1> QED  BY <1>3, <1>4, <1>5, <1>6, <1>7 DEF ContainerPolled

LEMMA PostAnsweredInv == Inv /\ PostAnswered => Inv'
<1> SUFFICES ASSUME Inv, PostAnswered PROVE Inv'
  OBVIOUS
<1>1. /\ Answered("post") /\ UNCHANGED <<provider, request, remote>>
      /\ call.pc = "post" /\ call.reply \in Replies
  BY AnsweredReply DEF PostAnswered
<1>2. ReplyIsTrue(call.reply)
  BY <1>1, RepliesAreReplies DEF Inv
<1>3. CASE /\ ~Accepted(call.reply)
           /\ Finish(IF provider = "instagram" THEN InstagramFailure(call.reply)
                                               ELSE FacebookFailure(call.reply))
  <2> DEFINE r == IF provider = "instagram" THEN InstagramFailure(call.reply)
                                            ELSE FacebookFailure(call.reply)
  <2>1. /\ r \in Results /\ r.status \in {"unknown", "failed"} /\ r.phase # "PRE_DISPATCH"
        /\ Certain(r) => Refused(call.reply)
    BY <1>1, InstagramFailureHonest, FacebookFailureHonest
  <2>2. Finish(r)
    BY <1>3
  <2> HIDE DEF r
  <2>3. ~remote.told /\ (Certain(r) => NothingPosted)
    BY <1>2, <1>3, <2>1 DEF ReplyIsTrue, Accepted, NoError
  <2> QED  BY <1>1, <2>1, <2>2, <2>3, FinishInv
<1>4. CASE ~call.reply.id /\ Finish(NoIdResult)
  <2>1. ~remote.told
    BY <1>2, <1>4 DEF ReplyIsTrue
  <2> QED  BY <1>1, <1>4, <2>1, UnknownInv DEF NoIdResult
<1>5. CASE Accepted(call.reply) /\ call.reply.id /\ Goto("confirm", call.asset)
  <2>1. call.reply.kind = "OK"
    BY <1>1, <1>5 DEF Accepted, NoError, Replies
  <2>2. remote.posts = 1 /\ ~remote.late /\ remote.told
    BY <1>2, <1>5, <2>1 DEF ReplyIsTrue
  <2>3. call.asset \in 1..(MaxAssets + 1) /\ "confirm" \in CallPoints \ {"done"}
    BY DEF Inv, AdaTypeOK, CallPoints, Asks
  <2> QED  BY <1>1, <1>5, <2>2, <2>3, GotoInv
<1> QED  BY <1>3, <1>4, <1>5 DEF PostAnswered

LEMMA ConfirmedInv == Inv /\ Confirmed => Inv'
<1> SUFFICES ASSUME Inv, Confirmed PROVE Inv'
  OBVIOUS
<1>1. /\ Answered("confirm") /\ UNCHANGED <<provider, request, remote>>
      /\ call.pc = "confirm" /\ call.reply \in Replies
  BY AnsweredReply DEF Confirmed
<1>2. remote.posts = 1 /\ ~remote.late
  BY <1>1 DEF Inv
<1>3. call.reply.id \in BOOLEAN
  BY <1>1 DEF Replies
<1>4. PICK r \in Results :
        /\ Finish(r)
        /\ ~Certain(r) /\ r.phase = "NONE"
        /\ r.status = "published" \/ (r.status = "unknown" /\ r.id)
  <2>1. CASE \E code \in Codes : Finish(Unconfirmed(code))
    <3>1. PICK code \in Codes : Finish(Unknown(code, TRUE))
      BY <2>1 DEF Unconfirmed
    <3> QED  BY <3>1, UnknownResult
  <2>2. CASE \E id \in BOOLEAN : Finish(Published(id))
    <3>1. PICK id \in BOOLEAN : Finish(Published(id))
      BY <2>2
    <3> DEFINE r == Published(id)
    <3>2. r \in Results /\ ~Certain(r) /\ r.phase = "NONE" /\ r.status = "published"
      BY PublishedResult
    <3>3. Finish(r)
      BY <3>1
    <3> HIDE DEF r
    <3> QED  BY <3>2, <3>3
  <2>3. /\ MetaGraphFailure(call.reply).code \in Codes
        /\ FacebookCode(call.reply) \in Codes
    BY <1>1, MetaCode, FacebookFailureHonest
  <2>4. "REMOTE_RESULT_UNKNOWN" \in Codes /\ "REMOTE_NOT_PUBLISHED" \in Codes
    BY DEF Codes
  <2> QED
    BY <1>3, <2>1, <2>2, <2>3, <2>4 DEF Confirmed, InstagramRead, InstagramUnread, FacebookRead
<1> QED  BY <1>1, <1>2, <1>4, FinishInv

LEMMA NextInv == Inv /\ [AdaNext]_adaVars => Inv'
<1> SUFFICES ASSUME Inv, [AdaNext]_adaVars PROVE Inv'
  OBVIOUS
<1>1. CASE AdapterStep
  BY <1>1, ValidateInstagramInv, ValidateFacebookInv, ResolveMediaInv, OpenMediaInv, SendInv,
     TryAgainInv, ContainerCreatedInv, ContainerPolledInv, PostAnsweredInv, ConfirmedInv
  DEF AdapterStep
<1>2. CASE PlatformPostsLate
  BY <1>2, PlatformPostsLateInv
<1>3. CASE PostBecomesPublic
  BY <1>3, PostBecomesPublicInv
<1>4. CASE UNCHANGED adaVars
  BY <1>4 DEF adaVars, Inv, AdaTypeOK, CallInRange, Assets, NothingPosted, ReplyIsTrue, Refused,
              PublishedHasPost, ToldIdIsKept, PreDispatchSentNothing
<1> QED  BY <1>1, <1>2, <1>3, <1>4 DEF AdaNext

-----------------------------------------------------------------------------
(* The theorems.                                                           *)

\* The invariant, of which the rest are consequences.
THEOREM AdapterInvariant == AdaSpec => []Inv
BY InitInv, NextInv, PTL DEF AdaSpec

\* publish never fails for certain, nor has the worker try again, while the post exists or
\* a lost request may still create it (publishFailure of both adapters, normalizeMetaGraphFailure,
\* classifyFacebookError, decidePublishRetry).
THEOREM FailuresAreHonest == AdaSpec => []NoCertaintyWithPost
<1>1. Inv => NoCertaintyWithPost
  BY DEF Inv, Certain, NothingPosted, NoCertaintyWithPost
<1> QED  BY <1>1, AdapterInvariant, PTL

\* One call of publish causes one post at most (requestPlatformJson tries only reads again).
THEOREM CallPostsOnce == AdaSpec => []OnePostPerCall
<1>1. Inv => OnePostPerCall
  BY DEF Inv, OnePostPerCall
<1> QED  BY <1>1, AdapterInvariant, PTL

\* A published result is of a post that exists.
THEOREM SuccessIsHonest == AdaSpec => []PublishedHasPost
<1>1. Inv => PublishedHasPost
  BY DEF Inv
<1> QED  BY <1>1, AdapterInvariant, PTL

\* An id the platform told is not lost by a result that leaves the state of the post open, and
\* no failure denies the post (the readings after publishContainer and after the Page's request).
THEOREM ToldIdStays == AdaSpec => []ToldIdIsKept
<1>1. Inv => ToldIdIsKept
  BY DEF Inv
<1> QED  BY <1>1, AdapterInvariant, PTL

\* AdaTypeOK: the adapter's variables keep their types.
THEOREM TypesKept == AdaSpec => []AdaTypeOK
<1>1. Inv => AdaTypeOK
  BY DEF Inv
<1> QED  BY <1>1, AdapterInvariant, PTL

\* PreDispatchSentNothing: a failure that claims to come before any request does.
THEOREM PhaseIsHonest == AdaSpec => []PreDispatchSentNothing
<1>1. Inv => PreDispatchSentNothing
  BY DEF Inv
<1> QED  BY <1>1, AdapterInvariant, PTL

-----------------------------------------------------------------------------
(* What the Instagram adapter confirms.                                    *)

\* It says "published" of a post whose id it was told, and media_publish makes a post public before
\* it tells the id.
ConfirmInv == provider = "instagram" =>
  /\ remote.told => remote.live
  /\ result.status = "published" => remote.told /\ result.id

\* A result that is no success leaves nothing to confirm.
LEMMA UnpublishedStep ==
  ASSUME ConfirmInv, UNCHANGED <<provider, remote>>,
         result' = result \/ result'.status # "published"
  PROVE  ConfirmInv'
BY DEF ConfirmInv

LEMMA SendConfirmInv == ASSUME Inv, ConfirmInv, Send PROVE ConfirmInv'
<1>1. UNCHANGED <<provider, result>>
  BY DEF Send
<1>2. CASE call.pc # "post"
  <2>1. remote'.told = remote.told /\ remote'.live = remote.live
    BY <1>2 DEF Send, CallAt, Inv, AdaTypeOK
  <2> QED  BY <1>1, <2>1 DEF ConfirmInv
<1>3. CASE call.pc = "post"
  <2>1. PICK r \in Replies : PlatformPosts(r)
    BY <1>3 DEF Send, CallAt
  <2>2. ~remote.told
    BY <1>3 DEF Inv, Send, NothingPosted
  <2>3. CASE \E late \in BOOLEAN : remote' = [remote EXCEPT !.sent = TRUE, !.late = late]
    <3>1. remote'.told = remote.told
      BY <2>3 DEF Inv, AdaTypeOK
    <3> QED  BY <1>1, <2>2, <3>1 DEF ConfirmInv
  <2>4. ASSUME NEW live \in BOOLEAN, provider = "instagram" => live,
               remote' = [remote EXCEPT !.sent = TRUE, !.posts = @ + 1, !.live = live,
                                        !.told = r.kind = "OK" /\ r.id]
        PROVE  ConfirmInv'
    <3>1. remote'.live = live
      BY <2>4 DEF Inv, AdaTypeOK
    <3> QED  BY <1>1, <2>2, <2>4, <3>1 DEF ConfirmInv
  <2>5. remote.late \in BOOLEAN
    BY DEF Inv, AdaTypeOK
  <2> QED  BY <2>1, <2>3, <2>4, <2>5 DEF PlatformPosts
<1> QED  BY <1>2, <1>3

\* Only a reading that holds the id is taken for a confirmation.
LEMMA ConfirmedConfirmInv == ASSUME Inv, ConfirmInv, Confirmed PROVE ConfirmInv'
<1>1. call.pc = "confirm" /\ UNCHANGED <<provider, remote>> /\ remote.told
  BY AnsweredReply DEF Confirmed, Inv
<1>2. CASE provider = "instagram"
  <2>1. \/ \E code : result' = Unknown(code, TRUE)
        \/ result' = Published(TRUE)
    BY <1>2 DEF Confirmed, Finish, InstagramRead, InstagramUnread, Unconfirmed
  <2>2. result'.id
    BY <2>1 DEF Unknown, Published, Result
  <2> QED  BY <1>1, <2>2 DEF ConfirmInv
<1> QED  BY <1>1, <1>2 DEF ConfirmInv

\* The other readings tell no success, or change no result.
LEMMA OtherResults ==
  ASSUME Inv,
         \/ ValidateInstagram \/ ValidateFacebook \/ ResolveMedia \/ OpenMedia
         \/ ContainerCreated \/ ContainerPolled \/ PostAnswered \/ TryAgain
  PROVE  result' = result \/ result'.status # "published"
<1>1. CASE ValidateInstagram
  BY <1>1 DEF ValidateInstagram, Finish, Goto, Failed, Result
<1>2. CASE ValidateFacebook
  BY <1>2 DEF ValidateFacebook, Finish, Goto, Failed, Result
<1>3. CASE ResolveMedia
  BY <1>3 DEF ResolveMedia, Finish, Goto, Failed, Result
<1>4. CASE OpenMedia
  BY <1>4 DEF OpenMedia, Finish, Goto, Unknown, Result
<1>5. ASSUME Answered("create") \/ Answered("wait") \/ Answered("post")
      PROVE  /\ InstagramFailure(call.reply).status # "published"
             /\ FacebookFailure(call.reply).status # "published"
  BY <1>5, AnsweredReply, InstagramFailureHonest, FacebookFailureHonest
<1>6. CASE ContainerCreated
  BY <1>5, <1>6 DEF ContainerCreated, AfterContainer, Finish, Goto, Unknown, Result
<1>7. CASE ContainerPolled
  BY <1>5, <1>7 DEF ContainerPolled, AfterContainer, Finish, Goto, Failed, Unknown, Result
<1>8. CASE PostAnswered
  BY <1>5, <1>8 DEF PostAnswered, NoIdResult, Finish, Goto, Unknown, Result
<1>9. CASE TryAgain
  BY <1>9 DEF TryAgain
<1> QED  BY <1>1, <1>2, <1>3, <1>4, <1>6, <1>7, <1>8, <1>9

LEMMA NextConfirmInv == ASSUME Inv, ConfirmInv, [AdaNext]_adaVars PROVE ConfirmInv'
<1>1. ASSUME \/ ValidateInstagram \/ ValidateFacebook \/ ResolveMedia \/ OpenMedia
             \/ ContainerCreated \/ ContainerPolled \/ PostAnswered \/ TryAgain
      PROVE  ConfirmInv'
  <2>1. UNCHANGED <<provider, remote>>
    BY <1>1 DEF ValidateInstagram, ValidateFacebook, ResolveMedia, OpenMedia, ContainerCreated,
                ContainerPolled, PostAnswered, TryAgain
  <2> QED  BY <1>1, <2>1, OtherResults, UnpublishedStep
<1>2. CASE PlatformPostsLate \/ PostBecomesPublic
  <2>1. /\ remote'.told = remote.told
        /\ remote.live => remote'.live
        /\ UNCHANGED <<provider, result>>
    BY <1>2 DEF PlatformPostsLate, PostBecomesPublic, Inv, AdaTypeOK
  <2> QED  BY <2>1 DEF ConfirmInv
<1>3. CASE UNCHANGED adaVars
  BY <1>3, UnpublishedStep DEF adaVars
<1> QED  BY <1>1, <1>2, <1>3, SendConfirmInv, ConfirmedConfirmInv DEF AdaNext, AdapterStep

\* The Instagram adapter says "published" of a post that is public, with its id; whatever it could
\* not confirm it leaves open (queryByRemotePostId).  Of the Facebook adapter the run shows that
\* it does not keep to this.
THEOREM InstagramConfirms == AdaSpec => []InstagramIsConfirmed
<1>1. AdaInit => ConfirmInv
  BY DEF AdaInit, ConfirmInv, Pending, Result
<1>2. ConfirmInv => InstagramIsConfirmed
  BY DEF ConfirmInv, InstagramIsConfirmed, PublishedIsConfirmed
<1>3. Inv /\ ConfirmInv /\ [AdaNext]_adaVars => ConfirmInv'
  BY NextConfirmInv
<1> QED  BY <1>1, <1>2, <1>3, AdapterInvariant, PTL DEF AdaSpec

-----------------------------------------------------------------------------
(* What the queue assumes of a call.  The worker Caller of PublishWorker   *)
(* calls the adapter in a state Before of the queue; the adapter's steps   *)
(* are then steps the queue has for that call, or none.                    *)

CONSTANTS Jobs, Workers, Tokens, NoToken, MaxAttempts, StallPoints, MaxCrashes, Modes,
          Caller,  \* the worker that calls
          Before   \* the queue when it calls, by the names of its variables

\* The status the worker gives the job for a result on some attempt (finalStatus).
OutcomeOf(r, attempt) ==
  LET phase == IF r.phase = "NONE" THEN "POST_DISPATCH" ELSE r.phase
      decision == DecidePublishRetry(phase, ClassifyPublishFailure(r.code, phase), attempt,
                                     MaxAttempts, r.retryable)
  IN  IF r.status = "published" THEN "PUBLISHED"
      ELSE IF r.status = "unknown" THEN "UNKNOWN"
      ELSE IF decision \in {"UNKNOWN", "RETRY"} THEN decision ELSE "FAILED"

\* The post exists, or a lost request may still create it: to the queue it is made.
Made == remote.posts > 0 \/ remote.late

\* The caller's row of PublishWorker, and the posts of its job.
Row == Before.worker[Caller]
RowOf(pc, made, outcome) ==
  [pc |-> pc, scan |-> Row.scan, job |-> Row.job, token |-> Row.token, number |-> Row.number,
   valid |-> Row.valid, lost |-> Row.lost, made |-> made, outcome |-> outcome]
CallerNow == IF call.pc = "done" THEN RowOf("answered", Made, OutcomeOf(result, Row.number))
                                 ELSE RowOf("calling", Made, Row.outcome)
PostsNow == IF Made THEN Before.posts[Row.job] + 1 ELSE Before.posts[Row.job]

\* The queue before the call, and while it lasts: of the queue the call moves nothing else.
Queue == INSTANCE PublishWorker WITH
       job <- Before.job, attempts <- Before.attempts, item <- Before.item,
       gate <- Before.gate, task <- Before.task, mode <- Before.mode,
       crashes <- Before.crashes, worker <- Before.worker, posts <- Before.posts
Calling == INSTANCE PublishWorker WITH
       job <- Before.job, attempts <- Before.attempts, item <- Before.item,
       gate <- Before.gate, task <- Before.task, mode <- Before.mode,
       crashes <- Before.crashes,
       worker <- [Before.worker EXCEPT ![Caller] = CallerNow],
       posts <- [Before.posts EXCEPT ![Row.job] = PostsNow]

\* Caller is in its call, and the platform has not carried it out.
CallBegins == Queue!TypeOK /\ Caller \in Workers /\ Row.pc = "calling" /\ ~Row.made

\* The steps PublishWorker has for a call.
CallStep == Calling!PlatformCreatesPost(Caller) \/ Calling!AdapterReturns(Caller)

\* A failure that claims to come before any request is certain.
LEMMA PreDispatchIsCertain ==
  ASSUME NEW r \in Results, r.status = "failed", r.phase = "PRE_DISPATCH"
  PROVE  Certain(r)
BY DEF Certain, FinalStatus, DecidePublishRetry

\* A category that leaves no doubt of a failure that counts as sent is certain.
LEMMA SentIsCertain ==
  ASSUME NEW r \in Results, r.status = "failed", r.phase # "PRE_DISPATCH",
         ClassifyPublishFailure(r.code, "POST_DISPATCH") \notin UncertainCategories
  PROVE  Certain(r)
<1>1. r.phase \in {"NONE", "POST_DISPATCH"}
  BY DEF Results, Phases
<1>2. FinalStatus(r) = "FAILED"
  BY <1>1 DEF FinalStatus, DecidePublishRetry
<1> QED  BY <1>2 DEF Certain

\* classifyPublishFailure stays within the categories of the phase.
LEMMA CategoryOfPhase ==
  ASSUME NEW code, NEW phase \in Phases
  PROVE  ClassifyPublishFailure(code, phase) \in Calling!CategoriesOf(phase)
BY DEF Phases, ClassifyPublishFailure, Calling!CategoriesOf, Calling!Categories, Categories

\* A result that is true of the platform is one of the outcomes the queue expects.
LEMMA OutcomeIsPossible ==
  ASSUME NEW r \in Results, NEW made \in BOOLEAN, NEW attempt,
         r.status # "pending",
         r.status = "published" => made,
         Certain(r) => ~made
  PROVE  \/ OutcomeOf(r, attempt) = "PUBLISHED" /\ made
         \/ OutcomeOf(r, attempt) = "UNKNOWN"
         \/ \E phase \in Phases :
              \E category \in Calling!CategoriesOf(phase), retryable \in BOOLEAN :
                /\ made => phase = "POST_DISPATCH" /\ category \in UncertainCategories
                /\ OutcomeOf(r, attempt) = Calling!FailureOutcome(phase, category, attempt, retryable)
<1>1. CASE r.status # "failed"
  BY <1>1 DEF Results, OutcomeOf
<1>2. CASE r.status = "failed"
  <2> DEFINE phase == IF r.phase = "NONE" THEN "POST_DISPATCH" ELSE r.phase
             category == ClassifyPublishFailure(r.code, phase)
  <2>1. phase \in Phases /\ r.retryable \in BOOLEAN
    BY DEF Results, Phases
  <2>2. category \in Calling!CategoriesOf(phase)
    BY <2>1, CategoryOfPhase
  <2>3. made => phase = "POST_DISPATCH" /\ category \in UncertainCategories
    BY <1>2, <2>1, PreDispatchIsCertain, SentIsCertain DEF Phases
  <2>4. OutcomeOf(r, attempt) = Calling!FailureOutcome(phase, category, attempt, r.retryable)
    BY <1>2 DEF OutcomeOf, Calling!FailureOutcome, Calling!DecidePublishRetry,
                DecidePublishRetry, Calling!UncertainCategories, UncertainCategories,
                Calling!FinalCategories, FinalCategories
  <2> HIDE DEF phase, category
  <2> QED  BY <2>1, <2>2, <2>3, <2>4
<1> QED  BY <1>1, <1>2
\* The caller's row, and how the two steps change it.
LEMMA RowSteps ==
  ASSUME CallBegins
  PROVE  /\ Row.job \in Jobs /\ Before.posts \in [Jobs -> Nat]
         /\ DOMAIN Before.worker = Workers
         /\ Row = RowOf("calling", FALSE, Row.outcome)
BY DEF CallBegins, Queue!TypeOK, Queue!Works, Row, RowOf

\* The changes of the two steps to a row.
PostMade(row, yes) == [row EXCEPT !.made = yes]
Answer(row, outcome) == [row EXCEPT !.pc = "answered", !.outcome = outcome]

LEMMA RowChanges ==
  \A pc, made, outcome, yes, answer :
    /\ RowOf(pc, made, outcome).pc = pc
    /\ RowOf(pc, made, outcome).made = made
    /\ RowOf(pc, made, outcome).job = Row.job
    /\ RowOf(pc, made, outcome).number = Row.number
    /\ PostMade(RowOf(pc, made, outcome), yes) = RowOf(pc, yes, outcome)
    /\ Answer(RowOf(pc, made, outcome), answer) = RowOf("answered", made, answer)
<1> TAKE pc, made, outcome, yes, answer
<1>1. /\ RowOf(pc, made, outcome).pc = pc
      /\ RowOf(pc, made, outcome).made = made
      /\ RowOf(pc, made, outcome).job = Row.job
      /\ RowOf(pc, made, outcome).number = Row.number
  BY DEF RowOf
<1>2. [RowOf(pc, made, outcome) EXCEPT !.made = yes] = RowOf(pc, yes, outcome)
  BY DEF RowOf
<1>3. \A end : [RowOf(pc, made, outcome) EXCEPT !.pc = end] = RowOf(end, made, outcome)
  BY DEF RowOf
<1>4. \A end : [RowOf(end, made, outcome) EXCEPT !.outcome = answer]
                 = RowOf(end, made, answer)
  BY DEF RowOf
<1>5. PostMade(RowOf(pc, made, outcome), yes) = RowOf(pc, yes, outcome)
  BY <1>2 DEF PostMade
<1>6. Answer(RowOf(pc, made, outcome), answer) = RowOf("answered", made, answer)
  BY <1>3, <1>4, Zenon DEF Answer
<1> QED  BY <1>1, <1>5, <1>6

\* Carrying the post out is the queue's PlatformCreatesPost.
LEMMA MadeStep ==
  ASSUME CallBegins, call.pc # "done", call'.pc # "done", ~Made, Made'
  PROVE  Calling!PlatformCreatesPost(Caller)
<1>1. /\ Caller \in Workers /\ Row.job \in Jobs /\ Before.posts \in [Jobs -> Nat]
      /\ DOMAIN Before.worker = Workers
  BY RowSteps DEF CallBegins
<1> DEFINE W == [Before.worker EXCEPT ![Caller] = CallerNow]
           P == [Before.posts EXCEPT ![Row.job] = PostsNow]
<1>2. /\ CallerNow = RowOf("calling", Made, Row.outcome)
      /\ CallerNow' = RowOf("calling", TRUE, Row.outcome)
  BY DEF CallerNow, Made
<1>3. /\ W[Caller] = CallerNow
      /\ W' = [Before.worker EXCEPT ![Caller] = CallerNow']
  BY <1>1
<1>4. /\ PostMade(CallerNow, TRUE) = CallerNow'
      /\ CallerNow.pc = "calling" /\ CallerNow.made = Made /\ CallerNow.job = Row.job
  <2> DEFINE row == RowOf("calling", Made, Row.outcome)
  <2>1. PostMade(row, TRUE) = RowOf("calling", TRUE, Row.outcome)
    <3>1. \A pc, made, outcome, yes :
            PostMade(RowOf(pc, made, outcome), yes) = RowOf(pc, yes, outcome)
      BY RowChanges
    <3> HIDE DEF PostMade
    <3> QED  BY <3>1
  <2>2. row.pc = "calling" /\ row.made = Made /\ row.job = Row.job
    BY RowChanges
  <2> HIDE DEF row
  <2> QED  BY <1>2, <2>1, <2>2 DEF row
<1>5. W' = [W EXCEPT ![Caller] = PostMade(W[Caller], TRUE)]
  BY <1>1, <1>3, <1>4
<1>6. W[Caller].pc = "calling" /\ ~W[Caller].made /\ W[Caller].job = Row.job
  BY <1>3, <1>4
<1>7. P' = [P EXCEPT ![Row.job] = P[Row.job] + 1]
  BY <1>1 DEF PostsNow
<1>8. Calling!At(Caller, "calling") /\ Calling!JobOf(Caller) = Row.job
  BY <1>6 DEF Calling!At, Calling!JobOf
<1> QED  BY <1>5, <1>6, <1>7, <1>8 DEF Calling!PlatformCreatesPost, PostMade

\* An end of the call is the queue's AdapterReturns.
LEMMA ReturnStep ==
  ASSUME CallBegins, Inv', call.pc # "done", call'.pc = "done", UNCHANGED remote
  PROVE  Calling!AdapterReturns(Caller)
<1>1. /\ Caller \in Workers /\ DOMAIN Before.worker = Workers
  BY RowSteps DEF CallBegins
<1> DEFINE W == [Before.worker EXCEPT ![Caller] = CallerNow]
           o == OutcomeOf(result', Row.number)
<1>2. Made' = Made
  BY DEF Made
<1>3. /\ CallerNow = RowOf("calling", Made, Row.outcome)
      /\ CallerNow' = RowOf("answered", Made, o)
  BY <1>2 DEF CallerNow
<1>4. /\ W[Caller] = CallerNow
      /\ W' = [Before.worker EXCEPT ![Caller] = CallerNow']
  BY <1>1
<1>5. /\ W[Caller].pc = "calling" /\ W[Caller].made = Made /\ W[Caller].number = Row.number
      /\ Answer(W[Caller], o) = CallerNow'
  <2> HIDE DEF o, W
  <2>1. /\ CallerNow.pc = "calling" /\ CallerNow.made = Made /\ CallerNow.number = Row.number
        /\ Answer(CallerNow, o) = CallerNow'
    <3> DEFINE row == RowOf("calling", Made, Row.outcome)
    <3>1. Answer(row, o) = RowOf("answered", Made, o)
      BY RowChanges
    <3>2. row.pc = "calling" /\ row.made = Made /\ row.number = Row.number
      BY RowChanges
    <3> HIDE DEF row
    <3> QED  BY <1>3, <3>1, <3>2 DEF row
  <2> QED  BY <1>4, <2>1
<1>6. W' = [W EXCEPT ![Caller] = Answer(W[Caller], o)]
  BY <1>1, <1>4, <1>5
<1>7. /\ result' \in Results /\ result'.status # "pending"
      /\ result'.status = "published" => Made
      /\ Certain(result') => ~Made
  <2>1. /\ result' \in Results /\ result'.status # "pending"
        /\ result'.status = "published" => remote'.posts = 1
        /\ Certain(result') => remote'.posts = 0 /\ ~remote'.late
    BY DEF Inv, AdaTypeOK, PublishedHasPost, NothingPosted
  <2> QED  BY <2>1 DEF Made
<1>8. o \in Calling!PossibleOutcomes(Caller)
  <2>1. \/ o = "PUBLISHED" /\ Made
        \/ o = "UNKNOWN"
        \/ \E phase \in Phases :
             \E category \in Calling!CategoriesOf(phase), retryable \in BOOLEAN :
               /\ Made => phase = "POST_DISPATCH" /\ category \in UncertainCategories
               /\ o = Calling!FailureOutcome(phase, category, Row.number, retryable)
    <3>1. Made \in BOOLEAN
      BY DEF Made
    <3> QED  BY <1>7, <3>1, OutcomeIsPossible
  <2>2. o \in {"PUBLISHED", "UNKNOWN", "RETRY", "FAILED"}
    BY DEF OutcomeOf
  <2> HIDE DEF o
  <2> QED
    BY <1>5, <2>1, <2>2
    DEF Calling!PossibleOutcomes, Calling!Outcomes, Calling!Phases, Phases,
        Calling!UncertainCategories, UncertainCategories
<1>9. Calling!At(Caller, "calling")
  BY <1>5 DEF Calling!At
<1> HIDE DEF o
<1>10. UNCHANGED [Before.posts EXCEPT ![Row.job] = PostsNow]
  BY <1>2 DEF PostsNow
<1> QED  BY <1>6, <1>8, <1>9, <1>10 DEF Calling!AdapterReturns, Answer
\* Nothing the queue sees has changed.
LEMMA RestStep ==
  ASSUME Made' = Made, call'.pc # "done" \/ UNCHANGED <<call, result>>,
         call.pc = "done" => UNCHANGED <<call, result>>
  PROVE  UNCHANGED Calling!vars
<1>1. CASE call.pc # "done" /\ call'.pc # "done"
  BY <1>1 DEF Calling!vars, CallerNow, PostsNow
<1>2. CASE UNCHANGED <<call, result>>
  BY <1>2 DEF Calling!vars, CallerNow, PostsNow
<1> QED  BY <1>1, <1>2

\* Only the request that publishes makes a post, and it is sent once.
LEMMA SendCallStep ==
  ASSUME CallBegins, Inv, Send
  PROVE  CallStep \/ UNCHANGED Calling!vars
<1>1. /\ call.pc # "done" /\ call'.pc # "done" /\ UNCHANGED result
      /\ call.reply = NoReply
  BY DEF Send, Asks, Inv, AdaTypeOK
<1>2. CASE call.pc = "post"
  <2>1. ~Made
    BY <1>1, <1>2 DEF Inv, NothingPosted, Made
  <2>2. CASE Made'
    BY <1>1, <2>1, <2>2, MadeStep DEF CallStep
  <2>3. CASE ~Made'
    BY <1>1, <2>1, <2>3, RestStep DEF Made
  <2> QED  BY <2>2, <2>3
<1>3. CASE call.pc # "post"
  <2>1. remote' = [remote EXCEPT !.sent = TRUE]
    BY <1>3 DEF Send, CallAt
  <2>2. Made' = Made
    BY <2>1 DEF Made, Inv, AdaTypeOK
  <2> QED  BY <1>1, <2>2, RestStep
<1> QED  BY <1>2, <1>3

\* The steps that send nothing go on, or end the call.
LEMMA AnswerCallStep ==
  ASSUME CallBegins, Inv', UNCHANGED remote, call.pc # "done"
  PROVE  CallStep \/ UNCHANGED Calling!vars
<1>1. CASE call'.pc = "done"
  BY <1>1, ReturnStep DEF CallStep
<1>2. CASE call'.pc # "done"
  BY <1>2, RestStep DEF Made
<1> QED  BY <1>1, <1>2

LEMMA NextCallStep ==
  ASSUME CallBegins, Inv, Inv', [AdaNext]_adaVars
  PROVE  CallStep \/ UNCHANGED Calling!vars
<1>1. CASE Send
  BY <1>1, SendCallStep
<1>2. CASE \/ ValidateInstagram \/ ValidateFacebook \/ ResolveMedia \/ OpenMedia \/ TryAgain
           \/ ContainerCreated \/ ContainerPolled \/ PostAnswered \/ Confirmed
  <2>1. UNCHANGED remote /\ call.pc # "done"
    BY <1>2 DEF ValidateInstagram, ValidateFacebook, ResolveMedia, OpenMedia, TryAgain,
                ContainerCreated, ContainerPolled, PostAnswered, Confirmed, Answered, CallAt,
                Asks
  <2> QED  BY <2>1, AnswerCallStep
<1>3. CASE PlatformPostsLate \/ PostBecomesPublic
  <2>1. UNCHANGED <<call, result>>
    BY <1>3 DEF PlatformPostsLate, PostBecomesPublic
  <2>2. remote \in [sent : BOOLEAN, posts : Nat, live : BOOLEAN, late : BOOLEAN, told : BOOLEAN]
    BY DEF Inv, AdaTypeOK
  <2>3. CASE PlatformPostsLate
    <3>1. remote.late /\ remote' = [remote EXCEPT !.late = FALSE, !.posts = remote.posts + 1]
      BY <2>3 DEF PlatformPostsLate
    <3>2. remote'.posts = remote.posts + 1 /\ remote.posts \in Nat
      BY <2>2, <3>1
    <3> QED  BY <2>1, <3>1, <3>2, RestStep DEF Made
  <2>4. CASE PostBecomesPublic
    <3>1. remote' = [remote EXCEPT !.live = TRUE]
      BY <2>4 DEF PostBecomesPublic
    <3>2. remote'.posts = remote.posts /\ remote'.late = remote.late
      BY <2>2, <3>1
    <3> QED  BY <2>1, <3>2, RestStep DEF Made
  <2> QED  BY <1>3, <2>3, <2>4
<1>4. CASE UNCHANGED adaVars
  BY <1>4, RestStep DEF adaVars, Made
<1> QED  BY <1>1, <1>2, <1>3, <1>4 DEF AdaNext, AdapterStep

\* Whatever the platform does, and whatever is lost on the way, a call of either adapter looks to
\* the queue as PublishWorker has it: it begins where the caller stands, and every step of the
\* adapter is one PlatformCreatesPost at most, the AdapterReturns that ends the call with an
\* outcome the queue allows for, or nothing (adapter.publish in processPublishJob; finalStatus
\* of its result, on any attempt).
THEOREM AdaptersKeepAssumption ==
  ASSUME CallBegins
  PROVE  AdaSpec => Calling!vars = Queue!vars /\ [][CallStep]_(Calling!vars)
<1>1. AdaInit => Calling!vars = Queue!vars
  <2> SUFFICES ASSUME AdaInit PROVE Calling!vars = Queue!vars
    OBVIOUS
  <2>1. call.pc # "done" /\ ~Made
    BY DEF AdaInit, Made
  <2>2. ~Made => RowOf("calling", Made, Row.outcome) = RowOf("calling", FALSE, Row.outcome)
    BY Zenon DEF Made
  <2>3. CallerNow = Before.worker[Caller]
    BY <2>1, <2>2, RowSteps DEF CallerNow, Row
  <2>4. PostsNow = Before.posts[Row.job]
    BY <2>1 DEF PostsNow
  <2>5. /\ [Before.worker EXCEPT ![Caller] = CallerNow] = Before.worker
        /\ [Before.posts EXCEPT ![Row.job] = PostsNow] = Before.posts
    <3>1. Before.worker = [w \in DOMAIN Before.worker |-> Before.worker[w]]
      BY DEF CallBegins, Queue!TypeOK
    <3> QED  BY <2>3, <2>4, <3>1, RowSteps
  <2> QED  BY <2>5 DEF Calling!vars, Queue!vars
<1>2. Inv /\ Inv' /\ [AdaNext]_adaVars => [CallStep]_(Calling!vars)
  BY NextCallStep
<1> QED  BY <1>1, <1>2, AdapterInvariant, PTL DEF AdaSpec
=============================================================================
