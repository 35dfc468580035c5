--------------------------- MODULE GraphAdapters ---------------------------
(***************************************************************************)
(* One call of publish on an adapter of the Graph API                      *)
(* (src/src/lib/adapters/instagram-graph.ts and facebook-graph.ts, over    *)
(* src/src/lib/platforms/http-client.ts and errors.ts), and the status the *)
(* worker reads in its result.  The adapters send a sequence of requests;  *)
(* any of them may be lost before or after it has taken effect, answered   *)
(* with an error, or with a body that is no JSON.                          *)
(*                                                                         *)
(* PublishWorker takes from here that a result without doubt is true:      *)
(* "published" of a post that exists, FAILED or RETRY only where no post   *)
(* exists or can still appear.                                             *)
(***************************************************************************)
EXTENDS PublishSafety, Sequences

CONSTANTS Providers,        \* the adapters in question
          MaxAssets,        \* assets of an Instagram post
          PollMaxAttempts,  \* reads of the status of a media container
          MaxReads          \* tries of one read (DEFAULT_MAX_ATTEMPTS)

ASSUME AdaptersAssumption ==
  /\ Providers \subseteq {"facebook", "instagram"}
  /\ MaxAssets \in Nat \ {0}
  /\ PollMaxAttempts \in Nat \ {0}
  /\ MaxReads \in Nat \ {0}

MediaKinds == {"image", "video", "other"}
Defects == {"NONE", "PLATFORM", "ACCOUNT", "TEXT"}

\* What is asked of an adapter: bound, one asset more than an adapter takes.
PublishRequests ==
  [defect : Defects, kinds : UNION {[1..n -> MediaKinds] : n \in 0..(MaxAssets + 1)}]

\* The errors a body may name, each for the codes that are read alike.
GraphErrors == {"TOKEN",       \* 190
                "SESSION",     \* 102, and the subcodes 460, 463, 467
                "PERMISSION",  \* 10, 200, 299
                "RATE",        \* 4, 17, 32, 613
                "USAGE",       \* 80004, 80007
                "REJECTED",    \* 368, 506
                "MEDIA",       \* 324, 352, 360, 361
                "PARAM",       \* 100
                "OTHER"}
Statuses == {200, 400, 404, 429, 500, 503}

\* How a request ends for the adapter: nothing came back in time, the connection broke,
\* the body is no JSON, the body names an error or the status is one, or all is well.
Lost == {"TIMEOUT", "NETWORK"}
Replies ==
       [kind : Lost, status : {0}, error : {"NONE"}, id : {FALSE}]
  \cup [kind : {"GARBLED"}, status : Statuses, error : {"NONE"}, id : {FALSE}]
  \cup [kind : {"ERROR"}, status : Statuses, error : GraphErrors, id : {FALSE}]
  \cup [kind : {"ERROR"}, status : Statuses \ {200}, error : {"NONE"}, id : {FALSE}]
  \cup [kind : {"OK"}, status : {200}, error : {"NONE"}, id : BOOLEAN]
NoReply == [kind |-> "NONE", status |-> 0, error |-> "NONE", id |-> FALSE]

VARIABLES
  provider,  \* which adapter runs
  request,   \* what it was asked to publish
  call,      \* where it is: program point, asset, tries of the request, polls, the
             \* reply and whether the post was public when it was given
  remote,    \* the platform: has it been sent anything, does it hold the post, is the
             \* post public, may a lost request still be carried out, was its id told
  result     \* what publish returns

adaVars == <<provider, request, call, remote, result>>

Asks == {"create", "wait", "post", "confirm"}
CallPoints == {"validate", "resolve", "open", "done"} \cup Asks

Result(status, code, phase, retryable, id) ==
  [status |-> status, code |-> code, phase |-> phase, retryable |-> retryable, id |-> id]
Codes == {"NONE", "TOKEN_INVALID", "PERMISSION_DENIED", "RATE_LIMITED", "CONTENT_REJECTED",
          "REMOTE_NOT_FOUND", "REMOTE_NOT_PUBLISHED", "PLATFORM_API_ERROR", "API_ERROR",
          "NETWORK_TIMEOUT", "REMOTE_RESULT_UNKNOWN"} \cup ValidationCodes \cup MediaCodes
Results == [status : {"pending", "published", "unknown", "failed"}, code : Codes,
            phase : Phases \cup {"NONE"}, retryable : BOOLEAN, id : BOOLEAN]
Pending == Result("pending", "NONE", "NONE", FALSE, FALSE)
Published(id) == Result("published", "NONE", "NONE", FALSE, id)
Unknown(code, id) == Result("unknown", code, "NONE", FALSE, id)
Failed(code, phase, retryable) == Result("failed", code, phase, retryable, FALSE)

-----------------------------------------------------------------------------
(* What a reply means.                                                     *)

\* The code of an error that is known by name, "NONE" for any other.
KnownCode(r, tokenErrors, rateErrors, missing) ==
  IF r.error \in tokenErrors THEN "TOKEN_INVALID"
  ELSE IF r.error = "PERMISSION" THEN "PERMISSION_DENIED"
  ELSE IF r.error \in rateErrors \/ r.status = 429 THEN "RATE_LIMITED"
  ELSE IF r.error = "REJECTED" THEN "CONTENT_REJECTED"
  ELSE IF r.error = "MEDIA" THEN "MEDIA_INVALID"
  ELSE IF r.error = "PARAM" /\ r.status \in missing THEN "REMOTE_NOT_FOUND"
  ELSE "NONE"

\* failurePhase of every request of the Instagram adapter.
DispatchPhase == "POST_DISPATCH"

\* normalizeMetaGraphFailure.
MetaGraphFailure(r) ==
  LET known == KnownCode(r, {"TOKEN", "SESSION"}, {"RATE", "USAGE"}, {400, 404})
      sent == DispatchPhase = "POST_DISPATCH"
      uncertain == sent /\ (r.kind \in Lost \/ r.status >= 500)
      name == IF r.kind = "TIMEOUT" THEN "NETWORK_TIMEOUT"
              ELSE IF uncertain THEN "REMOTE_RESULT_UNKNOWN" ELSE "PLATFORM_API_ERROR"
  IN  [code |-> IF known # "NONE" THEN known ELSE name,
       retryable |-> known = "NONE" /\ ~sent /\ r.kind \in Lost,
       uncertain |-> known = "NONE" /\ uncertain]

\* publishFailure of the Instagram adapter.
InstagramFailure(r) ==
  LET failure == MetaGraphFailure(r)
  IN  IF failure.uncertain THEN Unknown(failure.code, FALSE)
      ELSE Failed(failure.code, DispatchPhase, failure.retryable)

\* classifyFacebookError and the two ways the connection fails.
FacebookCode(r) ==
  LET known == KnownCode(r, {"TOKEN"}, {"RATE"}, {400})
  IN  IF r.kind = "TIMEOUT" THEN "NETWORK_TIMEOUT"
      ELSE IF r.kind = "NETWORK" THEN "REMOTE_RESULT_UNKNOWN"
      ELSE IF known # "NONE" THEN known
      ELSE "API_ERROR"

\* publishFailure of the Facebook adapter: it names no phase.
FacebookFailure(r) ==
  LET code == FacebookCode(r)
  IN  IF code \in {"NETWORK_TIMEOUT", "REMOTE_RESULT_UNKNOWN"} THEN Unknown(code, FALSE)
      ELSE IF code = "API_ERROR" /\ r.status >= 500
           THEN Unknown("REMOTE_RESULT_UNKNOWN", FALSE)
      ELSE Failed(code, "NONE", code = "RATE_LIMITED")

\* graph of the Instagram adapter: a body that is no JSON, or that names an error, is an error
\* whatever its status.
NoError(r) == r.kind = "OK"

\* Does the adapter read the reply as a success?  The Facebook adapter takes a body that
\* is no JSON for an empty object.
Accepted(r) ==
  \/ NoError(r)
  \/ provider = "facebook" /\ r.kind = "GARBLED" /\ r.status = 200

-----------------------------------------------------------------------------
(* Before the first request.                                               *)

Video(k) == k = "video"
Assets == Len(request.kinds)

\* validateRequest of the Instagram adapter.
InstagramRefusal ==
  CASE request.defect = "PLATFORM" -> "UNSUPPORTED_PLATFORM"
    [] request.defect = "ACCOUNT" -> "ACCOUNT_ID_MISMATCH"
    [] request.defect \notin {"PLATFORM", "ACCOUNT"} /\ Assets \notin 1..MaxAssets -> "MEDIA_INVALID"
    [] request.defect = "TEXT" /\ Assets \in 1..MaxAssets -> "CONTENT_VALIDATION_FAILED"
    [] request.defect = "NONE" /\ Assets \in 1..MaxAssets ->
         IF \E i \in 1..Assets : request.kinds[i] = "other" THEN "MEDIA_INVALID" ELSE "NONE"

\* What publish of the Facebook adapter turns away.
FacebookRefusal ==
  CASE request.defect = "PLATFORM" -> "UNSUPPORTED_PLATFORM"
    [] request.defect = "ACCOUNT" -> "PAGE_ID_MISMATCH"
    [] request.defect \in {"NONE", "TEXT"} ->
         IF Assets > 1 THEN "FACEBOOK_SINGLE_MEDIA_ONLY"
         ELSE IF Assets = 1 /\ request.kinds[1] = "other" THEN "MEDIA_INVALID"
         ELSE "NONE"

AdaInit ==
  /\ provider \in Providers
  /\ request \in PublishRequests
  /\ call = [pc |-> "validate", asset |-> 1, tries |-> 1, polls |-> 0, reply |-> NoReply,
           seen |-> FALSE]
  /\ remote = [sent |-> FALSE, posts |-> 0, live |-> FALSE, late |-> FALSE, told |-> FALSE]
  /\ result = Pending

CallAt(pc) == call.pc = pc
Finish(r) == call' = [call EXCEPT !.pc = "done", !.reply = NoReply] /\ result' = r
Goto(pc, asset) ==
  /\ call' = [pc |-> pc, asset |-> asset, tries |-> 1, polls |-> 0, reply |-> NoReply,
           seen |-> FALSE]
  /\ UNCHANGED result

ValidateInstagram ==
  /\ CallAt("validate") /\ provider = "instagram"
  /\ IF InstagramRefusal = "NONE"
     THEN Goto("resolve", 1)
     ELSE Finish(Failed(InstagramRefusal, "PRE_DISPATCH", FALSE))
  /\ UNCHANGED <<provider, request, remote>>

ValidateFacebook ==
  /\ CallAt("validate") /\ provider = "facebook"
  /\ IF FacebookRefusal # "NONE"
     THEN Finish(Failed(FacebookRefusal, "NONE", FALSE))
     ELSE Goto(IF Assets = 0 THEN "post" ELSE "open", 1)
  /\ UNCHANGED <<provider, request, remote>>

\* resolveMedia: every asset must have a public address.
ResolveMedia ==
  /\ CallAt("resolve")
  /\ \/ Goto("create", 1)
     \/ Finish(Failed("MEDIA_URL_UNAVAILABLE", "PRE_DISPATCH", FALSE))
  /\ UNCHANGED <<provider, request, remote>>

\* createMultipartBody: the storage may fail to open the file.
OpenMedia ==
  /\ CallAt("open")
  /\ Goto("post", 1) \/ Finish(Unknown("REMOTE_RESULT_UNKNOWN", FALSE))
  /\ UNCHANGED <<provider, request, remote>>

-----------------------------------------------------------------------------
(* Requests.  A request and what the platform makes of it are one step; of *)
(* a request that is lost the effect may come later.                       *)

\* An error that names its cause, or HTTP 429, says that the request was not carried out.
Refused(r) == r.error \in GraphErrors \ {"PARAM", "OTHER"} \/ r.status = 429

\* What the platform makes of the request that publishes.
PlatformPosts(r) ==
  \/ /\ r.kind # "OK" \/ ~r.id     \* no post, or none yet
     /\ \E late \in {remote.late} \cup {l \in {TRUE} : r.kind \in Lost} :
          remote' = [remote EXCEPT !.sent = TRUE, !.late = late]
  \/ /\ ~Refused(r)
     /\ \E live \in BOOLEAN :
          /\ provider = "instagram" \/ Assets = 0 \/ ~Video(request.kinds[1]) => live
          /\ remote' = [remote EXCEPT !.sent = TRUE, !.posts = @ + 1, !.live = live,
                                      !.told = r.kind = "OK" /\ r.id]

Send ==
  /\ call.pc \in Asks /\ call.reply = NoReply
  /\ \E r \in Replies :
       /\ call' = [call EXCEPT !.reply = r, !.seen = remote.live]
       /\ IF CallAt("post") THEN PlatformPosts(r) ELSE remote' = [remote EXCEPT !.sent = TRUE]
  /\ UNCHANGED <<provider, request, result>>

\* A lost request is carried out after the adapter has given up on it.
PlatformPostsLate ==
  /\ remote.late
  /\ remote' = [remote EXCEPT !.late = FALSE, !.posts = @ + 1]
  /\ UNCHANGED <<provider, request, call, result>>

\* The post has been processed and is public.
PostBecomesPublic ==
  /\ remote.posts > 0 /\ ~remote.live
  /\ remote' = [remote EXCEPT !.live = TRUE]
  /\ UNCHANGED <<provider, request, call, result>>

-----------------------------------------------------------------------------
(* Answers.                                                                *)

\* Mutant: whatever the method.
TriesOfAny(pc) == MaxReads

\* requestPlatformJson: a read is tried again, a request that changes something never;
\* the Facebook adapter has no such loop.
Tries(pc) == IF provider = "instagram" /\ pc \in {"wait", "confirm"} THEN MaxReads ELSE 1

Transient(r) == r.kind \in Lost \/ (r.kind = "ERROR" /\ r.status \in {429, 503})
Again == Transient(call.reply) /\ call.tries < Tries(call.pc)
Answered(pc) == CallAt(pc) /\ call.reply # NoReply /\ ~Again

TryAgain ==
  /\ call.pc \in Asks /\ call.reply # NoReply /\ Again
  /\ call' = [call EXCEPT !.tries = @ + 1, !.reply = NoReply]
  /\ UNCHANGED <<provider, request, remote, result>>

\* After a container is ready: the next asset, the carousel of them all, or publishing.
AfterContainer ==
  IF Assets > 1 /\ call.asset <= Assets THEN Goto("create", call.asset + 1)
                                         ELSE Goto("post", call.asset)

\* createContainer, for an asset or for the carousel (asset Assets + 1).
ContainerCreated ==
  /\ Answered("create")
  /\ \/ ~Accepted(call.reply) /\ Finish(InstagramFailure(call.reply))
     \/ /\ Accepted(call.reply) /\ ~call.reply.id
        /\ Finish(Unknown("REMOTE_RESULT_UNKNOWN", FALSE))
     \/ /\ Accepted(call.reply) /\ call.reply.id
        /\ IF call.asset <= Assets /\ Video(request.kinds[call.asset])
           THEN Goto("wait", call.asset)
           ELSE AfterContainer
  /\ UNCHANGED <<provider, request, remote>>

\* Mutant: polls not counted.
NotCounted(polls) == polls

PollsLeft(polls) == polls < PollMaxAttempts
Counted(polls) == polls + 1

\* waitForContainer: the container is finished, has failed, or is read again after a delay.
ContainerPolled ==
  /\ Answered("wait")
  /\ \/ ~Accepted(call.reply) /\ Finish(InstagramFailure(call.reply))
     \/ Accepted(call.reply) /\ AfterContainer
     \/ Accepted(call.reply) /\ Finish(Failed("MEDIA_INVALID", "POST_DISPATCH", FALSE))
     \/ /\ Accepted(call.reply) /\ PollsLeft(Counted(call.polls))
        /\ call' = [call EXCEPT !.tries = 1, !.polls = Counted(@), !.reply = NoReply]
        /\ UNCHANGED result
     \/ /\ Accepted(call.reply) /\ ~PollsLeft(Counted(call.polls))
        /\ Finish(Unknown("REMOTE_RESULT_UNKNOWN", FALSE))
  /\ UNCHANGED <<provider, request, remote>>

\* A success that tells no id.
NoIdResult == Unknown("REMOTE_RESULT_UNKNOWN", FALSE)

\* publishContainer, and the request of the Facebook adapter that posts.
PostAnswered ==
  /\ Answered("post")
  /\ \/ /\ ~Accepted(call.reply)
        /\ Finish(IF provider = "instagram" THEN InstagramFailure(call.reply)
                                            ELSE FacebookFailure(call.reply))
     \/ Accepted(call.reply) /\ ~call.reply.id /\ Finish(NoIdResult)
     \/ Accepted(call.reply) /\ call.reply.id /\ Goto("confirm", call.asset)
  /\ UNCHANGED <<provider, request, remote>>

\* Mutants: the id of the post dropped; a reading without an id taken for a confirmation.
UnconfirmedWithoutId(code) == Unknown(code, FALSE)
InstagramReadAny == Published(call.reply.id)

\* publish keeps the id of a post whose state it could not confirm.
Unconfirmed(code) == Unknown(code, TRUE)

\* queryByRemotePostId of the Instagram adapter, on a reply that is no error.
InstagramRead ==
  IF call.reply.id THEN Published(TRUE) ELSE Unconfirmed("REMOTE_RESULT_UNKNOWN")

\* The same on an error: publish leaves the state open also of a post that is not found.
InstagramUnread == Unconfirmed(MetaGraphFailure(call.reply).code)

\* queryByRemotePostId of the Facebook adapter: a post is published unless the reply says
\* that it is not, and its id is what the reply holds.
FacebookRead ==
  IF call.reply.id /\ ~call.seen THEN Unconfirmed("REMOTE_NOT_PUBLISHED")
                                   ELSE Published(call.reply.id)

Confirmed ==
  /\ Answered("confirm")
  /\ \/ /\ ~Accepted(call.reply)
        /\ Finish(IF provider = "instagram" THEN InstagramUnread
                  ELSE Unconfirmed(FacebookCode(call.reply)))
     \/ /\ Accepted(call.reply)
        /\ Finish(IF provider = "instagram" THEN InstagramRead ELSE FacebookRead)
  /\ UNCHANGED <<provider, request, remote>>

AdapterStep ==
  \/ ValidateInstagram \/ ValidateFacebook \/ ResolveMedia \/ OpenMedia
  \/ Send \/ TryAgain \/ ContainerCreated \/ ContainerPolled \/ PostAnswered \/ Confirmed

AdaNext == AdapterStep \/ PlatformPostsLate \/ PostBecomesPublic

AdaSpec == AdaInit /\ [][AdaNext]_adaVars

-----------------------------------------------------------------------------
(* Properties.                                                             *)

AdaTypeOK ==
  /\ provider \in Providers
  /\ request \in PublishRequests
  /\ call \in [pc : CallPoints, asset : 1..(MaxAssets + 1), tries : 1..MaxReads,
               polls : 0..(PollMaxAttempts - 1), reply : Replies \cup {NoReply},
               seen : BOOLEAN]
  /\ remote \in [sent : BOOLEAN, posts : Nat, live : BOOLEAN, late : BOOLEAN, told : BOOLEAN]
  /\ result \in Results

\* The status the worker gives the job for a result, on an attempt that is not the last
\* (processPublishJob, finalStatus): a failure that names no phase counts as sent.
FinalStatus(r) ==
  LET phase == IF r.phase = "NONE" THEN "POST_DISPATCH" ELSE r.phase
      decision == DecidePublishRetry(phase, ClassifyPublishFailure(r.code, phase), 1, 2,
                                     r.retryable)
  IN  CASE r.status = "pending" -> "RUNNING"
        [] r.status = "published" -> "PUBLISHED"
        [] r.status = "unknown" -> "UNKNOWN"
        [] r.status = "failed" -> IF decision \in {"UNKNOWN", "RETRY"} THEN decision ELSE "FAILED"

\* A failure without doubt, or a retry, is decided only where no post exists and none can
\* still appear: whatever was lost, answered late or answered with nonsense, and whichever
\* of the requests of a carousel it was.
NoCertaintyWithPost ==
  FinalStatus(result) \in {"FAILED", "RETRY"} => remote.posts = 0 /\ ~remote.late

\* The adapter causes one post at most, counting the request that may still be carried out:
\* the tries of a read never repeat the request that publishes.
OnePostPerCall == remote.posts + (IF remote.late THEN 1 ELSE 0) <= 1

\* "published" is said only of a post the platform holds.
PublishedHasPost == result.status = "published" => remote.posts = 1

\* Once the platform has told the id of the post, a result that leaves its state open
\* carries the id, so that it can be queried, and no result denies the post.
ToldIdIsKept ==
  remote.told => /\ result.status # "failed"
                 /\ result.status = "unknown" => result.id

\* A failure that claims the request was not dispatched comes before any request.
PreDispatchSentNothing == result.phase = "PRE_DISPATCH" => ~remote.sent

\* "published" is said only of a post that was seen to be public, and comes with its id.
PublishedIsConfirmed == result.status = "published" => remote.live /\ result.id

\* The Instagram adapter keeps to it: whatever it cannot confirm it reports as UNKNOWN.
InstagramIsConfirmed == provider = "instagram" => PublishedIsConfirmed

\* publish returns, if the adapter runs on: polls and tries are bounded, however the platform
\* answers, and every request carries a time limit.
PublishReturns == WF_adaVars(AdapterStep) => <>CallAt("done")

=============================================================================
