--------------------------- MODULE PublishSafety ---------------------------
(***************************************************************************)
(* src/src/lib/publish-safety.ts: what a failed call of a publish adapter  *)
(* means, and whether the worker may send the content again.               *)
(***************************************************************************)
EXTENDS Integers, FiniteSets

Phases == {"PRE_DISPATCH", "POST_DISPATCH"}

Categories == {"AUTH", "PERMISSION", "RATE_LIMIT", "VALIDATION", "CONTENT_REJECTED",
               "MEDIA", "NETWORK_PRE_DISPATCH", "NETWORK_POST_DISPATCH",
               "REMOTE_UNKNOWN", "SERVER_PRE_DISPATCH", "SERVER_POST_DISPATCH",
               "ADAPTER_UNAVAILABLE"}

Decisions == {"RETRY", "FAILED", "UNKNOWN", "WAITING_CONFIGURATION"}

\* Categories of a failure after which the platform may hold the post all the same.
UncertainCategories == {"NETWORK_POST_DISPATCH", "REMOTE_UNKNOWN", "SERVER_POST_DISPATCH"}

\* Categories that no second try can mend.
FinalCategories == {"AUTH", "PERMISSION", "VALIDATION", "CONTENT_REJECTED", "MEDIA"}

\* The codes that name what a call failed of, as far as their wording is read.
ValidationCodes == {"UNSUPPORTED_PLATFORM", "PAGE_ID_MISMATCH", "ACCOUNT_ID_MISMATCH",
                    "CONTENT_VALIDATION_FAILED"}
MediaCodes == {"MEDIA_INVALID", "MEDIA_URL_UNAVAILABLE", "FACEBOOK_SINGLE_MEDIA_ONLY"}

\* Mutant: a failure without a name of its own taken for one of the configuration.
ClassifyByName(code, phase) ==
  CASE code = "TOKEN_INVALID" -> "AUTH"
    [] code = "PERMISSION_DENIED" -> "PERMISSION"
    [] code = "RATE_LIMITED" -> "RATE_LIMIT"
    [] code \in ValidationCodes -> "VALIDATION"
    [] code = "CONTENT_REJECTED" -> "CONTENT_REJECTED"
    [] code \in MediaCodes -> "MEDIA"
    [] code = "NETWORK_TIMEOUT" -> "NETWORK_POST_DISPATCH"
    [] code = "REMOTE_RESULT_UNKNOWN" -> "REMOTE_UNKNOWN"
    [] OTHER -> "ADAPTER_UNAVAILABLE"

ClassifyPublishFailure(code, phase) ==
  CASE code = "TOKEN_INVALID" -> "AUTH"
    [] code = "PERMISSION_DENIED" -> "PERMISSION"
    [] code = "RATE_LIMITED" -> "RATE_LIMIT"
    [] code \in ValidationCodes -> "VALIDATION"
    [] code = "CONTENT_REJECTED" -> "CONTENT_REJECTED"
    [] code \in MediaCodes -> "MEDIA"
    [] code = "NETWORK_TIMEOUT" -> IF phase = "PRE_DISPATCH" THEN "NETWORK_PRE_DISPATCH"
                                                             ELSE "NETWORK_POST_DISPATCH"
    [] code = "REMOTE_RESULT_UNKNOWN" -> "REMOTE_UNKNOWN"
    [] OTHER -> IF phase = "PRE_DISPATCH" THEN "SERVER_PRE_DISPATCH"
                                          ELSE "SERVER_POST_DISPATCH"

\* Mutant: the phase of the failure unread.
DecideAnyPhase(phase, category, attempt, maxAttempts, retryable) ==
  IF category \in FinalCategories \/ ~retryable \/ attempt >= maxAttempts
  THEN "FAILED" ELSE "RETRY"

DecidePublishRetry(phase, category, attempt, maxAttempts, retryable) ==
  IF phase = "POST_DISPATCH"
  THEN IF category \in UncertainCategories THEN "UNKNOWN" ELSE "FAILED"
  ELSE IF category = "ADAPTER_UNAVAILABLE" THEN "WAITING_CONFIGURATION"
  ELSE IF category \in FinalCategories \/ ~retryable \/ attempt >= maxAttempts
       THEN "FAILED"
       ELSE "RETRY"

=============================================================================
