---------------------------- MODULE ProviderHttp ----------------------------
(***************************************************************************)
(* The decisions of the provider HTTP client: what class an answer has,    *)
(* whether the request is tried again, how long it waits first, and what a *)
(* failed validation says of the connection.  An answer is a record:       *)
(*   kind   "reply", "aborted" (the timeout fired), "broken" (no reply, or *)
(*          a reply that does not parse) or "shapeless" (parses, but has   *)
(*          none of the data it should)                                    *)
(*   status the HTTP status of a reply                                     *)
(*   says   what its prose mentions: "throttle", "expired", "invalid"      *)
(*   code   Meta's numeric error code, or NoCode                           *)
(*   old    whether its subcode or message names an expired token          *)
(***************************************************************************)
EXTENDS Naturals

CONSTANT MaxTries    \* maxAttempts: requests one call may send

ASSUME TriesAssumption == MaxTries \in Nat \ {0}

NoCode == 0

ErrorClasses ==
    {"rate_limited", "expired_credential", "authentication_error",
     "authorization_error", "invalid_request", "timeout", "provider_unavailable",
     "schema_change", "pagination_failure", "configuration_required",
     "unknown_error", "database_error"}

Reply(status, says, code) ==
    [kind |-> "reply", status |-> status, says |-> says, code |-> code, old |-> FALSE]

ClassifyBody(says) ==
    IF "throttle" \in says THEN "rate_limited"
    ELSE IF "expired" \in says THEN "expired_credential"
    ELSE IF "invalid" \in says THEN "authentication_error"
    ELSE "none"

ClassOfStatus(status) ==
    CASE status = 401 -> "authentication_error"
      [] status = 403 -> "authorization_error"
      [] status \in {400, 404, 422} -> "invalid_request"
      [] status = 429 -> "rate_limited"
      [] status \in {408, 504} -> "timeout"
      [] status >= 500 /\ status # 504 -> "provider_unavailable"
      [] OTHER -> "unknown_error"

\* The body is believed below 500 only; a 401 is about the credential even when
\* it speaks of limits.
ClassifyHttpStatus(status, says) ==
    LET stated == ClassifyBody(says)
    IN  IF status >= 500 \/ stated = "none" THEN ClassOfStatus(status)
        ELSE IF stated = "rate_limited" /\ status = 401 THEN "authentication_error"
        ELSE stated

\* Meta's own code comes before status and prose; "none" leaves it to them.
ClassifyGraphError(answer) ==
    CASE answer.code = NoCode -> "none"
      [] answer.code \in {102, 190} ->
            IF answer.old THEN "expired_credential" ELSE "authentication_error"
      [] answer.code \in {10} \cup 200 .. 299 -> "authorization_error"
      [] answer.code \in {4, 17, 32, 613} \cup 80000 .. 80014 -> "rate_limited"
      [] answer.code \in {1, 2} -> "provider_unavailable"
      [] OTHER -> IF answer.status \in 400 .. 499 THEN "invalid_request" ELSE "none"

ClassOf(answer) ==
    CASE answer.kind = "aborted" -> "timeout"
      [] answer.kind = "broken" -> "provider_unavailable"
      [] answer.kind = "shapeless" -> "schema_change"
      [] OTHER -> IF ClassifyGraphError(answer) # "none" THEN ClassifyGraphError(answer)
                  ELSE ClassifyHttpStatus(answer.status, answer.says)

IsRetryableClass(class) == class \in {"rate_limited", "provider_unavailable", "timeout"}

\* Faulty variant: one attempt too many.
SentAgainOnceMore(answer, tries) ==
    answer.kind # "shapeless" /\ IsRetryableClass(ClassOf(answer)) /\ tries <= MaxTries

\* A body of the wrong shape is found by the adapter, after the client returned.
SentAgain(answer, tries) ==
    answer.kind # "shapeless" /\ IsRetryableClass(ClassOf(answer)) /\ tries < MaxTries

\* Milliseconds the client may wait before attempt + 1: what the provider asked
\* for, capped, else half to all of a doubling, capped base.
BackoffDelayMs(attempt, retryAfter) ==
    LET least(a, b) == IF a < b THEN a ELSE b
        base == least(1000 * 2 ^ (attempt - 1), 30000)
    IN  IF retryAfter > 0 THEN {least(retryAfter, 60000)} ELSE (base \div 2) .. base

\* The connection status a failed validation call leads to.
ToHealth(class) ==
    IF class \in {"authentication_error", "expired_credential"}
    THEN "invalid_credentials" ELSE "degraded"

=============================================================================
