--------------------------- MODULE ContractErrors ---------------------------
(***************************************************************************)
(* The typed errors of the notification contract and their journey over    *)
(* HTTP.  A service turns a NotificationError into an RFC 9457 problem     *)
(* response, the generated client turns whatever response it gets back     *)
(* into a NotificationError, and the retry loop asks that error, not the   *)
(* response, whether another attempt may help.                             *)
(*                                                                         *)
(* Abstractions.  A field of an error holds a member of Values.  A text    *)
(* the code formats ("HTTP 503: ...") is the one value Text.  An error     *)
(* code is named by its variant: the derive macro makes the one from the   *)
(* other by a change of case.  A context member of the wrong JSON type     *)
(* counts as a missing one, since both decode to the field's Default.      *)
(***************************************************************************)
EXTENDS Naturals

CONSTANTS Values,   \* what a field of an error may hold
          Unset,    \* a field's Default ("" or None)
          Text      \* any message formatted by the code

ASSUME ValuesAssumption == {Unset, Text} \subseteq Values

-----------------------------------------------------------------------------
(* NotificationError, as the derive macro sees it.                         *)

Fields ==
  [NotificationNotFound |-> {"notification_id"},
   InvalidRecipient     |-> {"reason"},
   DeliveryUnavailable  |-> {"channel", "retry_after_seconds"},
   Internal             |-> {"description"}]

\* The status of each variant's #[error(..)] attribute, 500 where it has none.
StatusCode ==
  [NotificationNotFound |-> 404,
   InvalidRecipient     |-> 400,
   DeliveryUnavailable  |-> 503,
   Internal             |-> 500]

Variants == {"NotificationNotFound", "InvalidRecipient", "DeliveryUnavailable",
             "Internal"}

\* The domain of the enum's #[contract_error(..)] attribute.
ErrorDomain == "poc.notification"

Errors == UNION { [variant: {v}, context: [Fields[v] -> Values]] : v \in Variants }

\* __contract_error_fallback: what every failure without a typed error becomes.
Fallback == [variant |-> "Internal", context |-> [f \in Fields["Internal"] |-> Text]]

-----------------------------------------------------------------------------
(* The two directions of the derived conversion.                           *)

ToProblemDetails(e) ==
  [error_domain |-> ErrorDomain,
   error_code   |-> e.variant,
   status       |-> StatusCode[e.variant],
   context      |-> e.context]

\* MUTANT: the derive macro forgets the context and restores only the variant.
BugRestored(v, context) == [variant |-> v, context |-> [f \in Fields[v] |-> Unset]]

\* The arm of a variant: each field from the context, or its Default.
Restored(v, context) ==
  [variant |-> v,
   context |-> [f \in Fields[v] |->
                  IF f \in DOMAIN context THEN context[f] ELSE Unset]]

FromProblemDetails(pd) ==
  IF pd.error_domain = ErrorDomain /\ pd.error_code \in Variants
  THEN Restored(pd.error_code, pd.context)
  ELSE Fallback

-----------------------------------------------------------------------------
(* HTTP responses: status, content type, whether the body decodes, body.   *)

ErrorResponse(e) ==
  [status |-> StatusCode[e.variant], ctype |-> "problem", valid |-> TRUE,
   body |-> ToProblemDetails(e)]

\* MUTANT: a 503 without a problem document is taken for the typed error.
BugParseError(resp) ==
  IF resp.ctype = "problem" /\ resp.valid THEN FromProblemDetails(resp.body)
  ELSE IF resp.status = 503 THEN Restored("DeliveryUnavailable", <<>>)
  ELSE Fallback

ParseError(resp) ==
  IF resp.ctype = "problem" /\ resp.valid THEN FromProblemDetails(resp.body)
                                          ELSE Fallback

\* The result of one call of the closure: Ok(value) or Err(error).
Ok(v)  == [tag |-> "ok",  value |-> v]
Err(e) == [tag |-> "err", error |-> e]

\* MUTANT: only server errors count as failures.
BugIsSuccess(status) == status < 500

IsSuccess(status) == status \in 200..299

Decode(resp) ==
  IF ~IsSuccess(resp.status) THEN Err(ParseError(resp))
  ELSE IF resp.valid         THEN Ok(resp.body)
                             ELSE Err(Fallback)

\* The statuses the generated is_retryable_error names.
RetryableStatuses == {429, 502, 503, 504}

\* MUTANT: transport failures and internal errors count as transient too.
BugIsRetryable(e) == StatusCode[e.variant] \in RetryableStatuses \cup {500}

IsRetryable(e) == StatusCode[e.variant] \in RetryableStatuses

\* A typed refusal: the error says what the service decided.  Internal is the
\* catch-all and says nothing about what happened at the other end.
IsRefusal(e) == e.variant # "Internal"
=============================================================================
