----------------------------- MODULE RestClient -----------------------------
(***************************************************************************)
(* The client the macro modkit_rest_contract generates, calling one        *)
(* service over HTTP: each call runs the with_retry loop of the runtime    *)
(* (or, for a method without #[retryable], the same body once), and each   *)
(* attempt is an HTTP exchange of its own.  The service and the network    *)
(* are the environment: a request may be carried out and its answer lost,  *)
(* carried out after the client has given up, answered by something        *)
(* between the two ends, or lost on the way.                               *)
(*                                                                         *)
(* The promise of the service is in Replies: a typed error other than      *)
(* Internal says that the request was not carried out, and a readable 2xx  *)
(* body that it was.  Both plugins and the module answer in that way.      *)
(***************************************************************************)
EXTENDS ContractErrors

CONSTANTS Calls,           \* calls made through one client
          RetryableCalls,  \* those whose method is marked retryable
          MaxRetries       \* RetryConfig::max_retries

ASSUME RetryAssumption == /\ RetryableCalls \subseteq Calls
                          /\ MaxRetries \in Nat

Attempts == 0..MaxRetries

VARIABLES phase,      \* where each call is in its loop
          attempt,    \* the loop counter
          outcome,    \* what the call returned
          exchange,   \* exchange[c][a]: how far the a-th request of c got
          response,   \* response[c][a]: the answer on its way or received
          delivered   \* <<c, a>> for each request the service carried out

vars == <<phase, attempt, outcome, exchange, response, delivered>>

-----------------------------------------------------------------------------
(* Answers to the a-th request of a call.                                  *)

Empty == [nothing |-> TRUE]

NoResponse == [status |-> 0, ctype |-> "text", valid |-> FALSE, body |-> Empty]

Plain(s) == [status |-> s, ctype |-> "text", valid |-> FALSE, body |-> Empty]

\* A problem document of somebody else's domain, and one that does not parse.
ForeignProblem(s) ==
  [status |-> s, ctype |-> "problem", valid |-> TRUE,
   body |-> [error_domain |-> "gateway", error_code |-> "DeliveryUnavailable",
             status |-> s, context |-> <<>>]]

GarbledProblem(s) ==
  [status |-> s, ctype |-> "problem", valid |-> FALSE, body |-> Empty]

\* A typed error whose context was cut off or comes from another version.
BareProblem(v) ==
  [status |-> StatusCode[v], ctype |-> "problem", valid |-> TRUE,
   body |-> [error_domain |-> ErrorDomain, error_code |-> v,
             status |-> StatusCode[v], context |-> <<>>]]

Receipt(a) == [accepted_by |-> a]

Success(a) == [status |-> 200, ctype |-> "json", valid |-> TRUE, body |-> Receipt(a)]

\* Answers that do not tell whether the request was carried out.
Vague == {Plain(s) : s \in RetryableStatuses \cup {404, 500}}
           \cup {ForeignProblem(503), GarbledProblem(503), Plain(200)}
           \cup {ErrorResponse(e) : e \in {x \in Errors : ~IsRefusal(x)}}

Refusals == {ErrorResponse(e) : e \in {x \in Errors : IsRefusal(x)}}
              \cup {BareProblem(v) : v \in Variants \ {"Internal"}}

Replies(a, carriedOut) ==
  Vague \cup (IF carriedOut THEN {Success(a)} ELSE Refusals)

Responses == {NoResponse} \cup UNION {Replies(a, d) : a \in Attempts, d \in BOOLEAN}

-----------------------------------------------------------------------------
Pending == [tag |-> "pending"]

Outcomes == {Pending} \cup {Ok(Receipt(a)) : a \in Attempts}
                      \cup {Err(e) : e \in Errors}

TypeOK ==
  /\ phase \in [Calls -> {"idle", "waiting", "sleeping", "returned"}]
  /\ attempt \in [Calls -> Attempts]
  /\ outcome \in [Calls -> Outcomes]
  /\ exchange \in [Calls -> [Attempts -> {"none", "open", "answered", "lost"}]]
  /\ response \in [Calls -> [Attempts -> Responses]]
  /\ delivered \subseteq Calls \X Attempts

Init ==
  /\ phase = [c \in Calls |-> "idle"]
  /\ attempt = [c \in Calls |-> 0]
  /\ outcome = [c \in Calls |-> Pending]
  /\ exchange = [c \in Calls |-> [a \in Attempts |-> "none"]]
  /\ response = [c \in Calls |-> [a \in Attempts |-> NoResponse]]
  /\ delivered = {}

-----------------------------------------------------------------------------
(* The client.                                                             *)

\* Send the request of attempt a of call c and wait for its answer.
Send(c, a) ==
  /\ phase' = [phase EXCEPT ![c] = "waiting"]
  /\ attempt' = [attempt EXCEPT ![c] = a]
  /\ exchange' = [exchange EXCEPT ![c][a] = "open"]
  /\ UNCHANGED <<outcome, response, delivered>>

Start(c) == phase[c] = "idle" /\ Send(c, 0)

\* MUTANT: the loop makes one attempt more than the configuration allows.
BugOneTooMany(c, e) ==
  c \in RetryableCalls /\ attempt[c] <= MaxRetries /\ IsRetryable(e)

\* MUTANT: the last attempt of the budget is never made.
BugMayRetry(c, e) ==
  c \in RetryableCalls /\ attempt[c] + 1 < MaxRetries /\ IsRetryable(e)

MayRetry(c, e) == c \in RetryableCalls /\ attempt[c] < MaxRetries /\ IsRetryable(e)

Return(c, result) ==
  /\ result.tag = "err" => ~MayRetry(c, result.error)
  /\ phase' = [phase EXCEPT ![c] = "returned"]
  /\ outcome' = [outcome EXCEPT ![c] = result]
  /\ UNCHANGED <<attempt, exchange, response, delivered>>

BackOff(c, result) ==
  /\ result.tag = "err"
  /\ MayRetry(c, result.error)
  /\ phase' = [phase EXCEPT ![c] = "sleeping"]
  /\ UNCHANGED <<attempt, outcome, exchange, response, delivered>>

\* The arms of the match in with_retry.
Settle(c, result) == Return(c, result) \/ BackOff(c, result)

Receive(c) == /\ phase[c] = "waiting"
              /\ exchange[c][attempt[c]] = "answered"
              /\ Settle(c, Decode(response[c][attempt[c]]))

\* send() fails or times out; the request may still be on its way, and an
\* answer that is already on its way is never looked at.
TransportError(c) == phase[c] = "waiting" /\ Settle(c, Err(Fallback))

\* MUTANT: the loop counter is not advanced.
BugResume(c) == phase[c] = "sleeping" /\ Send(c, attempt[c])

\* The sleep is over and the loop goes round.
Resume(c) == phase[c] = "sleeping" /\ Send(c, attempt[c] + 1)

-----------------------------------------------------------------------------
(* The service and the network, also after the client stopped listening.   *)

CarryOut(c, a, carriedOut) ==
  delivered' = IF carriedOut THEN delivered \cup {<<c, a>>} ELSE delivered

Answer(c, a) ==
  /\ exchange[c][a] = "open"
  /\ exchange' = [exchange EXCEPT ![c][a] = "answered"]
  /\ \E carriedOut \in BOOLEAN :
       /\ CarryOut(c, a, carriedOut)
       /\ \E r \in Replies(a, carriedOut) : response' = [response EXCEPT ![c][a] = r]
  /\ UNCHANGED <<phase, attempt, outcome>>

\* An answer that says nothing does not stop the request either: a proxy has
\* lost patience, and the service carries out what the proxy handed on.
CarryOutLate(c, a) ==
  /\ exchange[c][a] = "answered" /\ response[c][a] \in Vague
  /\ <<c, a>> \notin delivered
  /\ CarryOut(c, a, TRUE)
  /\ UNCHANGED <<phase, attempt, outcome, exchange, response>>

Lose(c, a) ==
  /\ exchange[c][a] = "open"
  /\ exchange' = [exchange EXCEPT ![c][a] = "lost"]
  /\ \E carriedOut \in BOOLEAN : CarryOut(c, a, carriedOut)
  /\ UNCHANGED <<phase, attempt, outcome, response>>

-----------------------------------------------------------------------------
ClientStep(c) == Receive(c) \/ TransportError(c) \/ Resume(c)

Next == \E c \in Calls : \/ Start(c)
                         \/ ClientStep(c)
                         \/ \E a \in Attempts :
                              Answer(c, a) \/ CarryOutLate(c, a) \/ Lose(c, a)

Spec == Init /\ [][Next]_vars

\* Every await of the client ends: reqwest is built with a timeout, and the
\* sleep between attempts is finite.  The service and the network owe nothing.
FairSpec == Spec /\ \A c \in Calls : WF_vars(ClientStep(c))

-----------------------------------------------------------------------------
(* Properties.                                                             *)

Returned(c) == phase[c] = "returned"

Refused(result) == result.tag = "err" /\ IsRefusal(result.error)

\* However often it is attempted, a call takes effect at most once: the loop
\* goes round only after an answer that says the request was not carried out.
AtMostOneDelivery ==
  \A c \in Calls : \A a, b \in Attempts :
    <<c, a>> \in delivered /\ <<c, b>> \in delivered => a = b

\* Ok carries the receipt of a request that was carried out, and after a typed
\* refusal nothing was carried out and nothing still on its way can be.
OutcomeIsTruthful ==
  \A c \in Calls :
    /\ outcome[c].tag = "ok" =>
         \E a \in Attempts : outcome[c] = Ok(Receipt(a)) /\ <<c, a>> \in delivered
    /\ Refused(outcome[c]) =>
         \A a \in Attempts : <<c, a>> \notin delivered /\ exchange[c][a] # "open"

\* A typed error reaches the caller with every field the service gave it,
\* unless the exchange itself failed and the caller got the catch-all.
TypedErrorUnchanged ==
  \A c \in Calls : \A e \in Errors :
    Returned(c) /\ response[c][attempt[c]] = ErrorResponse(e)
      => outcome[c] \in {Err(e), Err(Fallback)}

\* A retryable call that ends in a transient error has made every attempt the
\* configuration allows, and a call that is not retryable has made one.
RetryBudgetSpent ==
  \A c \in Calls :
    /\ c \notin RetryableCalls => attempt[c] = 0
    /\ c \in RetryableCalls /\ outcome[c].tag = "err" /\ IsRetryable(outcome[c].error)
         => attempt[c] = MaxRetries /\ \A a \in Attempts : exchange[c][a] = "answered"

\* Every call that was made returns, whatever the service does.
CallReturns == \A c \in Calls : phase[c] = "waiting" ~> Returned(c)

\* "429 (rate limit), 502, 503, 504 are retryable" (rest_client.rs:216): a
\* retryable call that receives such an answer, with attempts left, makes
\* another one.
TransientStatusRetried ==
  [][\A c \in RetryableCalls :
       /\ Receive(c)
       /\ response[c][attempt[c]].status \in RetryableStatuses
       /\ attempt[c] < MaxRetries
       => phase'[c] = "sleeping"]_vars

-----------------------------------------------------------------------------
(* What the caller sees is the binding-independent contract.               *)

performed == [c \in Calls |-> {a \in Attempts : <<c, a>> \in delivered}]

Verdict(o) == CASE o.tag = "pending" -> "none"
                [] o.tag = "ok"      -> "ok"
                [] OTHER             -> IF IsRefusal(o.error) THEN "refused" ELSE "unknown"

Contract == INSTANCE DeliveryContract
              WITH Effects <- Attempts,
                   performed <- performed,
                   result <- [c \in Calls |-> Verdict(outcome[c])]

\* Every behaviour of the generated client is one of the contract's.
ImplementsContract == Contract!Spec
=============================================================================
