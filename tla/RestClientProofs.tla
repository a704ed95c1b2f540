-------------------------- MODULE RestClientProofs --------------------------
(* Theorems about RestClient, for every set of calls and every budget.     *)
EXTENDS RestClient, TLAPS

-----------------------------------------------------------------------------
(* The conversions.                                                        *)

\* The catch-all is an error of the contract, is no refusal and is not retried.
LEMMA FallbackFacts ==
  Fallback \in Errors /\ ~IsRefusal(Fallback) /\ ~IsRetryable(Fallback)
<1>1. Fields["Internal"] = {"description"} /\ StatusCode["Internal"] = 500
  BY DEF Fields, StatusCode
<1>2. Fallback \in [variant : {"Internal"}, context : [Fields["Internal"] -> Values]]
  BY <1>1, ValuesAssumption DEF Fallback
<1>3. Fallback \in Errors
  BY <1>2 DEF Errors, Variants
<1> QED
  BY <1>1, <1>3 DEF Fallback, IsRefusal, IsRetryable, RetryableStatuses

\* What membership in Errors says about the two fields.
LEMMA ErrorShape ==
  ASSUME NEW e \in Errors
  PROVE  /\ e.variant \in Variants
         /\ e.context \in [Fields[e.variant] -> Values]
         /\ e = [variant |-> e.variant, context |-> e.context]
<1>1. PICK v \in Variants : e \in [variant : {v}, context : [Fields[v] -> Values]]
  BY DEF Errors
<1> QED
  BY <1>1

\* Conversely, a variant with a value for each of its fields is an error.
LEMMA ErrorMade ==
  ASSUME NEW v \in Variants, NEW ctx \in [Fields[v] -> Values]
  PROVE  [variant |-> v, context |-> ctx] \in Errors
BY DEF Errors

\* Error statuses are never success statuses.
LEMMA StatusFacts ==
  ASSUME NEW v \in Variants
  PROVE  StatusCode[v] \in Nat /\ ~IsSuccess(StatusCode[v])
BY DEF Variants, StatusCode, IsSuccess

\* from_problem_details undoes to_problem_details, so that a typed error
\* survives the trip through an HTTP response with every field.
THEOREM RoundTrip ==
  ASSUME NEW e \in Errors
  PROVE  Decode(ErrorResponse(e)) = Err(e)
<1>1. e.variant \in Variants /\ e.context \in [Fields[e.variant] -> Values]
      /\ e = [variant |-> e.variant, context |-> e.context]
  BY ErrorShape
<1>2. FromProblemDetails(ToProblemDetails(e))
        = [variant |-> e.variant,
           context |-> [f \in Fields[e.variant] |-> e.context[f]]]
  BY <1>1 DEF FromProblemDetails, Restored, ToProblemDetails
<1>3. FromProblemDetails(ToProblemDetails(e)) = e
  BY <1>1, <1>2
<1>4. ~IsSuccess(ErrorResponse(e).status)
  BY <1>1, StatusFacts DEF ErrorResponse
<1>5. ParseError(ErrorResponse(e)) = e
  BY <1>3 DEF ParseError, ErrorResponse
<1> QED
  BY <1>4, <1>5 DEF Decode

\* A problem document always becomes an error of the contract, and a document
\* of this contract whose context is lost keeps its variant.
LEMMA BareFacts ==
  ASSUME NEW v \in Variants \ {"Internal"}
  PROVE  \E e \in Errors : IsRefusal(e) /\ Decode(BareProblem(v)) = Err(e)
<1> DEFINE pd == BareProblem(v).body
           e == [variant |-> v,
                 context |-> [f \in Fields[v] |->
                                IF f \in DOMAIN pd.context THEN pd.context[f] ELSE Unset]]
<1>1. DOMAIN pd.context = {}
  BY DEF BareProblem
<1>2. e.context \in [Fields[v] -> Values]
  BY <1>1, ValuesAssumption
<1>3. e \in Errors
  BY <1>2, ErrorMade
<1>4. FromProblemDetails(pd) = e
  BY DEF FromProblemDetails, Restored, BareProblem
<1>5. Decode(BareProblem(v)) = Err(e)
  <2>1. ~IsSuccess(BareProblem(v).status)
    BY StatusFacts DEF BareProblem
  <2>2. ParseError(BareProblem(v)) = e
    BY <1>4 DEF ParseError, BareProblem
  <2> QED
    BY <2>1, <2>2 DEF Decode
<1> QED
  BY <1>3, <1>5 DEF IsRefusal

\* A vague answer becomes an error that claims nothing.
LEMMA VagueFacts ==
  ASSUME NEW r \in Vague
  PROVE  \E e \in Errors : ~IsRefusal(e) /\ Decode(r) = Err(e)
<1>1. CASE \E s \in RetryableStatuses \cup {404, 500} : r = Plain(s)
  <2>1. ~IsSuccess(r.status) /\ r.ctype = "text"
    BY <1>1 DEF Plain, RetryableStatuses, IsSuccess
  <2> QED
    BY <2>1, FallbackFacts DEF Decode, ParseError
<1>2. CASE r = ForeignProblem(503)
  <2>1. ~IsSuccess(r.status) /\ r.ctype = "problem" /\ r.body.error_domain = "gateway"
    BY <1>2 DEF ForeignProblem, IsSuccess
  <2>2. ParseError(r) = Fallback
    BY <2>1 DEF ParseError, FromProblemDetails, ErrorDomain
  <2> QED
    BY <2>1, <2>2, FallbackFacts DEF Decode
<1>3. CASE r = GarbledProblem(503)
  BY <1>3, FallbackFacts DEF GarbledProblem, Decode, ParseError, IsSuccess
<1>4. CASE r = Plain(200)
  BY <1>4, FallbackFacts DEF Plain, Decode, ParseError, IsSuccess
<1>5. CASE \E e \in Errors : ~IsRefusal(e) /\ r = ErrorResponse(e)
  BY <1>5, RoundTrip
<1> QED
  BY <1>1, <1>2, <1>3, <1>4, <1>5 DEF Vague

\* What decodes to a typed refusal was not vague.
LEMMA RefusedNotVague ==
  ASSUME NEW r, Refused(Decode(r))
  PROVE  r \notin Vague
<1> SUFFICES ASSUME r \in Vague PROVE FALSE
  OBVIOUS
<1>1. PICK e \in Errors : ~IsRefusal(e) /\ Decode(r) = Err(e)
  BY VagueFacts
<1> QED
  BY <1>1 DEF Refused, Err

\* Every answer that refuses decodes to a typed refusal.
LEMMA RefusalFacts ==
  ASSUME NEW r \in Refusals
  PROVE  \E e \in Errors : IsRefusal(e) /\ Decode(r) = Err(e)
<1>1. CASE \E e \in Errors : IsRefusal(e) /\ r = ErrorResponse(e)
  BY <1>1, RoundTrip
<1>2. CASE \E v \in Variants \ {"Internal"} : r = BareProblem(v)
  BY <1>2, BareFacts
<1> QED
  BY <1>1, <1>2 DEF Refusals

\* Decoding tells the truth about whether the request was carried out.
LEMMA DecodeHonest ==
  ASSUME NEW a \in Attempts, NEW d \in BOOLEAN, NEW r \in Replies(a, d)
  PROVE  /\ Decode(r) \in Outcomes
         /\ Decode(r).tag \in {"ok", "err"}
         /\ Decode(r).tag = "ok" => d /\ Decode(r) = Ok(Receipt(a))
         /\ Decode(r).tag = "err" => Decode(r).error \in Errors
         /\ Refused(Decode(r)) => ~d
<1>1. CASE r \in Vague
  BY <1>1, VagueFacts DEF Outcomes, Err, Refused
<1>2. CASE ~d /\ r \in Refusals
  BY <1>2, RefusalFacts DEF Outcomes, Err, Refused
<1>3. CASE d /\ r = Success(a)
  <2>1. Decode(r) = Ok(Receipt(a))
    BY <1>3 DEF Decode, Success, IsSuccess
  <2> QED
    BY <1>3, <2>1 DEF Outcomes, Ok, Refused
<1> QED
  BY <1>1, <1>2, <1>3 DEF Replies

-----------------------------------------------------------------------------
(* The inductive invariant.                                                *)

\* The answer to a request fits what the service did with it, and nothing
\* has been done for a request that was never sent or is still on its way.
Honest(c, a) ==
  /\ exchange[c][a] \in {"none", "open"} => <<c, a>> \notin delivered
  /\ exchange[c][a] = "answered" =>
       response[c][a] \in Replies(a, <<c, a>> \in delivered)

\* An attempt the loop has put behind it was answered, without being carried
\* out, in a way that says so and thus excludes that it is carried out later.
Behind(c, a) == /\ exchange[c][a] = "answered" /\ <<c, a>> \notin delivered
                /\ response[c][a] \notin Vague

\* The steps of the service and the network.
Served(c, a) == Answer(c, a) \/ CarryOutLate(c, a) \/ Lose(c, a)

\* How far the loop is and how far the requests are.
Lockstep(c) ==
  /\ \A a \in Attempts : a > attempt[c] => exchange[c][a] = "none"
  /\ \A a \in Attempts : a < attempt[c] => Behind(c, a)
  /\ phase[c] = "idle" => attempt[c] = 0 /\ exchange[c][0] = "none"
  /\ phase[c] = "sleeping" =>
       c \in RetryableCalls /\ attempt[c] < MaxRetries /\ Behind(c, attempt[c])
  /\ c \notin RetryableCalls => attempt[c] = 0

\* What the outcome says of the last attempt.
Justified(c) ==
  /\ phase[c] # "returned" => outcome[c] = Pending
  /\ outcome[c].tag = "ok" =>
       outcome[c] = Ok(Receipt(attempt[c])) /\ <<c, attempt[c]>> \in delivered
  /\ Refused(outcome[c]) => Behind(c, attempt[c])
  /\ c \in RetryableCalls /\ outcome[c].tag = "err" /\ IsRetryable(outcome[c].error)
       => attempt[c] = MaxRetries

CallInv(c) == /\ \A a \in Attempts : Honest(c, a)
              /\ Lockstep(c)
              /\ Justified(c)

IInv == \A c \in Calls : CallInv(c)

-----------------------------------------------------------------------------
(* Type correctness.                                                       *)

\* Attempts are numbered from 0.
LEMMA AttemptFacts == Attempts \subseteq Nat /\ 0 \in Attempts
BY RetryAssumption DEF Attempts

\* Two attempts are the same, or one comes before the other.
LEMMA Trichotomy ==
  ASSUME NEW a \in Attempts, NEW b \in Attempts
  PROVE  a \in Nat /\ b \in Nat /\ (a < b \/ a = b \/ a > b)
<1>1. a \in Nat /\ b \in Nat
  BY AttemptFacts
<1> QED
  BY <1>1

\* What a call may return, by its tag.
LEMMA OutcomeFacts ==
  /\ Pending \in Outcomes /\ Err(Fallback) \in Outcomes
  /\ Pending.tag = "pending"
  /\ \A e : Err(e).tag = "err" /\ Err(e).error = e
  /\ \A v : Ok(v).tag = "ok"
BY FallbackFacts DEF Outcomes, Pending, Err, Ok

\* Every answer to a request is a response.
LEMMA ReplyTyped ==
  ASSUME NEW a \in Attempts, NEW d \in BOOLEAN
  PROVE  Replies(a, d) \subseteq Responses
BY DEF Responses

\* Sending keeps the types.
LEMMA SendTyped ==
  ASSUME TypeOK, NEW c \in Calls, NEW a \in Attempts, Send(c, a)
  PROVE  TypeOK'
BY DEF TypeOK, Send

\* Settling on an outcome keeps them.
LEMMA SettleTyped ==
  ASSUME TypeOK, NEW c \in Calls, NEW r \in Outcomes, Settle(c, r)
  PROVE  TypeOK'
BY DEF TypeOK, Settle, Return, BackOff

\* What a waiting client reads is the answer to the attempt it waits for.
LEMMA ReceivedHonest ==
  ASSUME TypeOK, IInv, NEW c \in Calls, exchange[c][attempt[c]] = "answered"
  PROVE  LET r == Decode(response[c][attempt[c]])
             d == <<c, attempt[c]>> \in delivered
         IN  /\ r \in Outcomes
             /\ r.tag \in {"ok", "err"}
             /\ r.tag = "ok" => d /\ r = Ok(Receipt(attempt[c]))
             /\ r.tag = "err" => r.error \in Errors
             /\ Refused(r) => ~d
<1>1. attempt[c] \in Attempts
  BY DEF TypeOK
<1>2. response[c][attempt[c]] \in Replies(attempt[c], <<c, attempt[c]>> \in delivered)
  BY <1>1 DEF IInv, CallInv, Honest
<1>3. CASE <<c, attempt[c]>> \in delivered
  <2>1. response[c][attempt[c]] \in Replies(attempt[c], TRUE)
    BY <1>2, <1>3 DEF Replies
  <2> QED
    BY <1>1, <1>3, <2>1, DecodeHonest
<1>4. CASE <<c, attempt[c]>> \notin delivered
  <2>1. response[c][attempt[c]] \in Replies(attempt[c], FALSE)
    BY <1>2, <1>4 DEF Replies
  <2> QED
    BY <1>1, <1>4, <2>1, DecodeHonest
<1> QED
  BY <1>3, <1>4

\* Types alone are not inductive: that a received answer decodes to an outcome,
\* and that a sleeping call has an attempt left, come from IInv.
LEMMA NextTyped ==
  ASSUME TypeOK, IInv, [Next]_vars
  PROVE  TypeOK'
<1>1. CASE UNCHANGED vars
  BY <1>1 DEF TypeOK, vars
<1>2. ASSUME NEW c \in Calls, Start(c)
      PROVE  TypeOK'
  BY <1>2, SendTyped, AttemptFacts DEF Start
<1>3. ASSUME NEW c \in Calls, Receive(c)
      PROVE  TypeOK'
  BY <1>3, ReceivedHonest, SettleTyped DEF Receive
<1>4. ASSUME NEW c \in Calls, TransportError(c)
      PROVE  TypeOK'
  BY <1>4, OutcomeFacts, SettleTyped DEF TransportError
<1>5. ASSUME NEW c \in Calls, Resume(c)
      PROVE  TypeOK'
  <2>1. attempt[c] \in Attempts /\ attempt[c] < MaxRetries
    BY <1>5 DEF TypeOK, Resume, IInv, CallInv, Lockstep
  <2>2. attempt[c] + 1 \in Attempts
    BY <2>1, RetryAssumption DEF Attempts
  <2> QED
    BY <1>5, <2>2, SendTyped DEF Resume
<1>6. ASSUME NEW c \in Calls, NEW a \in Attempts, Answer(c, a)
      PROVE  TypeOK'
  <2>1. PICK d \in BOOLEAN : CarryOut(c, a, d)
               /\ \E r \in Replies(a, d) : response' = [response EXCEPT ![c][a] = r]
    BY <1>6 DEF Answer
  <2>2. PICK r \in Replies(a, d) : response' = [response EXCEPT ![c][a] = r]
    BY <2>1
  <2>3. r \in Responses
    BY <2>2, ReplyTyped
  <2> QED
    BY <1>6, <2>1, <2>2, <2>3 DEF Answer, CarryOut, TypeOK
<1>7. ASSUME NEW c \in Calls, NEW a \in Attempts, CarryOutLate(c, a)
      PROVE  TypeOK'
  BY <1>7 DEF CarryOutLate, CarryOut, TypeOK
<1>8. ASSUME NEW c \in Calls, NEW a \in Attempts, Lose(c, a)
      PROVE  TypeOK'
  <2>1. PICK d \in BOOLEAN : CarryOut(c, a, d)
    BY <1>8 DEF Lose
  <2>2. delivered' \subseteq Calls \X Attempts
    BY <2>1 DEF CarryOut, TypeOK
  <2> QED
    BY <1>8, <2>2 DEF Lose, TypeOK
<1> QED
  BY <1>1, <1>2, <1>3, <1>4, <1>5, <1>6, <1>7, <1>8 DEF Next, ClientStep

-----------------------------------------------------------------------------
(* The inductive invariant holds initially and every step keeps it.        *)

\* Before any call is made the invariant holds.
LEMMA InitInv == Init => TypeOK /\ IInv
<1> SUFFICES ASSUME Init
             PROVE  TypeOK /\ IInv
  OBVIOUS
<1>1. TypeOK
  BY AttemptFacts, OutcomeFacts DEF Init, TypeOK, Responses
<1>2. ASSUME NEW c \in Calls
      PROVE  CallInv(c)
  <2>1. \A a \in Attempts : Honest(c, a)
    BY DEF Init, Honest
  <2>2. Lockstep(c)
    BY AttemptFacts, RetryAssumption DEF Init, Lockstep, Attempts
  <2>3. Justified(c)
    BY OutcomeFacts DEF Init, Justified, Refused
  <2> QED
    BY <2>1, <2>2, <2>3 DEF CallInv
<1> QED
  BY <1>1, <1>2 DEF IInv

\* A step that leaves everything about call b alone keeps b's part.
LEMMA Frame ==
  ASSUME NEW b \in Calls, CallInv(b),
         phase'[b] = phase[b], attempt'[b] = attempt[b], outcome'[b] = outcome[b],
         exchange'[b] = exchange[b], response'[b] = response[b],
         \A a \in Attempts : <<b, a>> \in delivered' <=> <<b, a>> \in delivered,
         attempt[b] \in Attempts
  PROVE  CallInv(b)'
<1>1. ASSUME NEW a \in Attempts
      PROVE  Honest(b, a)'
  <2>1. CASE <<b, a>> \in delivered
    BY <2>1 DEF CallInv, Honest, Replies
  <2>2. CASE <<b, a>> \notin delivered
    BY <2>2 DEF CallInv, Honest, Replies
  <2> QED
    BY <2>1, <2>2
<1>2. Lockstep(b)'
  BY DEF CallInv, Lockstep, Behind
<1>3. Justified(b)'
  BY DEF CallInv, Justified, Behind
<1> QED
  BY <1>1, <1>2, <1>3 DEF CallInv

\* The loop sends the next request only when every earlier one was answered
\* without being carried out.
LEMMA SendInv ==
  ASSUME TypeOK, IInv, NEW c \in Calls, NEW a \in Attempts, Send(c, a),
         phase[c] \in {"idle", "sleeping"},
         exchange[c][a] = "none",
         c \notin RetryableCalls => a = 0,
         \A b \in Attempts : b > a => exchange[c][b] = "none",
         \A b \in Attempts : b < a => Behind(c, b)
  PROVE  IInv'
<1>1. ASSUME NEW b \in Calls, b # c
      PROVE  CallInv(b)'
  BY <1>1, Frame DEF TypeOK, IInv, Send
<1>2. CallInv(c)'
  <2>1. ASSUME NEW b \in Attempts
        PROVE  Honest(c, b)'
    BY DEF TypeOK, IInv, CallInv, Honest, Send
  <2>2. Lockstep(c)'
    BY DEF TypeOK, Lockstep, Behind, Send
  <2>3. Justified(c)'
    BY OutcomeFacts DEF TypeOK, IInv, CallInv, Justified, Refused, Send
  <2> QED
    BY <2>1, <2>2, <2>3 DEF CallInv
<1> QED
  BY <1>1, <1>2 DEF IInv

\* Settling on an outcome that the last attempt justifies keeps the invariant.
LEMMA SettleInv ==
  ASSUME TypeOK, IInv, NEW c \in Calls, NEW r \in Outcomes, Settle(c, r),
         phase[c] = "waiting",
         r.tag \in {"ok", "err"},
         r.tag = "ok" => r = Ok(Receipt(attempt[c])) /\ <<c, attempt[c]>> \in delivered,
         r.tag = "err" => (IsRetryable(r.error) => IsRefusal(r.error)),
         Refused(r) => Behind(c, attempt[c])
  PROVE  IInv'
<1>1. ASSUME NEW b \in Calls, b # c
      PROVE  CallInv(b)'
  BY <1>1, Frame DEF TypeOK, IInv, Settle, Return, BackOff
<1>2. \A a \in Attempts : Honest(c, a)'
  BY DEF IInv, CallInv, Honest, Settle, Return, BackOff
<1>3. ASSUME Return(c, r)
      PROVE  CallInv(c)'
  <2>1. Lockstep(c)'
    BY <1>3 DEF TypeOK, IInv, CallInv, Lockstep, Behind, Return
  <2>2. r.tag = "err" /\ c \in RetryableCalls /\ IsRetryable(r.error)
          => attempt[c] = MaxRetries
    BY <1>3, RetryAssumption DEF TypeOK, Attempts, Return, MayRetry
  <2>3. Justified(c)'
    BY <1>3, <2>2 DEF TypeOK, Justified, Refused, Behind, Return
  <2> QED
    BY <1>2, <2>1, <2>3 DEF CallInv
<1>4. ASSUME BackOff(c, r)
      PROVE  CallInv(c)'
  <2>1. Lockstep(c)'
    BY <1>4 DEF TypeOK, IInv, CallInv, Lockstep, Behind, BackOff, MayRetry, Refused
  <2>2. Justified(c)'
    BY <1>4 DEF TypeOK, IInv, CallInv, Justified, Refused, Behind, BackOff
  <2> QED
    BY <1>2, <2>1, <2>2 DEF CallInv
<1>5. CallInv(c)'
  BY <1>3, <1>4 DEF Settle
<1> QED
  BY <1>1, <1>5 DEF IInv

\* Only for a request that was not carried out, and that the loop has not put
\* behind it, does the service or the network take a step.
LEMMA ServedIsCurrent ==
  ASSUME TypeOK, IInv, NEW c \in Calls, NEW a \in Attempts, Served(c, a)
  PROVE  /\ exchange[c][a] # "none" /\ ~Behind(c, a) /\ <<c, a>> \notin delivered
         /\ a = attempt[c]
<1>1. exchange[c][a] # "none" /\ ~Behind(c, a) /\ <<c, a>> \notin delivered
  <2>1. CASE Answer(c, a) \/ Lose(c, a)
    BY <2>1 DEF Answer, Lose, Behind, IInv, CallInv, Honest
  <2>2. CASE CarryOutLate(c, a)
    BY <2>2 DEF CarryOutLate, Behind
  <2> QED
    BY <2>1, <2>2 DEF Served
<1>2. Lockstep(c) /\ attempt[c] \in Attempts
  BY DEF TypeOK, IInv, CallInv
<1>3. ~(a > attempt[c]) /\ ~(a < attempt[c])
  BY <1>1, <1>2 DEF Lockstep
<1> QED
  BY <1>1, <1>2, <1>3, Trichotomy

\* An answer, a late effect or the loss of a request fits what the service did.
LEMMA ServiceInv ==
  ASSUME TypeOK, IInv, NEW c \in Calls, NEW a \in Attempts, Served(c, a)
  PROVE  IInv'
<1>1. /\ \A b \in Attempts : b # a => exchange'[c][b] = exchange[c][b]
      /\ \A b \in Attempts : b # a => response'[c][b] = response[c][b]
      /\ phase' = phase /\ attempt' = attempt /\ outcome' = outcome
  <2>1. CASE Answer(c, a)
    <3>1. PICK r : response' = [response EXCEPT ![c][a] = r]
      BY <2>1 DEF Answer
    <3> QED
      BY <2>1, <3>1 DEF TypeOK, Answer
  <2>2. CASE CarryOutLate(c, a)
    BY <2>2 DEF CarryOutLate
  <2>3. CASE Lose(c, a)
    BY <2>3 DEF TypeOK, Lose
  <2> QED
    BY <2>1, <2>2, <2>3 DEF Served
<1>2. \A b \in Calls, x \in Attempts :
        <<b, x>> # <<c, a>> => (<<b, x>> \in delivered' <=> <<b, x>> \in delivered)
  BY DEF Served, Answer, CarryOutLate, Lose, CarryOut
<1>3. ASSUME NEW b \in Calls, b # c
      PROVE  CallInv(b)'
  <2>1. exchange'[b] = exchange[b] /\ response'[b] = response[b]
    BY <1>3 DEF TypeOK, Served, Answer, CarryOutLate, Lose
  <2> QED
    BY <1>1, <1>2, <1>3, <2>1, Frame DEF TypeOK, IInv
<1>4. a = attempt[c] /\ phase[c] \notin {"idle", "sleeping"}
  <2>1. Lockstep(c)
    BY DEF IInv, CallInv
  <2> QED
    BY <2>1, ServedIsCurrent DEF Lockstep
<1>5. ASSUME NEW b \in Attempts
      PROVE  Honest(c, b)'
  <2>1. CASE b # a
    <3>1. CASE <<c, b>> \in delivered
      BY <1>1, <1>2, <2>1, <3>1 DEF IInv, CallInv, Honest, Replies
    <3>2. CASE <<c, b>> \notin delivered
      BY <1>1, <1>2, <2>1, <3>2 DEF IInv, CallInv, Honest, Replies
    <3> QED
      BY <3>1, <3>2
  <2>2. CASE b = a /\ Answer(c, a)
    <3>1. exchange'[c][a] = "answered"
      BY <2>2 DEF TypeOK, Answer
    <3>2. <<c, a>> \notin delivered
      BY ServedIsCurrent
    <3>3. PICK d \in BOOLEAN : CarryOut(c, a, d)
             /\ \E r \in Replies(a, d) : response' = [response EXCEPT ![c][a] = r]
      BY <2>2 DEF Answer
    <3>4. PICK r \in Replies(a, d) : response' = [response EXCEPT ![c][a] = r]
      BY <3>3
    <3>5. response'[c][a] = r
      BY <3>4 DEF TypeOK
    <3>6. CASE d
      BY <2>2, <3>1, <3>3, <3>4, <3>5, <3>6 DEF Honest, CarryOut, Replies
    <3>7. CASE ~d
      BY <2>2, <3>1, <3>2, <3>3, <3>4, <3>5, <3>7 DEF Honest, CarryOut, Replies
    <3> QED
      BY <3>6, <3>7
  <2>3. CASE b = a /\ Lose(c, a)
    BY <2>3 DEF TypeOK, Lose, Honest
  <2>4. CASE b = a /\ CarryOutLate(c, a)
    BY <2>4 DEF CarryOutLate, Honest, Replies
  <2> QED
    BY <2>1, <2>2, <2>3, <2>4 DEF Served
<1>6. Lockstep(c)'
  <2>1. \A b \in Attempts : b # a /\ Behind(c, b) => Behind(c, b)'
    BY <1>1, <1>2 DEF Behind
  <2>2. Lockstep(c) /\ attempt[c] \in Nat
    BY AttemptFacts DEF TypeOK, IInv, CallInv
  <2>3. \A b \in Attempts : b < attempt[c] \/ b > attempt[c] => b # a
    BY <1>4, <2>2, AttemptFacts
  <2> QED
    BY <1>1, <1>4, <2>1, <2>2, <2>3 DEF Lockstep
<1>7. Justified(c)'
  <2>1. ~Refused(outcome[c])
    BY <1>4, ServedIsCurrent DEF IInv, CallInv, Justified
  <2>2. <<c, attempt[c]>> \in delivered => <<c, attempt[c]>> \in delivered'
    BY DEF Served, Answer, CarryOutLate, Lose, CarryOut
  <2> QED
    BY <1>1, <2>1, <2>2 DEF IInv, CallInv, Justified, Refused
<1> QED
  BY <1>3, <1>5, <1>6, <1>7 DEF IInv, CallInv

\* Only a typed refusal is worth another attempt.
LEMMA RetryableIsRefusal ==
  \A e \in Errors : IsRetryable(e) => IsRefusal(e)
BY ErrorShape DEF IsRetryable, IsRefusal, RetryableStatuses, StatusCode, Variants

\* Every step keeps the invariant.
LEMMA NextInv ==
  ASSUME TypeOK, IInv, [Next]_vars
  PROVE  IInv'
<1>1. CASE UNCHANGED vars
  <2>1. ASSUME NEW c \in Calls
        PROVE  CallInv(c)'
    BY <1>1, Frame DEF vars, TypeOK, IInv
  <2> QED
    BY <2>1 DEF IInv
<1>2. ASSUME NEW c \in Calls, Start(c)
      PROVE  IInv'
  <2>1. \A b \in Attempts : b > 0 => exchange[c][b] = "none"
    BY <1>2 DEF Start, IInv, CallInv, Lockstep
  <2>2. exchange[c][0] = "none" /\ \A b \in Attempts : ~(b < 0)
    BY <1>2, RetryAssumption DEF Start, IInv, CallInv, Lockstep, Attempts
  <2> QED
    BY <1>2, <2>1, <2>2, AttemptFacts, SendInv DEF Start
<1>3. ASSUME NEW c \in Calls, Receive(c)
      PROVE  IInv'
  <2> DEFINE r == Decode(response[c][attempt[c]])
  <2>1. phase[c] = "waiting" /\ exchange[c][attempt[c]] = "answered" /\ Settle(c, r)
    BY <1>3 DEF Receive
  <2>2. /\ r \in Outcomes /\ r.tag \in {"ok", "err"}
        /\ r.tag = "ok" => r = Ok(Receipt(attempt[c])) /\ <<c, attempt[c]>> \in delivered
        /\ r.tag = "err" => (IsRetryable(r.error) => IsRefusal(r.error))
        /\ Refused(r) => Behind(c, attempt[c])
    BY <2>1, ReceivedHonest, RetryableIsRefusal, RefusedNotVague DEF Behind
  <2> HIDE DEF r
  <2> QED
    BY <2>1, <2>2, SettleInv
<1>4. ASSUME NEW c \in Calls, TransportError(c)
      PROVE  IInv'
  <2> DEFINE r == Err(Fallback)
  <2>1. r \in Outcomes /\ r.tag = "err" /\ r.error = Fallback
    BY OutcomeFacts
  <2>2. phase[c] = "waiting" /\ Settle(c, r)
    BY <1>4 DEF TransportError
  <2>3. ~IsRetryable(r.error) /\ ~Refused(r)
    BY <2>1, FallbackFacts DEF Refused
  <2> HIDE DEF r
  <2> QED
    BY <2>1, <2>2, <2>3, SettleInv
<1>5. ASSUME NEW c \in Calls, Resume(c)
      PROVE  IInv'
  <2> DEFINE a == attempt[c] + 1
  <2>1. /\ attempt[c] \in Attempts /\ attempt[c] < MaxRetries
        /\ c \in RetryableCalls /\ Behind(c, attempt[c])
    BY <1>5 DEF TypeOK, Resume, IInv, CallInv, Lockstep
  <2>2. a \in Attempts /\ a > attempt[c]
    BY <2>1, RetryAssumption DEF Attempts
  <2>3. /\ exchange[c][a] = "none"
        /\ \A b \in Attempts : b > a => exchange[c][b] = "none"
    BY <2>1, <2>2, RetryAssumption DEF IInv, CallInv, Lockstep, Attempts
  <2>4. \A b \in Attempts : b < a => Behind(c, b)
    <3>1. \A b \in Attempts : b < a => b < attempt[c] \/ b = attempt[c]
      BY <2>1, RetryAssumption DEF Attempts
    <3> QED
      BY <2>1, <3>1 DEF IInv, CallInv, Lockstep
  <2>5. phase[c] = "sleeping" /\ Send(c, a)
    BY <1>5 DEF Resume
  <2> HIDE DEF a
  <2> QED
    BY <2>1, <2>2, <2>3, <2>4, <2>5, SendInv
<1>6. ASSUME NEW c \in Calls, NEW a \in Attempts, Served(c, a)
      PROVE  IInv'
  BY <1>6, ServiceInv
<1> QED
  BY <1>1, <1>2, <1>3, <1>4, <1>5, <1>6 DEF Next, ClientStep, Served

-----------------------------------------------------------------------------
(* The theorems.                                                           *)

\* Every state of the client is well typed and satisfies the invariant.
THEOREM Invariance == Spec => [](TypeOK /\ IInv)
<1>1. TypeOK /\ IInv /\ [Next]_vars => (TypeOK /\ IInv)'
  BY NextTyped, NextInv
<1> QED
  BY InitInv, <1>1, PTL DEF Spec

\* Calls, exchanges and answers keep the shape the client gives them.
THEOREM TypeCorrect == Spec => []TypeOK
BY Invariance, PTL

\* A call takes effect at most once, for any retry budget: the loop of
\* with_retry goes round only after a typed refusal.
THEOREM AtMostOnce == Spec => []AtMostOneDelivery
<1>1. TypeOK /\ IInv => AtMostOneDelivery
  <2> SUFFICES ASSUME TypeOK, IInv, NEW c \in Calls, NEW a \in Attempts,
                      <<c, a>> \in delivered
               PROVE  a = attempt[c]
    BY DEF AtMostOneDelivery
  <2>1. Lockstep(c) /\ Honest(c, a) /\ a \in Nat /\ attempt[c] \in Nat
    BY AttemptFacts DEF TypeOK, IInv, CallInv
  <2> QED
    BY <2>1 DEF Lockstep, Behind, Honest
<1> QED
  BY <1>1, Invariance, PTL

\* Ok means carried out; a typed refusal means not carried out, for good.
THEOREM Truthful == Spec => []OutcomeIsTruthful
<1>1. TypeOK /\ IInv => OutcomeIsTruthful
  <2> SUFFICES ASSUME TypeOK, IInv, NEW c \in Calls
               PROVE  /\ outcome[c].tag = "ok" =>
                           \E a \in Attempts : outcome[c] = Ok(Receipt(a))
                                               /\ <<c, a>> \in delivered
                      /\ Refused(outcome[c]) =>
                           \A a \in Attempts : <<c, a>> \notin delivered
                                               /\ exchange[c][a] # "open"
    BY DEF OutcomeIsTruthful
  <2>1. Lockstep(c) /\ Justified(c) /\ attempt[c] \in Attempts
    BY DEF TypeOK, IInv, CallInv
  <2>2. outcome[c].tag = "ok" => outcome[c] = Ok(Receipt(attempt[c]))
                                 /\ <<c, attempt[c]>> \in delivered
    BY <2>1 DEF Justified
  <2>3. ASSUME Refused(outcome[c]), NEW a \in Attempts
        PROVE  <<c, a>> \notin delivered /\ exchange[c][a] # "open"
    <3>1. a < attempt[c] \/ a = attempt[c] \/ a > attempt[c]
      BY <2>1, Trichotomy
    <3>2. Behind(c, attempt[c]) /\ Honest(c, a)
      BY <2>1, <2>3 DEF Justified, IInv, CallInv
    <3> QED
      BY <2>1, <3>1, <3>2 DEF Lockstep, Behind, Honest
  <2> QED
    BY <2>1, <2>2, <2>3
<1> QED
  BY <1>1, Invariance, PTL

\* A transient refusal is returned only once the budget is spent.
THEOREM BudgetSpent == Spec => []RetryBudgetSpent
<1>1. TypeOK /\ IInv => RetryBudgetSpent
  <2> SUFFICES ASSUME TypeOK, IInv, NEW c \in Calls
               PROVE  /\ c \notin RetryableCalls => attempt[c] = 0
                      /\ c \in RetryableCalls /\ outcome[c].tag = "err"
                         /\ IsRetryable(outcome[c].error)
                           => /\ attempt[c] = MaxRetries
                              /\ \A a \in Attempts : exchange[c][a] = "answered"
    BY DEF RetryBudgetSpent
  <2>1. Lockstep(c) /\ Justified(c) /\ attempt[c] \in Attempts /\ outcome[c] \in Outcomes
    BY DEF TypeOK, IInv, CallInv
  <2>2. ASSUME c \in RetryableCalls, outcome[c].tag = "err", IsRetryable(outcome[c].error)
        PROVE  attempt[c] = MaxRetries /\ \A a \in Attempts : exchange[c][a] = "answered"
    <3>1. outcome[c].error \in Errors
      <4>1. outcome[c] # Pending /\ \A v : outcome[c] # Ok(v)
        BY <2>2, OutcomeFacts
      <4>2. PICK e \in Errors : outcome[c] = Err(e)
        BY <2>1, <4>1 DEF Outcomes
      <4> QED
        BY <4>2, OutcomeFacts
    <3>2. Behind(c, attempt[c]) /\ attempt[c] = MaxRetries
      BY <2>1, <2>2, <3>1, RetryableIsRefusal DEF Justified, Refused
    <3>3. \A a \in Attempts : a < attempt[c] \/ a = attempt[c]
      BY <3>2, RetryAssumption DEF Attempts
    <3> QED
      BY <2>1, <3>2, <3>3 DEF Lockstep, Behind
  <2> QED
    BY <2>1, <2>2 DEF Lockstep
<1> QED
  BY <1>1, Invariance, PTL

-----------------------------------------------------------------------------
(* A typed error reaches the caller unchanged.                             *)

\* A call that returned gave what its last answer decodes to, or the catch-all
\* of a failed exchange; what was decoded is never overwritten.
Faithful(c) ==
  Returned(c) =>
    \/ outcome[c] = Err(Fallback)
    \/ /\ exchange[c][attempt[c]] = "answered"
       /\ outcome[c] = Decode(response[c][attempt[c]])

\* A step that leaves call c's own state and its last answer alone.
LEMMA FaithfulFrame ==
  ASSUME NEW c \in Calls, Faithful(c),
         phase'[c] = phase[c], attempt'[c] = attempt[c], outcome'[c] = outcome[c],
         exchange[c][attempt[c]] = "answered" =>
           /\ exchange'[c][attempt[c]] = exchange[c][attempt[c]]
           /\ response'[c][attempt[c]] = response[c][attempt[c]]
  PROVE  Faithful(c)'
BY DEF Faithful, Returned

\* Settling on what the last answer decodes to, or on the catch-all.
LEMMA FaithfulSettled ==
  ASSUME TypeOK, NEW c \in Calls, NEW r, Settle(c, r),
         \/ r = Err(Fallback)
         \/ /\ exchange[c][attempt[c]] = "answered"
            /\ r = Decode(response[c][attempt[c]])
  PROVE  Faithful(c)'
<1>1. CASE Return(c, r)
  BY <1>1 DEF TypeOK, Faithful, Return
<1>2. CASE BackOff(c, r)
  BY <1>2 DEF TypeOK, Faithful, Returned, BackOff
<1> QED
  BY <1>1, <1>2 DEF Settle

\* Every step keeps it, for each call.
LEMMA FaithfulStep ==
  ASSUME TypeOK, [Next]_vars, \A c \in Calls : Faithful(c)
  PROVE  \A c \in Calls : Faithful(c)'
<1> SUFFICES ASSUME NEW b \in Calls
             PROVE  Faithful(b)'
  OBVIOUS
<1>1. CASE UNCHANGED vars
  BY <1>1, FaithfulFrame DEF vars
<1>2. ASSUME NEW c \in Calls, NEW a, Send(c, a)
      PROVE  Faithful(b)'
  <2>1. CASE b = c
    BY <1>2, <2>1 DEF TypeOK, Send, Faithful, Returned
  <2>2. CASE b # c
    BY <1>2, <2>2, FaithfulFrame DEF TypeOK, Send
  <2> QED
    BY <2>1, <2>2
<1>3. ASSUME NEW c \in Calls, Receive(c) \/ TransportError(c)
      PROVE  Faithful(b)'
  <2>1. PICK r : /\ Settle(c, r)
                 /\ \/ r = Err(Fallback)
                    \/ /\ exchange[c][attempt[c]] = "answered"
                       /\ r = Decode(response[c][attempt[c]])
    BY <1>3 DEF Receive, TransportError
  <2>2. CASE b = c
    BY <2>1, <2>2, FaithfulSettled
  <2>3. CASE b # c
    BY <2>1, <2>3, FaithfulFrame DEF TypeOK, Settle, Return, BackOff
  <2> QED
    BY <2>2, <2>3
<1>4. ASSUME NEW c \in Calls, NEW a \in Attempts, Served(c, a)
      PROVE  Faithful(b)'
  <2>1. phase' = phase /\ attempt' = attempt /\ outcome' = outcome
    BY <1>4 DEF Served, Answer, CarryOutLate, Lose
  <2>2. exchange[b][attempt[b]] = "answered" =>
          /\ exchange'[b][attempt[b]] = exchange[b][attempt[b]]
          /\ response'[b][attempt[b]] = response[b][attempt[b]]
    <3>1. CASE Answer(c, a)
      <4>1. PICK r : response' = [response EXCEPT ![c][a] = r]
        BY <3>1 DEF Answer
      <4> QED
        BY <3>1, <4>1 DEF TypeOK, Answer
    <3>2. CASE CarryOutLate(c, a)
      BY <3>2 DEF CarryOutLate
    <3>3. CASE Lose(c, a)
      BY <3>3 DEF TypeOK, Lose
    <3> QED
      BY <1>4, <3>1, <3>2, <3>3 DEF Served
  <2> QED
    BY <2>1, <2>2, FaithfulFrame
<1> QED
  BY <1>1, <1>2, <1>3, <1>4 DEF Next, ClientStep, Start, Resume, Served

\* A typed error reaches the caller with every field the service gave it: what
\* the answer decodes to is what is returned, and decoding undoes the encoding.
THEOREM ErrorsUnchanged == Spec => []TypedErrorUnchanged
<1> DEFINE FInv == \A c \in Calls : Faithful(c)
<1>1. Init => FInv
  BY DEF Init, Faithful, Returned
<1>2. TypeOK /\ FInv /\ [Next]_vars => FInv'
  BY FaithfulStep
<1>3. FInv => TypedErrorUnchanged
  BY RoundTrip DEF Faithful, TypedErrorUnchanged
<1> HIDE DEF FInv
<1> QED
  BY <1>1, <1>2, <1>3, Invariance, PTL DEF Spec

-----------------------------------------------------------------------------
(* The client implements the contract.                                     *)

result == [c \in Calls |-> Verdict(outcome[c])]

\* What each outcome means in the contract.
LEMMA VerdictFacts ==
  /\ Verdict(Pending) = "none"
  /\ \A v : Verdict(Ok(v)) = "ok"
  /\ \A e \in Errors : Verdict(Err(e)) = IF IsRefusal(e) THEN "refused" ELSE "unknown"
BY DEF Verdict, Pending, Ok, Err

\* The initial states are initial states of the contract.
LEMMA InitRefines == Init => Contract!Init
<1> SUFFICES ASSUME Init
             PROVE  /\ performed = [c \in Calls |-> {}]
                    /\ result = [c \in Calls |-> "none"]
  BY DEF Contract!Init, result
<1> QED
  BY VerdictFacts DEF Init, performed, result

\* Steps that neither settle a call nor carry one out are invisible.
LEMMA Stutter ==
  ASSUME delivered' = delivered, outcome' = outcome
  PROVE  UNCHANGED Contract!vars
BY DEF Contract!vars, performed

\* Settling a call is the contract's Return, backing off is invisible.
LEMMA SettleRefines ==
  ASSUME TypeOK, IInv, TypeOK', IInv', NEW c \in Calls, NEW r \in Outcomes,
         Settle(c, r), phase[c] = "waiting", r.tag \in {"ok", "err"}
  PROVE  [Contract!Next]_Contract!vars
<1>1. CASE BackOff(c, r)
  BY <1>1, Stutter DEF BackOff
<1>2. CASE Return(c, r)
  <2>1. /\ outcome' = [outcome EXCEPT ![c] = r] /\ delivered' = delivered
        /\ outcome[c] = Pending /\ outcome'[c] = r
    BY <1>2 DEF TypeOK, IInv, CallInv, Justified, Return
  <2>2. performed' = performed
    BY <2>1 DEF performed
  <2>3. result[c] = "none" /\ result' = [result EXCEPT ![c] = Verdict(r)]
    BY <2>1, VerdictFacts DEF result, TypeOK
  <2>4. Verdict(r) \in Contract!Results \ {"none"}
    BY DEF Verdict, Contract!Results
  <2>5. Verdict(r) = "ok" => performed[c] # {}
    <3>1. Verdict(r) = "ok" => r.tag = "ok"
      BY DEF Verdict
    <3>2. r.tag = "ok" => <<c, attempt'[c]>> \in delivered'
      BY <2>1 DEF IInv, CallInv, Justified
    <3> QED
      BY <2>1, <3>1, <3>2 DEF performed, TypeOK
  <2>6. Verdict(r) = "refused" => performed[c] = {}
    <3>1. Verdict(r) = "refused" => Refused(r)
      BY DEF Verdict, Refused
    <3>2. ASSUME Refused(r), NEW a \in Attempts
          PROVE  <<c, a>> \notin delivered'
      <4>1. Lockstep(c)' /\ Behind(c, attempt[c])' /\ Honest(c, a)'
        BY <2>1, <3>2 DEF IInv, CallInv, Justified, Refused
      <4>2. attempt'[c] \in Attempts
        BY DEF TypeOK
      <4>3. a < attempt'[c] \/ a = attempt'[c] \/ a > attempt'[c]
        BY <4>2, Trichotomy
      <4> QED
        BY <1>2, <4>1, <4>3 DEF Lockstep, Behind, Honest, Return
    <3> QED
      BY <2>1, <3>1, <3>2 DEF performed
  <2>7. Contract!Return(c, Verdict(r))
    BY <2>2, <2>3, <2>5, <2>6 DEF Contract!Return, result
  <2> QED
    BY <2>4, <2>7 DEF Contract!Next
<1> QED
  BY <1>1, <1>2 DEF Settle

\* The service's own steps are the contract's Perform, also when they come
\* after the call has returned without saying what became of it.
LEMMA ServiceRefines ==
  ASSUME TypeOK, IInv, NEW c \in Calls, NEW a \in Attempts, Served(c, a)
  PROVE  [Contract!Next]_Contract!vars
<1>1. outcome' = outcome /\ result' = result
  BY DEF Served, Answer, CarryOutLate, Lose, result
<1>2. PICK d \in BOOLEAN : CarryOut(c, a, d)
  BY DEF Served, Answer, CarryOutLate, Lose
<1>3. CASE ~d
  BY <1>1, <1>2, <1>3, Stutter DEF CarryOut
<1>4. CASE d
  <2>1. exchange[c][a] # "none" /\ ~Behind(c, a) /\ <<c, a>> \notin delivered
        /\ a = attempt[c]
    BY ServedIsCurrent
  <2>2. performed[c] = {}
    <3>1. ASSUME NEW b \in Attempts, <<c, b>> \in delivered
          PROVE  FALSE
      <4>1. Lockstep(c) /\ Honest(c, b)
        BY DEF IInv, CallInv
      <4>2. b < attempt[c] \/ b = attempt[c] \/ b > attempt[c]
        BY Trichotomy DEF TypeOK
      <4> QED
        BY <2>1, <3>1, <4>1, <4>2 DEF Lockstep, Honest, Behind
    <3> QED
      BY <3>1 DEF performed
  <2>3. performed' = [performed EXCEPT ![c] = {a}]
    BY <1>2, <1>4, <2>2 DEF CarryOut, performed
  <2>4. result[c] \in {"none", "unknown"}
    <3>1. outcome[c] \in Outcomes /\ Justified(c) /\ Lockstep(c) /\ Honest(c, a)
      BY DEF TypeOK, IInv, CallInv
    <3>2. CASE outcome[c] = Pending
      BY <3>2, VerdictFacts DEF result
    <3>3. CASE \E b \in Attempts : outcome[c] = Ok(Receipt(b))
      BY <2>2, <3>1, <3>3, OutcomeFacts DEF Justified, performed, TypeOK
    <3>4. CASE \E e \in Errors : outcome[c] = Err(e)
      <4>1. PICK e \in Errors : outcome[c] = Err(e)
        BY <3>4
      <4>2. ~IsRefusal(e)
        BY <2>1, <3>1, <4>1, OutcomeFacts DEF Justified, Refused
      <4> QED
        BY <4>1, <4>2, VerdictFacts DEF result
    <3> QED
      BY <3>1, <3>2, <3>3, <3>4 DEF Outcomes
  <2>5. Contract!Perform(c, a)
    BY <1>1, <2>2, <2>3, <2>4 DEF Contract!Perform, result
  <2> QED
    BY <2>5 DEF Contract!Next
<1> QED
  BY <1>3, <1>4

\* Every behaviour of the client, with all its attempts, answers that are lost
\* or come late and requests carried out after the call returned, is a
\* behaviour of the contract a caller of the trait relies on.
THEOREM Refinement == Spec => ImplementsContract
<1>1. ASSUME TypeOK, IInv, TypeOK', IInv', [Next]_vars
      PROVE  [Contract!Next]_Contract!vars
  <2>1. CASE UNCHANGED vars
    BY <2>1, Stutter DEF vars
  <2>2. ASSUME NEW c \in Calls, Start(c) \/ Resume(c)
        PROVE  [Contract!Next]_Contract!vars
    BY <2>2, Stutter DEF Start, Resume, Send
  <2>3. ASSUME NEW c \in Calls, Receive(c)
        PROVE  [Contract!Next]_Contract!vars
    BY <1>1, <2>3, ReceivedHonest, SettleRefines DEF Receive
  <2>4. ASSUME NEW c \in Calls, TransportError(c)
        PROVE  [Contract!Next]_Contract!vars
    BY <1>1, <2>4, OutcomeFacts, SettleRefines DEF TransportError
  <2>5. ASSUME NEW c \in Calls, NEW a \in Attempts, Served(c, a)
        PROVE  [Contract!Next]_Contract!vars
    BY <1>1, <2>5, ServiceRefines
  <2> QED
    BY <1>1, <2>1, <2>2, <2>3, <2>4, <2>5 DEF Next, ClientStep, Served
<1> QED
  BY InitRefines, <1>1, Invariance, PTL DEF Spec, ImplementsContract, Contract!Spec
=============================================================================
