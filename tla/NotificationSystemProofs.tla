---------------------- MODULE NotificationSystemProofs ----------------------
(* Theorems about NotificationSystem, for any number of calls, any retry   *)
(* budget and any number of restarts of the service.  What is known of the *)
(* two parts is not proved again: ModuleProofs and ClientProofs are the    *)
(* theorems about NotificationModule and RestClient, instantiated with the *)
(* state of the system.                                                    *)
EXTENDS NotificationSystem, TLAPS

ModuleProofs == INSTANCE NotificationModuleProofs
ClientProofs == INSTANCE RestClientProofs
                  WITH delivered <- {s \in Sends : performed[s] # {}}

-----------------------------------------------------------------------------
(* The inductive invariant.                                                *)

\* What the service's invariant is about.
ServiceInv == ModuleProofs!TypeOK /\ ModuleProofs!IInv

\* Answers that do not say what became of the request: those of a proxy and
\* the catch-all of a handler.
Unsaid == ProxyAnswers \cup {Client!ErrorResponse(Client!Fallback)}

\* A request that was never sent has no task, and an answer that says what
\* became of a request says what the module told its handler.
Exchanged(c, a) ==
  /\ exchange[c][a] = "none" => task[<<c, a>>] = "idle"
  /\ exchange[c][a] = "answered" =>
       \/ response[c][a] \in Unsaid
       \/ response[c][a] \in Client!Refusals /\ reply[<<c, a>>] = "refused"
       \/ response[c][a] = Client!Success(a) /\ reply[<<c, a>>] = "ok"

\* An attempt the loop may put behind it was refused by the module itself.
Behind(c, a) == exchange[c][a] = "answered" /\ reply[<<c, a>>] = "refused"

\* How far the loop is and how far the requests are.
Lockstep(c) ==
  /\ \A a \in Attempts : a > attempt[c] => exchange[c][a] = "none"
  /\ \A a \in Attempts : a < attempt[c] => Behind(c, a)
  /\ phase[c] = "idle" => attempt[c] = 0 /\ exchange[c][0] = "none"
  /\ phase[c] = "sleeping" => attempt[c] < MaxRetries /\ Behind(c, attempt[c])

\* What the module said to the last attempt of a call with this outcome.
Justified(c, result_) ==
  \/ result_ = Client!Ok(Client!Receipt(attempt[c])) /\ reply[<<c, attempt[c]>>] = "ok"
  \/ \E e \in Client!Errors : /\ result_ = Client!Err(e)
                              /\ Client!IsRefusal(e) => Behind(c, attempt[c])

ClientInv(c) ==
  /\ Lockstep(c)
  /\ IF phase[c] = "returned" THEN Justified(c, outcome[c])
                              ELSE outcome[c] = Client!Pending

Shaped ==
  /\ phase \in [Calls -> {"idle", "waiting", "sleeping", "returned"}]
  /\ attempt \in [Calls -> Attempts]
  /\ outcome \in [Calls -> Client!Outcomes]
  /\ exchange \in [Calls -> [Attempts -> {"none", "open", "answered", "lost"}]]
  /\ DOMAIN response = Calls /\ \A c \in Calls : DOMAIN response[c] = Attempts

IInv == /\ ServiceInv
        /\ Shaped
        /\ \A c \in Calls, a \in Attempts : Exchanged(c, a)
        /\ \A c \in Calls : ClientInv(c)

-----------------------------------------------------------------------------
(* The two instances of each part are the same.                            *)

\* The types of the module, in the theorems about it and in the system.
LEMMA SameTypes == Module!TypeOK = ModuleProofs!TypeOK
BY DEF Module!TypeOK, ModuleProofs!TypeOK,
       Module!DeliverResponses, ModuleProofs!DeliverResponses,
       Module!Backend!Results, ModuleProofs!Backend!Results,
       Module!Requests, ModuleProofs!Requests,
       Module!Recipient, ModuleProofs!Recipient, Module!Domain, ModuleProofs!Domain,
       Module!NotificationIds, ModuleProofs!NotificationIds,
       Module!NotificationId, ModuleProofs!NotificationId

\* Its initial states.
LEMMA SameInit == Module!Init = ModuleProofs!Init
BY DEF Module!Init, ModuleProofs!Init, Module!Backend!Init, ModuleProofs!Backend!Init,
       Module!NotificationIds, ModuleProofs!NotificationIds,
       Module!NotificationId, ModuleProofs!NotificationId

\* Its steps.
LEMMA SameSteps ==
  ASSUME NEW s
  PROVE  /\ Module!Send(s) = ModuleProofs!Send(s)
         /\ Module!DeliverReturned(s) = ModuleProofs!DeliverReturned(s)
         /\ Module!Record(s) = ModuleProofs!Record(s)
         /\ Module!Respond(s) = ModuleProofs!Respond(s)
         /\ Module!Cancel(s) = ModuleProofs!Cancel(s)
         /\ Module!ConnectionBroken(s) = ModuleProofs!ConnectionBroken(s)
         /\ Module!Deliver(s) = ModuleProofs!Deliver(s)
         /\ Module!Restart = ModuleProofs!Restart
<1> USE DEF Module!backendVars, ModuleProofs!backendVars,
            Module!callVars, ModuleProofs!callVars, Module!Tell, ModuleProofs!Tell
<1>1. Module!Send(s) = ModuleProofs!Send(s)
  BY DEF Module!Send, ModuleProofs!Send, Module!Requests, ModuleProofs!Requests,
         Module!Recipient, ModuleProofs!Recipient, Module!Domain, ModuleProofs!Domain
<1>2. Module!DeliverReturned(s) = ModuleProofs!DeliverReturned(s)
  BY DEF Module!DeliverReturned, ModuleProofs!DeliverReturned,
         Module!Backend!Return, ModuleProofs!Backend!Return,
         Module!Error, ModuleProofs!Error
<1>3. Module!Record(s) = ModuleProofs!Record(s)
  BY DEF Module!Record, ModuleProofs!Record, Module!Response, ModuleProofs!Response,
         Module!NotificationId, ModuleProofs!NotificationId,
         Module!InitialState, ModuleProofs!InitialState
<1>4. Module!Respond(s) = ModuleProofs!Respond(s)
  BY DEF Module!Respond, ModuleProofs!Respond
<1>5. Module!Cancel(s) = ModuleProofs!Cancel(s)
  BY DEF Module!Cancel, ModuleProofs!Cancel
<1>6. Module!ConnectionBroken(s) = ModuleProofs!ConnectionBroken(s)
  BY DEF Module!ConnectionBroken, ModuleProofs!ConnectionBroken
<1>7. Module!Deliver(s) = ModuleProofs!Deliver(s)
  BY DEF Module!Deliver, ModuleProofs!Deliver,
         Module!DeliverResponses, ModuleProofs!DeliverResponses,
         Module!Backend!Perform, ModuleProofs!Backend!Perform
<1>8. Module!Restart = ModuleProofs!Restart
  BY DEF Module!Restart, ModuleProofs!Restart,
         Module!NotificationIds, ModuleProofs!NotificationIds,
         Module!NotificationId, ModuleProofs!NotificationId
<1> QED
  BY <1>1, <1>2, <1>3, <1>4, <1>5, <1>6, <1>7, <1>8

\* The errors of the contract, their responses and what a client makes of them.
LEMMA SameErrors ==
  /\ Client!Errors = ClientProofs!Errors /\ Client!Fallback = ClientProofs!Fallback
  /\ Client!Refusals = ClientProofs!Refusals
  /\ \A e : /\ Client!IsRefusal(e) = ClientProofs!IsRefusal(e)
            /\ Client!IsRetryable(e) = ClientProofs!IsRetryable(e)
            /\ Client!Err(e) = ClientProofs!Err(e)
            /\ Client!ErrorResponse(e) = ClientProofs!ErrorResponse(e)
  /\ \A r : Client!Decode(r) = ClientProofs!Decode(r)
<1> USE DEF Client!Fields, ClientProofs!Fields, Client!Variants, ClientProofs!Variants,
            Client!StatusCode, ClientProofs!StatusCode,
            Client!ErrorDomain, ClientProofs!ErrorDomain,
            Client!Err, ClientProofs!Err, Client!IsRefusal, ClientProofs!IsRefusal
<1>1. Client!Errors = ClientProofs!Errors /\ Client!Fallback = ClientProofs!Fallback
  BY DEF Client!Errors, ClientProofs!Errors, Client!Fallback, ClientProofs!Fallback
<1>2. \A e : /\ Client!IsRefusal(e) = ClientProofs!IsRefusal(e)
             /\ Client!Err(e) = ClientProofs!Err(e)
  OBVIOUS
<1>3. \A e : Client!IsRetryable(e) = ClientProofs!IsRetryable(e)
  BY DEF Client!IsRetryable, ClientProofs!IsRetryable,
         Client!RetryableStatuses, ClientProofs!RetryableStatuses
<1>4. \A e : Client!ErrorResponse(e) = ClientProofs!ErrorResponse(e)
  BY DEF Client!ErrorResponse, ClientProofs!ErrorResponse,
         Client!ToProblemDetails, ClientProofs!ToProblemDetails
<1>5. \A v : Client!BareProblem(v) = ClientProofs!BareProblem(v)
  BY DEF Client!BareProblem, ClientProofs!BareProblem
<1>6. Client!Refusals = ClientProofs!Refusals
  BY <1>1, <1>2, <1>4, <1>5 DEF Client!Refusals, ClientProofs!Refusals
<1>7. \A r : Client!Decode(r) = ClientProofs!Decode(r)
  BY <1>1 DEF Client!Decode, ClientProofs!Decode,
         Client!IsSuccess, ClientProofs!IsSuccess, Client!Ok, ClientProofs!Ok,
         Client!ParseError, ClientProofs!ParseError,
         Client!FromProblemDetails, ClientProofs!FromProblemDetails,
         Client!Restored, ClientProofs!Restored
<1> QED
  BY <1>1, <1>2, <1>3, <1>4, <1>6, <1>7

-----------------------------------------------------------------------------
(* What a client makes of the answers of this service.                     *)

\* The catch-all is an error of the contract that is no refusal.
LEMMA FallbackFacts ==
  /\ Client!Fallback \in Client!Errors
  /\ ~Client!IsRefusal(Client!Fallback) /\ ~Client!IsRetryable(Client!Fallback)
BY SystemAssumption, SameErrors, ClientProofs!FallbackFacts

\* Only a typed refusal is worth another attempt.
LEMMA RetryableIsRefusal ==
  \A e \in Client!Errors : Client!IsRetryable(e) => Client!IsRefusal(e)
BY SystemAssumption, SameErrors, ClientProofs!RetryableIsRefusal

\* What an outcome is, by its tag.
LEMMA OutcomeFacts ==
  /\ Client!Pending.tag = "pending"
  /\ \A e : Client!Err(e).tag = "err" /\ Client!Err(e).error = e
  /\ \A v : Client!Ok(v).tag = "ok" /\ Client!Ok(v).value = v
BY DEF Client!Pending, Client!Err, Client!Ok

\* A typed refusal decodes to the error it carries.
LEMMA RefusalDecoded ==
  ASSUME NEW r \in Client!Refusals
  PROVE  \E e \in Client!Errors : Client!IsRefusal(e) /\ Client!Decode(r) = Client!Err(e)
BY SystemAssumption, SameErrors, ClientProofs!RefusalFacts

\* An answer that says nothing decodes to the catch-all.
LEMMA UnsaidDecoded ==
  ASSUME NEW r \in Unsaid
  PROVE  Client!Decode(r) = Client!Err(Client!Fallback)
<1>1. CASE r = Client!Plain(503)
  BY <1>1 DEF Client!Plain, Client!Decode, Client!IsSuccess, Client!ParseError
<1>2. CASE r = Client!ForeignProblem(503)
  BY <1>2 DEF Client!ForeignProblem, Client!Decode, Client!IsSuccess,
              Client!ParseError, Client!FromProblemDetails, Client!ErrorDomain
<1>3. CASE r = Client!ErrorResponse(Client!Fallback)
  BY <1>3, FallbackFacts, SystemAssumption, SameErrors, ClientProofs!RoundTrip
<1> QED
  BY <1>1, <1>2, <1>3 DEF Unsaid, ProxyAnswers

\* The answer of a handler whose send() returned Ok decodes to its receipt.
LEMMA SuccessDecoded ==
  ASSUME NEW a
  PROVE  Client!Decode(Client!Success(a)) = Client!Ok(Client!Receipt(a))
BY DEF Client!Success, Client!Decode, Client!IsSuccess

\* What a waiting client reads is justified by what the module told the handler.
LEMMA ReceivedJustified ==
  ASSUME NEW c \in Calls, attempt[c] \in Attempts, Exchanged(c, attempt[c]),
         exchange[c][attempt[c]] = "answered"
  PROVE  Justified(c, Client!Decode(response[c][attempt[c]]))
<1> DEFINE r == response[c][attempt[c]]
<1>1. CASE r \in Unsaid
  BY <1>1, UnsaidDecoded, FallbackFacts DEF Justified
<1>2. CASE r \in Client!Refusals /\ reply[<<c, attempt[c]>>] = "refused"
  BY <1>2, RefusalDecoded DEF Justified, Behind
<1>3. CASE r = Client!Success(attempt[c]) /\ reply[<<c, attempt[c]>>] = "ok"
  BY <1>3, SuccessDecoded DEF Justified
<1> QED
  BY <1>1, <1>2, <1>3 DEF Exchanged

-----------------------------------------------------------------------------
(* What the steps of the service do, as far as the client can tell.        *)

SendStep(s) == \/ Module!Send(s) \/ Module!TaskStep(s) \/ Module!Cancel(s)
               \/ Module!Deliver(s)

\* The service keeps its own invariant, also while only others take steps.
LEMMA ServiceKept ==
  ASSUME ServiceInv,
         UNCHANGED moduleVars \/ Module!Restart \/ \E s \in Sends : SendStep(s)
  PROVE  ServiceInv'
<1>1. [ModuleProofs!Next]_(ModuleProofs!vars)
  <2>1. CASE UNCHANGED moduleVars
    BY <2>1 DEF moduleVars, ModuleProofs!vars, ModuleProofs!backendVars,
                ModuleProofs!callVars
  <2>2. ASSUME NEW s \in Sends, SendStep(s)
        PROVE  ModuleProofs!Next
    BY <2>2, SameSteps DEF SendStep, Module!TaskStep, ModuleProofs!TaskStep,
                           ModuleProofs!Next
  <2>3. CASE Module!Restart
    BY <2>3, SameSteps DEF ModuleProofs!Next
  <2> QED
    BY <2>1, <2>2, <2>3
<1>2. ModuleProofs!TypeOK'
  BY <1>1, SystemAssumption, ModuleProofs!NextTyped DEF ServiceInv
<1>3. ModuleProofs!IInv'
  BY <1>1, SystemAssumption, ModuleProofs!NextInv DEF ServiceInv
<1> QED
  BY <1>2, <1>3 DEF ServiceInv

\* What the module's invariant says of one send.
LEMMA SendFacts ==
  ASSUME ServiceInv, NEW s \in Sends
  PROVE  /\ task[s] = "idle" => performed[s] = {} /\ reply[s] = "none"
         /\ reply[s] # "none" => task[s] = "over"
         /\ reply[s] = "ok" => performed[s] # {} /\ result[s] = "ok"
         /\ reply[s] = "refused" => performed[s] = {} /\ result[s] = "refused"
BY DEF ServiceInv, ModuleProofs!IInv, ModuleProofs!SendInv, ModuleProofs!BackendKept,
       ModuleProofs!Progress

\* An answer that was given stays given, and only a request that arrives
\* makes a task.
LEMMA ServiceFinal ==
  ASSUME ServiceInv, NEW s \in Sends, SendStep(s), NEW t \in Sends
  PROVE  /\ reply[t] # "none" => reply'[t] = reply[t]
         /\ task[t] = "idle" /\ ~(t = s /\ Module!Send(s)) => task'[t] = "idle"
<1>1. DOMAIN task = Sends /\ DOMAIN reply = Sends
  BY DEF ServiceInv, ModuleProofs!TypeOK
<1>2. reply[t] # "none" => task[t] = "over"
  BY SendFacts
<1>3. CASE Module!Send(s)
  BY <1>1, <1>3 DEF Module!Send
<1>4. CASE Module!DeliverReturned(s)
  BY <1>1, <1>2, <1>4 DEF Module!DeliverReturned, Module!Tell
<1>5. CASE Module!Record(s)
  BY <1>1, <1>2, <1>5 DEF Module!Record
<1>6. CASE Module!Respond(s) \/ Module!Cancel(s) \/ Module!ConnectionBroken(s)
  BY <1>1, <1>2, <1>6 DEF Module!Respond, Module!Cancel, Module!ConnectionBroken,
                          Module!Tell
<1>7. CASE Module!Deliver(s)
  BY <1>1, <1>7 DEF Module!Deliver
<1> QED
  BY <1>3, <1>4, <1>5, <1>6, <1>7 DEF SendStep, Module!TaskStep

\* A step of the service keeps the whole invariant.
LEMMA ServiceStepInv ==
  ASSUME IInv, UNCHANGED <<loopVars, httpVars>>,
         \/ Module!Restart
         \/ \E s \in Sends : /\ SendStep(s)
                             /\ Module!Send(s) => exchange[s[1]][s[2]] # "none"
  PROVE  IInv'
<1>1. ServiceInv'
  BY ServiceKept DEF IInv
<1>2. /\ phase' = phase /\ attempt' = attempt /\ outcome' = outcome
      /\ exchange' = exchange /\ response' = response
  BY DEF loopVars, httpVars
<1>3. \A c \in Calls, a \in Attempts :
        /\ reply[<<c, a>>] # "none" => reply'[<<c, a>>] = reply[<<c, a>>]
        /\ exchange[c][a] = "none" => task'[<<c, a>>] = "idle"
  <2> SUFFICES ASSUME NEW c \in Calls, NEW a \in Attempts
               PROVE  /\ reply[<<c, a>>] # "none" => reply'[<<c, a>>] = reply[<<c, a>>]
                      /\ exchange[c][a] = "none" => task'[<<c, a>>] = "idle"
    OBVIOUS
  <2>1. <<c, a>> \in Sends
    BY DEF Sends
  <2>2. exchange[c][a] = "none" => task[<<c, a>>] = "idle"
    BY DEF IInv, Exchanged
  <2>3. CASE Module!Restart
    BY <2>1, <2>2, <2>3 DEF Module!Restart
  <2>4. ASSUME NEW s \in Sends, SendStep(s), Module!Send(s) => exchange[s[1]][s[2]] # "none"
        PROVE  /\ reply[<<c, a>>] # "none" => reply'[<<c, a>>] = reply[<<c, a>>]
               /\ exchange[c][a] = "none" => task'[<<c, a>>] = "idle"
    <3>1. exchange[c][a] = "none" => ~(<<c, a>> = s /\ Module!Send(s))
      BY <2>4
    <3> QED
      BY <2>1, <2>2, <2>4, <3>1, ServiceFinal DEF IInv
  <2> QED
    BY <2>3, <2>4
<1>4. ASSUME NEW c \in Calls, NEW a \in Attempts
      PROVE  Exchanged(c, a)'
  <2>1. Exchanged(c, a)
    BY DEF IInv
  <2> QED
    BY <1>2, <1>3, <2>1 DEF Exchanged, Unsaid
<1>5. \A c \in Calls, a \in Attempts : Behind(c, a) => Behind(c, a)'
  BY <1>2, <1>3 DEF Behind
<1>6. ASSUME NEW c \in Calls
      PROVE  ClientInv(c)'
  <2>1. attempt[c] \in Attempts /\ ClientInv(c)
    BY DEF IInv, Shaped
  <2>2. Lockstep(c)'
    BY <1>2, <1>5, <2>1 DEF ClientInv, Lockstep
  <2>3. Justified(c, outcome[c]) => Justified(c, outcome[c])'
    BY <1>2, <1>3, <1>5, <2>1 DEF Justified
  <2> QED
    BY <1>2, <2>1, <2>2, <2>3 DEF ClientInv
<1> QED
  BY <1>1, <1>2, <1>4, <1>6 DEF IInv, Shaped

-----------------------------------------------------------------------------
(* The network and the handlers.                                           *)

\* An exchange that is under way ends; nothing else changes.
LEMMA ExchangeEndsInv ==
  ASSUME IInv, NEW c0 \in Calls, NEW a0 \in Attempts, exchange[c0][a0] = "open",
         UNCHANGED <<loopVars, moduleVars>>,
         NEW how \in {"answered", "lost"},
         exchange' = [exchange EXCEPT ![c0][a0] = how],
         \/ how = "lost" /\ response' = response
         \/ \E r : response' = [response EXCEPT ![c0][a0] = r],
         Exchanged(c0, a0)'
  PROVE  IInv'
<1>1. ServiceInv'
  BY ServiceKept DEF IInv
<1>2. /\ phase' = phase /\ attempt' = attempt /\ outcome' = outcome
      /\ task' = task /\ reply' = reply
  BY DEF loopVars, moduleVars
<1>3. Shaped' /\ exchange'[c0][a0] = how
      /\ \A c \in Calls, a \in Attempts : <<c, a>> # <<c0, a0>> =>
           exchange'[c][a] = exchange[c][a] /\ response'[c][a] = response[c][a]
  BY <1>2 DEF IInv, Shaped
<1>4. ASSUME NEW c \in Calls, NEW a \in Attempts
      PROVE  Exchanged(c, a)'
  <2>1. CASE <<c, a>> = <<c0, a0>>
    BY <2>1
  <2>2. CASE <<c, a>> # <<c0, a0>>
    <3>1. Exchanged(c, a)
      BY DEF IInv
    <3> QED
      BY <1>2, <1>3, <2>2, <3>1 DEF Exchanged, Unsaid
  <2> QED
    BY <2>1, <2>2
<1>5. \A c \in Calls, a \in Attempts : Behind(c, a) => Behind(c, a)'
  BY <1>2, <1>3 DEF Behind
<1>6. ASSUME NEW c \in Calls
      PROVE  ClientInv(c)'
  <2>1. attempt[c] \in Attempts /\ 0 \in Attempts /\ ClientInv(c)
    BY SystemAssumption DEF IInv, Shaped, Attempts
  <2>2. Lockstep(c)'
    BY <1>2, <1>3, <1>5, <2>1 DEF ClientInv, Lockstep
  <2>3. Justified(c, outcome[c]) => Justified(c, outcome[c])'
    BY <1>2, <1>5, <2>1 DEF Justified
  <2> QED
    BY <1>2, <2>1, <2>2, <2>3 DEF ClientInv
<1> QED
  BY <1>1, <1>3, <1>4, <1>6 DEF IInv

\* A handler answers what the module told it; a proxy says nothing.
LEMMA AnswerInv ==
  ASSUME IInv, NEW c \in Calls, NEW a \in Attempts,
         Reply(c, a) \/ Forge(c, a) \/ Lose(c, a)
  PROVE  IInv'
<1>1. exchange[c][a] = "open" /\ UNCHANGED <<loopVars, moduleVars>>
  BY DEF Reply, Forge, Lose
<1>2. /\ DOMAIN response = Calls /\ DOMAIN response[c] = Attempts
      /\ exchange \in [Calls -> [Attempts -> {"none", "open", "answered", "lost"}]]
      /\ reply' = reply
  BY <1>1 DEF IInv, Shaped, moduleVars
<1>3. CASE Lose(c, a)
  <2>1. Exchanged(c, a)'
    BY <1>2, <1>3 DEF Lose, Exchanged
  <2> QED
    BY <1>1, <1>3, <2>1, ExchangeEndsInv DEF Lose
<1>4. CASE Forge(c, a)
  <2>1. PICK r \in Unsaid : Answered(c, a, r)
    BY <1>4 DEF Forge, Unsaid
  <2>2. exchange'[c][a] = "answered" /\ response'[c][a] = r
    BY <1>2, <2>1 DEF Answered
  <2>3. Exchanged(c, a)'
    BY <2>2 DEF Exchanged, Unsaid
  <2> QED
    BY <1>1, <2>1, <2>3, ExchangeEndsInv DEF Answered
<1>5. CASE Reply(c, a)
  <2>1. PICK r \in Replies(c, a) : Answered(c, a, r)
    BY <1>5 DEF Reply
  <2>2. exchange'[c][a] = "answered" /\ response'[c][a] = r
    BY <1>2, <2>1 DEF Answered
  <2>3. \/ r \in Unsaid
        \/ r \in Client!Refusals /\ reply[<<c, a>>] = "refused"
        \/ r = Client!Success(a) /\ reply[<<c, a>>] = "ok"
    BY <2>1 DEF Replies, Unsaid
  <2>4. Exchanged(c, a)'
    BY <1>2, <2>2, <2>3 DEF Exchanged, Unsaid
  <2> QED
    BY <1>1, <2>1, <2>4, ExchangeEndsInv DEF Answered
<1> QED
  BY <1>3, <1>4, <1>5

-----------------------------------------------------------------------------
(* The client.                                                             *)

\* Attempts are numbers, and of two different ones one comes first.
LEMMA AttemptFacts ==
  /\ 0 \in Attempts /\ \A a \in Attempts : a \in Nat /\ ~(a < 0) /\ ~(a < a) /\ ~(a > a)
  /\ \A a, b \in Attempts : a < b \/ a = b \/ a > b
BY SystemAssumption DEF Attempts

\* What the client does to one call leaves the other calls as they were.
LEMMA OtherCalls ==
  ASSUME IInv, UNCHANGED moduleVars, NEW c \in Calls,
         phase'[c] = phase[c], attempt'[c] = attempt[c], outcome'[c] = outcome[c],
         exchange'[c] = exchange[c], response'[c] = response[c]
  PROVE  ClientInv(c)' /\ \A a \in Attempts : Exchanged(c, a)'
<1>1. task' = task /\ reply' = reply
  BY DEF moduleVars
<1>2. ClientInv(c) /\ attempt[c] \in Attempts
  BY DEF IInv, Shaped
<1>3. \A a \in Attempts : Behind(c, a)' <=> Behind(c, a)
  BY <1>1 DEF Behind
<1>4. Lockstep(c)'
  BY <1>2, <1>3 DEF ClientInv, Lockstep
<1>5. Justified(c, outcome[c]) => Justified(c, outcome[c])'
  BY <1>1, <1>2, <1>3 DEF Justified
<1>6. ClientInv(c)'
  BY <1>2, <1>4, <1>5 DEF ClientInv
<1>7. ASSUME NEW a \in Attempts
      PROVE  Exchanged(c, a)'
  <2>1. Exchanged(c, a)
    BY DEF IInv
  <2> QED
    BY <1>1, <2>1 DEF Exchanged, Unsaid
<1> QED
  BY <1>6, <1>7

\* The loop sends its next request: every earlier one was refused.
LEMMA SendInv ==
  ASSUME IInv, UNCHANGED moduleVars, NEW c \in Calls, NEW a \in Attempts,
         Client!Send(c, a), phase[c] \in {"idle", "sleeping"},
         \A b \in Attempts : b > a => exchange[c][b] = "none",
         \A b \in Attempts : b < a => Behind(c, b)
  PROVE  IInv'
<1>1. /\ phase' = [phase EXCEPT ![c] = "waiting"]
      /\ attempt' = [attempt EXCEPT ![c] = a]
      /\ exchange' = [exchange EXCEPT ![c][a] = "open"]
      /\ outcome' = outcome /\ response' = response /\ task' = task /\ reply' = reply
  BY DEF Client!Send, moduleVars
<1>2. Shaped' /\ ServiceInv'
  BY <1>1, ServiceKept DEF IInv, Shaped
<1>3. ASSUME NEW d \in Calls, d # c
      PROVE  ClientInv(d)' /\ \A b \in Attempts : Exchanged(d, b)'
  <2>1. /\ phase'[d] = phase[d] /\ attempt'[d] = attempt[d]
        /\ exchange'[d] = exchange[d] /\ response'[d] = response[d]
        /\ outcome'[d] = outcome[d]
    BY <1>1, <1>3 DEF IInv, Shaped
  <2> QED
    BY <2>1, OtherCalls
<1>4. /\ phase'[c] = "waiting" /\ attempt'[c] = a /\ exchange'[c][a] = "open"
      /\ \A b \in Attempts : b # a => exchange'[c][b] = exchange[c][b]
  BY <1>1 DEF IInv, Shaped
<1>5. ASSUME NEW b \in Attempts
      PROVE  Exchanged(c, b)'
  <2>1. Exchanged(c, b)
    BY DEF IInv
  <2> QED
    BY <1>1, <1>4, <2>1 DEF Exchanged, Unsaid
<1>6. ClientInv(c)'
  <2>1. \A b \in Attempts : b < a => Behind(c, b)'
    BY <1>1, <1>4, AttemptFacts DEF Behind
  <2>2. Lockstep(c)'
    BY <1>4, <2>1, AttemptFacts DEF Lockstep
  <2>3. outcome[c] = Client!Pending
    BY DEF IInv, ClientInv
  <2> QED
    BY <1>1, <1>4, <2>2, <2>3 DEF ClientInv, Client!Pending
<1> QED
  BY <1>2, <1>3, <1>5, <1>6 DEF IInv

\* Settling on what the module said to the last attempt, or on nothing.
LEMMA SettleInv ==
  ASSUME IInv, UNCHANGED moduleVars, NEW c \in Calls, NEW r,
         phase[c] = "waiting", Client!Settle(c, r), Justified(c, r)
  PROVE  IInv'
<1>1. /\ attempt' = attempt /\ exchange' = exchange /\ response' = response
      /\ task' = task /\ reply' = reply
      /\ \/ /\ phase' = [phase EXCEPT ![c] = "returned"]
            /\ outcome' = [outcome EXCEPT ![c] = r]
         \/ /\ phase' = [phase EXCEPT ![c] = "sleeping"]
            /\ outcome' = outcome
            /\ r.tag = "err" /\ Client!MayRetry(c, r.error)
  BY DEF Client!Settle, Client!Return, Client!BackOff, moduleVars
<1>2. Shaped' /\ ServiceInv'
  <2>1. r \in Client!Outcomes
    BY DEF IInv, Shaped, Justified, Client!Outcomes, Client!Attempts, Attempts
  <2>2. Shaped'
    BY <1>1, <2>1 DEF IInv, Shaped
  <2> QED
    BY <2>2, ServiceKept DEF IInv
<1>3. ASSUME NEW d \in Calls, d # c
      PROVE  ClientInv(d)' /\ \A b \in Attempts : Exchanged(d, b)'
  <2>1. phase'[d] = phase[d] /\ outcome'[d] = outcome[d]
    BY <1>1, <1>3 DEF IInv, Shaped
  <2> QED
    BY <1>1, <2>1, OtherCalls
<1>4. ASSUME NEW b \in Attempts
      PROVE  Exchanged(c, b)'
  <2>1. Exchanged(c, b)
    BY DEF IInv
  <2> QED
    BY <1>1, <2>1 DEF Exchanged, Unsaid
<1>5. attempt[c] \in Attempts /\ Lockstep(c) /\ outcome[c] = Client!Pending
  BY DEF IInv, Shaped, ClientInv
<1>6. \A b \in Attempts : Behind(c, b) <=> Behind(c, b)'
  BY <1>1 DEF Behind
<1>7. CASE phase' = [phase EXCEPT ![c] = "returned"] /\ outcome' = [outcome EXCEPT ![c] = r]
  <2>1. phase'[c] = "returned" /\ outcome'[c] = r
    BY <1>7 DEF IInv, Shaped
  <2>2. Lockstep(c)'
    BY <1>1, <1>5, <1>6, <2>1 DEF Lockstep
  <2>3. Justified(c, r)'
    BY <1>1, <1>5, <1>6 DEF Justified
  <2>4. ClientInv(c)'
    BY <2>1, <2>2, <2>3 DEF ClientInv, Justified
  <2> QED
    BY <1>2, <1>3, <1>4, <2>4 DEF IInv
<1>8. CASE /\ phase' = [phase EXCEPT ![c] = "sleeping"] /\ outcome' = outcome
           /\ r.tag = "err" /\ Client!MayRetry(c, r.error)
  <2>1. PICK e \in Client!Errors : r = Client!Err(e)
                                   /\ (Client!IsRefusal(e) => Behind(c, attempt[c]))
    BY <1>8, OutcomeFacts DEF Justified
  <2>2. Behind(c, attempt[c]) /\ attempt[c] < MaxRetries
    BY <1>8, <2>1, OutcomeFacts, RetryableIsRefusal DEF Client!MayRetry
  <2>3. phase'[c] = "sleeping"
    BY <1>8 DEF IInv, Shaped
  <2>4. ClientInv(c)'
    BY <1>1, <1>5, <1>6, <1>8, <2>2, <2>3 DEF ClientInv, Lockstep, Client!Pending
  <2> QED
    BY <1>2, <1>3, <1>4, <2>4 DEF IInv
<1> QED
  BY <1>1, <1>7, <1>8

\* A step of the client's loop keeps the whole invariant.
LEMMA ConsumerInv ==
  ASSUME IInv, NEW c \in Calls, Consumer(c)
  PROVE  IInv'
<1>1. UNCHANGED moduleVars /\ Lockstep(c) /\ attempt[c] \in Attempts
      /\ exchange[c] \in [Attempts -> {"none", "open", "answered", "lost"}]
  BY DEF Consumer, IInv, ClientInv, Shaped
<1>2. CASE Client!Start(c)
  <2>1. phase[c] = "idle" /\ Client!Send(c, 0)
    BY <1>2 DEF Client!Start
  <2> QED
    BY <1>1, <2>1, AttemptFacts, SendInv DEF Lockstep
<1>3. CASE Client!Resume(c)
  <2> DEFINE a == attempt[c] + 1
  <2>1. phase[c] = "sleeping" /\ Client!Send(c, a)
    BY <1>3 DEF Client!Resume
  <2>2. attempt[c] < MaxRetries /\ Behind(c, attempt[c])
    BY <1>1, <2>1 DEF Lockstep
  <2>3. a \in Attempts /\ \A b \in Attempts : /\ b > a => b > attempt[c]
                                              /\ b < a => b < attempt[c] \/ b = attempt[c]
    BY <1>1, <2>2, SystemAssumption DEF Attempts
  <2> HIDE DEF a
  <2> QED
    BY <1>1, <2>1, <2>2, <2>3, SendInv DEF Lockstep
<1>4. CASE Client!Receive(c)
  <2>1. Exchanged(c, attempt[c]) /\ exchange[c][attempt[c]] = "answered"
    BY <1>1, <1>4 DEF IInv, Client!Receive
  <2>2. Justified(c, Client!Decode(response[c][attempt[c]]))
    BY <1>1, <2>1, ReceivedJustified
  <2> QED
    BY <1>1, <1>4, <2>2, SettleInv DEF Client!Receive
<1>5. CASE Client!TransportError(c)
  <2>1. Justified(c, Client!Err(Client!Fallback))
    BY FallbackFacts DEF Justified
  <2> QED
    BY <1>1, <1>5, <2>1, SettleInv DEF Client!TransportError
<1> QED
  BY <1>2, <1>3, <1>4, <1>5 DEF Consumer, Client!ClientStep

-----------------------------------------------------------------------------
(* The theorems.                                                           *)

\* Before any call the invariant holds.
LEMMA InitInv == Init => IInv
<1> SUFFICES ASSUME Init
             PROVE  IInv
  OBVIOUS
<1>1. ServiceInv
  BY SameInit, SystemAssumption, ModuleProofs!InitInv DEF Init, ServiceInv
<1>2. /\ phase = [c \in Calls |-> "idle"] /\ attempt = [c \in Calls |-> 0]
      /\ outcome = [c \in Calls |-> Client!Pending]
      /\ exchange = [c \in Calls |-> [a \in Attempts |-> "none"]]
      /\ response = [c \in Calls |-> [a \in Attempts |-> Client!NoResponse]]
      /\ task = [s \in Sends |-> "idle"]
  BY DEF Init, Client!Init, Client!Attempts, Attempts, Module!Init
<1>3. Shaped
  BY <1>2, AttemptFacts DEF Shaped, Client!Outcomes
<1>4. \A c \in Calls, a \in Attempts : Exchanged(c, a)
  BY <1>2 DEF Exchanged, Sends
<1>5. \A c \in Calls : ClientInv(c)
  BY <1>2, AttemptFacts DEF ClientInv, Lockstep
<1> QED
  BY <1>1, <1>3, <1>4, <1>5 DEF IInv

\* Every step keeps it.
LEMMA NextInv ==
  ASSUME IInv, [Next]_vars
  PROVE  IInv'
<1>1. CASE UNCHANGED vars
  <2>1. ServiceInv' /\ Shaped'
    BY <1>1, ServiceKept DEF IInv, Shaped, vars, loopVars, httpVars
  <2>2. ASSUME NEW c \in Calls
        PROVE  ClientInv(c)' /\ \A a \in Attempts : Exchanged(c, a)'
    BY <1>1, OtherCalls DEF vars, loopVars, httpVars
  <2> QED
    BY <2>1, <2>2 DEF IInv
<1>2. ASSUME NEW c \in Calls, Consumer(c)
      PROVE  IInv'
  BY <1>2, ConsumerInv
<1>3. ASSUME NEW c \in Calls, NEW a \in Attempts,
             Arrive(c, a) \/ Dropped(c, a) \/ Work(<<c, a>>)
      PROVE  IInv'
  <2>1. /\ UNCHANGED <<loopVars, httpVars>> /\ SendStep(<<c, a>>)
        /\ Arrive(c, a) \/ task[<<c, a>>] # "idle"
    BY <1>3 DEF Arrive, Dropped, Work, SendStep, Module!TaskStep, Module!Cancel,
                Module!Deliver, Module!DeliverReturned, Module!Record, Module!Respond,
                Module!ConnectionBroken
  <2>2. Module!Send(<<c, a>>) => exchange[c][a] # "none"
    BY <2>1 DEF Arrive, OnItsWay, Module!Send
  <2>3. <<c, a>> \in Sends /\ <<c, a>>[1] = c /\ <<c, a>>[2] = a
    BY DEF Sends
  <2> QED
    BY <2>1, <2>2, <2>3, ServiceStepInv
<1>4. ASSUME NEW c \in Calls, NEW a \in Attempts, Reply(c, a) \/ Forge(c, a) \/ Lose(c, a)
      PROVE  IInv'
  BY <1>4, AnswerInv
<1>5. CASE Restart
  BY <1>5, ServiceStepInv DEF Restart
<1> QED
  BY <1>1, <1>2, <1>3, <1>4, <1>5 DEF Next

\* In every reachable state the inductive invariant holds.
LEMMA Invariance == Spec => []IInv
<1>1. IInv /\ [Next]_vars => IInv'
  BY NextInv
<1> QED
  BY InitInv, <1>1, PTL DEF Spec

\* The module, the loop of the client and the exchanges between them keep
\* their types; a request that was never sent has no task.
THEOREM TypeCorrect == Spec => []TypeOK
<1>1. IInv => TypeOK
  BY SameTypes DEF IInv, ServiceInv, Shaped, Exchanged, TypeOK
<1> QED
  BY <1>1, Invariance, PTL

\* A retry never overlaps the attempt before it: when a request reaches the
\* module, each earlier one of the same call was refused by it.
THEOREM AttemptsApart == Spec => []AttemptsDoNotOverlap
<1>1. IInv => AttemptsDoNotOverlap
  <2> SUFFICES ASSUME IInv, NEW c \in Calls, NEW a \in Attempts, NEW b \in Attempts,
                      a < b, task[<<c, b>>] # "idle"
               PROVE  task[<<c, a>>] = "over" /\ performed[<<c, a>>] = {}
    BY DEF AttemptsDoNotOverlap
  <2>1. Lockstep(c) /\ Exchanged(c, b) /\ attempt[c] \in Attempts
    BY DEF IInv, ClientInv, Shaped
  <2>2. a < attempt[c]
    BY <2>1, AttemptFacts DEF Lockstep, Exchanged
  <2>3. reply[<<c, a>>] = "refused" /\ <<c, a>> \in Sends
    BY <2>1, <2>2 DEF Lockstep, Behind, Sends
  <2> QED
    BY <2>3, SendFacts DEF IInv
<1> QED
  BY <1>1, Invariance, PTL

\* A consumer that was told its notification went out finds its status, as
\* long as the service has not been restarted since it was told.
THEOREM OkFindsStatus == Spec => []OkIsKnown
<1>1. IInv => OkIsKnown
  <2> SUFFICES ASSUME IInv, NEW c \in Calls, NEW a \in Attempts,
                      outcome[c] = Client!Ok(Client!Receipt(a)),
                      told_at[<<c, a>>] = lifetime
               PROVE  statuses[Module!NotificationId(
                        Module!Response(<<c, a>>).delivery_id)] # "absent"
    BY DEF OkIsKnown
  <2> DEFINE s == <<c, a>>
  <2>1. reply[s] = "ok" /\ s \in Sends
    <3>1. ~(outcome[c] = Client!Pending) /\ \A e : outcome[c] # Client!Err(e)
      BY OutcomeFacts
    <3>2. outcome[c] = Client!Ok(Client!Receipt(attempt[c]))
          /\ reply[<<c, attempt[c]>>] = "ok"
      BY <3>1 DEF IInv, ClientInv, Justified
    <3>3. \A v, w : Client!Ok(v) = Client!Ok(w) => v = w
      BY OutcomeFacts
    <3>4. Client!Receipt(a).accepted_by = Client!Receipt(attempt[c]).accepted_by
      BY <3>2, <3>3
    <3>5. a = attempt[c]
      BY <3>4 DEF Client!Receipt
    <3> QED
      BY <3>2, <3>5 DEF Sends
  <2>2. ModuleProofs!Entered(s) /\ ModuleProofs!BackendKept(s) /\ performed[s] # {}
    BY <2>1, SendFacts DEF IInv, ServiceInv, ModuleProofs!IInv, ModuleProofs!SendInv,
                           ModuleProofs!KeptWhileKnown
  <2>3. ModuleProofs!Response(s) \in ModuleProofs!DeliverResponses
    BY <2>1, <2>2, SystemAssumption, ModuleProofs!ResponseFacts
  <2>4. ModuleProofs!InitialState(ModuleProofs!Response(s)) # "absent"
    BY DEF ModuleProofs!InitialState
  <2>5. Module!Response(s) = ModuleProofs!Response(s)
        /\ \A d : Module!NotificationId(d) = ModuleProofs!NotificationId(d)
    BY DEF Module!Response, ModuleProofs!Response,
           Module!NotificationId, ModuleProofs!NotificationId
  <2> QED
    BY <2>2, <2>4, <2>5 DEF ModuleProofs!Entered
<1> QED
  BY <1>1, Invariance, PTL

-----------------------------------------------------------------------------
(* The consumer of the REST binding has the contract of the trait.         *)

\* The state of the contract: a delivery counts for the call whose attempt it
\* was made for.
effects == [c \in Calls |-> UNION {{a} \X performed[<<c, a>>] : a \in Attempts}]
verdict == [c \in Calls |-> Client!Verdict(outcome[c])]

\* A call has had no effect when none of its attempts has.
LEMMA NoEffect ==
  ASSUME NEW c \in Calls, \A a \in Attempts : performed[<<c, a>>] = {}
  PROVE  effects[c] = {}
BY DEF effects

\* A delivery of one of the attempts of a call is an effect of the call.
LEMMA SomeEffect ==
  ASSUME NEW c \in Calls, NEW a \in Attempts, NEW x, x \in performed[<<c, a>>]
  PROVE  <<a, x>> \in effects[c]
<1>1. <<a, x>> \in {a} \X performed[<<c, a>>]
  OBVIOUS
<1>2. {a} \X performed[<<c, a>>] \in {{b} \X performed[<<c, b>>] : b \in Attempts}
  OBVIOUS
<1>3. <<a, x>> \in UNION {{b} \X performed[<<c, b>>] : b \in Attempts}
  BY <1>1, <1>2
<1> QED
  BY <1>3 DEF effects

\* What each outcome means in the contract.
LEMMA VerdictFacts ==
  /\ Client!Verdict(Client!Pending) = "none"
  /\ \A v : Client!Verdict(Client!Ok(v)) = "ok"
  /\ \A e : Client!Verdict(Client!Err(e)) =
              IF Client!IsRefusal(e) THEN "refused" ELSE "unknown"
BY DEF Client!Verdict, Client!Pending, Client!Ok, Client!Err

\* Steps that deliver nothing and settle no call are invisible.
LEMMA Stutter ==
  ASSUME performed' = performed, outcome' = outcome
  PROVE  UNCHANGED EndToEnd!vars
BY DEF EndToEnd!vars

\* When the last attempt was refused, no attempt has had an effect: those
\* before were refused too and those after were never made.
LEMMA RefusedHasNone ==
  ASSUME IInv, NEW c \in Calls, Behind(c, attempt[c])
  PROVE  effects[c] = {}
<1> SUFFICES ASSUME NEW a \in Attempts
             PROVE  performed[<<c, a>>] = {}
  BY NoEffect
<1>1. Lockstep(c) /\ Exchanged(c, a) /\ attempt[c] \in Attempts /\ <<c, a>> \in Sends
  BY DEF IInv, ClientInv, Shaped, Sends
<1>2. reply[<<c, a>>] = "refused" \/ task[<<c, a>>] = "idle"
  BY <1>1, AttemptFacts DEF Lockstep, Behind, Exchanged
<1> QED
  BY <1>1, <1>2, SendFacts DEF IInv

\* Settling a call is the contract's Return, backing off is invisible.
LEMMA SettleRefines ==
  ASSUME IInv, UNCHANGED moduleVars, NEW c \in Calls, NEW r,
         phase[c] = "waiting", Client!Settle(c, r), Justified(c, r)
  PROVE  [EndToEnd!Next]_EndToEnd!vars
<1>1. performed' = performed
  BY DEF moduleVars
<1>2. CASE Client!BackOff(c, r)
  BY <1>1, <1>2, Stutter DEF Client!BackOff
<1>3. CASE Client!Return(c, r)
  <2> DEFINE v == Client!Verdict(r)
  <2>1. outcome' = [outcome EXCEPT ![c] = r] /\ outcome[c] = Client!Pending
        /\ attempt[c] \in Attempts /\ DOMAIN outcome = Calls
    BY <1>3 DEF Client!Return, IInv, ClientInv, Shaped
  <2>2. effects' = effects
    BY <1>1 DEF effects
  <2>3. verdict[c] = "none" /\ verdict' = [verdict EXCEPT ![c] = v]
    <3>1. \A d \in Calls : outcome'[d] = IF d = c THEN r ELSE outcome[d]
      BY <2>1
    <3> QED
      BY <2>1, <3>1, VerdictFacts DEF verdict
  <2>4. /\ v \in {"ok", "refused", "unknown"}
        /\ v = "ok" => effects[c] # {}
        /\ v = "refused" => effects[c] = {}
    <3>1. CASE r = Client!Ok(Client!Receipt(attempt[c])) /\ reply[<<c, attempt[c]>>] = "ok"
      <4>1. performed[<<c, attempt[c]>>] # {}
        BY <2>1, <3>1, SendFacts DEF IInv, Sends
      <4>2. effects[c] # {}
        BY <2>1, <4>1, SomeEffect
      <4> QED
        BY <3>1, <4>2, VerdictFacts
    <3>2. ASSUME NEW e \in Client!Errors, r = Client!Err(e),
                 Client!IsRefusal(e) => Behind(c, attempt[c])
          PROVE  /\ v \in {"ok", "refused", "unknown"}
                 /\ v = "ok" => effects[c] # {}
                 /\ v = "refused" => effects[c] = {}
      BY <3>2, VerdictFacts, RefusedHasNone
    <3> QED
      BY <3>1, <3>2 DEF Justified
  <2> HIDE DEF v
  <2>5. EndToEnd!Return(c, v)
    BY <2>2, <2>3, <2>4 DEF EndToEnd!Return, effects, verdict
  <2>6. v \in EndToEnd!Results \ {"none"}
    BY <2>4 DEF EndToEnd!Results
  <2> QED
    BY <2>5, <2>6 DEF EndToEnd!Next
<1> QED
  BY <1>2, <1>3 DEF Client!Settle

\* A step of the loop sends, which is invisible, or settles.
LEMMA ConsumerRefines ==
  ASSUME IInv, NEW c \in Calls, Consumer(c)
  PROVE  [EndToEnd!Next]_EndToEnd!vars
<1>1. UNCHANGED moduleVars
  BY DEF Consumer
<1>2. CASE Client!Start(c) \/ Client!Resume(c)
  BY <1>1, <1>2, Stutter DEF Client!Start, Client!Resume, Client!Send, moduleVars
<1>3. CASE Client!Receive(c)
  <2>1. attempt[c] \in Attempts /\ Exchanged(c, attempt[c])
        /\ exchange[c][attempt[c]] = "answered"
    BY <1>3 DEF Client!Receive, IInv, Shaped
  <2>2. Justified(c, Client!Decode(response[c][attempt[c]]))
    BY <2>1, ReceivedJustified
  <2> QED
    BY <1>1, <1>3, <2>2, SettleRefines DEF Client!Receive
<1>4. CASE Client!TransportError(c)
  <2>1. Justified(c, Client!Err(Client!Fallback))
    BY FallbackFacts DEF Justified
  <2> QED
    BY <1>1, <1>4, <2>1, SettleRefines DEF Client!TransportError
<1> QED
  BY <1>2, <1>3, <1>4 DEF Consumer, Client!ClientStep

\* A delivery is the contract's Perform: the other attempts of its call have
\* had none, and the call has not been told anything it would contradict.
LEMMA DeliverRefines ==
  ASSUME IInv, NEW c \in Calls, NEW a \in Attempts, Module!Deliver(<<c, a>>),
         UNCHANGED <<loopVars, httpVars>>
  PROVE  [EndToEnd!Next]_EndToEnd!vars
<1> DEFINE s == <<c, a>>
<1>1. PICK resp \in Module!DeliverResponses : Module!Backend!Perform(s, resp)
  BY DEF Module!Deliver
<1>2. /\ performed[s] = {} /\ result[s] \in {"none", "unknown"} /\ task[s] # "idle"
      /\ performed' = [performed EXCEPT ![s] = {resp}] /\ outcome' = outcome
      /\ s \in Sends /\ DOMAIN performed = Sends
  BY <1>1 DEF Module!Deliver, Module!Backend!Perform, loopVars, IInv, ServiceInv,
              ModuleProofs!TypeOK, Sends
<1>3. reply[s] \notin {"ok", "refused"}
  BY <1>2, SendFacts DEF IInv
<1>4. Lockstep(c) /\ attempt[c] \in Attempts /\ Exchanged(c, a)
  BY DEF IInv, ClientInv, Shaped
<1>5. a = attempt[c]
  BY <1>2, <1>3, <1>4, AttemptFacts DEF Lockstep, Behind, Exchanged
<1>6. effects[c] = {}
  <2> SUFFICES ASSUME NEW b \in Attempts, b # a
               PROVE  performed[<<c, b>>] = {}
    BY <1>2, NoEffect
  <2>1. <<c, b>> \in Sends /\ Exchanged(c, b)
    BY DEF Sends, IInv
  <2>2. reply[<<c, b>>] = "refused" \/ task[<<c, b>>] = "idle"
    BY <1>4, <1>5, <2>1, AttemptFacts DEF Lockstep, Behind, Exchanged
  <2> QED
    BY <2>1, <2>2, SendFacts DEF IInv
<1>7. effects' = [effects EXCEPT ![c] = {<<a, resp>>}]
  <2>1. \A d \in Calls, b \in Attempts :
          performed'[<<d, b>>] = IF d = c /\ b = a THEN {resp} ELSE performed[<<d, b>>]
    BY <1>2 DEF Sends
  <2>2. ASSUME NEW d \in Calls, d # c
        PROVE  effects'[d] = effects[d]
    BY <2>1, <2>2 DEF effects
  <2>3. effects'[c] = {<<a, resp>>}
    <3>1. \A b \in Attempts : b # a => performed[<<c, b>>] = {}
      BY <1>6, SomeEffect
    <3>2. \A b \in Attempts :
            {b} \X performed'[<<c, b>>] = IF b = a THEN {<<a, resp>>} ELSE {}
      BY <2>1, <3>1
    <3>3. {<<a, resp>>} \in {{b} \X performed'[<<c, b>>] : b \in Attempts}
      BY <3>2
    <3>4. \A e \in {{b} \X performed'[<<c, b>>] : b \in Attempts} :
            e \subseteq {<<a, resp>>}
      BY <3>2
    <3>5. UNION {{b} \X performed'[<<c, b>>] : b \in Attempts} = {<<a, resp>>}
      BY <3>3, <3>4
    <3> QED
      BY <3>5 DEF effects
  <2> QED
    BY <2>2, <2>3 DEF effects
<1>8. verdict[c] \in {"none", "unknown"}
  <2>1. CASE outcome[c] = Client!Pending
    BY <2>1, VerdictFacts DEF verdict
  <2>2. CASE Justified(c, outcome[c])
    <3>1. PICK e \in Client!Errors : outcome[c] = Client!Err(e)
            /\ (Client!IsRefusal(e) => Behind(c, attempt[c]))
      BY <1>3, <1>5, <2>2 DEF Justified
    <3>2. ~Client!IsRefusal(e)
      BY <1>3, <1>5, <3>1 DEF Behind
    <3> QED
      BY <3>1, <3>2, VerdictFacts DEF verdict
  <2> QED
    BY <2>1, <2>2 DEF IInv, ClientInv
<1>9. verdict' = verdict
  BY <1>2 DEF verdict
<1>10. EndToEnd!Perform(c, <<a, resp>>)
  BY <1>6, <1>7, <1>8, <1>9 DEF EndToEnd!Perform, effects, verdict
<1>11. <<a, resp>> \in Attempts \X Module!DeliverResponses
  OBVIOUS
<1> QED
  BY <1>10, <1>11 DEF EndToEnd!Next

\* Every behaviour of client, network and service together, with retries,
\* time-outs, proxies, dropped tasks and restarts, is a behaviour of the
\* contract that a consumer of the trait relies on.
THEOREM Refinement == Spec => ImplementsContract
<1>1. Init => EndToEnd!Init
  <2> SUFFICES ASSUME Init
               PROVE  /\ effects = [c \in Calls |-> {}]
                      /\ verdict = [c \in Calls |-> "none"]
    BY DEF EndToEnd!Init, effects, verdict
  <2>1. performed = [s \in Sends |-> {}] /\ outcome = [c \in Calls |-> Client!Pending]
    BY DEF Init, Module!Init, Module!Backend!Init, Client!Init
  <2> QED
    BY <2>1, VerdictFacts, NoEffect DEF effects, verdict, Sends
<1>2. ASSUME IInv, [Next]_vars
      PROVE  [EndToEnd!Next]_EndToEnd!vars
  <2>1. CASE UNCHANGED vars
    BY <2>1, Stutter DEF vars, loopVars, moduleVars
  <2>2. ASSUME NEW c \in Calls, Consumer(c)
        PROVE  [EndToEnd!Next]_EndToEnd!vars
    BY <1>2, <2>2, ConsumerRefines
  <2>3. ASSUME NEW c \in Calls, NEW a \in Attempts, Work(<<c, a>>)
        PROVE  [EndToEnd!Next]_EndToEnd!vars
    <3>1. CASE Module!Deliver(<<c, a>>)
      BY <1>2, <2>3, <3>1, DeliverRefines DEF Work
    <3>2. CASE Module!TaskStep(<<c, a>>)
      BY <2>3, <3>2, Stutter
         DEF Work, loopVars, Module!TaskStep, Module!DeliverReturned,
             Module!Backend!Return, Module!Record, Module!Respond,
             Module!ConnectionBroken, Module!backendVars
    <3> QED
      BY <2>3, <3>1, <3>2 DEF Work
  <2>4. ASSUME NEW c \in Calls, NEW a \in Attempts,
               \/ Arrive(c, a) \/ Dropped(c, a)
               \/ Reply(c, a) \/ Forge(c, a) \/ Lose(c, a)
        PROVE  [EndToEnd!Next]_EndToEnd!vars
    BY <2>4, Stutter DEF Arrive, Dropped, Reply, Forge, Lose, loopVars, moduleVars,
                         Module!Send, Module!Cancel, Module!backendVars
  <2>5. CASE Restart
    BY <2>5, Stutter DEF Restart, loopVars, Module!Restart, Module!backendVars
  <2> QED
    BY <1>2, <2>1, <2>2, <2>3, <2>4, <2>5 DEF Next
<1> QED
  BY <1>1, <1>2, Invariance, PTL DEF Spec, ImplementsContract, EndToEnd!Spec
=============================================================================
