------------------------- MODULE NotificationSystem -------------------------
(***************************************************************************)
(* The notification service as its REST consumers meet it: the generated   *)
(* NotificationApiRestClient with its retries (RestClient), the handlers   *)
(* that map errors to responses, and the module with its backend           *)
(* (NotificationModule).  Each attempt of a call is a request of its own   *)
(* and so a task of its own in the module.                                 *)
(*                                                                         *)
(* The two ends only meet in "exchange" and "response".  A client that     *)
(* gives an attempt up leaves its task running until the server notices;   *)
(* a request that is still on its way may arrive after that; the server    *)
(* may restart with tasks in it, and a proxy may answer in its place, also *)
(* for a request that it has handed on and that arrives later.      *)
(***************************************************************************)
EXTENDS Naturals, Sequences, FiniteSets

CONSTANTS Calls, RetryableCalls, MaxRetries, Values, Unset, Text,
          DeliveryIds, Users, Channels, MaxRestarts

\* What the two modules assume of their constants.
ASSUME SystemAssumption == /\ RetryableCalls \subseteq Calls
                           /\ {Unset, Text} \subseteq Values
                           /\ MaxRetries \in Nat /\ MaxRestarts \in Nat

VARIABLES phase, attempt, outcome, exchange, response,   \* of RestClient
          performed, result, task, request, recipient, reply, told_at,
          statuses, observed, lifetime                   \* of NotificationModule

loopVars == <<phase, attempt, outcome>>
httpVars == <<exchange, response>>
moduleVars == <<performed, result, task, request, recipient, reply, told_at,
                statuses, observed, lifetime>>
vars == <<loopVars, httpVars, moduleVars>>

Attempts == 0..MaxRetries
Sends == Calls \X Attempts

Module == INSTANCE NotificationModule
Client == INSTANCE RestClient WITH delivered <- {s \in Sends : performed[s] # {}}

TypeOK == /\ Module!TypeOK
          /\ phase \in [Calls -> {"idle", "waiting", "sleeping", "returned"}]
          /\ attempt \in [Calls -> Attempts]
          /\ outcome \in [Calls -> Client!Outcomes]
          /\ \A c \in Calls, a \in Attempts :
               exchange[c][a] = "none" => task[<<c, a>>] = "idle"

Init == Module!Init /\ Client!Init

-----------------------------------------------------------------------------
(* The consumer's end.                                                     *)

Consumer(c) == /\ UNCHANGED moduleVars
               /\ Client!Start(c) \/ Client!ClientStep(c)

-----------------------------------------------------------------------------
(* The server's end.                                                       *)

\* What a proxy answers when it has lost patience with the service.
ProxyAnswers == {Client!Plain(503), Client!ForeignProblem(503)}

\* The request is on its way, also when a proxy that has handed it on has
\* answered it meanwhile.
OnItsWay(c, a) == \/ exchange[c][a] = "open"
                  \/ exchange[c][a] = "answered" /\ response[c][a] \in ProxyAnswers

\* axum hands the request to api_send.
Arrive(c, a) == /\ OnItsWay(c, a)
                /\ Module!Send(<<c, a>>)
                /\ UNCHANGED <<loopVars, httpVars>>

Gone(c, a) == phase[c] # "waiting" \/ attempt[c] # a \/ exchange[c][a] # "open"

\* The task is dropped when the server sees that its connection is gone.
Dropped(c, a) == /\ Gone(c, a)
                 /\ Module!Cancel(<<c, a>>)
                 /\ UNCHANGED <<loopVars, httpVars>>

Work(s) == /\ Module!TaskStep(s) \/ Module!Deliver(s)
           /\ UNCHANGED <<loopVars, httpVars>>

Restart == Module!Restart /\ UNCHANGED <<loopVars, httpVars>>

\* MUTANT: an error whose variant is not known is reported as unavailable.
BugReplies(c, a) ==
  CASE reply[<<c, a>>] = "ok"      -> {Client!Success(a)}
    [] reply[<<c, a>>] = "refused" -> Client!Refusals
    [] OTHER                       -> {Client!BareProblem("DeliveryUnavailable")}

\* What api_send makes of the result of send().
Replies(c, a) ==
  CASE reply[<<c, a>>] = "ok"      -> {Client!Success(a)}
    [] reply[<<c, a>>] = "refused" -> Client!Refusals
    [] OTHER                       -> {Client!ErrorResponse(Client!Fallback)}

Answered(c, a, r) == /\ exchange' = [exchange EXCEPT ![c][a] = "answered"]
                     /\ response' = [response EXCEPT ![c][a] = r]

Reply(c, a) == /\ exchange[c][a] = "open"
               /\ task[<<c, a>>] = "over"
               /\ \E r \in Replies(c, a) : Answered(c, a, r)
               /\ UNCHANGED <<loopVars, moduleVars>>

-----------------------------------------------------------------------------
(* The network.                                                            *)

\* A proxy answers for the service, whether or not the request got there.
Forge(c, a) == /\ exchange[c][a] = "open"
               /\ \E r \in ProxyAnswers : Answered(c, a, r)
               /\ UNCHANGED <<loopVars, moduleVars>>

Lose(c, a) == /\ exchange[c][a] = "open"
              /\ exchange' = [exchange EXCEPT ![c][a] = "lost"]
              /\ UNCHANGED <<loopVars, response, moduleVars>>

Next == \/ \E c \in Calls : Consumer(c)
        \/ \E c \in Calls, a \in Attempts :
             \/ Arrive(c, a) \/ Dropped(c, a) \/ Work(<<c, a>>)
             \/ Reply(c, a) \/ Forge(c, a) \/ Lose(c, a)
        \/ Restart

Spec == Init /\ [][Next]_vars

-----------------------------------------------------------------------------
(* Properties.                                                             *)

EndToEnd == INSTANCE DeliveryContract
              WITH Effects <- Attempts \X Module!DeliverResponses,
                   performed <- [c \in Calls |->
                     UNION {{a} \X performed[<<c, a>>] : a \in Attempts}],
                   result <- [c \in Calls |-> Client!Verdict(outcome[c])]

\* The consumer of the REST binding has the contract of the trait, retries,
\* time-outs, proxies, dropped tasks and restarts of the service included.
ImplementsContract == EndToEnd!Spec

\* A retry never overlaps the attempt before it: when a request reaches the
\* module, earlier ones of the same call are over, and delivered nothing.
AttemptsDoNotOverlap ==
  \A c \in Calls : \A a, b \in Attempts :
    a < b /\ task[<<c, b>>] # "idle" =>
      task[<<c, a>>] = "over" /\ performed[<<c, a>>] = {}

\* A consumer that was told its notification went out finds its status, as
\* long as the service has not been restarted since.
OkIsKnown ==
  \A c \in Calls : \A a \in Attempts :
    outcome[c] = Client!Ok(Client!Receipt(a)) /\ told_at[<<c, a>>] = lifetime =>
      statuses[Module!NotificationId(Module!Response(<<c, a>>).delivery_id)] # "absent"
=============================================================================
