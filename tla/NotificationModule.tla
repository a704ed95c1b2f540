------------------------- MODULE NotificationModule -------------------------
(***************************************************************************)
(* NotificationModule: the API layer between the consumers and whatever    *)
(* NotificationBackend was bound.  The backend is DeliveryContract itself, *)
(* so that the module is checked against any binding that implements it;   *)
(* the module in turn must give its own callers the same contract.         *)
(*                                                                         *)
(* Sends run concurrently, in tasks of one process that share the map of   *)
(* statuses.  A task waits at one point only, the await of deliver(): there *)
(* it can be dropped, when its caller goes away.  The process can restart  *)
(* at any time, and the map is lost with it.                               *)
(***************************************************************************)
EXTENDS Naturals, Sequences

CONSTANTS Sends,         \* calls of send()
          DeliveryIds,   \* ids the backend may give a delivery
          Users,         \* user ids, as sequences of characters
          Channels,
          MaxRestarts    \* bound on the restarts explored

ASSUME ModuleAssumption == MaxRestarts \in Nat

\* What the backend does for a request is the DeliverResponse it makes of it.
DeliverResponses == [delivery_id : DeliveryIds, accepted : BOOLEAN]

VARIABLES performed, result,  \* of the backend, see DeliveryContract
          task,               \* where each send is
          request,            \* the request of each send
          recipient,          \* what it handed to the backend
          reply,              \* what its caller got
          told_at,            \* the process lifetime in which it got it
          statuses,           \* the shared map; "absent" for a missing key
          observed,           \* what the caller of a send last read of it
          lifetime            \* restarts so far

Backend == INSTANCE DeliveryContract WITH Calls <- Sends, Effects <- DeliverResponses

backendVars == <<performed, result>>
callVars == <<request, recipient, told_at>>
vars == <<backendVars, task, callVars, reply, statuses, observed, lifetime>>

-----------------------------------------------------------------------------
Domain == [email |-> "email.com", sms |-> "sms.gateway", push |-> "push.service"]

\* format!("{}@{}", user_id, domain)
Recipient(req) == req.user_id \o <<"@", Domain[req.channel]>>

\* format!("ntf-{}", delivery_id)
NotificationId(delivery_id) == <<"ntf", delivery_id>>

NotificationIds == {NotificationId(d) : d \in DeliveryIds}

\* MUTANT: an accepted delivery is taken for a finished one.
BugInitialState(resp) == IF resp.accepted THEN "Delivered" ELSE "Failed"

\* MUTANT: the flag is read the wrong way round.
BugSwappedState(resp) == IF resp.accepted THEN "Failed" ELSE "Pending"

InitialState(resp) == IF resp.accepted THEN "Pending" ELSE "Failed"

Response(s) == CHOOSE resp \in performed[s] : TRUE

-----------------------------------------------------------------------------
Requests == [user_id : Users, channel : Channels]

TypeOK ==
  /\ performed \in [Sends -> SUBSET DeliverResponses]
  /\ result \in [Sends -> Backend!Results]
  /\ task \in [Sends -> {"idle", "delivering", "recording", "recorded", "cut", "over"}]
  /\ DOMAIN request = Sends /\ DOMAIN recipient = Sends
  /\ \A s \in Sends : task[s] # "idle" =>
       request[s] \in Requests /\ recipient[s] = Recipient(request[s])
  /\ reply \in [Sends -> Backend!Results]
  /\ statuses \in [NotificationIds -> {"absent", "Pending", "Failed"}]
  /\ observed \in [Sends -> {"nothing", "NotificationNotFound", "Pending", "Failed"}]
  /\ lifetime \in 0..MaxRestarts
  /\ told_at \in [Sends -> 0..MaxRestarts]

Init ==
  /\ Backend!Init
  /\ task = [s \in Sends |-> "idle"]
  /\ request = [s \in Sends |-> <<>>]
  /\ recipient = [s \in Sends |-> <<>>]
  /\ reply = [s \in Sends |-> "none"]
  /\ told_at = [s \in Sends |-> 0]
  /\ statuses = [n \in NotificationIds |-> "absent"]
  /\ observed = [s \in Sends |-> "nothing"]
  /\ lifetime = 0

-----------------------------------------------------------------------------
(* send().                                                                 *)

Send(s) ==
  /\ task[s] = "idle"
  /\ \E req \in Requests :
       /\ request' = [request EXCEPT ![s] = req]
       /\ recipient' = [recipient EXCEPT ![s] = Recipient(req)]
  /\ task' = [task EXCEPT ![s] = "delivering"]
  /\ UNCHANGED <<backendVars, told_at, reply, statuses, observed, lifetime>>

\* The caller of s gets its answer.
Tell(s, answer) ==
  /\ reply' = [reply EXCEPT ![s] = answer]
  /\ told_at' = [told_at EXCEPT ![s] = lifetime]

\* MUTANT: every error of the backend is reported as one typed error.
BugError(r) == "refused"

\* Errors pass through send() unchanged, by the operator "?".
Error(r) == r

\* MUTANT: the task waits for the delivery and not for the answer.
BugDeliverReturned(s) ==
  /\ task[s] = "delivering"
  /\ Backend!Return(s, "ok")
  /\ task' = [task EXCEPT ![s] = "recording"]
  /\ UNCHANGED <<reply, told_at>>
  /\ UNCHANGED <<request, recipient, statuses, observed, lifetime>>

\* The await ends.  With an error the send is over.
DeliverReturned(s) ==
  /\ task[s] = "delivering"
  /\ \E r \in {"ok", "refused", "unknown"} :
       /\ Backend!Return(s, r)
       /\ IF r = "ok"
          THEN /\ task' = [task EXCEPT ![s] = "recording"]
               /\ UNCHANGED <<reply, told_at>>
          ELSE /\ task' = [task EXCEPT ![s] = "over"]
               /\ Tell(s, Error(r))
  /\ UNCHANGED <<request, recipient, statuses, observed, lifetime>>

\* MUTANT: only accepted deliveries are entered.
BugRecord(s) ==
  /\ task[s] = "recording"
  /\ statuses' = IF Response(s).accepted
                 THEN [statuses EXCEPT ![NotificationId(Response(s).delivery_id)] = "Pending"]
                 ELSE statuses
  /\ task' = [task EXCEPT ![s] = "recorded"]
  /\ UNCHANGED <<backendVars, callVars, reply, observed, lifetime>>

\* The task has the write lock for the length of one insert.
Record(s) ==
  /\ task[s] = "recording"
  /\ LET resp == Response(s)
     IN  statuses' = [statuses EXCEPT ![NotificationId(resp.delivery_id)] = InitialState(resp)]
  /\ task' = [task EXCEPT ![s] = "recorded"]
  /\ UNCHANGED <<backendVars, callVars, reply, observed, lifetime>>

Respond(s) ==
  /\ task[s] = "recorded"
  /\ Tell(s, "ok")
  /\ task' = [task EXCEPT ![s] = "over"]
  /\ UNCHANGED <<backendVars, request, recipient, statuses, observed, lifetime>>

\* The caller goes away while the task awaits deliver(); the task is dropped.
Cancel(s) ==
  /\ task[s] = "delivering"
  /\ task' = [task EXCEPT ![s] = "over"]
  /\ Tell(s, "unknown")
  /\ UNCHANGED <<backendVars, request, recipient, statuses, observed, lifetime>>

-----------------------------------------------------------------------------
(* get_status(), asked by the caller of a send about its notification.     *)

\* MUTANT: the entry is taken out of the map rather than cloned.
BugGetStatus(s) ==
  /\ reply[s] = "ok"
  /\ LET n == NotificationId(Response(s).delivery_id)
     IN  /\ observed' = [observed EXCEPT ![s] =
              IF statuses[n] = "absent" THEN "NotificationNotFound" ELSE statuses[n]]
         /\ statuses' = [statuses EXCEPT ![n] = "absent"]
  /\ UNCHANGED <<backendVars, task, callVars, reply, lifetime>>

GetStatus(s) ==
  /\ reply[s] = "ok"
  /\ LET n == NotificationId(Response(s).delivery_id)
     IN  observed' = [observed EXCEPT ![s] =
           IF statuses[n] = "absent" THEN "NotificationNotFound" ELSE statuses[n]]
  /\ UNCHANGED <<backendVars, task, callVars, reply, statuses, lifetime>>

-----------------------------------------------------------------------------
(* The environment.                                                        *)

\* The backend carries a request out.  Both plugins refuse an empty recipient
\* and make the id from the clock in nanoseconds: that no two deliveries read
\* the same tick is an assumption.
Deliver(s) ==
  /\ task[s] # "idle"
  /\ recipient[s] # <<>>
  /\ \E resp \in DeliverResponses :
       /\ Backend!Perform(s, resp)
       /\ \A t \in Sends : \A r \in performed[t] : r.delivery_id # resp.delivery_id
  /\ UNCHANGED <<task, callVars, reply, statuses, observed, lifetime>>

\* The process starts again with an empty map and without its tasks.
Restart ==
  /\ lifetime < MaxRestarts
  /\ lifetime' = lifetime + 1
  /\ statuses' = [n \in NotificationIds |-> "absent"]
  /\ task' = [s \in Sends |-> IF task[s] \in {"idle", "over"} THEN task[s] ELSE "cut"]
  /\ UNCHANGED <<backendVars, callVars, reply, observed>>

\* The caller of a task that is gone sees a broken connection.
ConnectionBroken(s) ==
  /\ task[s] = "cut"
  /\ task' = [task EXCEPT ![s] = "over"]
  /\ Tell(s, "unknown")
  /\ UNCHANGED <<backendVars, request, recipient, statuses, observed, lifetime>>

-----------------------------------------------------------------------------
TaskStep(s) == DeliverReturned(s) \/ Record(s) \/ Respond(s) \/ ConnectionBroken(s)

Next == \/ \E s \in Sends : \/ Send(s) \/ TaskStep(s) \/ Cancel(s)
                            \/ GetStatus(s) \/ Deliver(s)
        \/ Restart

Spec == Init /\ [][Next]_vars

\* The executor runs a task that can run, and deliver() returns: the email
\* plugin only sleeps, and a call of the REST client returns (CallReturns).
\* A caller notices that its connection is gone.
FairSpec == Spec /\ \A s \in Sends : WF_vars(TaskStep(s))

-----------------------------------------------------------------------------
(* Properties.                                                             *)

\* A caller that was told its notification id, and asks in the same lifetime
\* of the process, reads the state its own delivery was entered with.
ReadsOwnSend ==
  [][\A s \in Sends :
       GetStatus(s) /\ told_at[s] = lifetime =>
         observed'[s] = (IF Response(s).accepted THEN "Pending" ELSE "Failed")]_vars

\* The map holds no status without a delivery that it describes.
NoGhostStatus ==
  \A d \in DeliveryIds : LET st == statuses[NotificationId(d)] IN
    st # "absent" =>
      \E s \in Sends : \E resp \in performed[s] :
        resp.delivery_id = d /\ (resp.accepted <=> st = "Pending")

\* As long as the process lives, a status that was entered stays as it is.
StatusKept ==
  [][\A n \in NotificationIds :
       statuses[n] # "absent" /\ lifetime' = lifetime => statuses'[n] = statuses[n]]_vars

\* Every send ends, also when its delivery is never carried out.
SendEnds == \A s \in Sends : task[s] = "delivering" ~> task[s] = "over"

\* The module gives the callers of NotificationApi the contract its backend
\* gives it, tasks dropped half-way and restarts included.
Api == INSTANCE DeliveryContract
         WITH Calls <- Sends, Effects <- DeliverResponses, result <- reply

ImplementsContract == Api!Spec
=============================================================================
