---------------------- MODULE NotificationModuleProofs ----------------------
(* Theorems about NotificationModule, for every set of sends, users,       *)
(* channels and ids, and for any number of restarts.                       *)
EXTENDS NotificationModule, TLAPS

-----------------------------------------------------------------------------
(* The inductive invariant.                                                *)

\* What the backend keeps: a send has at most one delivery, Ok had one and a
\* refusal none.
BackendKept(s) ==
  /\ performed[s] = {} \/ \E resp \in DeliverResponses : performed[s] = {resp}
  /\ result[s] = "ok" => performed[s] # {}
  /\ result[s] = "refused" => performed[s] = {}

\* Where the task is, what its backend has answered and what the caller knows.
Progress(s) ==
  /\ task[s] = "idle" => performed[s] = {}
  /\ task[s] \in {"idle", "delivering"} => result[s] = "none"
  /\ task[s] \in {"recording", "recorded"} => result[s] = "ok"
  /\ reply[s] # "none" => task[s] = "over"
  /\ reply[s] \in {"ok", "refused"} => result[s] = reply[s]
  /\ told_at[s] <= lifetime

\* The status of a send is in the map, as its delivery was answered.
Entered(s) ==
  LET resp == Response(s)
  IN  statuses[NotificationId(resp.delivery_id)] = InitialState(resp)

\* From the insert to the end of the lifetime in which the caller was told.
KeptWhileKnown(s) ==
  task[s] = "recorded" \/ (reply[s] = "ok" /\ told_at[s] = lifetime) => Entered(s)

\* No two deliveries share an id.
UniqueIds ==
  \A s, t \in Sends : \A q \in performed[s], r \in performed[t] :
    q.delivery_id = r.delivery_id => s = t

SendInv(s) == BackendKept(s) /\ Progress(s) /\ KeptWhileKnown(s)

IInv == /\ \A s \in Sends : SendInv(s)
        /\ UniqueIds
        /\ NoGhostStatus

-----------------------------------------------------------------------------
(* Lemmas about the operators.                                             *)

\* Two notification ids are the same only when the delivery ids are.
LEMMA IdFacts ==
  /\ \A d, e : NotificationId(d) = NotificationId(e) => d = e
  /\ \A d \in DeliveryIds : NotificationId(d) \in NotificationIds
BY DEF NotificationId, NotificationIds

\* The one delivery of a send is what Response picks.
LEMMA ResponseFacts ==
  ASSUME NEW s \in Sends, BackendKept(s), performed[s] # {}
  PROVE  /\ Response(s) \in DeliverResponses
         /\ performed[s] = {Response(s)}
BY DEF BackendKept, Response

\* A delivery is entered as pending exactly when it was accepted.
LEMMA StateFacts ==
  ASSUME NEW resp \in DeliverResponses
  PROVE  /\ InitialState(resp) \in {"Pending", "Failed"}
         /\ resp.delivery_id \in DeliveryIds
         /\ resp.accepted <=> InitialState(resp) = "Pending"
BY DEF DeliverResponses, InitialState

\* What a step does not touch of a send stays as the invariant has it.
LEMMA Frame ==
  ASSUME NEW s \in Sends, SendInv(s),
         performed'[s] = performed[s], result'[s] = result[s],
         task'[s] = task[s], reply'[s] = reply[s], told_at'[s] = told_at[s],
         lifetime' = lifetime, statuses' = statuses
  PROVE  SendInv(s)'
<1>1. Response(s)' = Response(s)
  BY DEF Response
<1> QED
  BY <1>1 DEF SendInv, BackendKept, Progress, KeptWhileKnown, Entered

\* Parts of the invariant that only the deliveries and the map decide.
LEMMA FrameShared ==
  ASSUME UniqueIds, NoGhostStatus, performed' = performed, statuses' = statuses
  PROVE  UniqueIds' /\ NoGhostStatus'
BY DEF UniqueIds, NoGhostStatus

-----------------------------------------------------------------------------
(* The initial states.                                                     *)

\* Before the first send the types and the invariant hold.
LEMMA InitInv == Init => TypeOK /\ IInv
<1> SUFFICES ASSUME Init
             PROVE  TypeOK /\ IInv
  OBVIOUS
<1> USE ModuleAssumption DEF Init, Backend!Init
<1>1. TypeOK
  BY DEF TypeOK, Backend!Results
<1>2. ASSUME NEW s \in Sends
      PROVE  SendInv(s)
  BY DEF SendInv, BackendKept, Progress, KeptWhileKnown
<1>3. UniqueIds /\ NoGhostStatus
  BY IdFacts DEF UniqueIds, NoGhostStatus
<1> QED
  BY <1>1, <1>2, <1>3 DEF IInv

-----------------------------------------------------------------------------
(* Every step keeps the types.                                             *)

\* What an answer to the caller changes is typed.
LEMMA TellTyped ==
  ASSUME TypeOK, NEW s \in Sends, NEW a \in Backend!Results, Tell(s, a)
  PROVE  /\ reply' \in [Sends -> Backend!Results]
         /\ told_at' \in [Sends -> 0..MaxRestarts]
BY DEF TypeOK, Tell

\* The entry of the map comes from the deliveries, so that the types alone are
\* not inductive.
LEMMA NextTyped ==
  ASSUME TypeOK, IInv, [Next]_vars
  PROVE  TypeOK'
<1>1. CASE UNCHANGED vars
  BY <1>1 DEF TypeOK, vars, backendVars, callVars
<1>2. ASSUME NEW s \in Sends, Send(s)
      PROVE  TypeOK'
  BY <1>2 DEF TypeOK, Send, backendVars
<1>3. ASSUME NEW s \in Sends, DeliverReturned(s)
      PROVE  TypeOK'
  <2>1. PICK r \in {"ok", "refused", "unknown"} :
          /\ Backend!Return(s, r)
          /\ IF r = "ok"
             THEN task' = [task EXCEPT ![s] = "recording"] /\ UNCHANGED <<reply, told_at>>
             ELSE task' = [task EXCEPT ![s] = "over"] /\ Tell(s, Error(r))
    BY <1>3 DEF DeliverReturned
  <2>2. r \in Backend!Results
    BY DEF Backend!Results
  <2>3. performed' = performed /\ result' \in [Sends -> Backend!Results]
    BY <2>1, <2>2 DEF TypeOK, Backend!Return
  <2>4. /\ reply' \in [Sends -> Backend!Results]
        /\ told_at' \in [Sends -> 0..MaxRestarts]
    BY <2>1, <2>2, TellTyped DEF TypeOK, Error
  <2> QED
    BY <1>3, <2>1, <2>3, <2>4 DEF TypeOK, DeliverReturned
<1>4. ASSUME NEW s \in Sends, Record(s)
      PROVE  TypeOK'
  <2>1. SendInv(s) /\ performed[s] # {}
    BY <1>4 DEF IInv, SendInv, BackendKept, Progress, Record
  <2>2. Response(s) \in DeliverResponses
    BY <2>1, ResponseFacts DEF SendInv
  <2>3. statuses' \in [NotificationIds -> {"absent", "Pending", "Failed"}]
    BY <1>4, <2>2, StateFacts DEF TypeOK, Record
  <2> QED
    BY <1>4, <2>3 DEF TypeOK, Record, backendVars, callVars
<1>5. ASSUME NEW s \in Sends, Respond(s) \/ Cancel(s) \/ ConnectionBroken(s)
      PROVE  TypeOK'
  <2>1. PICK a \in {"ok", "unknown"} : Tell(s, a)
    BY <1>5 DEF Respond, Cancel, ConnectionBroken
  <2>2. a \in Backend!Results
    BY DEF Backend!Results
  <2>3. /\ reply' \in [Sends -> Backend!Results]
        /\ told_at' \in [Sends -> 0..MaxRestarts]
    BY <2>1, <2>2, TellTyped
  <2> QED
    BY <1>5, <2>3 DEF TypeOK, Respond, Cancel, ConnectionBroken, backendVars
<1>6. ASSUME NEW s \in Sends, GetStatus(s)
      PROVE  TypeOK'
  <2>1. SendInv(s) /\ performed[s] # {}
    BY <1>6 DEF IInv, SendInv, BackendKept, Progress, GetStatus
  <2>2. Response(s) \in DeliverResponses
    BY <2>1, ResponseFacts DEF SendInv
  <2>3. NotificationId(Response(s).delivery_id) \in NotificationIds
    BY <2>2, StateFacts, IdFacts
  <2>4. observed' \in [Sends -> {"nothing", "NotificationNotFound", "Pending", "Failed"}]
    BY <1>6, <2>3 DEF TypeOK, GetStatus
  <2> QED
    BY <1>6, <2>4 DEF TypeOK, GetStatus, backendVars, callVars
<1>7. ASSUME NEW s \in Sends, Deliver(s)
      PROVE  TypeOK'
  <2>1. PICK resp \in DeliverResponses : Backend!Perform(s, resp)
    BY <1>7 DEF Deliver
  <2>2. performed' \in [Sends -> SUBSET DeliverResponses] /\ result' = result
    BY <2>1 DEF TypeOK, Backend!Perform
  <2> QED
    BY <1>7, <2>2 DEF TypeOK, Deliver, callVars
<1>8. ASSUME Restart
      PROVE  TypeOK'
  BY <1>8, ModuleAssumption DEF TypeOK, Restart, backendVars, callVars
<1> QED
  BY <1>1, <1>2, <1>3, <1>4, <1>5, <1>6, <1>7, <1>8 DEF Next, TaskStep

-----------------------------------------------------------------------------
(* Every step keeps the invariant.                                         *)

\* A step of one send that leaves the deliveries and the map alone.
LEMMA LocalInv ==
  ASSUME IInv, NEW s \in Sends, SendInv(s)',
         \A t \in Sends \ {s} :
           /\ result'[t] = result[t] /\ task'[t] = task[t]
           /\ reply'[t] = reply[t] /\ told_at'[t] = told_at[t],
         performed' = performed, statuses' = statuses, lifetime' = lifetime
  PROVE  IInv'
<1>1. ASSUME NEW t \in Sends, t # s
      PROVE  SendInv(t)'
  BY <1>1, Frame DEF IInv
<1> QED
  BY <1>1, FrameShared DEF IInv

\* The end of a send tells its caller what the backend said, or that nobody
\* knows.
LEMMA TellInv ==
  ASSUME TypeOK, NEW s \in Sends, SendInv(s), NEW a \in {"ok", "refused", "unknown"},
         Tell(s, a), task'[s] = "over", a \in {"ok", "refused"} => result'[s] = a,
         BackendKept(s)', a = "ok" => Entered(s),
         performed' = performed, statuses' = statuses, lifetime' = lifetime
  PROVE  SendInv(s)'
<1>1. reply'[s] = a /\ told_at'[s] = lifetime /\ lifetime \in Nat
  BY DEF TypeOK, Tell
<1>2. Entered(s)' = Entered(s)
  BY DEF Entered, Response
<1>3. Progress(s)'
  BY <1>1 DEF Progress
<1>4. KeptWhileKnown(s)'
  BY <1>1, <1>2 DEF KeptWhileKnown
<1> QED
  BY <1>3, <1>4 DEF SendInv

\* deliver() returns: Ok only for a delivery, a refusal only without one.
LEMMA DeliverReturnedInv ==
  ASSUME TypeOK, IInv, NEW s \in Sends, DeliverReturned(s)
  PROVE  IInv'
<1>1. PICK r \in {"ok", "refused", "unknown"} :
        /\ Backend!Return(s, r)
        /\ IF r = "ok"
           THEN task' = [task EXCEPT ![s] = "recording"] /\ UNCHANGED <<reply, told_at>>
           ELSE task' = [task EXCEPT ![s] = "over"] /\ Tell(s, Error(r))
  BY DEF DeliverReturned
<1>2. /\ performed' = performed /\ statuses' = statuses /\ lifetime' = lifetime
      /\ result' = [result EXCEPT ![s] = r]
      /\ r = "ok" => performed[s] # {}
      /\ r = "refused" => performed[s] = {}
  BY <1>1 DEF DeliverReturned, Backend!Return
<1>3. SendInv(s) /\ task[s] = "delivering"
  BY DEF IInv, DeliverReturned
<1>4. BackendKept(s)'
  BY <1>2, <1>3 DEF TypeOK, SendInv, BackendKept
<1>5. SendInv(s)'
  <2>1. CASE r = "ok"
    <3>1. /\ task'[s] = "recording" /\ reply' = reply /\ told_at' = told_at
          /\ result'[s] = "ok" /\ reply[s] = "none" /\ told_at[s] <= lifetime
      BY <1>1, <1>2, <1>3, <2>1 DEF TypeOK, SendInv, Progress
    <3> QED
      BY <1>2, <1>4, <3>1 DEF SendInv, Progress, KeptWhileKnown
  <2>2. CASE r # "ok"
    BY <1>1, <1>2, <1>3, <1>4, <2>2, TellInv DEF TypeOK, Error
  <2> QED
    BY <2>1, <2>2
<1>6. \A t \in Sends \ {s} :
        /\ result'[t] = result[t] /\ task'[t] = task[t]
        /\ reply'[t] = reply[t] /\ told_at'[t] = told_at[t]
  BY <1>1, <1>2 DEF TypeOK, Tell
<1> QED
  BY <1>2, <1>5, <1>6, LocalInv

\* The insert touches the entry of one delivery, and no other send has that id.
LEMMA RecordInv ==
  ASSUME TypeOK, IInv, NEW s \in Sends, Record(s)
  PROVE  IInv'
<1> DEFINE resp == Response(s)
           n == NotificationId(resp.delivery_id)
<1>1. SendInv(s) /\ performed[s] = {resp} /\ resp \in DeliverResponses
  BY ResponseFacts DEF IInv, SendInv, BackendKept, Progress, Record
<1>2. n \in NotificationIds /\ statuses' = [statuses EXCEPT ![n] = InitialState(resp)]
  BY <1>1, StateFacts, IdFacts DEF Record
<1>3. performed' = performed /\ result' = result
      /\ reply' = reply /\ told_at' = told_at /\ lifetime' = lifetime
      /\ task' = [task EXCEPT ![s] = "recorded"]
  BY DEF Record, backendVars, callVars
<1>4. \A t \in Sends : Response(t)' = Response(t)
  BY <1>3 DEF Response
<1>5. Entered(s)'
  BY <1>2, <1>4 DEF TypeOK, Entered
<1> HIDE DEF resp, n
<1>6. SendInv(s)'
  BY <1>1, <1>3, <1>5 DEF TypeOK, SendInv, BackendKept, Progress, KeptWhileKnown, Record
<1>7. ASSUME NEW t \in Sends, t # s
      PROVE  SendInv(t)'
  <2>1. SendInv(t)
    BY DEF IInv
  <2>2. BackendKept(t)' /\ Progress(t)'
    BY <1>3, <1>7, <2>1 DEF TypeOK, SendInv, BackendKept, Progress
  <2>3. ASSUME task[t] = "recorded" \/ (reply[t] = "ok" /\ told_at[t] = lifetime)
        PROVE  Entered(t)'
    <3>1. Entered(t) /\ performed[t] # {}
      BY <2>1, <2>3 DEF SendInv, KeptWhileKnown, Progress, BackendKept
    <3>2. performed[t] = {Response(t)}
      BY <2>1, <3>1, ResponseFacts DEF SendInv
    <3>3. Response(t).delivery_id # resp.delivery_id
      BY <1>1, <1>7, <3>2 DEF IInv, UniqueIds
    <3>4. NotificationId(Response(t).delivery_id) # n
      BY <3>3, IdFacts DEF n
    <3> QED
      BY <1>2, <1>4, <3>1, <3>4 DEF Entered, TypeOK
  <2> QED
    BY <1>3, <1>7, <2>2, <2>3 DEF SendInv, KeptWhileKnown, TypeOK
<1>8. UniqueIds'
  BY <1>3 DEF IInv, UniqueIds
<1>9. NoGhostStatus'
  <2>1. ASSUME NEW d \in DeliveryIds, statuses'[NotificationId(d)] # "absent",
               NotificationId(d) # n
        PROVE  \E t \in Sends : \E q \in performed[t] :
                 q.delivery_id = d /\ (q.accepted <=> statuses'[NotificationId(d)] = "Pending")
    BY <1>2, <2>1, IdFacts DEF IInv, NoGhostStatus, TypeOK
  <2>2. ASSUME NEW d \in DeliveryIds, NotificationId(d) = n
        PROVE  /\ resp \in performed[s] /\ resp.delivery_id = d
               /\ resp.accepted <=> statuses'[NotificationId(d)] = "Pending"
    <3>1. resp.delivery_id = d
      BY <2>2, IdFacts DEF n
    <3>2. statuses'[NotificationId(d)] = InitialState(resp)
      BY <1>2, <2>2 DEF TypeOK
    <3> QED
      BY <1>1, <3>1, <3>2, StateFacts
  <2> QED
    BY <1>3, <2>1, <2>2 DEF NoGhostStatus
<1> QED
  BY <1>6, <1>7, <1>8, <1>9 DEF IInv

\* The caller is told its id when the entry is there, or loses its answer.
LEMMA EndInv ==
  ASSUME TypeOK, IInv, NEW s \in Sends, Respond(s) \/ Cancel(s) \/ ConnectionBroken(s)
  PROVE  IInv'
<1>1. PICK a \in {"ok", "unknown"} : Tell(s, a) /\ (a = "ok" <=> Respond(s))
  BY DEF Respond, Cancel, ConnectionBroken
<1>2. /\ performed' = performed /\ result' = result
      /\ statuses' = statuses /\ lifetime' = lifetime
      /\ task' = [task EXCEPT ![s] = "over"]
  BY DEF Respond, Cancel, ConnectionBroken, backendVars
<1>3. SendInv(s) /\ BackendKept(s)'
  BY <1>2 DEF IInv, SendInv, BackendKept
<1>4. a = "ok" => Entered(s) /\ result'[s] = "ok"
  BY <1>1, <1>2, <1>3 DEF SendInv, Progress, KeptWhileKnown, Respond
<1>5. SendInv(s)'
  BY <1>1, <1>2, <1>3, <1>4, TellInv DEF TypeOK
<1>6. \A t \in Sends \ {s} :
        /\ result'[t] = result[t] /\ task'[t] = task[t]
        /\ reply'[t] = reply[t] /\ told_at'[t] = told_at[t]
  BY <1>1, <1>2 DEF TypeOK, Tell
<1> QED
  BY <1>2, <1>5, <1>6, LocalInv

\* The provider carries a request out once, with an id nobody else has.
LEMMA DeliverInv ==
  ASSUME TypeOK, IInv, NEW s \in Sends, Deliver(s)
  PROVE  IInv'
<1>1. PICK resp \in DeliverResponses :
        /\ Backend!Perform(s, resp)
        /\ \A t \in Sends : \A r \in performed[t] : r.delivery_id # resp.delivery_id
  BY DEF Deliver
<1>2. /\ performed[s] = {} /\ result[s] \in {"none", "unknown"}
      /\ performed' = [performed EXCEPT ![s] = {resp}]
      /\ result' = result /\ task' = task /\ reply' = reply /\ told_at' = told_at
      /\ statuses' = statuses /\ lifetime' = lifetime /\ task[s] # "idle"
  BY <1>1 DEF Deliver, Backend!Perform, callVars
<1>3. SendInv(s)'
  <2>1. SendInv(s)
    BY DEF IInv
  <2>2. BackendKept(s)' /\ Progress(s)'
    BY <1>2, <2>1 DEF TypeOK, SendInv, BackendKept, Progress
  <2>3. ~(task[s] = "recorded" \/ reply[s] = "ok")
    BY <1>2, <2>1 DEF SendInv, Progress
  <2> QED
    BY <1>2, <2>2, <2>3 DEF SendInv, KeptWhileKnown
<1>4. ASSUME NEW t \in Sends, t # s
      PROVE  SendInv(t)'
  BY <1>2, <1>4, Frame DEF IInv, TypeOK
<1>5. UniqueIds'
  BY <1>1, <1>2 DEF IInv, UniqueIds, TypeOK
<1>6. NoGhostStatus'
  BY <1>2 DEF IInv, NoGhostStatus, TypeOK
<1> QED
  BY <1>3, <1>4, <1>5, <1>6 DEF IInv

\* A restart empties the map and cuts the tasks; nobody was told an id in the
\* lifetime that begins.
LEMMA RestartInv ==
  ASSUME TypeOK, IInv, Restart
  PROVE  IInv'
<1>1. /\ performed' = performed /\ result' = result
      /\ reply' = reply /\ told_at' = told_at
      /\ lifetime' = lifetime + 1 /\ lifetime \in Nat
      /\ statuses' = [n \in NotificationIds |-> "absent"]
  BY DEF TypeOK, Restart, backendVars, callVars
<1>2. ASSUME NEW s \in Sends
      PROVE  SendInv(s)'
  <2>1. SendInv(s) /\ told_at[s] \in Nat
    BY DEF IInv, TypeOK
  <2>2. task'[s] \in {"idle", "over", "cut"} /\ (task[s] \in {"idle", "over"} => task'[s] = task[s])
        /\ (task[s] \notin {"idle", "over"} => task'[s] = "cut")
    BY DEF Restart
  <2>3. BackendKept(s)' /\ Progress(s)'
    BY <1>1, <2>1, <2>2 DEF SendInv, BackendKept, Progress
  <2>4. task'[s] # "recorded" /\ told_at'[s] # lifetime'
    BY <1>1, <2>1, <2>2 DEF SendInv, Progress
  <2> QED
    BY <2>3, <2>4 DEF SendInv, KeptWhileKnown
<1>3. UniqueIds'
  BY <1>1 DEF IInv, UniqueIds
<1>4. NoGhostStatus'
  BY <1>1, IdFacts DEF NoGhostStatus
<1> QED
  BY <1>2, <1>3, <1>4 DEF IInv

\* Every step keeps the invariant.
LEMMA NextInv ==
  ASSUME TypeOK, IInv, [Next]_vars
  PROVE  IInv'
<1>1. CASE UNCHANGED vars
  <2>1. ASSUME NEW t \in Sends
        PROVE  SendInv(t)'
    BY <1>1, Frame DEF IInv, vars, backendVars, callVars
  <2> QED
    BY <1>1, <2>1, FrameShared DEF IInv, vars, backendVars
<1>2. ASSUME NEW s \in Sends, Send(s)
      PROVE  IInv'
  <2>1. SendInv(s)'
    BY <1>2 DEF TypeOK, IInv, SendInv, BackendKept, Progress, KeptWhileKnown, Send,
                backendVars
  <2> QED
    BY <1>2, <2>1, LocalInv DEF TypeOK, Send, backendVars
<1>3. ASSUME NEW s \in Sends, GetStatus(s)
      PROVE  IInv'
  <2>1. ASSUME NEW t \in Sends
        PROVE  SendInv(t)'
    BY <1>3, Frame DEF IInv, GetStatus, backendVars, callVars
  <2> QED
    BY <1>3, <2>1, FrameShared DEF IInv, GetStatus, backendVars
<1> QED
  BY <1>1, <1>2, <1>3, DeliverReturnedInv, RecordInv, EndInv, DeliverInv, RestartInv
     DEF Next, TaskStep

\* In every reachable state the types and the inductive invariant hold.
LEMMA Invariance == Spec => [](TypeOK /\ IInv)
<1>1. TypeOK /\ IInv /\ [Next]_vars => (TypeOK /\ IInv)'
  BY NextTyped, NextInv
<1> QED
  BY InitInv, <1>1, PTL DEF Spec

\* Requests, answers, tasks and the map of statuses always have their types.
THEOREM TypeCorrect == Spec => []TypeOK
BY Invariance, PTL

\* The map holds no status without a delivery that it describes.
THEOREM NoGhosts == Spec => []NoGhostStatus
<1>1. IInv => NoGhostStatus
  BY DEF IInv
<1> QED
  BY Invariance, <1>1, PTL

-----------------------------------------------------------------------------
(* What a step may never do.                                               *)

\* A send that is told its id and asks in the same lifetime of the process
\* reads the state its own delivery was entered with, whatever the sends
\* beside it did to the map.
THEOREM SendReadsItself == Spec => ReadsOwnSend
<1> DEFINE Read(s) == GetStatus(s) /\ told_at[s] = lifetime =>
             observed'[s] = (IF Response(s).accepted THEN "Pending" ELSE "Failed")
<1>1. ASSUME TypeOK, IInv, NEW s \in Sends, GetStatus(s), told_at[s] = lifetime
      PROVE  observed'[s] = (IF Response(s).accepted THEN "Pending" ELSE "Failed")
  <2>1. SendInv(s) /\ reply[s] = "ok"
    BY <1>1 DEF IInv, GetStatus
  <2>2. Entered(s) /\ performed[s] # {}
    BY <1>1, <2>1 DEF SendInv, BackendKept, Progress, KeptWhileKnown
  <2>3. statuses[NotificationId(Response(s).delivery_id)]
          = (IF Response(s).accepted THEN "Pending" ELSE "Failed")
    BY <2>2 DEF Entered, InitialState
  <2>4. s \in DOMAIN observed
    BY <1>1 DEF TypeOK
  <2> QED
    BY <1>1, <2>3, <2>4 DEF GetStatus
<1>2. TypeOK /\ IInv => [\A s \in Sends : Read(s)]_vars
  BY <1>1
<1> QED
  BY Invariance, <1>2, PTL DEF ReadsOwnSend

\* As long as the process lives, a status that was entered stays as it is: two
\* inserts under one id are impossible because no two deliveries share it.
THEOREM StatusesKept == Spec => StatusKept
<1> DEFINE Kept == \A n \in NotificationIds :
             statuses[n] # "absent" /\ lifetime' = lifetime => statuses'[n] = statuses[n]
<1>1. ASSUME TypeOK, IInv, [Next]_vars
      PROVE  Kept
  <2>1. ASSUME NEW s \in Sends, Record(s)
        PROVE  Kept
    <3> DEFINE resp == Response(s)
               n == NotificationId(resp.delivery_id)
    <3>1. SendInv(s) /\ performed[s] = {resp} /\ resp \in DeliverResponses
      BY <1>1, <2>1, ResponseFacts DEF IInv, SendInv, BackendKept, Progress, Record
    <3>2. statuses' = [statuses EXCEPT ![n] = InitialState(resp)]
      BY <2>1 DEF Record
    <3>3. ASSUME statuses[n] # "absent"
          PROVE  statuses[n] = InitialState(resp)
      <4>1. resp.delivery_id \in DeliveryIds /\ n \in NotificationIds
        BY <3>1, StateFacts, IdFacts
      <4>2. PICK t \in Sends : \E q \in performed[t] :
              q.delivery_id = resp.delivery_id /\ (q.accepted <=> statuses[n] = "Pending")
        BY <1>1, <3>3, <4>1 DEF IInv, NoGhostStatus
      <4>3. t = s
        BY <1>1, <3>1, <4>2 DEF IInv, UniqueIds
      <4>4. resp.accepted <=> statuses[n] = "Pending"
        BY <3>1, <4>2, <4>3
      <4>5. statuses[n] \in {"Pending", "Failed"}
        BY <1>1, <3>3, <4>1 DEF TypeOK
      <4> QED
        BY <4>4, <4>5 DEF InitialState
    <3> HIDE DEF n, resp
    <3> QED
      BY <1>1, <3>2, <3>3 DEF TypeOK
  <2>2. CASE Restart
    BY <1>1, <2>2 DEF TypeOK, Restart
  <2>3. CASE UNCHANGED vars
    BY <2>3 DEF vars
  <2>4. ASSUME NEW s \in Sends,
               \/ Send(s) \/ DeliverReturned(s) \/ Respond(s) \/ ConnectionBroken(s)
               \/ Cancel(s) \/ GetStatus(s) \/ Deliver(s)
        PROVE  Kept
    BY <2>4 DEF Send, DeliverReturned, Respond, ConnectionBroken, Cancel, GetStatus, Deliver
  <2> QED
    BY <1>1, <2>1, <2>2, <2>3, <2>4 DEF Next, TaskStep
<1>2. TypeOK /\ IInv /\ [Next]_vars => [Kept]_vars
  BY <1>1
<1> QED
  BY Invariance, <1>2, PTL DEF Spec, StatusKept

-----------------------------------------------------------------------------
(* The module gives its callers the contract of its backend.               *)

\* A step in which nothing is delivered and no caller is told is invisible.
LEMMA Stutter ==
  ASSUME performed' = performed, reply' = reply
  PROVE  UNCHANGED Api!vars
BY DEF Api!vars

\* Telling a caller is the contract's Return, when the answer is true.
LEMMA TellRefines ==
  ASSUME NEW s \in Sends, NEW a \in {"ok", "refused", "unknown"},
         Tell(s, a), performed' = performed, reply[s] = "none",
         a = "ok" => performed[s] # {}, a = "refused" => performed[s] = {}
  PROVE  [Api!Next]_Api!vars
<1>1. Api!Return(s, a)
  BY DEF Tell, Api!Return
<1>2. a \in Api!Results \ {"none"}
  BY DEF Api!Results
<1> QED
  BY <1>1, <1>2 DEF Api!Next

\* The end of deliver() is invisible when it succeeds: the caller is told
\* later.  Any error is told at once, as it came.
LEMMA DeliverReturnedRefines ==
  ASSUME IInv, NEW s \in Sends, DeliverReturned(s)
  PROVE  [Api!Next]_Api!vars
<1>1. PICK r \in {"ok", "refused", "unknown"} :
        /\ Backend!Return(s, r)
        /\ IF r = "ok"
           THEN task' = [task EXCEPT ![s] = "recording"] /\ UNCHANGED <<reply, told_at>>
           ELSE task' = [task EXCEPT ![s] = "over"] /\ Tell(s, Error(r))
  BY DEF DeliverReturned
<1>2. performed' = performed /\ (r = "refused" => performed[s] = {})
  BY <1>1 DEF Backend!Return
<1>3. reply[s] = "none"
  BY DEF IInv, SendInv, Progress, DeliverReturned
<1>4. CASE r = "ok"
  BY <1>1, <1>2, <1>4, Stutter
<1>5. CASE r # "ok"
  BY <1>1, <1>2, <1>3, <1>5, TellRefines DEF Error
<1> QED
  BY <1>4, <1>5

\* A caller is told Ok for a send whose backend had said Ok.
LEMMA EndRefines ==
  ASSUME IInv, NEW s \in Sends, Respond(s) \/ Cancel(s) \/ ConnectionBroken(s)
  PROVE  [Api!Next]_Api!vars
<1>1. SendInv(s) /\ task[s] \in {"recorded", "delivering", "cut"}
  BY DEF IInv, Respond, Cancel, ConnectionBroken
<1>2. reply[s] = "none" /\ (Respond(s) => performed[s] # {})
  BY <1>1 DEF SendInv, BackendKept, Progress, Respond
<1>3. performed' = performed
  BY DEF Respond, Cancel, ConnectionBroken, backendVars
<1> QED
  BY <1>2, <1>3, TellRefines DEF Respond, Cancel, ConnectionBroken

\* The provider acts for a caller that has no answer, or one that leaves it open.
LEMMA DeliverRefines ==
  ASSUME TypeOK, IInv, NEW s \in Sends, Deliver(s)
  PROVE  [Api!Next]_Api!vars
<1>1. PICK resp \in DeliverResponses : Backend!Perform(s, resp)
  BY DEF Deliver
<1>2. SendInv(s) /\ reply[s] \in {"none", "ok", "refused", "unknown"}
  BY DEF IInv, TypeOK, Backend!Results
<1>3. reply[s] \in {"none", "unknown"}
  BY <1>1, <1>2 DEF SendInv, Progress, Backend!Perform
<1>4. Api!Perform(s, resp)
  BY <1>1, <1>3 DEF Deliver, Backend!Perform, Api!Perform
<1> QED
  BY <1>4 DEF Api!Next

\* Every behaviour of the module, with its shared map, tasks dropped half-way
\* and restarts, is a behaviour of the contract its callers rely on.
THEOREM Refinement == Spec => ImplementsContract
<1>1. Init => Api!Init
  BY DEF Init, Backend!Init, Api!Init
<1>2. ASSUME TypeOK, IInv, [Next]_vars
      PROVE  [Api!Next]_Api!vars
  <2>1. CASE UNCHANGED vars
    BY <2>1, Stutter DEF vars, backendVars
  <2>2. ASSUME NEW s \in Sends, Send(s) \/ Record(s) \/ GetStatus(s)
        PROVE  [Api!Next]_Api!vars
    BY <2>2, Stutter DEF Send, Record, GetStatus, backendVars
  <2>3. CASE Restart
    BY <2>3, Stutter DEF Restart, backendVars
  <2> QED
    BY <1>2, <2>1, <2>2, <2>3, DeliverReturnedRefines, EndRefines, DeliverRefines
       DEF Next, TaskStep
<1> QED
  BY <1>1, <1>2, Invariance, PTL DEF Spec, ImplementsContract, Api!Spec
=============================================================================
