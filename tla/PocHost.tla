------------------------------ MODULE PocHost ------------------------------
(***************************************************************************)
(* main of poc-host.  It registers the services its environment variables  *)
(* name, binds the backend as BINDING_MODE says, runs the demo of the      *)
(* module on that backend, and then the same consumer on the module itself *)
(* and, if the directory has one, on a remote NotificationApi.  Services   *)
(* are redeployed meanwhile.  What the calls do is in NotificationSystem   *)
(* and BackendStream; here they only return, or, the stream of a service   *)
(* that outlasts the client's timeout, do not.                             *)
(***************************************************************************)
EXTENDS NotificationContracts

CONSTANTS Documents, Deployed,           \* see ServiceDirectory
          Down, Silent, Nothing, NoPaths

VARIABLES published, entries, registering, bound,   \* see ServiceDirectory
          environ,   \* BINDING_MODE, and which services have a URL in a variable
          stage,     \* the part of main that runs
          call,      \* the call it makes there
          stuck      \* a stream it collects that will not end

directoryVars == <<published, entries, registering, bound>>
mainVars == <<stage, call, stuck>>
vars == <<directoryVars, environ, mainVars>>

\* One registration and one client for each contract.
Services == {"backend", "api"}

Registration(k) ==
  LET prefix == IF k = "backend" THEN BackendPrefix ELSE ApiPrefix
  IN  [id |-> Remote(prefix), url |-> k, contract |-> k]

Directory ==
  INSTANCE ServiceDirectory
    WITH Contracts <- [backend |-> NotificationBackendRest, api |-> NotificationApiRest],
         Prefix <- [backend |-> BackendPrefix, api |-> ApiPrefix],
         Registrations <- {Registration(k) : k \in Services},
         Manual <- {}, Hosts <- Services, Clients <- Services

\* Documents have names of their own, see ServiceDirectory.
ASSUME HostAssumption ==
  /\ Deployed \in [Services -> SUBSET DOMAIN Documents]
  /\ {Down, Silent, Nothing} \cap DOMAIN Documents = {}
  /\ Down # Silent /\ Down # Nothing /\ Silent # Nothing
  /\ Nothing \notin Directory!AllEntries

\* What is called in the stages of main that call something.
DemoCalls == <<"deliver", "stream_delivery", "deliver">>
ConsumerCalls == <<"send", "get_status", "send", "get_status">>
CallsOf == [demo |-> DemoCalls, local |-> ConsumerCalls, remote |-> ConsumerCalls]

Follows == [backend |-> "api", api |-> "bind", bind |-> "demo", demo |-> "local",
            local |-> "bind_api", bind_api |-> "remote", remote |-> "done"]

Stopped == {"done", "panicked", "exited"}

TypeOK ==
  /\ Directory!TypeOK
  /\ environ \in [mode : {"compile", "rest", "other"}, urls : SUBSET Services]
  /\ stage \in DOMAIN Follows \cup Stopped
  /\ call \in 1..(IF stage \in DOMAIN CallsOf THEN Len(CallsOf[stage]) ELSE 1)
  /\ stuck \in BOOLEAN

Init == /\ Directory!Init
        /\ environ \in [mode : {"compile", "rest", "other"}, urls : SUBSET Services]
        /\ stage = "backend"
        /\ call = 1
        /\ stuck = FALSE

-----------------------------------------------------------------------------
GoOn == stage' = Follows[stage] /\ UNCHANGED <<environ, call, stuck>>
Stay == UNCHANGED <<environ, mainVars>>

NoUrl(k) == /\ stage = k /\ k \notin environ.urls
            /\ GoOn
            /\ UNCHANGED directoryVars

\* MUTANT: the registration is spawned and not awaited.
BugRegister(k) ==
  \/ /\ stage = k /\ k \in environ.urls
     /\ Directory!BeginRegister(k, Registration(k)) /\ GoOn
  \/ (Directory!Fetch(k) \/ Directory!Accept(k) \/ Directory!Reject(k)) /\ Stay

\* The await of register_and_validate, whose error is printed.
Register(k) ==
  /\ stage = k /\ k \in environ.urls
  /\ \/ Directory!BeginRegister(k, Registration(k))
     \/ Directory!Fetch(k) \/ Directory!Accept(k) \/ Directory!Reject(k)
  /\ IF registering'[k].stage \in {"accepted", "rejected"} THEN GoOn ELSE Stay

LeaveFor(how) == stage' = how /\ UNCHANGED <<directoryVars, environ, call, stuck>>

\* Without an entry for the backend, expect() panics.
BindBackend ==
  /\ stage = "bind"
  /\ \/ environ.mode = "compile" /\ GoOn /\ UNCHANGED directoryVars
     \/ environ.mode = "rest" /\ Directory!Bind("backend", "backend") /\ GoOn
     \/ /\ environ.mode = "rest"
        /\ Directory!resolve(BackendPrefix) = Nothing
        /\ LeaveFor("panicked")
     \/ environ.mode = "other" /\ LeaveFor("exited")

\* Without an entry for the API its part is left out.
BindApi ==
  /\ stage = "bind_api"
  /\ \/ Directory!Bind("api", "api") /\ GoOn
     \/ Directory!resolve(ApiPrefix) = Nothing /\ LeaveFor("done")

\* MUTANT: the place in one list of calls is kept for the next.
BugCall ==
  /\ stage \in DOMAIN CallsOf /\ ~stuck
  /\ call' = call + 1
  /\ stage' = IF call' > Len(CallsOf[stage]) THEN Follows[stage] ELSE stage
  /\ UNCHANGED <<directoryVars, environ, stuck>>

\* A call returns; after a send that failed there is no status to ask for.
\* Returning from stream_delivery includes collecting the stream.
Call ==
  /\ stage \in DOMAIN CallsOf /\ ~stuck
  /\ \E next \in {call + 1} \cup (IF stage # "demo" /\ call = 1 THEN {call + 2} ELSE {}) :
       IF next > Len(CallsOf[stage])
       THEN stage' = Follows[stage] /\ call' = 1
       ELSE call' = next /\ UNCHANGED stage
  /\ UNCHANGED <<directoryVars, environ, stuck>>

\* The timeout strikes within a stream, and sse_stream goes round for ever.
Stall ==
  /\ stage = "demo" /\ CallsOf[stage][call] = "stream_delivery"
  /\ environ.mode = "rest"
  /\ stuck' = TRUE
  /\ UNCHANGED <<directoryVars, environ, stage, call>>

Main == \/ \E k \in Services : NoUrl(k) \/ Register(k)
        \/ BindBackend \/ BindApi \/ Call

Redeploy(k) == Directory!Deploy(k) /\ Stay

Next == Main \/ Stall \/ \E k \in Services : Redeploy(k)

Spec == Init /\ [][Next]_vars

\* The process runs, and its calls return: those of a client by CallReturns.
FairSpec == Spec /\ WF_vars(Main)

-----------------------------------------------------------------------------
(* Properties.                                                             *)

Validated(k) == registering[k].stage = "accepted"

\* Whatever runs on a remote binding runs on a client of its own contract, for
\* an entry that was validated for that contract.
WiredRight ==
  /\ environ.mode = "rest" /\ stage \in DOMAIN CallsOf =>
       /\ bound["backend"].contract = "backend"
       /\ bound["backend"].entry.id = Remote(BackendPrefix)
       /\ Directory!Vouched(bound["backend"].entry)
  /\ stage = "remote" =>
       /\ bound["api"].contract = "api"
       /\ bound["api"].entry.id = Remote(ApiPrefix)
       /\ Directory!Vouched(bound["api"].entry)

\* The host only gives up for want of a backend when none was validated: with
\* one it always gets a binding, whatever the services do after that.
PanicExplained == stage = "panicked" => environ.mode = "rest" /\ ~Validated("backend")

Hangs == \E k \in Services : stage = k /\ published[k] = Silent

\* The host comes to an end, unless it asks for the document of a service that
\* is silent, again and again, or collects a stream that does not end.  Failed
\* validations, services that are down and failed calls do not stop it.
HostEnds == <>(stage \in Stopped \/ stuck) \/ []<>Hangs
=============================================================================
