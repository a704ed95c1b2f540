---------------------------- MODULE BackendStream ----------------------------
(***************************************************************************)
(* NotificationBackend::stream_delivery behind Arc<dyn                     *)
(* NotificationBackend>: the email plugin in the same process or the SMS   *)
(* plugin over HTTP, as BINDING_MODE says.  The consumer, the demo of the  *)
(* notification module, is the same for both, and so is what it may rely   *)
(* on, DeliveryStream.                                                     *)
(***************************************************************************)
EXTENDS Naturals, Sequences

VARIABLES binding,                      \* "compile" or "rest"
          recipient, stage, emitted,    \* the call and its consumer
          producer, channel,            \* of EmailStream
          server, congested, script, rest, source, buffer, mode  \* of RestStream

emailVars == <<producer, channel>>
restVars == <<server, congested, script, rest, source, buffer, mode>>
vars == <<binding, recipient, stage, emitted, emailVars, restVars>>

Email == INSTANCE EmailStream
Rest  == INSTANCE RestStream

TypeOK == /\ binding \in {"compile", "rest"}
          /\ binding = "compile" => Email!TypeOK
          /\ binding = "rest" => Rest!TypeOK

Init == /\ binding \in {"compile", "rest"}
        /\ Email!Init
        /\ Rest!Init

\* One process or two take a step; the other binding does not exist.
Local(A)  == binding = "compile" /\ A /\ UNCHANGED <<binding, restVars>>
Remote(A) == binding = "rest" /\ A /\ UNCHANGED <<binding, emailVars>>

Next == Local(Email!Next) \/ Remote(Rest!Next)

Spec == Init /\ [][Next]_vars

\* The tasks of the providers run and what they send arrives.  The consumer
\* owes nothing: it may stop polling, with or without dropping the stream.
FairSpec == /\ Spec
            /\ WF_vars(Local(Email!Send))
            /\ WF_vars(Remote(Rest!Serve))

-----------------------------------------------------------------------------
(* Properties.                                                             *)

Bound == IF binding = "compile" THEN Email!Plan ELSE Rest!Plan

Stream == INSTANCE DeliveryStream
            WITH Plans <- {[events |-> Email!Plan, remote |-> FALSE],
                           [events |-> Rest!Plan, remote |-> TRUE]},
                 plan <- [events |-> Bound, remote |-> binding = "rest"]

\* Whichever binding was chosen, the consumer gets the events of the delivery
\* in order, each once, and a local stream ends only when it is complete.
ImplementsStream == Stream!Spec

\* A stream that ends after the provider has finished and its bytes were read
\* is complete: no keep-alive and no chunk boundary costs the consumer the
\* event that says how the delivery ended.
CompleteUnlessCut ==
  stage = "ended" /\ (binding = "rest" => server = "Done" /\ rest = <<>>)
    => emitted = Bound

\* The email is delivered whatever the consumer does: a consumer that is slow,
\* or gone, neither blocks the task that sends it nor stops it.
DeliveryFinishes ==
  binding = "compile" /\ Email!Spawned ~> producer = Len(Email!Plan)

Polling == WF_vars(Local(Email!Consume) \/ Remote(Rest!Parse))

\* A consumer that keeps polling, as collect() does, comes to the end of the
\* stream, unless the timeout of the client strikes before.
StreamEnds == Polling => (stage = "open" ~> stage # "open" \/ source = "expired")
=============================================================================
