----------------------------- MODULE RestStream -----------------------------
(***************************************************************************)
(* stream_delivery over HTTP, from the SMS plugin to the consumer.  The    *)
(* plugin answers with the server-sent events of an unfold machine, which  *)
(* axum mixes with keep-alives.  The generated client sends one request,   *)
(* never retried, and parses the body of the answer with sse_stream, which *)
(* is SseParser on a wire that is still being written.                     *)
(*                                                                         *)
(* A keep-alive is due 15 s after an event, when the machine has nothing   *)
(* ready; the machine sleeps 40 ms, but not before the connection asks for *)
(* the next event, so that a congested connection gets one keep-alive      *)
(* there, and never two in a row.                                          *)
(***************************************************************************)
EXTENDS Naturals, Sequences

VARIABLES recipient,   \* of the request: "given" or "empty"
          stage,       \* where the consumer is, see DeliveryStream
          emitted,     \* the events it got
          server,      \* SmsState of the handler, and what is around it
          congested,   \* a keep-alive has been written since the last event
          script, rest, source, buffer, mode   \* see SseParser

wireVars == <<script, rest>>
parserVars == <<source, buffer, mode, emitted>>
serverVars == <<server, congested>>
vars == <<recipient, stage, serverVars, wireVars, parserVars>>

Kinds == {"started", "queued", "delivered", "keepalive"}

Parser == INSTANCE SseParser WITH Blocks <- Kinds, MaxBlocks <- 5

Plan == <<<<"started">>, <<"queued">>, <<"delivered">>>>

\* The event each state of the machine yields, and the state after it.
Yields   == [Start |-> "started", Sending |-> "queued", Delivering |-> "delivered"]
SmsState == [Start |-> "Sending", Sending |-> "Delivering", Delivering |-> "Done"]

Streaming == server \in DOMAIN SmsState

TypeOK ==
  /\ recipient \in {"given", "empty"}
  /\ stage \in {"asked", "open", "ended", "dropped", "refused", "unknown"}
  /\ server \in DOMAIN SmsState \cup {"none", "refused", "Done", "gone"}
  /\ congested \in BOOLEAN
  /\ mode = "ended" <=> stage = "ended"
  /\ Parser!TypeOK

Init == /\ recipient \in {"given", "empty"}
        /\ stage = "asked"
        /\ server = "none"
        /\ congested = FALSE
        /\ script = <<>> /\ rest = <<>>
        /\ source = "open" /\ buffer = <<>> /\ mode = "parse" /\ emitted = <<>>

-----------------------------------------------------------------------------
(* The SMS plugin.                                                         *)

\* The request arrives, possibly when the client has given it up.
Arrive == /\ server = "none"
          /\ server' = IF recipient = "empty" THEN "refused" ELSE "Start"
          /\ UNCHANGED <<recipient, stage, congested, wireVars, parserVars>>

Write(kind) == /\ script' = Append(script, kind)
               /\ rest' = rest \o Parser!BlockWire[kind]

Produce == /\ Streaming
           /\ Write(Yields[server])
           /\ server' = SmsState[server]
           /\ congested' = FALSE
           /\ UNCHANGED <<recipient, stage, parserVars>>

KeepAlive == /\ server \in {"Sending", "Delivering"} /\ ~congested
             /\ Write("keepalive")
             /\ congested' = TRUE
             /\ UNCHANGED <<recipient, stage, server, parserVars>>

\* The body ends when the machine has, and its end follows the last byte.
Close == /\ server = "Done" /\ rest = <<>>
         /\ stage = "open" /\ Parser!Flowing
         /\ source' = "closed"
         /\ UNCHANGED <<recipient, stage, serverVars, wireVars, buffer, mode, emitted>>

\* The handler and its machine are dropped with the connection.
HandlerDropped == /\ Streaming
                  /\ stage \in {"dropped", "unknown", "ended"} \/ ~Parser!Flowing
                  /\ server' = "gone"
                  /\ UNCHANGED <<recipient, stage, congested, wireVars, parserVars>>

-----------------------------------------------------------------------------
(* The client.                                                             *)

\* The call returns with the headers of the answer, or with what parse_error
\* makes of a problem document.
Open == /\ stage = "asked"
        /\ \/ server = "refused" /\ stage' = "refused"
           \/ server \in DOMAIN SmsState \cup {"Done"} /\ stage' = "open"
        /\ UNCHANGED <<recipient, serverVars, wireVars, parserVars>>

\* The request fails or times out, or somebody else answers it with an error:
\* the catch-all.
OpenFails == /\ stage = "asked"
             /\ stage' = "unknown"
             /\ UNCHANGED <<recipient, serverVars, wireVars, parserVars>>

\* Somebody else answers with a status of success.  Only the status is looked
\* at, and so the call returns a stream: that of a body without any event, in
\* which the plugin's bytes never come.
OpenForeign == /\ stage = "asked"
               /\ stage' = "open"
               /\ Parser!Disconnect
               /\ UNCHANGED <<recipient, serverVars>>

\* One step of sse_stream, polled by the consumer.
Parse == /\ stage = "open"
         /\ Parser!ParserStep
         /\ stage' = IF mode' = "ended" THEN "ended" ELSE stage
         /\ UNCHANGED <<recipient, serverVars>>

\* The consumer drops the stream, or the call.
Drop == /\ stage \in {"asked", "open"}
        /\ stage' = "dropped"
        /\ UNCHANGED <<recipient, serverVars, wireVars, parserVars>>

\* The connection breaks or the timeout of the client strikes.
Cut == /\ stage = "open"
       /\ Parser!Disconnect \/ Parser!Expire
       /\ UNCHANGED <<recipient, stage, serverVars>>

Serve == Arrive \/ Produce \/ Close
Consume == Open \/ OpenFails \/ OpenForeign \/ Parse

Next == Serve \/ KeepAlive \/ HandlerDropped \/ Consume \/ Drop \/ Cut

Spec == Init /\ [][Next]_vars
=============================================================================
