----------------------------- MODULE EmailStream -----------------------------
(***************************************************************************)
(* stream_delivery of the email plugin: the call spawns a task that sends  *)
(* the events of the delivery into a bounded channel, sleeping in between, *)
(* and returns the receiving end as the stream.  The task ignores failing  *)
(* sends, so that a consumer that is gone does not stop the delivery, but  *)
(* a full channel would: send() waits for room as long as there is a       *)
(* receiver.  An event is the sequence of its data, as in SseParser.       *)
(***************************************************************************)
EXTENDS Naturals, Sequences

VARIABLES recipient,   \* of the request: "given" or "empty"
          stage,       \* where the consumer is, see DeliveryStream
          emitted,     \* the events it got
          producer,    \* sends the task has made
          channel      \* events in the channel

vars == <<recipient, stage, emitted, producer, channel>>

\* MUTANT: a channel for fewer events than a delivery has.
BugCapacity == 2

Capacity == 16

Plan == <<<<"started">>, <<"resolving">>, <<"sending">>, <<"delivered">>>>

TypeOK ==
  /\ recipient \in {"given", "empty"}
  /\ stage \in {"asked", "open", "ended", "dropped", "refused"}
  /\ \E n \in 0..Len(Plan) : emitted = SubSeq(Plan, 1, n)
  /\ producer \in 0..Len(Plan)
  /\ Len(channel) <= Capacity

Init == /\ recipient \in {"given", "empty"}
        /\ stage = "asked"
        /\ emitted = <<>>
        /\ producer = 0
        /\ channel = <<>>

-----------------------------------------------------------------------------
\* The call has no await: it returns, and the task is spawned, in one step.
Refuse == /\ stage = "asked" /\ recipient = "empty"
          /\ stage' = "refused"
          /\ UNCHANGED <<recipient, emitted, producer, channel>>

Spawn == /\ stage = "asked" /\ recipient = "given"
         /\ stage' = "open"
         /\ UNCHANGED <<recipient, emitted, producer, channel>>

Spawned == stage \notin {"asked", "refused"}
Running == Spawned /\ producer < Len(Plan)

Listening == stage = "open"

\* send() with room in the channel, and send() after the receiver is gone.
Send == /\ Running
        /\ \/ /\ Listening /\ Len(channel) < Capacity
              /\ channel' = Append(channel, Plan[producer + 1])
           \/ ~Listening /\ UNCHANGED channel
        /\ producer' = producer + 1
        /\ UNCHANGED <<recipient, stage, emitted>>

-----------------------------------------------------------------------------
(* The consumer.                                                           *)

Poll == /\ Listening /\ channel # <<>>
        /\ emitted' = Append(emitted, Head(channel))
        /\ channel' = Tail(channel)
        /\ UNCHANGED <<recipient, stage, producer>>

\* MUTANT: an empty channel is taken for the end of the stream.
BugPollEnd == /\ Listening /\ channel = <<>>
              /\ stage' = "ended"
              /\ UNCHANGED <<recipient, emitted, producer, channel>>

\* The sender is dropped with the task, and the channel is drained.
PollEnd == /\ Listening /\ channel = <<>> /\ producer = Len(Plan)
           /\ stage' = "ended"
           /\ UNCHANGED <<recipient, emitted, producer, channel>>

\* The consumer drops the receiver, and what is in the channel with it.
Drop == /\ Listening
        /\ stage' = "dropped"
        /\ channel' = <<>>
        /\ UNCHANGED <<recipient, emitted, producer>>

Call == Refuse \/ Spawn
Consume == Poll \/ PollEnd

Next == Call \/ Send \/ Consume \/ Drop

Spec == Init /\ [][Next]_vars
=============================================================================
