--------------------------- MODULE DeliveryStream ---------------------------
(***************************************************************************)
(* What a consumer of NotificationBackend::stream_delivery may rely on,    *)
(* whichever binding stands behind the trait object.  The provider has a   *)
(* plan: the events of one delivery, the last of which says how it ended.  *)
(* The consumer gets a prefix of the plan, in order.  With a local         *)
(* provider the end of the stream means that the plan is complete; behind  *)
(* a connection that can break it does not, and nothing tells the consumer *)
(* the one from the other but the last event it got.                       *)
(***************************************************************************)
EXTENDS Naturals, Sequences

CONSTANT Plans   \* what providers plan: [events, remote]

VARIABLES plan,      \* the plan of the provider that was asked
          emitted,   \* the events the consumer got
          stage      \* where the call of the consumer is

vars == <<plan, emitted, stage>>

Stages == {"asked", "open", "ended", "dropped", "refused", "unknown"}

Init == /\ plan \in Plans
        /\ emitted = <<>>
        /\ stage = "asked"

\* The call returns: a stream, a typed refusal or, from afar, the catch-all.
Answer == /\ stage = "asked"
          /\ stage' \in {"open", "refused"} \cup (IF plan.remote THEN {"unknown"} ELSE {})
          /\ UNCHANGED <<plan, emitted>>

Yield == /\ stage = "open"
         /\ Len(emitted) < Len(plan.events)
         /\ emitted' = Append(emitted, plan.events[Len(emitted) + 1])
         /\ UNCHANGED <<plan, stage>>

End == /\ stage = "open"
       /\ plan.remote \/ emitted = plan.events
       /\ stage' = "ended"
       /\ UNCHANGED <<plan, emitted>>

\* The consumer drops the stream, or the call before it returned.
Drop == /\ stage \in {"asked", "open"}
        /\ stage' = "dropped"
        /\ UNCHANGED <<plan, emitted>>

Next == Answer \/ Yield \/ End \/ Drop

Spec == Init /\ [][Next]_vars
=============================================================================
