-------------------------- MODULE DeliveryContract --------------------------
(***************************************************************************)
(* What a consumer of Arc<dyn NotificationBackend> or of                   *)
(* Arc<dyn NotificationApi> may rely on, whichever binding stands behind   *)
(* the trait object.  A call has at most one effect; Ok means it had one;  *)
(* a typed error means it had none and never will; only the catch-all      *)
(* Internal leaves the question open, and then the call may still take     *)
(* effect after it has returned.                                           *)
(***************************************************************************)
CONSTANTS Calls,
          Effects   \* the things that happen at the provider, one delivery each

VARIABLES performed,  \* the effects each call has had
          result      \* what each call returned, "none" before

vars == <<performed, result>>

Results == {"none", "ok", "refused", "unknown"}

Init == /\ performed = [c \in Calls |-> {}]
        /\ result = [c \in Calls |-> "none"]

\* The provider carries the call out, possibly after the caller gave up.
Perform(c, x) == /\ performed[c] = {}
                 /\ result[c] \in {"none", "unknown"}
                 /\ performed' = [performed EXCEPT ![c] = {x}]
                 /\ UNCHANGED result

Return(c, r) == /\ result[c] = "none"
                /\ r = "ok"      => performed[c] # {}
                /\ r = "refused" => performed[c] = {}
                /\ result' = [result EXCEPT ![c] = r]
                /\ UNCHANGED performed

Next == \E c \in Calls : \/ \E x \in Effects : Perform(c, x)
                         \/ \E r \in Results \ {"none"} : Return(c, r)

Spec == Init /\ [][Next]_vars
=============================================================================
