------------------------- MODULE ObservableContract -------------------------
(***************************************************************************)
(* What one subscription to an Observable of this code base promises its   *)
(* observer (the contract of RxJava 2): any number of onNext while the     *)
(* subscription is active, at most one terminal event, and nothing after   *)
(* a terminal event or after dispose().                                    *)
(***************************************************************************)
EXTENDS Naturals

VARIABLES
  phase,    \* "idle", "active", or how the subscription ended
  emitted   \* how many onNext the observer has seen

contractVars == <<phase, emitted>>

Ended == {"completed", "errored", "disposed"}

Init == phase = "idle" /\ emitted = 0

OnSubscribe == phase = "idle" /\ phase' = "active" /\ UNCHANGED emitted

OnNext == phase = "active" /\ emitted' = emitted + 1 /\ UNCHANGED phase

\* onComplete, onError or dispose; a source that has already ended tells a
\* late observer so at once.
End == phase \in {"idle", "active"} /\ phase' \in Ended /\ UNCHANGED emitted

Next == OnSubscribe \/ OnNext \/ End

Spec == Init /\ [][Next]_contractVars
=============================================================================
