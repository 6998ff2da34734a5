------------------------------ MODULE Delivery ------------------------------
(***************************************************************************)
(* What a client may observe of the proxy, whatever happens behind it: it  *)
(* is refused with an error of its own, or it is sent a file from the      *)
(* first byte on; the connection ends normally only when the whole file    *)
(* has arrived, and is cut otherwise.                                      *)
(***************************************************************************)
EXTENDS Naturals

CONSTANTS Requests, Size

VARIABLES
    state,  \* [Requests -> States]
    got     \* [Requests -> 0..Size]: chunks of the file that have arrived

States == {"idle", "waiting", "refused", "streaming", "whole", "cut"}

Init == state = [r \in Requests |-> "idle"] /\ got = [r \in Requests |-> 0]

Arrive(r) ==
    /\ state[r] = "idle"
    /\ state' = [state EXCEPT ![r] = "waiting"] /\ UNCHANGED got

Refuse(r) ==
    /\ state[r] = "waiting"
    /\ state' = [state EXCEPT ![r] = "refused"] /\ UNCHANGED got

Begin(r) ==
    /\ state[r] = "waiting"
    /\ state' = [state EXCEPT ![r] = "streaming"] /\ UNCHANGED got

Receive(r) ==
    /\ state[r] = "streaming" /\ got[r] < Size
    /\ got' = [got EXCEPT ![r] = @ + 1] /\ UNCHANGED state

Finish(r) ==
    /\ state[r] = "streaming" /\ got[r] = Size
    /\ state' = [state EXCEPT ![r] = "whole"] /\ UNCHANGED got

Cut(r) ==
    /\ state[r] = "streaming"
    /\ state' = [state EXCEPT ![r] = "cut"] /\ UNCHANGED got

Serve(r) == Refuse(r) \/ Begin(r) \/ Receive(r) \/ Finish(r) \/ Cut(r)
Next == \E r \in Requests : Arrive(r) \/ Serve(r)

\* A client that has asked is always told something next, until it has its answer.
Spec == Init /\ [][Next]_<<state, got>>
FairSpec == Spec /\ \A r \in Requests : WF_<<state, got>>(Serve(r))
=============================================================================
