--------------------------- MODULE MCEduPciMixed ----------------------------
(* EduPci with a bound on the calls each thread makes: with every call free  *)
(* to overlap every other the reachable states are too many to visit.        *)
EXTENDS MCEduPci

\* One legacy call against three ring calls.
MaxCalls == (a :> 1) @@ (b :> 3)

VARIABLE left       \* calls each thread may still make

mixedVars == <<vars, left>>

BoundedCall(t) == left[t] > 0 /\ ThreadCall(t) /\ left' = [left EXCEPT ![t] = @ - 1]

MixedInit == Init /\ left = MaxCalls
MixedNext ==
    \/ \E t \in Thread : BoundedCall(t)
    \/ ((\E t \in Thread : ThreadStep(t)) \/ IsrStep \/ DeviceStep) /\ UNCHANGED left

MixedSpec == MixedInit /\ [][MixedNext]_mixedVars /\ Fairness
=============================================================================
