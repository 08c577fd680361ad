------------------------------ MODULE MCTrace ------------------------------
(* Multicast groups and the trace service for TLC, side by side: every behaviour is
   one of the two, chosen in the initial state, while the other stays as it was
   initialised.  Both consumers of the trace service belong to c1. *)
EXTENDS Trace, MultiCast, TLC
CONSTANTS c1, k1, k2
BothOfOne == (k1 :> c1) @@ (k2 :> c1)
Symmetry == Permutations(App) \cup Permutations(Consumers)

VARIABLE part

MCInit == TraceInit /\ CastInit /\ part \in {"trace", "cast"}

TracePart == part = "trace" /\ TraceNext /\ UNCHANGED <<mvars, part>>
CastPart  == part = "cast" /\ CastNext /\ UNCHANGED <<traceVars, part>>

MCNext == TracePart \/ CastPart

MCSpec == MCInit /\ [][MCNext]_<<traceVars, mvars, part>>
=============================================================================
