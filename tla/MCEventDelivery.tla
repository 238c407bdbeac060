--------------------------- MODULE MCEventDelivery ---------------------------
EXTENDS EventDelivery, TLC

CONSTANTS d1, d2, d3, c1, c2, k1

\* Two deliveries that derive the same key, on two pods with the handler.
MCKeyOf == [d \in {d1, d2} |-> k1]
MCRunnable == [c \in {c1, c2} |-> {d1, d2}]
Symmetry == Permutations({d1, d2}) \cup Permutations({c1, c2})

\* A rolling deploy: the old pod c2 lacks the keyed handler of d1 and d2, which
\* c1 may claim in one batch, and it alone is left with the webhook of d3.
DeployKeyOf == [d \in {d1, d2, d3} |-> IF d = d3 THEN NoKey ELSE k1]
DeployRunnable == [c \in {c1, c2} |-> IF c = c1 THEN {d1, d2} ELSE {d3}]

==============================================================================
