------------------------------ MODULE MCGateway ------------------------------
EXTENDS Gateway, TLC

\* A table of two buckets for three keys; two requests of every kind. The
\* parts share the names of their requests and of what those are about.
MCParts == {"limiter", "pats", "browser"}

MCSetups ==
    {[sliding |-> TRUE, optional |-> FALSE, doubleSubmit |-> FALSE, strict |-> TRUE, allowMissing |-> FALSE],
     [sliding |-> FALSE, optional |-> TRUE, doubleSubmit |-> FALSE, strict |-> TRUE, allowMissing |-> TRUE],
     [sliding |-> FALSE, optional |-> TRUE, doubleSubmit |-> TRUE, strict |-> TRUE, allowMissing |-> TRUE]}

Symmetry == Permutations(LimitKeys) \cup Permutations(Requests) \cup Permutations(Sess)
=============================================================================
