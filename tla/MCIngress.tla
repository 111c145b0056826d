----------------------------- MODULE MCIngress -----------------------------
EXTENDS Ingress
CONSTANTS m1, m2, m3, office, chat, thread, page
MCParts  == [m \in Msgs |-> IF m = m1 THEN 2 ELSE 1]
MCConvOf == [m \in Msgs |-> IF m = m2 THEN page ELSE thread]
MCHome   == [s \in Sessions |-> thread]
=============================================================================
