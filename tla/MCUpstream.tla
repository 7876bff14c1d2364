----------------------------- MODULE MCUpstream -----------------------------
EXTENDS Upstream

\* One call of a trade, that is not kept, and three reads of one chain.
CONSTANTS trade, browse1, browse2, browse3, chain

MCPrio == [c \in Calls |-> IF c = trade THEN 0 ELSE 2]
MCKey  == [c \in Calls |-> IF c \in {browse1, browse2, browse3} THEN chain ELSE NoKey]

=============================================================================
