--------------------------- MODULE MCPrefixCache ---------------------------
(* Instances of PrefixCache for TLC: requests that share a prefix.         *)
EXTENDS PrefixCache, TLC

CONSTANTS r1, r2, t1, SharedBlocks

\* All requests agree on the first SharedBlocks blocks; then r1 and r2 go on
\* alone.
MCBlockHash ==
    [r \in Request |-> [i \in 1..MaxBlocks |->
        IF i =< SharedBlocks THEN <<i, "shared">> ELSE <<i, r>>]]

MCHash == {MCBlockHash[r][i] : r \in Request, i \in 1..MaxBlocks}

MCPromptLen == [r \in Request |-> MaxModelLen - 1]
=============================================================================
