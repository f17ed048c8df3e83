---------------------------- MODULE MCScheduler ----------------------------
(* Instances of Scheduler for TLC: requests of which some share a prefix,  *)
(* in a pool too small for all of them.                                    *)
EXTENDS Scheduler

CONSTANTS r1, r2, r3, SharedBlocks, Alone,
          Prompt1, Prompt2, Prompt3,   \* prompt lengths
          Out1, Out2, Out3             \* max_tokens

\* The requests agree on the first SharedBlocks blocks, except those in Alone;
\* then each goes on by itself.
MCBlockHash ==
    [r \in Request |-> [i \in 1..MaxBlocks |->
        IF i =< SharedBlocks /\ r \notin Alone THEN <<i, "shared">> ELSE <<i, r>>]]

MCHash == {MCBlockHash[r][i] : r \in Request, i \in 1..MaxBlocks}

MCRank == [r \in Request |-> CASE r = r1 -> 1 [] r = r2 -> 2 [] r = r3 -> 3]
MCPromptLen == [r \in Request |-> <<Prompt1, Prompt2, Prompt3>>[MCRank[r]]]
MCMaxTokens == [r \in Request |-> <<Out1, Out2, Out3>>[MCRank[r]]]
=============================================================================
