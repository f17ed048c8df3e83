----------------------- MODULE FreeKVCacheBlockQueue -----------------------
(***************************************************************************)
(* The free block queue of kv_cache_utils.py: a doubly linked list threaded*)
(* through the blocks, with a fake head and a fake tail, and a counter.    *)
(* Every operation of the class is an action; the caller gives back only   *)
(* blocks that are not linked, as the block pool does.                     *)
(***************************************************************************)
EXTENDS Integers, Sequences, SequencesExt

CONSTANT NumBlocks
ASSUME QueueAssumption == NumBlocks \in Nat \ {0}

BlockId == 0..(NumBlocks - 1)
HeadNode == -1          \* fake_free_list_head
TailNode == -2          \* fake_free_list_tail
Node == BlockId \cup {HeadNode, TailNode}
NoNode == -3            \* a pointer that is None

VARIABLES prev, next,   \* prev_free_block and next_free_block
          num,          \* num_free_blocks
          call          \* the last call: its name, argument and result

vars == <<prev, next, num, call>>

Call(name, arg, ret) == [name |-> name, arg |-> arg, ret |-> ret]

Init ==
    /\ prev = [x \in Node |-> CASE x = HeadNode -> NoNode
                                [] x = TailNode -> NumBlocks - 1
                                [] x = 0 -> HeadNode
                                [] OTHER -> x - 1]
    /\ next = [x \in Node |-> CASE x = HeadNode -> 0
                                [] x = TailNode -> NoNode
                                [] x = NumBlocks - 1 -> TailNode
                                [] OTHER -> x + 1]
    /\ num = NumBlocks
    /\ call = Call("init", <<>>, <<>>)

Linked(b) == prev[b] # NoNode /\ next[b] # NoNode

\* Raises when the list is empty.
Popleft ==
    LET first == next[HeadNode]
    IN  /\ first # TailNode
        /\ next' = [next EXCEPT ![HeadNode] = next[first], ![first] = NoNode]
        /\ prev' = [prev EXCEPT ![next[first]] = HeadNode, ![first] = NoNode]
        /\ num' = num - 1
        /\ call' = Call("take", 1, <<first>>)

\* Mutant: the new first block still points back to a returned one.
PopleftN_NoBackLink(n) ==
    LET at[k \in 0..n] == IF k = 0 THEN HeadNode ELSE next[at[k - 1]]
        out  == {at[k] : k \in 1..n}
    IN  /\ n =< num
        /\ num' = num - n
        /\ call' = Call("take", n, [k \in 1..n |-> at[k]])
        /\ next' = [x \in Node |-> CASE x \in out -> NoNode
                                     [] x = HeadNode -> next[at[n]]
                                     [] OTHER -> next[x]]
        /\ prev' = [x \in Node |-> IF x \in out THEN NoNode ELSE prev[x]]

\* Asserts that n blocks are there, walks over them, and relinks the rest.
PopleftN(n) ==
    LET at[k \in 0..n] == IF k = 0 THEN HeadNode ELSE next[at[k - 1]]
        out  == {at[k] : k \in 1..n}
        curr == next[at[n]]
    IN  /\ n =< num
        /\ num' = num - n
        /\ call' = Call("take", n, [k \in 1..n |-> at[k]])
        /\ next' = [x \in Node |-> CASE x \in out -> NoNode
                                     [] x = HeadNode -> curr
                                     [] OTHER -> next[x]]
        /\ prev' = [x \in Node |-> CASE x \in out -> NoNode
                                     [] x = curr -> HeadNode
                                     [] OTHER -> prev[x]]

\* Raises when the block is not linked.
RemoveBlock(b) ==
    /\ Linked(b)
    /\ next' = [next EXCEPT ![prev[b]] = next[b], ![b] = NoNode]
    /\ prev' = [prev EXCEPT ![next[b]] = prev[b], ![b] = NoNode]
    /\ num' = num - 1
    /\ call' = Call("remove", b, <<>>)

AppendBlock(b) ==
    LET last == prev[TailNode]
    IN  /\ ~Linked(b)
        /\ next' = [next EXCEPT ![last] = b, ![b] = TailNode]
        /\ prev' = [prev EXCEPT ![b] = last, ![TailNode] = b]
        /\ num' = num + 1
        /\ call' = Call("append", <<b>>, <<>>)

\* Link the blocks s between two neighbours of the list.
Splice(left, s, right) ==
    LET chain == <<left>> \o s \o <<right>>
        Pos(x) == CHOOSE i \in DOMAIN chain : chain[i] = x
    IN  /\ next' = [x \in Node |-> IF x = left \/ Contains(s, x)
                                   THEN chain[Pos(x) + 1] ELSE next[x]]
        /\ prev' = [x \in Node |-> IF x = right \/ Contains(s, x)
                                   THEN chain[Pos(x) - 1] ELSE prev[x]]

\* Mutant: the blocks go to the wrong end.
PrependN_AtBack(s) == /\ IF s = <<>> THEN UNCHANGED <<prev, next>>
                         ELSE Splice(prev[TailNode], s, TailNode)
                      /\ num' = num + Len(s)
                      /\ call' = Call("prepend", s, <<>>)

PrependN(s) == /\ IF s = <<>> THEN UNCHANGED <<prev, next>>
                  ELSE Splice(HeadNode, s, next[HeadNode])
               /\ num' = num + Len(s)
               /\ call' = Call("prepend", s, <<>>)

AppendN(s) == /\ IF s = <<>> THEN UNCHANGED <<prev, next>>
                 ELSE Splice(prev[TailNode], s, TailNode)
              /\ num' = num + Len(s)
              /\ call' = Call("append", s, <<>>)

GivenBack == {s \in BoundedSeq({b \in BlockId : ~Linked(b)}, NumBlocks) :
                IsInjective(s)}

Next == \/ Popleft
        \/ \E n \in 0..NumBlocks : PopleftN(n)
        \/ \E b \in BlockId : RemoveBlock(b) \/ AppendBlock(b)
        \/ \E s \in GivenBack : PrependN(s) \/ AppendN(s)

Spec == Init /\ [][Next]_vars
-----------------------------------------------------------------------------
\* get_all_free_blocks: the blocks met from the fake head to the fake tail.
Walk(nxt) ==
    LET at[k \in 0..(NumBlocks + 1)] ==
            IF k = 0 THEN HeadNode
            ELSE IF at[k - 1] \in {TailNode, NoNode} THEN NoNode
            ELSE nxt[at[k - 1]]
    IN  [k \in 1..Cardinality({k \in DOMAIN at : at[k] \in BlockId}) |-> at[k]]

\* Pointers are blocks, the fake nodes or None; the counter is in range.
TypeOK == /\ prev \in [Node -> Node \cup {NoNode}]
          /\ next \in [Node -> Node \cup {NoNode}]
          /\ num \in 0..NumBlocks

\* Walking back from the tail meets the same blocks as walking from the head,
\* num_free_blocks counts them, and a block outside the list has no pointers,
\* which is how remove and popleft_n recognise it.
LinksConsistent ==
    /\ TypeOK
    /\ num = Len(Walk(next))
    /\ \A x \in {HeadNode} \cup ToSet(Walk(next)) :
          /\ next[x] \in BlockId \cup {TailNode}
          /\ prev[next[x]] = x
    /\ \A b \in BlockId \ ToSet(Walk(next)) : prev[b] = NoNode /\ next[b] = NoNode

FreeList == INSTANCE FreeBlockList WITH list <- Walk(next)

\* The linked list behaves as the sequence the block pool relies on: the
\* blocks returned, and the eviction order left behind, are those of
\* FreeBlockList.
ImplementsFreeList == FreeList!ListSpec
=============================================================================
