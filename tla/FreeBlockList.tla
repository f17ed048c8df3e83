--------------------------- MODULE FreeBlockList ---------------------------
(***************************************************************************)
(* What FreeKVCacheBlockQueue promises to the block pool: a sequence of    *)
(* distinct blocks, taken from the front, given back at either end, with   *)
(* removal from the middle.  Module BlockPool uses the queue as this       *)
(* sequence.                                                               *)
(***************************************************************************)
EXTENDS Naturals, Sequences

CONSTANT NumBlocks

BlockId == 0..(NumBlocks - 1)

VARIABLES list,   \* the free blocks, in eviction order
          call    \* the last call: its name, argument and result

Call(name, arg, ret) == [name |-> name, arg |-> arg, ret |-> ret]

\* The lists of distinct blocks a caller may give back.
Taken    == BlockId \ {list[i] : i \in DOMAIN list}
Returned == {s \in UNION {[1..n -> Taken] : n \in 0..NumBlocks} :
               \A i, j \in DOMAIN s : s[i] = s[j] => i = j}

ListInit == /\ list = [i \in 1..NumBlocks |-> i - 1]
            /\ call = Call("init", <<>>, <<>>)

Take(n)   == /\ n =< Len(list)
             /\ list' = SubSeq(list, n + 1, Len(list))
             /\ call' = Call("take", n, SubSeq(list, 1, n))
Unlink(b) == \E i \in DOMAIN list : /\ list[i] = b
                                   /\ list' = SubSeq(list, 1, i - 1)
                                                \o SubSeq(list, i + 1, Len(list))
                                   /\ call' = Call("remove", b, <<>>)
PutFront(s) == list' = s \o list /\ call' = Call("prepend", s, <<>>)
PutBack(s)  == list' = list \o s /\ call' = Call("append", s, <<>>)

ListNext == \/ \E n \in 0..NumBlocks : Take(n)
            \/ \E b \in BlockId : Unlink(b)
            \/ \E s \in Returned : PutFront(s) \/ PutBack(s)

ListSpec == ListInit /\ [][ListNext]_<<list, call>>
=============================================================================
