------------------------- MODULE MCEncoderScheduler -------------------------
(***************************************************************************)
(* Small instances of EncoderScheduler: three items, the second of which   *)
(* has a position without an embedding.                                    *)
(***************************************************************************)
EXTENDS EncoderScheduler

CONSTANTS r1, r2, r3, A, B, C

MCLength == (A :> 2) @@ (B :> 2) @@ (C :> 1)
MCEmbeds == (A :> {0, 1}) @@ (B :> {1}) @@ (C :> {0})

At(h, n) == [hash |-> h, offset |-> n]

MCFeatures ==
  (r1 :> <<At(A, 1), At(B, 3)>>) @@
  (r2 :> <<At(B, 0), At(C, 2), At(B, 3)>>) @@
  (r3 :> <<At(A, 0), At(C, 3)>>)

MCNumTokens == (r1 :> 6) @@ (r2 :> 5) @@ (r3 :> 4)
MCPriority == (r1 :> 3) @@ (r2 :> 2) @@ (r3 :> 1)
=============================================================================
