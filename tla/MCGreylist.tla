----------------------------- MODULE MCGreylist -----------------------------
(* Instances of Greylist for TLC.                                           *)
EXTENDS Greylist, TLC

CONSTANTS k1, k2, c1, c2

\* Key k1 waits for time, k2 for attempts.
MCAllowAfter    == (k1 :> 1) @@ (k2 :> 2)
MCMinRetryAfter == (k1 :> 2) @@ (k2 :> 0)
MCResetAfter    == (k1 :> 4) @@ (k2 :> 3)
MCRetryGap      == [c \in Client |-> 2]
\* Two senders' messages for the same two recipients, in either order: the
\* sender of a key may be one host with two connections.
MCKeysOf        == (c1 :> <<k1, k2>>) @@ (c2 :> <<k2, k1>>)
=============================================================================
