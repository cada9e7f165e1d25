---------------------------- MODULE MCWebAccess -----------------------------
(* Instances of WebAccess for TLC. *)
EXTENDS WebAccess, TLC

Symmetry == Permutations(Request) \cup Permutations(Cookie)
            \cup Permutations(Settings) \cup Permutations(AttemptId) \cup Permutations(MessageId)
=============================================================================
