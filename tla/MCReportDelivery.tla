-------------------------- MODULE MCReportDelivery --------------------------
(* An instance of ReportDelivery for TLC: two hosts of one preference, the   *)
(* domain itself, and a null MX that comes second to them.                   *)
EXTENDS ReportDelivery, TLC

CONSTANTS h1, h2, self, null

MCPref == (h1 :> 1) @@ (h2 :> 1) @@ (self :> 0) @@ (null :> 2)

L(dots, len) == [dots |-> dots, len |-> len, cr |-> FALSE]

\* Nothing; dots at the start and alone; a line that is too long, or becomes
\* so by its dot; more than fits, by the last line or before it; both; a bare
\* carriage return, and one behind a line that is dropped.
MCBodies ==
    {<<>>, <<L(1, 1), L(2, 2)>>, <<L(0, 4), L(1, 1)>>, <<L(0, 1), L(1, 3)>>,
     <<L(0, 3), L(0, 3)>>, <<L(0, 3), L(0, 3), L(1, 1), L(0, 0)>>, <<L(0, 8), L(0, 1)>>,
     <<L(0, 1), [dots |-> 0, len |-> 2, cr |-> TRUE]>>,
     <<L(0, 5), [dots |-> 1, len |-> 2, cr |-> TRUE], L(0, 0)>>}
=============================================================================
