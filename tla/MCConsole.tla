----------------------------- MODULE MCConsole -----------------------------
(***************************************************************************)
(* Console on a small instance: two pool threads, two operators and the    *)
(* one intervention a run can leave behind.                                *)
(***************************************************************************)
EXTENDS Console, TLC

CONSTANTS op1, op2, i1, s1, t1, t2

MCOperators == {op1, op2}
MCIds       == {i1}
MCScreens   == {s1}
MCPool      == {t1, t2}
=============================================================================
