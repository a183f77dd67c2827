-------------------------- MODULE MCSessionBroker --------------------------
(***************************************************************************)
(* SessionBroker on a small instance: two operators, two interventions     *)
(* one after the other, two screens.                                       *)
(***************************************************************************)
EXTENDS SessionBroker, TLC

CONSTANTS op1, op2, i1, i2, s1, s2

MCOperators == {op1, op2}
MCIds       == {i1, i2}
MCScreens   == {s1, s2}
=============================================================================
