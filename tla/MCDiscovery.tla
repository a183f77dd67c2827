---------------------------- MODULE MCDiscovery -----------------------------
(***************************************************************************)
(* Discovery with one named control and an unnamed one, four texts of      *)
(* which three are words of the goal - an account number, a number of less *)
(* than four digits and a price - and one output.                          *)
(***************************************************************************)
EXTENDS Discovery

CONSTANTS member, balance, account, short, price, other

MCGoalValues  == {account, short, price}
MCNumerals    == {account, short}
MCIdentifiers == {account}
MCDecimals    == {price}
MCNumbers     == {account, short, price}
MCLabels      == {member}
MCTexts       == {account, short, price, other}
MCOutputs     == {balance}
MCTurnTokens  == {1, 3}
=============================================================================
