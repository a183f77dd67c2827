---------------------------- MODULE MCDispatcher ----------------------------
(***************************************************************************)
(* Two controls that change their names, go, or move under the pointer;    *)
(* three hosts, one outside the capability's domains and one off the       *)
(* allowlist.                                                              *)
(***************************************************************************)
EXTENDS Dispatcher

CONSTANTS bank, console, elsewhere, ok, transfer

MCHosts    == {bank, console, elsewhere}
MCAllowed  == {bank, console}
MCNarrowed == {bank}
MCControls == {ok, transfer}

Shows(onOk, onTransfer, under, focus) ==
  [labels |-> [c \in MCControls |-> IF c = ok THEN onOk ELSE onTransfer],
   under |-> under, focus |-> focus]

MCViews ==
  {Shows("safe", "irreversible", ok, transfer),
   Shows("elevated", "irreversible", transfer, NoControl),
   Shows("irreversible", Gone, ok, ok)}
=============================================================================
