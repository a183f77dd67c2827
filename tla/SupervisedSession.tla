------------------------- MODULE SupervisedSession -------------------------
(***************************************************************************)
(* What a supervised session promises to the people around it, without     *)
(* lease, queue or handoff record: it is automated until it asks for a     *)
(* person; one request waits; one operator takes it; the hold ends by      *)
(* being given back or by lapsing, a lapse asking again with the same      *)
(* request; automation carries on only after a give-back.  Every step      *)
(* opens a new generation, so a generation names one hold.                 *)
(***************************************************************************)
EXTENDS Naturals

CONSTANTS Operators, Ids

VARIABLES phase,       \* "automated", "waiting", "held" or "returned"
          asking,      \* the requests not yet settled: none or one
          who,         \* the operator acting: none or one
          generation

vars == <<phase, asking, who, generation>>

Init ==
  /\ phase = "automated"
  /\ asking = {}
  /\ who = {}
  /\ generation = 1

Step(from, to) ==
  /\ phase = from
  /\ phase' = to
  /\ generation' = generation + 1

Ask(i)     == Step("automated", "waiting") /\ asking' = {i} /\ who' = {}
Take(op)   == Step("waiting", "held")      /\ UNCHANGED asking /\ who' = {op}
GiveBack   == Step("held", "returned")     /\ UNCHANGED asking /\ who' = {}
HoldLapses == Step("held", "waiting")      /\ UNCHANGED asking /\ who' = {}
CarryOn    == Step("returned", "automated") /\ asking' = {} /\ who' = {}

Next ==
  \/ \E i \in Ids : Ask(i)
  \/ \E op \in Operators : Take(op)
  \/ GiveBack
  \/ HoldLapses
  \/ CarryOn

Spec == Init /\ [][Next]_vars
=============================================================================
