---------------------------- MODULE SessionTypes ----------------------------
(***************************************************************************)
(* What the modules about one live session have in common: its actors      *)
(* (src/src/cua/domain/actor.py), the people who may hold it, the screens  *)
(* a snapshot may show, and what the code's None is in each place.         *)
(***************************************************************************)
EXTENDS Naturals

CONSTANTS Operators,    \* the people who may take a session over
          NoOperator,   \* operator is None
          Screens,      \* what the application may be showing
          NoSnapshot,   \* a snapshot that was not supplied
          NotCaptured,  \* a delta with a side missing
          Ids           \* the intervention ids new_id may issue, each once

ASSUME SessionAssumption ==
  /\ NoOperator \notin Operators
  /\ NoSnapshot \notin Screens
  /\ NotCaptured \notin Screens \X Screens

Actors == {"automation", "human", "system"}

(* diff_snapshots keeps what changed between two observed screens. *)
Deltas == (Screens \X Screens) \cup {NotCaptured}

Diff(before, after) ==
  IF NoSnapshot \in {before, after} THEN NotCaptured ELSE <<before, after>>
=============================================================================
