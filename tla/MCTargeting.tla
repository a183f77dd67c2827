---------------------------- MODULE MCTargeting ----------------------------
(***************************************************************************)
(* DriftingPage on pages of up to three nodes out of twelve: labels,       *)
(* values and controls, in two rows and outside them, some of one name or  *)
(* of names that fold together or to nothing.                              *)
(***************************************************************************)
EXTENDS DriftingPage

CONSTANTS savings, Savings, dash, money, save, SAVE, edit,
          row1, row2, nav, form, css, blank

MCNames  == {savings, Savings, dash, money, save, SAVE, edit}
MCFolds  == {savings, money, save, edit, blank}
MCFoldOf == [n \in MCNames |-> CASE n \in {savings, Savings} -> savings
                                 [] n = dash -> blank
                                 [] n = money -> money
                                 [] n \in {save, SAVE} -> save
                                 [] n = edit -> edit]
MCRoles    == {"cell", "button"}
MCReadable == {"cell"}
MCRows     == {row1, row2}
MCFrames   == {nav}
MCRegions  == {form}
MCHints    == {css}
MCValues   == {money}

Cell(name, row) == [role |-> "cell", name |-> name, row |-> row,
                    scope |-> [frame |-> NoFrame, region |-> NoRegion], hint |-> NoHint]
Button(name, row, frame, region, hint) ==
  [role |-> "button", name |-> name, row |-> row,
   scope |-> [frame |-> frame, region |-> region], hint |-> hint]

MCShapes ==
  {Cell(savings, row1), Cell(Savings, row2), Cell(dash, row1), Cell(money, row1),
   Cell(NoName, row1), Cell(savings, NoRow)} \cup
  {Button(save, row1, NoFrame, NoRegion, css), Button(edit, row2, NoFrame, NoRegion, NoHint),
   Button(save, NoRow, NoFrame, NoRegion, NoHint), Button(SAVE, NoRow, NoFrame, form, css),
   Button(edit, NoRow, NoFrame, NoRegion, css), Button(save, NoRow, nav, NoRegion, NoHint)}
=============================================================================
