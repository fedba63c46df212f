---------------------------- MODULE MCScheduleTick ----------------------------
(***************************************************************************)
(* Small instances of ScheduleTick for TLC: a day of ten minutes, windows  *)
(* of two.                                                                 *)
(***************************************************************************)
EXTENDS ScheduleTick

Entry(m, a, en) == [min |-> m, amount |-> a, enabled |-> en]

\* Slots apart, with a disabled one in a window; a slot moved; no slots.
MCSpaced == {<<Entry(1, 14, TRUE), Entry(2, 10, FALSE), Entry(6, 20, TRUE)>>, <<Entry(6, 20, TRUE)>>, <<>>}

\* Two slots whose windows overlap.
MCOverlapping == {<<Entry(1, 10, TRUE), Entry(2, 10, TRUE)>>}

\* The instance of the passing run meets the conditions of the theorems.
ASSUME MCGood == Tables = MCSpaced => GoodTables

===============================================================================
