---------------------------- MODULE OfflineJournal ----------------------------
(***************************************************************************)
(* The class OfflineJournal of src/spd_offline_journal.h as a data type: a *)
(* journal is a record, every method an operator on it.                    *)
(*                                                                         *)
(* A missed action is an opaque value.  Its time, kind and amount, and the *)
(* window's start time and cause, are carried along by the code and never  *)
(* decide anything, so they are left out.                                  *)
(***************************************************************************)
EXTENDS Naturals, Sequences

CONSTANT MaxActions             \* kMaxActions, 64 in the code

ASSUME MaxActionsAssumption == MaxActions \in Nat \ {0}

\* The state of a constructed journal: closed, empty.
Closed == [open |-> FALSE, actions |-> <<>>, dropped |-> 0]

\* markOffline() opens the window; a window already open is left alone.  It
\* does not reset dropped_.
MarkOffline(j) == IF j.open THEN j ELSE [j EXCEPT !.open = TRUE, !.actions = <<>>]

\* Is there room for one more action?
HasRoom(j) == Len(j.actions) < MaxActions

\* Variant of Record: no limit.
RecordUnbounded(j, a) == IF ~j.open THEN j ELSE [j EXCEPT !.actions = Append(@, a)]

\* record() is ignored on a closed journal and counts what does not fit.
Record(j, a) ==
  IF ~j.open THEN j
  ELSE IF HasRoom(j) THEN [j EXCEPT !.actions = Append(@, a)]
  ELSE [j EXCEPT !.dropped = @ + 1]

\* closeOnline(): the report it returns holds j.actions; the journal is reset.
CloseOnline(j) == [j EXCEPT !.open = FALSE, !.actions = <<>>, !.dropped = 0]

-------------------------------------------------------------------------------
(* The NVS form.  serialize() writes the window and its actions and leaves  *)
(* dropped_ out; an absent blob and the empty string read the same.         *)

NoBlob == [present |-> FALSE, actions |-> <<>>]

Serialize(j) == [present |-> TRUE, actions |-> j.actions]

\* deserialize() on a fresh journal: the window is open again.  The number of
\* actions read back is not limited by kMaxActions.
Deserialize(j, b) == [j EXCEPT !.open = TRUE, !.actions = b.actions]

===============================================================================
