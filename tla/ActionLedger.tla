----------------------------- MODULE ActionLedger -----------------------------
(***************************************************************************)
(* What the device promises about the physical actions it reports, without *)
(* loops, connections or flash: the fate of every action.                  *)
(*                                                                         *)
(*   none -> pending -> durable -> inflight -> delivered                   *)
(*                                                                         *)
(* A pending action may be delivered directly (the device is online) or be *)
(* lost; a durable one is only ever taken up for replay; one in flight is  *)
(* delivered or lost.  Nothing is delivered twice, nothing is delivered    *)
(* after it was given up, and the cloud sees actions in the order in which *)
(* they were performed.                                                    *)
(***************************************************************************)
EXTENDS Naturals, Sequences, Functions

CONSTANT MaxActs                \* the actions are numbered in order, 1..MaxActs

VARIABLES
  fate,                         \* the fate of every action
  seen                          \* the actions the cloud has seen, in order

vars == <<fate, seen>>

Action == 1 .. MaxActs
Fate == {"none", "pending", "durable", "inflight", "delivered", "lost"}

With(f) == {a \in Action : fate[a] = f}

\* Every action of S moves to fate f.
Move(S, f) == [a \in Action |-> IF a \in S THEN f ELSE fate[a]]

\* s lists S in increasing order.
Lists(s, S) ==
  /\ Range(s) = S
  /\ \A i, j \in DOMAIN s : i < j => s[i] < s[j]

Init ==
  /\ fate = [a \in Action |-> "none"]
  /\ seen = <<>>

\* The device performs its next action.
Occur(a) ==
  /\ fate[a] = "none"
  /\ \A b \in Action : b < a => fate[b] # "none"
  /\ fate' = Move({a}, "pending")
  /\ UNCHANGED seen

\* A pending action reaches flash.
Persist(a) ==
  /\ fate[a] = "pending"
  /\ fate' = Move({a}, "durable")
  /\ UNCHANGED seen

\* Everything in flash is taken out to be reported.
Replay ==
  /\ With("durable") # {}
  /\ fate' = Move(With("durable"), "inflight")
  /\ UNCHANGED seen

\* The cloud sees a pending action ...
DeliverLive(a) ==
  /\ fate[a] = "pending"
  /\ fate' = Move({a}, "delivered")
  /\ seen' = Append(seen, a)

\* ... or everything that is in flight, in order.
DeliverReplay ==
  /\ With("inflight") # {}
  /\ fate' = Move(With("inflight"), "delivered")
  /\ \E n \in 1 .. MaxActs : \E s \in [1 .. n -> With("inflight")] :
       Lists(s, With("inflight")) /\ seen' = seen \o s

\* Only what is not in flash can be given up.
Lose(S) ==
  /\ S # {}
  /\ fate' = Move(S, "lost")
  /\ UNCHANGED seen

Next ==
  \/ \E a \in Action : Occur(a) \/ Persist(a) \/ DeliverLive(a)
  \/ Replay
  \/ DeliverReplay
  \/ \E S \in SUBSET (With("pending") \union With("inflight")) : Lose(S)

Spec == Init /\ [][Next]_vars

===============================================================================
