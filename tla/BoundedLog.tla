------------------------------ MODULE BoundedLog ------------------------------
(***************************************************************************)
(* What the circular buffer promises to its callers: a first-in first-out  *)
(* log of the last Capacity entries.  Adding to a full log drops the       *)
(* oldest entry and hands its pointer back, so that the caller can free    *)
(* the memory; adding to any other log hands back NONE.                    *)
(***************************************************************************)
EXTENDS Integers, Sequences

CONSTANTS
  Capacity,  \* how many entries the log keeps
  Entry,     \* the entries that may be added
  NONE       \* handed back when nothing was dropped

VARIABLES
  log,       \* the entries, oldest first
  dropped    \* the pointer the last addition handed back

Init ==
  /\ log = <<>>
  /\ dropped = NONE

Add(e) ==
  \/ /\ Len(log) < Capacity
     /\ log' = Append(log, e)
     /\ dropped' = NONE
  \/ /\ Len(log) = Capacity
     /\ log' = Append(Tail(log), e)
     /\ dropped' = Head(log).buffptr

Next == \E e \in Entry : Add(e)

Spec == Init /\ [][Next]_<<log, dropped>>

=============================================================================
