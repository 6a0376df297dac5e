------------------------------- MODULE RingLog -------------------------------
(***************************************************************************)
(* The circular buffer on its own: a caller that holds whatever lock is    *)
(* needed adds entries for ever.  RingLog is shown to implement BoundedLog *)
(* and its lookup is compared with a lookup in the concatenation of the    *)
(* entries.                                                                *)
(***************************************************************************)
EXTENDS CircularBuffer, SequencesExt

CONSTANTS
  Ptr,     \* addresses of the blocks the caller allocates
  Sizes    \* how many bytes a block may hold

ASSUME PtrAssumption == NULL \notin Ptr
ASSUME SizesAssumption == Sizes \subseteq Nat

Entry == [buffptr : Ptr, size : Sizes]

VARIABLES
  buffer,  \* struct aesd_circular_buffer
  rptr     \* what the last call of add_entry returned

vars == <<buffer, rptr>>

Init ==
  /\ buffer = aesd_circular_buffer_init
  /\ rptr = NULL

Add(e) ==
  /\ buffer' = aesd_circular_buffer_add_entry(buffer, e)
  /\ rptr' = ReplacedPtr(buffer)

Next == \E e \in Entry : Add(e)

Spec == Init /\ [][Next]_vars

-----------------------------------------------------------------------------

\* The buffer is a struct aesd_circular_buffer, add_entry returns a pointer.
TypeOK ==
  /\ buffer \in aesd_circular_buffer(Entry)
  /\ rptr \in Ptr \cup {NULL}

(***************************************************************************)
(* The two-way test of `full' in the lookup is right: see Disciplined.     *)
(***************************************************************************)
IndexDiscipline == Disciplined(buffer, Entry)

\* "all buffer strings ... concatenated end to end": where every byte is kept.
Bytes ==
  FlattenSeq([i \in 1 .. EntryCount(buffer) |->
                [k \in 1 .. Contents(buffer)[i].size |->
                   [slot |-> SlotOf(buffer, i - 1), offset |-> k - 1]]])

(***************************************************************************)
(* The lookup finds the byte that the offset has in the concatenation of   *)
(* the entries, across the wrap of the array and across entries of any     *)
(* size, and finds nothing from the end on (the NULL the driver turns into *)
(* end of file).                                                           *)
(***************************************************************************)
FindAgreesWithConcatenation ==
  \A off \in 0 .. Len(Bytes) + 1 :
    aesd_circular_buffer_find_entry_offset_for_fpos(buffer, off) =
      IF off < Len(Bytes) THEN Bytes[off + 1] ELSE NotFound

(***************************************************************************)
(* The size that lseek works with, summed over all slots, is the number of *)
(* bytes the lookup can reach: neither a slot never written nor one        *)
(* overwritten is counted.                                                 *)
(***************************************************************************)
SizeIsReachable == get_buffer_size(buffer) = Len(Bytes)

(***************************************************************************)
(* add_entry behaves as a bounded first-in first-out log, and the pointer  *)
(* it returns is the one of the oldest entry exactly when that was         *)
(* dropped (the promise of aesd-circular-buffer.c:48-53).                  *)
(***************************************************************************)
Abstract == INSTANCE BoundedLog WITH
  Capacity <- MAX_WRITE_OPERATIONS,
  NONE     <- NULL,
  log      <- Contents(buffer),
  dropped  <- rptr

ImplementsBoundedLog == Abstract!Spec

=============================================================================
