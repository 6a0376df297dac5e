---------------------------- MODULE CircularBuffer ----------------------------
(***************************************************************************)
(* The circular buffer of aesd-char-driver/aesd-circular-buffer.{c,h}: a   *)
(* fixed array of entries, each a pointer to a caller-owned block and the  *)
(* number of bytes in it, filled round robin.  The module only defines the *)
(* data structure and its functions; RingLog drives it on its own and      *)
(* AesdChar uses it inside the character driver.                           *)
(***************************************************************************)
EXTENDS Integers, Sequences, Functions, FiniteSetsExt

CONSTANTS
  MAX_WRITE_OPERATIONS,  \* AESDCHAR_MAX_WRITE_OPERATIONS_SUPPORTED
  NULL                   \* the null pointer

\* in_offs and out_offs are uint8_t: 255 slots are the most they can number
\* (the code uses 10).
ASSUME MaxOpsAssumption == MAX_WRITE_OPERATIONS \in 1..255

Slots == 0 .. MAX_WRITE_OPERATIONS - 1

\* An entry that was never written: a null pointer and no bytes.
NullEntry == [buffptr |-> NULL, size |-> 0]

\* struct aesd_circular_buffer, with entries from E
aesd_circular_buffer(E) ==
  [ entry : [Slots -> E \cup {NullEntry}], in_offs : Slots, out_offs : Slots, full : BOOLEAN ]

-----------------------------------------------------------------------------

aesd_circular_buffer_init ==
  [ entry |-> [i \in Slots |-> NullEntry], in_offs |-> 0, out_offs |-> 0, full |-> FALSE ]

\* uint8_t arithmetic
UInt8(n) == n % 256

\* Faulty lookup of the replaced pointer: in_offs has been advanced already.
ReplacedPtrNextSlot(b) == b.entry[(b.in_offs + 1) % MAX_WRITE_OPERATIONS].buffptr

\* The pointer that add_entry returns: what the slot it fills held before.
ReplacedPtr(b) == b.entry[b.in_offs].buffptr

\* Faulty add_entry: in_offs does not wrap.
AddEntryNoWrap(b, e) ==
  LET next == UInt8(b.in_offs + 1)
      full == b.full \/ next = MAX_WRITE_OPERATIONS
  IN  [ entry    |-> [b.entry EXCEPT ![b.in_offs] = e],
        in_offs  |-> next,
        out_offs |-> IF full THEN next ELSE b.out_offs,
        full     |-> full ]

\* Faulty add_entry: out_offs is not advanced when the oldest entry is lost.
AddEntryOutOffsStays(b, e) ==
  LET next == UInt8(b.in_offs + 1)
  IN  [ entry    |-> [b.entry EXCEPT ![b.in_offs] = e],
        in_offs  |-> IF next = MAX_WRITE_OPERATIONS THEN 0 ELSE next,
        out_offs |-> b.out_offs,
        full     |-> b.full \/ next = MAX_WRITE_OPERATIONS ]

(***************************************************************************)
(* aesd_circular_buffer_add_entry: the new entry goes to in_offs, in_offs  *)
(* advances and wraps, and once the array has been filled out_offs follows *)
(* it.                                                                     *)
(***************************************************************************)
aesd_circular_buffer_add_entry(b, e) ==
  LET next == UInt8(b.in_offs + 1)
      in   == IF next = MAX_WRITE_OPERATIONS THEN 0 ELSE next
      full == b.full \/ next = MAX_WRITE_OPERATIONS
  IN  [ entry    |-> [b.entry EXCEPT ![b.in_offs] = e],
        in_offs  |-> in,
        out_offs |-> IF full THEN in ELSE b.out_offs,
        full     |-> full ]

EntryCount(b) == IF b.full THEN MAX_WRITE_OPERATIONS ELSE b.in_offs

\* The array index of the i-th oldest entry (i = 0 is the oldest).
SlotOf(b, i) == (b.out_offs + i) % MAX_WRITE_OPERATIONS

NotFound == [slot |-> NULL, offset |-> 0]

\* Faulty lookup: the walk starts at slot 0 instead of at out_offs.
FindFromSlotZero(b, char_offset) ==
  LET Size == [i \in 0 .. EntryCount(b) - 1 |-> b.entry[i].size]
      Rest(i) == char_offset - SumFunctionOnSet(Size, 0 .. i - 1)
      Hit(i) == Rest(i) \in 0 .. Size[i] - 1
  IN  IF \E i \in DOMAIN Size : Hit(i)
        THEN LET i == CHOOSE i \in DOMAIN Size : Hit(i)
             IN  [slot |-> i, offset |-> Rest(i)]
        ELSE NotFound

(***************************************************************************)
(* aesd_circular_buffer_find_entry_offset_for_fpos: walk the entries from  *)
(* the oldest one, subtracting each size from the offset, until the rest   *)
(* falls inside an entry.  (Rest(i) never grows with i and drops below 0   *)
(* only behind the entry that is hit: the first hit is the only one.)      *)
(***************************************************************************)
aesd_circular_buffer_find_entry_offset_for_fpos(b, char_offset) ==
  LET Size == [i \in 0 .. EntryCount(b) - 1 |-> b.entry[SlotOf(b, i)].size]
      \* what is left of char_offset when the loop reaches the i-th entry
      Rest(i) == char_offset - SumFunctionOnSet(Size, 0 .. i - 1)
      Hit(i) == Rest(i) \in 0 .. Size[i] - 1
  IN  IF \E i \in DOMAIN Size : Hit(i)
        THEN LET i == CHOOSE i \in DOMAIN Size : Hit(i)
             IN  [slot |-> SlotOf(b, i), offset |-> Rest(i)]
        ELSE NotFound

\* Faulty total: the walk of the lookup, which misses slots once it has wrapped.
SizeBelowInOffs(b) ==
  SumFunctionOnSet([i \in Slots |-> b.entry[i].size], 0 .. b.in_offs - 1)

\* The total the driver reports to lseek: it adds up all the slots, used or not.
get_buffer_size(b) ==
  SumFunction([i \in Slots |-> b.entry[i].size])

-----------------------------------------------------------------------------
(***************************************************************************)
(* What add_entry maintains and the lookup relies on.                      *)
(***************************************************************************)

\* The entries in the order in which the lookup visits them, oldest first.
Contents(b) ==
  [i \in 1 .. EntryCount(b) |-> b.entry[SlotOf(b, i - 1)]]

(***************************************************************************)
(* Until the array has been filled, entries sit in slots 0 .. in_offs-1,   *)
(* the rest is null and reading starts at slot 0; afterwards every slot    *)
(* holds an entry and reading starts at the slot that is written next.     *)
(***************************************************************************)
Disciplined(b, E) ==
  /\ b.out_offs = IF b.full THEN b.in_offs ELSE 0
  /\ \A i \in Slots :
       IF b.full \/ i < b.in_offs THEN b.entry[i] \in E ELSE b.entry[i] = NullEntry

=============================================================================
