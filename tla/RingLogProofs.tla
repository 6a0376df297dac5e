---------------------------- MODULE RingLogProofs ----------------------------
(***************************************************************************)
(* Proofs that the circular buffer, for every number of slots up to 255,   *)
(* keeps its index discipline and implements the bounded log, and that the *)
(* lookup by offset and the size total agree with the concatenation of its *)
(* entries.                                                                *)
(***************************************************************************)
EXTENDS RingLog, CircularBufferProofs

LEMMA InitInv == Init => TypeOK /\ IndexDiscipline
  BY InitDisciplined DEF Init, TypeOK, IndexDiscipline

LEMMA NextInv == TypeOK /\ IndexDiscipline /\ [Next]_vars => (TypeOK /\ IndexDiscipline)'
<1> SUFFICES ASSUME TypeOK, IndexDiscipline, [Next]_vars
             PROVE  (TypeOK /\ IndexDiscipline)'
  OBVIOUS
<1>1. ASSUME NEW e \in Entry, Add(e)
      PROVE  (TypeOK /\ IndexDiscipline)'
  <2>1. ReplacedPtr(buffer) \in Ptr \cup {NULL}
    BY DEF ReplacedPtr, TypeOK, aesd_circular_buffer, Entry, NullEntry
  <2> QED
    BY <1>1, <2>1, AddEntryDisciplined DEF Add, TypeOK, IndexDiscipline
<1>2. CASE UNCHANGED vars
  BY <1>2 DEF vars, TypeOK, IndexDiscipline
<1> QED
  BY <1>1, <1>2 DEF Next

(***************************************************************************)
(* The index discipline of the buffer, for every number of slots and every *)
(* sequence of calls of add_entry.                                         *)
(***************************************************************************)
THEOREM IndexDisciplineHolds == Spec => [](TypeOK /\ IndexDiscipline)
  BY InitInv, NextInv, PTL DEF Spec

(***************************************************************************)
(* The buffer and what add_entry returns have their types.                 *)
(***************************************************************************)
THEOREM TypeSafety == Spec => []TypeOK
  BY IndexDisciplineHolds, PTL

-----------------------------------------------------------------------------
(***************************************************************************)
(* Where the bytes of the concatenation are.                               *)
(***************************************************************************)
Places ==
  [i \in 1 .. EntryCount(buffer) |->
     [k \in 1 .. Contents(buffer)[i].size |-> [slot |-> SlotOf(buffer, i - 1), offset |-> k - 1]]]

Place == [slot : Slots, offset : Nat]

LEMMA EntrySizes == \A e \in Entry : e.size \in Nat
BY SizesAssumption DEF Entry

LEMMA PlacesLemma ==
  ASSUME TypeOK, IndexDiscipline, buffer \in aesd_circular_buffer(Entry)
  PROVE  /\ Places \in Seq(Seq(Place)) /\ Len(Places) = EntryCount(buffer)
         /\ \A i \in 1 .. EntryCount(buffer) : Len(Places[i]) = Contents(buffer)[i].size
         /\ \A i \in 1 .. EntryCount(buffer) : \A k \in 1 .. Contents(buffer)[i].size :
              Places[i][k] = [slot |-> SlotOf(buffer, i - 1), offset |-> k - 1]
<1>1. EntryCount(buffer) \in Nat /\ \A i \in 1 .. EntryCount(buffer) : Contents(buffer)[i].size \in Nat
  BY EntrySizes, UptoLemma DEF IndexDiscipline
<1>2. ASSUME NEW i \in 1 .. EntryCount(buffer)
      PROVE  Places[i] \in Seq(Place) /\ Len(Places[i]) = Contents(buffer)[i].size
  <2>1. i - 1 \in 0 .. EntryCount(buffer) - 1
    BY <1>1
  <2>2. SlotOf(buffer, i - 1) \in Slots
    BY <2>1, SlotOfLemma DEF IndexDiscipline
  <2> DEFINE n == Contents(buffer)[i].size
             slot == SlotOf(buffer, i - 1)
  <2>3. Places[i] = [k \in 1 .. n |-> [slot |-> slot, offset |-> k - 1]] /\ n \in Nat
    BY <1>1 DEF Places
  <2> HIDE DEF n, slot
  <2>4. \A k \in 1 .. n : [slot |-> slot, offset |-> k - 1] \in Place
    BY <2>2, <2>3 DEF Place, slot
  <2>5. [k \in 1 .. n |-> [slot |-> slot, offset |-> k - 1]] \in Seq(Place)
    BY <2>3, <2>4
  <2>. QED  BY <2>3, <2>5 DEF n
<1>3. Places \in Seq(Seq(Place)) /\ Len(Places) = EntryCount(buffer)
  <2>1. Places = [i \in 1 .. EntryCount(buffer) |-> Places[i]]
    BY DEF Places
  <2>. QED  BY <1>1, <1>2, <2>1
<1>. QED  BY <1>1, <1>2, <1>3 DEF Places

LEMMA BytesLemma ==
  ASSUME TypeOK, IndexDiscipline
  PROVE  /\ Len(Bytes) = Upto(buffer, EntryCount(buffer))
         /\ \A i \in 1 .. EntryCount(buffer) : \A k \in 1 .. Contents(buffer)[i].size :
              Bytes[Upto(buffer, i - 1) + k] = [slot |-> SlotOf(buffer, i - 1), offset |-> k - 1]
<1> DEFINE n == EntryCount(buffer)
           u == [i \in 0 .. Len(Places) |-> Upto(buffer, i)]
<1>1. Bytes = FlattenSeq(Places)
  BY DEF Bytes, Places
<1>2. buffer \in aesd_circular_buffer(Entry) /\ Disciplined(buffer, Entry) /\ n \in Nat
  BY EntrySizes, UptoLemma DEF TypeOK, IndexDiscipline
<1>3. /\ Places \in Seq(Seq(Place)) /\ Len(Places) = n
      /\ \A i \in 1 .. n : Len(Places[i]) = Contents(buffer)[i].size
      /\ \A i \in 1 .. n : \A k \in 1 .. Contents(buffer)[i].size :
           Places[i][k] = [slot |-> SlotOf(buffer, i - 1), offset |-> k - 1]
  BY <1>2, PlacesLemma
<1>4. PrefixLengths(u, Places)
  BY <1>2, <1>3, EntrySizes, UptoPrefixLengths
<1>5. /\ Len(Bytes) = u[Len(Places)]
      /\ \A i \in 1 .. Len(Places) : \A k \in 1 .. Len(Places[i]) : Bytes[u[i - 1] + k] = Places[i][k]
  <2> HIDE DEF u, n
  <2>1. Places \in Seq(Seq(Place))
    BY <1>3
  <2>. QED  BY <1>1, <1>4, <2>1, FlattenPositions, Zenon
<1>6. ASSUME NEW i \in 1 .. n PROVE u[i - 1] = Upto(buffer, i - 1)
  <2>1. i - 1 \in 0 .. Len(Places)
    BY <1>2, <1>3
  <2>. QED  BY <2>1
<1>7. u[Len(Places)] = Upto(buffer, n)
  BY <1>2, <1>3
<1> HIDE DEF u, n
<1>8. ASSUME NEW i \in 1 .. n, NEW k \in 1 .. Contents(buffer)[i].size
      PROVE  Bytes[Upto(buffer, i - 1) + k] = [slot |-> SlotOf(buffer, i - 1), offset |-> k - 1]
  <2>1. i \in 1 .. Len(Places) /\ k \in 1 .. Len(Places[i])
    BY <1>3
  <2>2. Bytes[u[i - 1] + k] = Places[i][k]
    BY <1>5, <2>1, Zenon
  <2>. QED  BY <1>3, <1>6, <2>2
<1>. QED  BY <1>5, <1>7, <1>8 DEF n

(***************************************************************************)
(* The size that lseek works with is what the lookup can reach, for every  *)
(* number of slots and every size of the entries.                          *)
(***************************************************************************)
THEOREM SizeReachable == Spec => []SizeIsReachable
<1>1. TypeOK /\ IndexDiscipline => SizeIsReachable
  BY BytesLemma, SizeIsUpto, EntrySizes DEF TypeOK, IndexDiscipline, SizeIsReachable
<1>. QED  BY <1>1, IndexDisciplineHolds, PTL

(***************************************************************************)
(* The lookup agrees with the concatenation of the entries at every        *)
(* offset.                                                                 *)
(***************************************************************************)
THEOREM FindAgrees == Spec => []FindAgreesWithConcatenation
<1>1. ASSUME TypeOK, IndexDiscipline, NEW off \in 0 .. Len(Bytes) + 1
      PROVE  aesd_circular_buffer_find_entry_offset_for_fpos(buffer, off) =
               IF off < Len(Bytes) THEN Bytes[off + 1] ELSE NotFound
  <2> DEFINE n == EntryCount(buffer)
             found == aesd_circular_buffer_find_entry_offset_for_fpos(buffer, off)
  <2>1. buffer \in aesd_circular_buffer(Entry) /\ Disciplined(buffer, Entry)
    BY <1>1 DEF TypeOK, IndexDiscipline
  <2>2. /\ Len(Bytes) = Upto(buffer, n)
        /\ \A i \in 1 .. n : \A k \in 1 .. Contents(buffer)[i].size :
             Bytes[Upto(buffer, i - 1) + k] = [slot |-> SlotOf(buffer, i - 1), offset |-> k - 1]
    BY <1>1, BytesLemma
  <2>3. n \in Nat /\ n \in 0 .. n
    BY <2>1, EntrySizes, UptoLemma
  <2>4. Upto(buffer, n) \in Nat /\ off \in Nat
    BY <2>1, <2>2, <2>3, EntrySizes, UptoLemma
  <2>5. /\ off >= Upto(buffer, n) => found = NotFound
        /\ off < Upto(buffer, n) =>
             \E i \in 1 .. n :
               /\ off - Upto(buffer, i - 1) \in 0 .. Contents(buffer)[i].size - 1
               /\ found = [slot |-> SlotOf(buffer, i - 1), offset |-> off - Upto(buffer, i - 1)]
    BY <2>1, <2>4, EntrySizes, FindLemma
  <2> HIDE DEF n, found
  <2>6. CASE off >= Upto(buffer, n)
    BY <2>2, <2>4, <2>5, <2>6 DEF found
  <2>7. CASE off < Upto(buffer, n)
    <3>1. PICK i \in 1 .. n :
            /\ off - Upto(buffer, i - 1) \in 0 .. Contents(buffer)[i].size - 1
            /\ found = [slot |-> SlotOf(buffer, i - 1), offset |-> off - Upto(buffer, i - 1)]
      BY <2>5, <2>7
    <3>2. Contents(buffer)[i].size \in Nat /\ Upto(buffer, i - 1) \in Nat
      <4>1. i - 1 \in 0 .. n
        BY <2>3
      <4>. QED  BY <2>1, <4>1, EntrySizes, UptoLemma DEF n
    <3> DEFINE k == off - Upto(buffer, i - 1) + 1
    <3>3. k \in 1 .. Contents(buffer)[i].size /\ Upto(buffer, i - 1) + k = off + 1 /\ k - 1 = off - Upto(buffer, i - 1)
      BY <2>4, <3>1, <3>2
    <3>4. Bytes[off + 1] = [slot |-> SlotOf(buffer, i - 1), offset |-> off - Upto(buffer, i - 1)]
      <4> HIDE DEF k
      <4>1. Bytes[Upto(buffer, i - 1) + k] = [slot |-> SlotOf(buffer, i - 1), offset |-> k - 1]
        BY <2>2, <3>3
      <4>. QED  BY <3>3, <4>1
    <3>. QED  BY <2>2, <2>7, <3>1, <3>4 DEF found
  <2>. QED  BY <2>4, <2>6, <2>7
<1>2. TypeOK /\ IndexDiscipline => FindAgreesWithConcatenation
  BY <1>1 DEF FindAgreesWithConcatenation
<1>. QED  BY <1>2, IndexDisciplineHolds, PTL

-----------------------------------------------------------------------------
LEMMA AddRefines ==
  ASSUME TypeOK, IndexDiscipline, NEW e \in Entry, Add(e)
  PROVE  Abstract!Add(e)
<1> DEFINE old == Contents(buffer)
           new == Contents(aesd_circular_buffer_add_entry(buffer, e))
<1>1. Contents(buffer)' = new
  BY DEF Add, Contents, EntryCount, SlotOf
<1>2. buffer \in aesd_circular_buffer(Entry) /\ Disciplined(buffer, Entry)
  BY DEF TypeOK, IndexDiscipline
<1>3. CASE ~buffer.full
  <2>1. new = Append(old, e) /\ Len(old) < MAX_WRITE_OPERATIONS /\ ReplacedPtr(buffer) = NULL
    BY <1>2, <1>3, AddEntryAppends
  <2> QED
    BY <1>1, <2>1 DEF Abstract!Add, Add
<1>4. CASE buffer.full
  <2>1. /\ new = Append(Tail(old), e)
        /\ Len(old) = MAX_WRITE_OPERATIONS
        /\ ReplacedPtr(buffer) = Head(old).buffptr
    BY <1>2, <1>4, AddEntryDropsOldest
  <2> QED
    BY <1>1, <2>1 DEF Abstract!Add, Add
<1> QED
  BY <1>3, <1>4

(***************************************************************************)
(* The circular buffer implements the bounded log: contents, order and the *)
(* pointer handed back for freeing.                                        *)
(***************************************************************************)
THEOREM RingLogImplementsBoundedLog == Spec => ImplementsBoundedLog
<1>1. Init => Abstract!Init
  BY EmptyContents DEF Init, Abstract!Init
<1>2. TypeOK /\ IndexDiscipline /\ [Next]_vars
        => [Abstract!Next]_<<Contents(buffer), rptr>>
  BY AddRefines DEF Next, Abstract!Next, vars, Contents, EntryCount, SlotOf
<1> QED
  BY <1>1, <1>2, IndexDisciplineHolds, PTL DEF Spec, ImplementsBoundedLog, Abstract!Spec

=============================================================================
