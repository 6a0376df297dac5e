------------------------- MODULE CircularBufferProofs -------------------------
(***************************************************************************)
(* Facts about the functions of the circular buffer, for every number of   *)
(* slots up to 255 and every set E of entries without the null entry.      *)
(* RingLogProofs and AesdCharProofs rest on them.                          *)
(***************************************************************************)
EXTENDS CircularBuffer, InductionProofs, TLAPS

(***************************************************************************)
(* The only remainders the code computes: of an offset of at most twice    *)
(* the number of slots, and of a uint8_t that does not overflow.           *)
(***************************************************************************)
LEMMA ModLemma ==
  ASSUME NEW n \in Nat \ {0}, NEW x \in 0 .. 2*n - 1
  PROVE  x % n = IF x < n THEN x ELSE x - n
  OBVIOUS

LEMMA UInt8Lemma ==
  ASSUME NEW i \in Slots
  PROVE  UInt8(i + 1) = i + 1
  BY MaxOpsAssumption DEF Slots, UInt8

(***************************************************************************)
(* The i-th oldest entry of a disciplined buffer is in slot i before the   *)
(* buffer is full, and i slots after in_offs, with wrap, once it is.       *)
(***************************************************************************)
LEMMA SlotOfLemma ==
  ASSUME NEW E, NEW b \in aesd_circular_buffer(E), Disciplined(b, E),
         NEW i \in 0 .. EntryCount(b) - 1
  PROVE  /\ SlotOf(b, i) \in Slots
         /\ SlotOf(b, i) = IF ~b.full THEN i
                           ELSE IF b.in_offs + i < MAX_WRITE_OPERATIONS THEN b.in_offs + i
                           ELSE b.in_offs + i - MAX_WRITE_OPERATIONS
<1>1. /\ MAX_WRITE_OPERATIONS \in Nat \ {0}
      /\ b.out_offs + i \in 0 .. 2 * MAX_WRITE_OPERATIONS - 1
  BY MaxOpsAssumption DEF aesd_circular_buffer, Slots, EntryCount
<1>2. PICK x \in 0 .. 2 * MAX_WRITE_OPERATIONS - 1 : x = b.out_offs + i
  BY <1>1
<1>2a. SlotOf(b, i) = IF x < MAX_WRITE_OPERATIONS THEN x ELSE x - MAX_WRITE_OPERATIONS
  <2>1. x % MAX_WRITE_OPERATIONS = IF x < MAX_WRITE_OPERATIONS THEN x ELSE x - MAX_WRITE_OPERATIONS
    BY <1>1, ModLemma
  <2> QED
    BY <1>2, <2>1, Zenon DEF SlotOf
<1>3. b.out_offs = IF b.full THEN b.in_offs ELSE 0
  BY DEF Disciplined
<1>4. b.in_offs \in 0 .. MAX_WRITE_OPERATIONS - 1 /\ b.full \in BOOLEAN
  BY DEF aesd_circular_buffer, Slots
<1> USE MaxOpsAssumption DEF Slots, EntryCount
<1>5. CASE b.full
  BY <1>2, <1>2a, <1>3, <1>4, <1>5
<1>6. CASE ~b.full
  BY <1>2, <1>2a, <1>3, <1>4, <1>6
<1> QED
  BY <1>5, <1>6

LEMMA InitDisciplined ==
  ASSUME NEW E
  PROVE  /\ aesd_circular_buffer_init \in aesd_circular_buffer(E)
         /\ Disciplined(aesd_circular_buffer_init, E)
  BY MaxOpsAssumption
  DEF aesd_circular_buffer_init, aesd_circular_buffer, Disciplined, Slots

LEMMA EmptyContents == Contents(aesd_circular_buffer_init) = <<>>
  BY MaxOpsAssumption DEF Contents, EntryCount, aesd_circular_buffer_init

(***************************************************************************)
(* The fields of the buffer after add_entry, without the uint8_t wrap.     *)
(***************************************************************************)
LEMMA AddEntryFields ==
  ASSUME NEW E, NEW b \in aesd_circular_buffer(E), NEW e, NEW c,
         c = aesd_circular_buffer_add_entry(b, e)
  PROVE  /\ b.in_offs \in Slots /\ b.out_offs \in Slots /\ b.full \in BOOLEAN
         /\ b.entry \in [Slots -> E \cup {NullEntry}]
         /\ c.entry = [b.entry EXCEPT ![b.in_offs] = e]
         /\ c.full \in BOOLEAN
         /\ c.full <=> (b.full \/ b.in_offs + 1 = MAX_WRITE_OPERATIONS)
         /\ c.in_offs = IF b.in_offs + 1 = MAX_WRITE_OPERATIONS THEN 0 ELSE b.in_offs + 1
         /\ c.out_offs = IF c.full THEN c.in_offs ELSE b.out_offs
         /\ c = [entry |-> c.entry, in_offs |-> c.in_offs,
                 out_offs |-> c.out_offs, full |-> c.full]
<1>1. b.in_offs \in Slots /\ UInt8(b.in_offs + 1) = b.in_offs + 1
  BY UInt8Lemma DEF aesd_circular_buffer
<1> QED
  BY <1>1 DEF aesd_circular_buffer_add_entry, aesd_circular_buffer

LEMMA AddEntryDisciplined ==
  ASSUME NEW E, NEW b \in aesd_circular_buffer(E), Disciplined(b, E), NEW e \in E
  PROVE  /\ aesd_circular_buffer_add_entry(b, e) \in aesd_circular_buffer(E)
         /\ Disciplined(aesd_circular_buffer_add_entry(b, e), E)
<1> DEFINE c == aesd_circular_buffer_add_entry(b, e)
<1>1. /\ b.in_offs \in Slots /\ b.out_offs \in Slots /\ b.full \in BOOLEAN
      /\ b.entry \in [Slots -> E \cup {NullEntry}]
      /\ c.entry = [b.entry EXCEPT ![b.in_offs] = e]
      /\ c.full \in BOOLEAN
      /\ c.full <=> (b.full \/ b.in_offs + 1 = MAX_WRITE_OPERATIONS)
      /\ c.in_offs = IF b.in_offs + 1 = MAX_WRITE_OPERATIONS THEN 0 ELSE b.in_offs + 1
      /\ c.out_offs = IF c.full THEN c.in_offs ELSE b.out_offs
      /\ c = [entry |-> c.entry, in_offs |-> c.in_offs,
              out_offs |-> c.out_offs, full |-> c.full]
  BY AddEntryFields
<1> HIDE DEF c
<1>2. c.entry \in [Slots -> E \cup {NullEntry}]
  BY <1>1
<1>3. c.in_offs \in Slots /\ c.out_offs \in Slots
  <2>1. c.in_offs = IF b.in_offs + 1 = MAX_WRITE_OPERATIONS THEN 0 ELSE b.in_offs + 1
    BY <1>1
  <2>2. b.in_offs \in Slots /\ (c.out_offs = c.in_offs \/ c.out_offs = b.out_offs)
    BY <1>1
  <2>3. c.in_offs \in Slots
    BY <2>1, <2>2, MaxOpsAssumption DEF Slots
  <2> QED
    BY <1>1, <2>2, <2>3
<1>4. c \in aesd_circular_buffer(E)
  BY <1>1, <1>2, <1>3 DEF aesd_circular_buffer
<1>5. c.out_offs = IF c.full THEN c.in_offs ELSE 0
  BY <1>1 DEF Disciplined
<1>6. ASSUME NEW i \in Slots
      PROVE  IF c.full \/ i < c.in_offs THEN c.entry[i] \in E ELSE c.entry[i] = NullEntry
  <2>1. CASE i = b.in_offs
    <3>1. c.entry[i] = e
      BY <1>1, <2>1
    <3>2. c.in_offs = IF b.in_offs + 1 = MAX_WRITE_OPERATIONS THEN 0 ELSE b.in_offs + 1
      BY <1>1
    <3>3. c.full \/ b.in_offs + 1 # MAX_WRITE_OPERATIONS
      BY <1>1
    <3>4. c.full \/ i < c.in_offs
      BY <2>1, <3>2, <3>3, MaxOpsAssumption DEF Slots
    <3> QED
      BY <3>1, <3>4
  <2>2. CASE i # b.in_offs
    <3>1. c.entry[i] = b.entry[i]
      BY <1>1, <2>2
    <3>2. IF b.full \/ i < b.in_offs THEN b.entry[i] \in E ELSE b.entry[i] = NullEntry
      BY DEF Disciplined
    <3>3. c.full \/ i < c.in_offs <=> b.full \/ i < b.in_offs
      BY <1>1, <2>2, MaxOpsAssumption DEF Slots
    <3> QED
      BY <3>1, <3>2, <3>3
  <2> QED
    BY <2>1, <2>2
<1> QED
  BY <1>4, <1>5, <1>6 DEF Disciplined, c

(***************************************************************************)
(* The contents of a disciplined buffer are a sequence of entries.         *)
(***************************************************************************)
LEMMA ContentsLemma ==
  ASSUME NEW E, NEW b \in aesd_circular_buffer(E), Disciplined(b, E)
  PROVE  /\ EntryCount(b) \in 0 .. MAX_WRITE_OPERATIONS
         /\ Contents(b) \in Seq(E)
         /\ Len(Contents(b)) = EntryCount(b)
         /\ \A i \in 1 .. EntryCount(b) : Contents(b)[i] = b.entry[SlotOf(b, i - 1)]
<1>1. EntryCount(b) \in 0 .. MAX_WRITE_OPERATIONS
  BY MaxOpsAssumption DEF EntryCount, aesd_circular_buffer, Slots
<1>2. ASSUME NEW i \in 1 .. EntryCount(b)
      PROVE  b.entry[SlotOf(b, i - 1)] \in E
  <2>1. i - 1 \in 0 .. EntryCount(b) - 1
    BY <1>1
  <2>2. SlotOf(b, i - 1) \in Slots /\ (~b.full => SlotOf(b, i - 1) = i - 1)
    BY <2>1, SlotOfLemma
  <2> QED
    BY <1>1, <2>2 DEF Disciplined, EntryCount, aesd_circular_buffer
<1> QED
  BY <1>1, <1>2 DEF Contents

(***************************************************************************)
(* How a sequence is recognised as another one with an element appended.   *)
(***************************************************************************)
LEMMA IsAppend ==
  ASSUME NEW E, NEW s \in Seq(E), NEW t \in Seq(E), NEW e \in E,
         Len(t) = Len(s) + 1,
         \A i \in 1 .. Len(s) + 1 : t[i] = IF i <= Len(s) THEN s[i] ELSE e
  PROVE  t = Append(s, e)
<1>1. Append(s, e) \in Seq(E) /\ Len(Append(s, e)) = Len(s) + 1
  OBVIOUS
<1>2. \A i \in 1 .. Len(s) + 1 : t[i] = Append(s, e)[i]
  OBVIOUS
<1> QED
  BY <1>1, <1>2

(***************************************************************************)
(* Adding to a buffer that is not full appends and replaces nothing.       *)
(***************************************************************************)
LEMMA AddEntryAppends ==
  ASSUME NEW E, NEW b \in aesd_circular_buffer(E), Disciplined(b, E), NEW e \in E, ~b.full
  PROVE  /\ Contents(aesd_circular_buffer_add_entry(b, e)) = Append(Contents(b), e)
         /\ Len(Contents(b)) < MAX_WRITE_OPERATIONS
         /\ ReplacedPtr(b) = NULL
<1> DEFINE c == aesd_circular_buffer_add_entry(b, e)
<1>1. /\ b.in_offs \in Slots /\ b.out_offs \in Slots /\ b.full \in BOOLEAN
      /\ b.entry \in [Slots -> E \cup {NullEntry}]
      /\ c.entry = [b.entry EXCEPT ![b.in_offs] = e]
      /\ c.full \in BOOLEAN
      /\ c.full <=> (b.full \/ b.in_offs + 1 = MAX_WRITE_OPERATIONS)
      /\ c.in_offs = IF b.in_offs + 1 = MAX_WRITE_OPERATIONS THEN 0 ELSE b.in_offs + 1
      /\ c.out_offs = IF c.full THEN c.in_offs ELSE b.out_offs
      /\ c = [entry |-> c.entry, in_offs |-> c.in_offs,
              out_offs |-> c.out_offs, full |-> c.full]
  BY AddEntryFields
<1>2. c \in aesd_circular_buffer(E) /\ Disciplined(c, E)
  BY AddEntryDisciplined
<1> HIDE DEF c
<1>3. EntryCount(b) = b.in_offs /\ EntryCount(c) = b.in_offs + 1
  BY <1>1, MaxOpsAssumption DEF EntryCount, Slots
<1>4. ASSUME NEW i \in 1 .. b.in_offs + 1
      PROVE  Contents(c)[i] = IF i <= b.in_offs THEN Contents(b)[i] ELSE e
  <2>0. b.in_offs \in Slots
    BY <1>1
  <2>1. i - 1 \in 0 .. EntryCount(c) - 1 /\ i - 1 \in Slots
    BY <2>0, <1>3, MaxOpsAssumption DEF Slots
  <2>2. SlotOf(c, i - 1) = i - 1
    <3>1. SlotOf(c, i - 1) =
            IF ~c.full THEN i - 1
            ELSE IF c.in_offs + (i - 1) < MAX_WRITE_OPERATIONS THEN c.in_offs + (i - 1)
            ELSE c.in_offs + (i - 1) - MAX_WRITE_OPERATIONS
      BY <2>1, <1>2, SlotOfLemma
    <3> QED
      BY <3>1, <1>1, <2>1, MaxOpsAssumption DEF Slots
  <2>3. Contents(c)[i] = c.entry[i - 1]
    BY <1>2, <1>3, <2>2, ContentsLemma
  <2>4. CASE i <= b.in_offs
    <3>1. i - 1 \in 0 .. EntryCount(b) - 1
      BY <1>1, <1>3, <2>4 DEF Slots
    <3>2. Contents(b)[i] = b.entry[i - 1]
      BY <1>1, <1>3, <2>4, <3>1, ContentsLemma, SlotOfLemma DEF Slots
    <3> QED
      BY <1>1, <2>1, <2>3, <2>4, <3>2 DEF Slots
  <2>5. CASE i = b.in_offs + 1
    <3>1. i - 1 = b.in_offs /\ ~(i <= b.in_offs)
      BY <2>0, <2>5, MaxOpsAssumption DEF Slots
    <3> QED
      BY <1>1, <2>3, <3>1
  <2> QED
    BY <1>1, <2>4, <2>5 DEF Slots
<1>5. Contents(c) = Append(Contents(b), e)
  <2>1. Contents(c) \in Seq(E) /\ Len(Contents(c)) = b.in_offs + 1
    BY <1>2, <1>3, ContentsLemma
  <2>2. Contents(b) \in Seq(E) /\ Len(Contents(b)) = b.in_offs
    BY <1>3, ContentsLemma
  <2>3. \A i \in 1 .. Len(Contents(b)) + 1 :
          Contents(c)[i] = IF i <= Len(Contents(b)) THEN Contents(b)[i] ELSE e
    BY <1>4, <2>2
  <2>4. Len(Contents(c)) = Len(Contents(b)) + 1
    BY <2>1, <2>2
  <2> QED
    BY <2>1, <2>2, <2>3, <2>4, IsAppend
<1>6. ReplacedPtr(b) = NULL
  BY <1>1 DEF Disciplined, ReplacedPtr, Slots, NullEntry
<1>7. Len(Contents(b)) < MAX_WRITE_OPERATIONS
  <2>1. Len(Contents(b)) = b.in_offs
    BY <1>3, ContentsLemma
  <2>2. b.in_offs \in Slots
    BY <1>1
  <2> QED
    BY <2>1, <2>2, MaxOpsAssumption DEF Slots
<1> QED
  BY <1>5, <1>6, <1>7 DEF c

(***************************************************************************)
(* Adding to a full buffer drops the oldest entry and returns its pointer. *)
(***************************************************************************)
LEMMA AddEntryDropsOldest ==
  ASSUME NEW E, NEW b \in aesd_circular_buffer(E), Disciplined(b, E), NEW e \in E, b.full
  PROVE  /\ Contents(aesd_circular_buffer_add_entry(b, e)) = Append(Tail(Contents(b)), e)
         /\ Len(Contents(b)) = MAX_WRITE_OPERATIONS
         /\ ReplacedPtr(b) = Head(Contents(b)).buffptr
<1> DEFINE c == aesd_circular_buffer_add_entry(b, e)
           n == MAX_WRITE_OPERATIONS
           in == IF b.in_offs + 1 = n THEN 0 ELSE b.in_offs + 1
<1>1. b.in_offs \in Slots /\ UInt8(b.in_offs + 1) = b.in_offs + 1
  BY UInt8Lemma DEF aesd_circular_buffer
<1>2. c \in aesd_circular_buffer(E) /\ Disciplined(c, E)
  BY AddEntryDisciplined
<1>3. EntryCount(b) = n /\ EntryCount(c) = n /\ c.full /\ c.in_offs = in
  BY <1>1 DEF EntryCount, aesd_circular_buffer_add_entry
<1>4. /\ Contents(b) \in Seq(E) /\ Len(Contents(b)) = n
      /\ Contents(c) \in Seq(E) /\ Len(Contents(c)) = n
  BY <1>2, <1>3, ContentsLemma
<1>5. ASSUME NEW i \in 1 .. n
      PROVE  Contents(c)[i] = IF i < n THEN Contents(b)[i + 1] ELSE e
  <2>1. i - 1 \in 0 .. EntryCount(c) - 1
    BY <1>3, MaxOpsAssumption
  <2>2. SlotOf(c, i - 1) = IF in + (i - 1) < n THEN in + (i - 1) ELSE in + (i - 1) - n
    BY <2>1, <1>2, <1>3, SlotOfLemma
  <2>3. Contents(c)[i] = c.entry[SlotOf(c, i - 1)]
    BY <1>2, <1>3, ContentsLemma
  <2>4. CASE i < n
    <3>1. i \in 0 .. EntryCount(b) - 1 /\ i + 1 \in 1 .. EntryCount(b) /\ (i + 1) - 1 = i
      BY <1>3, <2>4, MaxOpsAssumption
    <3>2. SlotOf(b, i) = IF b.in_offs + i < n THEN b.in_offs + i ELSE b.in_offs + i - n
      BY <3>1, SlotOfLemma
    <3>3. Contents(b)[i + 1] = b.entry[SlotOf(b, i)]
      BY <3>1, ContentsLemma
    <3>4. SlotOf(c, i - 1) = SlotOf(b, i)
      BY <1>1, <2>2, <3>2, MaxOpsAssumption DEF Slots
    <3>5. SlotOf(b, i) \in Slots /\ SlotOf(b, i) # b.in_offs
      BY <1>1, <2>4, <3>2, MaxOpsAssumption DEF Slots
    <3> QED
      BY <1>1, <2>3, <2>4, <3>3, <3>4, <3>5
      DEF aesd_circular_buffer_add_entry, aesd_circular_buffer
  <2>5. CASE i = n
    <3>1. SlotOf(c, i - 1) = b.in_offs
      BY <1>1, <2>2, <2>5, MaxOpsAssumption DEF Slots
    <3> QED
      BY <1>1, <2>3, <2>5, <3>1 DEF aesd_circular_buffer_add_entry, aesd_circular_buffer
  <2> QED
    BY <2>4, <2>5, MaxOpsAssumption
<1>6. Contents(c) = Append(Tail(Contents(b)), e)
  BY <1>4, <1>5, MaxOpsAssumption
<1>7. ReplacedPtr(b) = Head(Contents(b)).buffptr
  <2>1. 0 \in 0 .. EntryCount(b) - 1 /\ 1 \in 1 .. EntryCount(b) /\ 1 - 1 = 0
    BY <1>3, MaxOpsAssumption
  <2>2. SlotOf(b, 0) = b.in_offs
    <3>1. SlotOf(b, 0) = IF b.in_offs + 0 < n THEN b.in_offs + 0 ELSE b.in_offs + 0 - n
      BY <2>1, SlotOfLemma
    <3> QED
      BY <1>1, <3>1, MaxOpsAssumption DEF Slots
  <2>3. Contents(b)[1] = b.entry[b.in_offs]
    BY <2>1, <2>2, ContentsLemma
  <2> QED
    BY <1>4, <2>3, MaxOpsAssumption DEF ReplacedPtr
<1> QED
  BY <1>4, <1>6, <1>7

-----------------------------------------------------------------------------
(***************************************************************************)
(* How many bytes the i oldest entries hold: what the lookup has           *)
(* subtracted from the offset when it reaches entry i.                     *)
(***************************************************************************)
SizeOf(b) == [j \in 0 .. EntryCount(b) - 1 |-> b.entry[SlotOf(b, j)].size]
Upto(b, i) == SumFunctionOnSet(SizeOf(b), 0 .. i - 1)

LEMMA IntervalFinite ==
  ASSUME NEW n \in Nat
  PROVE  IsFiniteSet(0 .. n - 1)
BY FS_Interval

LEMMA UptoLemma ==
  ASSUME NEW E, \A e \in E : e.size \in Nat, NEW b \in aesd_circular_buffer(E), Disciplined(b, E)
  PROVE  /\ EntryCount(b) \in Nat
         /\ SizeOf(b) \in [0 .. EntryCount(b) - 1 -> Nat]
         /\ Upto(b, 0) = 0
         /\ \A i \in 0 .. EntryCount(b) : Upto(b, i) \in Nat
         /\ \A i \in 1 .. EntryCount(b) : /\ Contents(b)[i].size \in Nat
                                          /\ SizeOf(b)[i - 1] = Contents(b)[i].size
                                          /\ Upto(b, i) = Upto(b, i - 1) + Contents(b)[i].size
<1> DEFINE n == EntryCount(b)
           X == 0 .. n - 1
           Size == SizeOf(b)
<1>1. n \in Nat /\ Contents(b) \in Seq(E) /\ Len(Contents(b)) = n
  BY ContentsLemma, MaxOpsAssumption
<1>2. ASSUME NEW i \in 1 .. n PROVE Contents(b)[i].size \in Nat /\ Size[i - 1] = Contents(b)[i].size
  <2>1. Contents(b)[i] \in E /\ Contents(b)[i] = b.entry[SlotOf(b, i - 1)]
    BY <1>1, ContentsLemma
  <2>2. i - 1 \in X
    BY <1>1
  <2>. QED  BY <2>1, <2>2 DEF SizeOf
<1>3. Size \in [X -> Nat]
  <2>1. ASSUME NEW j \in X PROVE Size[j] \in Nat
    <3>1. j + 1 \in 1 .. n /\ (j + 1) - 1 = j
      BY <1>1
    <3>. QED  BY <1>2, <3>1
  <2>2. Size = [j \in X |-> Size[j]]
    BY DEF SizeOf
  <2>. QED  BY <2>1, <2>2
<1>4. IsFiniteSet(X)
  BY <1>1, IntervalFinite
<1>5. ASSUME NEW i \in 0 .. n PROVE Upto(b, i) \in Nat
  <2>1. 0 .. i - 1 \in SUBSET X
    BY <1>1
  <2>. QED  BY <1>3, <1>4, <2>1, SumType DEF Upto
<1>6. Upto(b, 0) = 0
  <2>1. 0 .. 0 - 1 = {}
    OBVIOUS
  <2>. QED  BY <2>1, SumEmpty DEF Upto
<1>7. ASSUME NEW i \in 1 .. n PROVE Upto(b, i) = Upto(b, i - 1) + Contents(b)[i].size
  <2> DEFINE R == 0 .. (i - 1) - 1
             x == i - 1
  <2>1. 0 .. i - 1 = R \cup {x} /\ R \in SUBSET X /\ x \in X /\ x \notin R
    BY <1>1
  <2> HIDE DEF R, x, X, Size
  <2>2. SumFunctionOnSet(Size, R \cup {x}) = Size[x] + SumFunctionOnSet(Size, R)
    BY <1>3, <1>4, <2>1, SumInsert
  <2>3. Upto(b, i) = Size[i - 1] + Upto(b, i - 1)
    BY <2>1, <2>2, Zenon DEF Upto, R, x, Size
  <2>4. i - 1 \in 0 .. n
    BY <1>1
  <2>. QED  BY <1>2, <1>5, <2>3, <2>4
<1>. QED  BY <1>1, <1>2, <1>3, <1>5, <1>6, <1>7

\* The entries of any sequence of byte sequences that has the buffer's sizes.
LEMMA UptoPrefixLengths ==
  ASSUME NEW E, \A e \in E : e.size \in Nat, NEW b \in aesd_circular_buffer(E), Disciplined(b, E),
         NEW S, NEW s \in Seq(Seq(S)), Len(s) = EntryCount(b),
         \A i \in 1 .. EntryCount(b) : Len(s[i]) = Contents(b)[i].size
  PROVE  PrefixLengths([i \in 0 .. Len(s) |-> Upto(b, i)], s)
<1> DEFINE u == [i \in 0 .. Len(s) |-> Upto(b, i)]
<1>1. u \in [0 .. Len(s) -> Nat] /\ u[0] = 0
  BY UptoLemma
<1>2. ASSUME NEW i \in 1 .. Len(s) PROVE u[i] = u[i - 1] + Len(s[i])
  <2>1. i \in 0 .. Len(s) /\ i - 1 \in 0 .. Len(s)
    OBVIOUS
  <2>2. u[i] = Upto(b, i) /\ u[i - 1] = Upto(b, i - 1)
    BY <2>1
  <2>3. Upto(b, i) = Upto(b, i - 1) + Contents(b)[i].size
    BY UptoLemma
  <2>. QED  BY <2>2, <2>3
<1> HIDE DEF u
<1>3. PrefixLengths(u, s)
  BY <1>1, <1>2 DEF PrefixLengths
<1>. QED  BY <1>3 DEF u

(***************************************************************************)
(* get_buffer_size adds up all slots, in the order of the array.  The      *)
(* slots of the j oldest entries hold as many bytes as the lookup skips,   *)
(* and the slots that were never written hold none.                        *)
(***************************************************************************)
SlotSize(b) == [i \in Slots |-> b.entry[i].size]
Taken(b, j) == {SlotOf(b, i) : i \in 0 .. j - 1}

LEMMA SlotSizeType ==
  ASSUME NEW E, \A e \in E : e.size \in Nat, NEW b \in aesd_circular_buffer(E), Disciplined(b, E)
  PROVE  /\ IsFiniteSet(Slots) /\ SlotSize(b) \in [Slots -> Nat]
         /\ b.in_offs \in Slots /\ b.full \in BOOLEAN /\ MAX_WRITE_OPERATIONS \in Nat
         /\ get_buffer_size(b) = SumFunctionOnSet(SlotSize(b), Slots)
<1>1. IsFiniteSet(Slots)
  BY MaxOpsAssumption, IntervalFinite DEF Slots
<1>2. ASSUME NEW i \in Slots PROVE b.entry[i].size \in Nat
  BY DEF Disciplined, NullEntry
<1>3. SlotSize(b) \in [Slots -> Nat] /\ DOMAIN SlotSize(b) = Slots
  BY <1>2 DEF SlotSize
<1>4. get_buffer_size(b) = SumFunctionOnSet(SlotSize(b), DOMAIN SlotSize(b))
  BY DEF get_buffer_size, SumFunction, SlotSize
<1>5. b.in_offs \in Slots /\ b.full \in BOOLEAN /\ MAX_WRITE_OPERATIONS \in Nat
  BY MaxOpsAssumption DEF aesd_circular_buffer
<1>. QED  BY <1>1, <1>3, <1>4, <1>5

LEMMA TakenSum ==
  ASSUME NEW E, \A e \in E : e.size \in Nat, NEW b \in aesd_circular_buffer(E), Disciplined(b, E),
         NEW n \in 0 .. EntryCount(b)
  PROVE  SumFunctionOnSet(SlotSize(b), Taken(b, n)) = Upto(b, n)
<1> DEFINE D == {k \in 0 .. EntryCount(b) : SumFunctionOnSet(SlotSize(b), Taken(b, k)) # Upto(b, k)}
<1>0. EntryCount(b) \in 0 .. MAX_WRITE_OPERATIONS /\ EntryCount(b) \in Nat
  BY ContentsLemma, MaxOpsAssumption
<1> SUFFICES ASSUME D # {} PROVE FALSE
  OBVIOUS
<1>1. PICK k \in D : \A j \in D : k <= j
  <2>1. D \in SUBSET Nat
    BY <1>0
  <2>. QED  BY <2>1, LeastElement
<1>2. k \in 0 .. EntryCount(b) /\ SumFunctionOnSet(SlotSize(b), Taken(b, k)) # Upto(b, k)
  OBVIOUS
<1>3. k # 0
  <2>1. Taken(b, 0) = {}
    BY DEF Taken
  <2>. QED  BY <1>2, <2>1, SumEmpty, UptoLemma
<1>4. k - 1 \in 0 .. EntryCount(b) /\ k - 1 \notin D /\ k \in 1 .. EntryCount(b)
  <2> HIDE DEF D
  <2>. QED  BY <1>0, <1>1, <1>2, <1>3
<1> DEFINE x == SlotOf(b, k - 1)
           T == Taken(b, k - 1)
<1>5. SumFunctionOnSet(SlotSize(b), T) = Upto(b, k - 1)
  BY <1>4
<1> HIDE DEF D
<1>6. ASSUME NEW i \in 0 .. k - 1
      PROVE  /\ SlotOf(b, i) \in Slots
             /\ SlotOf(b, i) = IF ~b.full THEN i
                               ELSE IF b.in_offs + i < MAX_WRITE_OPERATIONS THEN b.in_offs + i
                               ELSE b.in_offs + i - MAX_WRITE_OPERATIONS
  <2>1. i \in 0 .. EntryCount(b) - 1
    BY <1>0, <1>4
  <2>. QED  BY <2>1, SlotOfLemma
<1>7. T \in SUBSET Slots /\ x \in Slots
  BY <1>0, <1>4, <1>6 DEF Taken
<1>8. Taken(b, k) = T \cup {x}
  <2>1. 0 .. k - 1 = (0 .. (k - 1) - 1) \cup {k - 1}
    BY <1>0, <1>4
  <2>. QED  BY <2>1, Zenon DEF Taken
<1>9. x \notin T
  <2> SUFFICES ASSUME NEW i \in 0 .. (k - 1) - 1, SlotOf(b, i) = x PROVE FALSE
    BY DEF Taken
  <2>1. i \in 0 .. k - 1 /\ k - 1 \in 0 .. k - 1 /\ i < k - 1 /\ k - 1 < MAX_WRITE_OPERATIONS
    BY <1>0, <1>4, MaxOpsAssumption
  <2>2. b.in_offs \in 0 .. MAX_WRITE_OPERATIONS - 1
    BY SlotSizeType DEF Slots
  <2>3. SlotOf(b, i) = IF ~b.full THEN i
                       ELSE IF b.in_offs + i < MAX_WRITE_OPERATIONS THEN b.in_offs + i
                       ELSE b.in_offs + i - MAX_WRITE_OPERATIONS
    BY <1>6, <2>1
  <2>4. SlotOf(b, k - 1) = IF ~b.full THEN k - 1
                           ELSE IF b.in_offs + (k - 1) < MAX_WRITE_OPERATIONS THEN b.in_offs + (k - 1)
                           ELSE b.in_offs + (k - 1) - MAX_WRITE_OPERATIONS
    BY <1>6, <2>1
  <2>. QED  BY <1>4, <2>1, <2>2, <2>3, <2>4, MaxOpsAssumption
<1>10. SumFunctionOnSet(SlotSize(b), T \cup {x}) = SlotSize(b)[x] + SumFunctionOnSet(SlotSize(b), T)
  <2> HIDE DEF T, x
  <2>. QED  BY <1>7, <1>9, SlotSizeType, SumInsert
<1>11. SlotSize(b)[x] = Contents(b)[k].size
  BY <1>4, <1>7, ContentsLemma DEF SlotSize
<1>12. Upto(b, k) = Upto(b, k - 1) + Contents(b)[k].size /\ Upto(b, k - 1) \in Nat /\ Contents(b)[k].size \in Nat
  BY <1>4, UptoLemma
<1> HIDE DEF T, x
<1>. QED  BY <1>2, <1>5, <1>8, <1>10, <1>11, <1>12

LEMMA UnwrittenSum ==
  ASSUME NEW E, \A e \in E : e.size \in Nat, NEW b \in aesd_circular_buffer(E), Disciplined(b, E),
         ~b.full, NEW n \in b.in_offs .. MAX_WRITE_OPERATIONS
  PROVE  SumFunctionOnSet(SlotSize(b), 0 .. n - 1) = SumFunctionOnSet(SlotSize(b), 0 .. b.in_offs - 1)
<1> DEFINE P(k) == SumFunctionOnSet(SlotSize(b), 0 .. k - 1) = SumFunctionOnSet(SlotSize(b), 0 .. b.in_offs - 1)
           D == {k \in b.in_offs .. MAX_WRITE_OPERATIONS : ~P(k)}
<1>0. b.in_offs \in 0 .. MAX_WRITE_OPERATIONS - 1 /\ MAX_WRITE_OPERATIONS \in Nat
  BY SlotSizeType DEF Slots
<1> SUFFICES ASSUME D # {} PROVE FALSE
  OBVIOUS
<1>1. PICK k \in D : \A j \in D : k <= j
  <2>1. D \in SUBSET Nat
    BY <1>0
  <2>. QED  BY <2>1, LeastElement
<1>2. k \in b.in_offs .. MAX_WRITE_OPERATIONS /\ ~P(k)
  OBVIOUS
<1>3. k # b.in_offs
  BY <1>2
<1>4. k - 1 \in b.in_offs .. MAX_WRITE_OPERATIONS /\ k - 1 \notin D /\ k - 1 \in Slots /\ k \in Nat
  <2> HIDE DEF D, P
  <2>. QED  BY <1>0, <1>1, <1>2, <1>3 DEF Slots
<1>5. P(k - 1)
  BY <1>4
<1> DEFINE R == 0 .. (k - 1) - 1
           x == k - 1
<1>6. 0 .. k - 1 = R \cup {x} /\ R \in SUBSET Slots /\ x \in Slots /\ x \notin R
  <2> HIDE DEF D, P
  <2>. QED  BY <1>0, <1>2, <1>4 DEF Slots
<1>7. SlotSize(b)[x] = 0
  <2>1. ~(x < b.in_offs)
    <3> HIDE DEF D, P
    <3>. QED  BY <1>0, <1>4
  <2>. QED  BY <1>6, <2>1 DEF Disciplined, SlotSize, NullEntry
<1>8. SumFunctionOnSet(SlotSize(b), R \cup {x}) = SlotSize(b)[x] + SumFunctionOnSet(SlotSize(b), R)
  <2> HIDE DEF R, x, D, P
  <2>. QED  BY <1>6, SlotSizeType, SumInsert
<1>9. SumFunctionOnSet(SlotSize(b), R) \in Nat
  <2> HIDE DEF R, x, D, P
  <2>. QED  BY <1>6, SlotSizeType, SumType
<1>10. SumFunctionOnSet(SlotSize(b), 0 .. k - 1) = SumFunctionOnSet(SlotSize(b), R)
  <2> HIDE DEF R, x, D, P
  <2>1. SumFunctionOnSet(SlotSize(b), R \cup {x}) = SumFunctionOnSet(SlotSize(b), R)
    BY <1>7, <1>8, <1>9
  <2>. QED  BY <1>6, <2>1, Zenon
<1>. QED  BY <1>2, <1>5, <1>10, Zenon

LEMMA SizeIsUpto ==
  ASSUME NEW E, \A e \in E : e.size \in Nat, NEW b \in aesd_circular_buffer(E), Disciplined(b, E)
  PROVE  get_buffer_size(b) = Upto(b, EntryCount(b))
<1> DEFINE n == EntryCount(b)
<1>0. /\ b.in_offs \in 0 .. MAX_WRITE_OPERATIONS - 1 /\ MAX_WRITE_OPERATIONS \in Nat
      /\ n \in 0 .. MAX_WRITE_OPERATIONS /\ n \in 0 .. n
  BY SlotSizeType, ContentsLemma DEF Slots
<1>1. SumFunctionOnSet(SlotSize(b), Taken(b, n)) = Upto(b, n)
  BY <1>0, TakenSum
<1>2. ASSUME NEW i \in 0 .. n - 1
      PROVE  SlotOf(b, i) = IF ~b.full THEN i
                            ELSE IF b.in_offs + i < MAX_WRITE_OPERATIONS THEN b.in_offs + i
                            ELSE b.in_offs + i - MAX_WRITE_OPERATIONS
  BY SlotOfLemma
<1>3. CASE b.full
  <2>1. n = MAX_WRITE_OPERATIONS
    BY <1>3 DEF EntryCount
  <2>2. ASSUME NEW x \in Slots PROVE x \in Taken(b, n)
    <3> DEFINE i == IF x < b.in_offs THEN x - b.in_offs + MAX_WRITE_OPERATIONS ELSE x - b.in_offs
    <3>1. i \in 0 .. n - 1
      BY <1>0, <2>1 DEF Slots
    <3>2. x = IF b.in_offs + i < MAX_WRITE_OPERATIONS THEN b.in_offs + i ELSE b.in_offs + i - MAX_WRITE_OPERATIONS
      BY <1>0 DEF Slots
    <3>3. SlotOf(b, i) = x
      BY <1>2, <1>3, <3>1, <3>2
    <3>. QED  BY <3>1, <3>3 DEF Taken
  <2>3. ASSUME NEW i \in 0 .. n - 1 PROVE SlotOf(b, i) \in Slots
    BY SlotOfLemma
  <2>4. Taken(b, n) = Slots
    BY <2>2, <2>3 DEF Taken
  <2>. QED  BY <1>1, <2>4, SlotSizeType
<1>4. CASE ~b.full
  <2>1. n = b.in_offs
    BY <1>4 DEF EntryCount
  <2>2. Taken(b, n) = 0 .. b.in_offs - 1
    BY <1>2, <1>4, <2>1 DEF Taken
  <2>3. MAX_WRITE_OPERATIONS \in b.in_offs .. MAX_WRITE_OPERATIONS
    BY <1>0
  <2>4. SumFunctionOnSet(SlotSize(b), Slots) = SumFunctionOnSet(SlotSize(b), 0 .. b.in_offs - 1)
    BY <1>4, <2>3, UnwrittenSum DEF Slots
  <2>. QED  BY <1>1, <2>2, <2>4, SlotSizeType
<1>. QED  BY <1>3, <1>4

(***************************************************************************)
(* The lookup finds the entry that an offset falls into, whichever of the  *)
(* hits it takes, and finds nothing from the end on.                       *)
(***************************************************************************)
LEMMA UptoGrows ==
  ASSUME NEW E, \A e \in E : e.size \in Nat, NEW b \in aesd_circular_buffer(E), Disciplined(b, E),
         NEW i \in 0 .. EntryCount(b)
  PROVE  Upto(b, i) <= Upto(b, EntryCount(b))
<1> DEFINE n == EntryCount(b)
           s == [j \in 1 .. n |-> [k \in 1 .. Contents(b)[j].size |-> 0]]
           u == [j \in 0 .. Len(s) |-> Upto(b, j)]
<1>1. n \in Nat /\ \A j \in 1 .. n : Contents(b)[j].size \in Nat
  BY UptoLemma
<1>2. ASSUME NEW j \in 1 .. n PROVE s[j] \in Seq({0}) /\ Len(s[j]) = Contents(b)[j].size
  BY <1>1
<1>3. s \in Seq(Seq({0})) /\ Len(s) = n
  BY <1>1, <1>2
<1> HIDE DEF s
<1>4. PrefixLengths(u, s)
  BY <1>2, <1>3, UptoPrefixLengths
<1>5. i \in 0 .. Len(s) /\ Len(s) \in i .. Len(s) /\ Len(s) \in 0 .. Len(s)
  BY <1>1, <1>3
<1>6. u[i] <= u[Len(s)]
  <2> HIDE DEF u, n
  <2>. QED  BY <1>3, <1>4, <1>5, PrefixLengthsGrow
<1>. QED  BY <1>3, <1>5, <1>6

LEMMA FindLemma ==
  ASSUME NEW E, \A e \in E : e.size \in Nat, NEW b \in aesd_circular_buffer(E), Disciplined(b, E),
         NEW off \in Nat
  PROVE  /\ off >= Upto(b, EntryCount(b)) =>
              aesd_circular_buffer_find_entry_offset_for_fpos(b, off) = NotFound
         /\ off < Upto(b, EntryCount(b)) =>
              \E i \in 1 .. EntryCount(b) :
                /\ off - Upto(b, i - 1) \in 0 .. Contents(b)[i].size - 1
                /\ aesd_circular_buffer_find_entry_offset_for_fpos(b, off)
                     = [slot |-> SlotOf(b, i - 1), offset |-> off - Upto(b, i - 1)]
<1> DEFINE n == EntryCount(b)
           Size == SizeOf(b)
           Rest(i) == off - Upto(b, i)
           Hit(i) == Rest(i) \in 0 .. Size[i] - 1
           found == aesd_circular_buffer_find_entry_offset_for_fpos(b, off)
<1>1. found = IF \E i \in DOMAIN Size : Hit(i)
                THEN LET i == CHOOSE i \in DOMAIN Size : Hit(i)
                     IN  [slot |-> SlotOf(b, i), offset |-> Rest(i)]
                ELSE NotFound
  BY DEF aesd_circular_buffer_find_entry_offset_for_fpos, SizeOf, Upto
<1> HIDE DEF found
<1>2. DOMAIN Size = 0 .. n - 1 /\ n \in Nat
  BY UptoLemma DEF SizeOf
<1>3. ASSUME NEW j \in 0 .. n - 1
      PROVE  /\ j + 1 \in 1 .. n /\ (j + 1) - 1 = j
             /\ Upto(b, j) \in Nat /\ Upto(b, j + 1) \in Nat
             /\ Size[j] \in Nat /\ Size[j] = Contents(b)[j + 1].size
             /\ Upto(b, j + 1) = Upto(b, j) + Size[j] /\ Upto(b, j + 1) <= Upto(b, n)
             /\ Upto(b, n) \in Nat
  <2>1. j + 1 \in 1 .. n /\ (j + 1) - 1 = j /\ j \in 0 .. n /\ j + 1 \in 0 .. n /\ n \in 0 .. n
    BY <1>2
  <2>2. /\ Upto(b, j) \in Nat /\ Upto(b, j + 1) \in Nat /\ Upto(b, n) \in Nat
        /\ Contents(b)[j + 1].size \in Nat /\ SizeOf(b)[(j + 1) - 1] = Contents(b)[j + 1].size
        /\ Upto(b, j + 1) = Upto(b, (j + 1) - 1) + Contents(b)[j + 1].size
    BY <2>1, UptoLemma
  <2>3. Upto(b, j + 1) <= Upto(b, n)
    BY <2>1, UptoGrows
  <2>. QED  BY <2>1, <2>2, <2>3
<1> HIDE DEF Size, n
<1>4. ASSUME off >= Upto(b, n) PROVE found = NotFound
  <2>1. ASSUME NEW j \in 0 .. n - 1, Hit(j) PROVE FALSE
    BY <1>3, <1>4, <2>1
  <2>. QED  BY <1>1, <1>2, <2>1
<1>5. ASSUME off < Upto(b, n)
      PROVE  \E i \in 1 .. n :
               /\ off - Upto(b, i - 1) \in 0 .. Contents(b)[i].size - 1
               /\ found = [slot |-> SlotOf(b, i - 1), offset |-> off - Upto(b, i - 1)]
  <2>1. \E j \in 0 .. n - 1 : Hit(j)
    <3> DEFINE D == {k \in 0 .. n : off < Upto(b, k)}
    <3>1. D \in SUBSET Nat /\ n \in D
      BY <1>2, <1>5
    <3>2. PICK k \in D : \A m \in D : k <= m
      BY <3>1, LeastElement
    <3>3. k \in 0 .. n /\ off < Upto(b, k)
      OBVIOUS
    <3>4. k # 0
      BY <3>3, UptoLemma
    <3>5. k - 1 \in 0 .. n - 1 /\ k - 1 \in 0 .. n /\ k - 1 \notin D /\ (k - 1) + 1 = k
      <4> HIDE DEF D
      <4>. QED  BY <1>2, <3>2, <3>3, <3>4
    <3>6. ~(off < Upto(b, k - 1))
      BY <3>5
    <3>7. Upto(b, k - 1) \in Nat /\ Size[k - 1] \in Nat /\ Upto(b, k) = Upto(b, k - 1) + Size[k - 1]
      BY <1>3, <3>5
    <3>8. Hit(k - 1)
      <4> HIDE DEF D
      <4>. QED  BY <3>3, <3>6, <3>7
    <3>. QED  BY <3>5, <3>8
  <2> DEFINE j == CHOOSE i \in DOMAIN Size : Hit(i)
  <2>2. j \in 0 .. n - 1 /\ Hit(j)
    <3> HIDE DEF Hit
    <3>. QED  BY <1>2, <2>1
  <2>3. found = [slot |-> SlotOf(b, j), offset |-> Rest(j)]
    <3> HIDE DEF Hit
    <3>. QED  BY <1>1, <1>2, <2>1
  <2> HIDE DEF j
  <2>. QED  BY <1>3, <2>2, <2>3
<1>. QED  BY <1>4, <1>5 DEF found, n

=============================================================================
