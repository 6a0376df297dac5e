---------------------------- MODULE AesdCharProofs ----------------------------
(***************************************************************************)
(* Proofs about the character driver, for every number of processes,       *)
(* slots and blocks, for every payload and whichever services fail: types, *)
(* the lock, who owns which block, and the bounds of every copy.  One      *)
(* inductive invariant carries all of them, because the type of the heap   *)
(* after a copy depends on the bounds, the bounds on the ownership, and    *)
(* the ownership on the lock.  What the blocks hold, that none gets lost,  *)
(* and that the driver implements the command device, is proved on top.    *)
(***************************************************************************)
EXTENDS AesdChar, CircularBufferProofs

Critical == {"find", "copy_to_user", "alloc", "copy_from_user", "commit", "seek", "adjust", "unlock"}

\* Files are open, and calls under way, only while the module is live.
ModuleInv ==
  /\ module # "live" => opened = {}
  /\ module \in {"buffer", "live"} => buffer # NULL

Labels == Critical \cup {"user", "ioctl", "lock", "return"}

\* What a label says about the call.
Fits(l, r) ==
  /\ l \in {"find", "copy_to_user"} => r.op = "read"
  /\ l \in {"alloc", "copy_from_user", "commit"} => r.op = "write"
  /\ l = "seek" => r.op = "llseek"
  /\ l \in {"ioctl", "adjust"} => r.op = "ioctl"
  /\ l = "adjust" \/ (l = "lock" /\ r.op = "ioctl") =>
       r.cmd = "AESDCHAR_IOCSEEKTO" /\ r.write_cmd < MAX_WRITE_OPERATIONS

CallInv ==
  \A p \in Proc : pc[p] # "user" => p \in opened /\ call[p] \in Request /\ Fits(pc[p], call[p])

\* A reader that is about to copy has found a byte of an entry.
FoundInv ==
  \A p \in Proc : pc[p] = "copy_to_user" =>
    /\ found[p] \in [slot : Slots, offset : Nat]
    /\ found[p].offset < buffer.entry[found[p].slot].size

\* The unfinished command is allocated, and large enough once a writer has the
\* block.
BlockInv ==
  /\ tmp.ptr # NULL => heap[tmp.ptr] # FREE
  /\ \A p \in Proc : pc[p] \in {"copy_from_user", "commit"} =>
       /\ tmp.ptr \in Ptr
       /\ Len(heap[tmp.ptr]) >= tmp.size + Len(call[p].data) + 1

ControlInv == TypeOK /\ LockDiscipline /\ ModuleInv /\ CallInv /\ FoundInv

Inv == ControlInv /\ BlockInv /\ EntriesOwnTheirBlocks

-----------------------------------------------------------------------------
(***************************************************************************)
(* Facts about the data.                                                   *)
(***************************************************************************)

LEMMA RequestFields ==
  ASSUME NEW r \in Request
  PROVE  /\ r.op \in {"read", "write", "llseek", "ioctl"}
         /\ r.op = "read" => r.count \in Nat
         /\ r.op = "write" => r.data \in Seq(Byte)
         /\ r.op = "llseek" => r.off \in Int
         /\ r.op = "ioctl" => r.cmd \in {"AESDCHAR_IOCSEEKTO", "other"}
         /\ r.op = "ioctl" /\ r.cmd = "AESDCHAR_IOCSEEKTO" => r.write_cmd \in Nat /\ r.write_cmd_offset \in Nat
<1>1. CASE r \in [op : {"read"}, count : Counts]
  BY <1>1, CountAssumption
<1>2. CASE r \in [op : {"write"}, data : Payloads]
  <2>1. r.data \in Seq(Chars \cup {NL})
    BY <1>2, PayloadAssumption
  <2>2. r.data \in Seq(Byte)
    BY <2>1 DEF Byte
  <2> QED
    BY <1>2, <2>2
<1>3. CASE r \in [op : {"llseek"}, off : Offsets, whence : Whences]
  BY <1>3, OffsetAssumption
<1>4. CASE r \in [op : {"ioctl"}, cmd : {"AESDCHAR_IOCSEEKTO"},
                  write_cmd : WriteCmds, write_cmd_offset : CmdOffsets]
  BY <1>4, CountAssumption
<1>5. CASE r \in [op : {"ioctl"}, cmd : {"other"}]
  BY <1>5
<1> QED
  BY <1>1, <1>2, <1>3, <1>4, <1>5 DEF Request

LEMMA MinOfPair ==
  ASSUME NEW m \in Int, NEW n \in Int
  PROVE  /\ Min({m, n}) \in {m, n}
         /\ Min({m, n}) <= m /\ Min({m, n}) <= n
<1>1. \E x \in {m, n} : \A y \in {m, n} : x <= y
  OBVIOUS
<1> QED
  BY <1>1 DEF Min

LEMMA LlseekType ==
  ASSUME NEW pos \in Nat, NEW off, NEW whence, NEW size, whence = "SEEK_CUR" => off \in Int
  PROVE  fixed_size_llseek(pos, off, whence, size).pos \in Nat
<1>1. CASE whence = "SEEK_CUR"
  BY <1>1 DEF fixed_size_llseek
<1>2. CASE whence # "SEEK_CUR"
  BY <1>2 DEF fixed_size_llseek
<1> QED
  BY <1>1, <1>2

\* The lookup returns NotFound or a byte of an entry.
LEMMA FindType ==
  ASSUME NEW b \in aesd_circular_buffer(Entry), NEW off,
         NEW e, e = aesd_circular_buffer_find_entry_offset_for_fpos(b, off), e # NotFound
  PROVE  e \in [slot : Slots, offset : Nat] /\ e.offset < b.entry[e.slot].size
<1> DEFINE Size == [i \in 0 .. EntryCount(b) - 1 |-> b.entry[SlotOf(b, i)].size]
           Rest(i) == off - SumFunctionOnSet(Size, 0 .. i - 1)
           Hit(i) == Rest(i) \in 0 .. Size[i] - 1
           hit == CHOOSE i \in DOMAIN Size : Hit(i)
<1>1. (\E i \in DOMAIN Size : Hit(i)) /\ e = [slot |-> SlotOf(b, hit), offset |-> Rest(hit)]
  BY Zenon DEF aesd_circular_buffer_find_entry_offset_for_fpos
<1>2. hit \in DOMAIN Size /\ Hit(hit)
  BY <1>1
<1>3. PICK i \in 0 .. EntryCount(b) - 1 :
        Rest(i) \in 0 .. Size[i] - 1 /\ e = [slot |-> SlotOf(b, i), offset |-> Rest(i)]
  <2> HIDE DEF Rest, hit
  <2> QED
    BY <1>1, <1>2
<1>4. EntryCount(b) \in Nat /\ b.out_offs \in Nat
  BY MaxOpsAssumption DEF EntryCount, aesd_circular_buffer, Slots
<1>5. i \in Nat /\ Size[i] = b.entry[SlotOf(b, i)].size
  BY <1>4
<1>6. SlotOf(b, i) \in Slots
  BY <1>4, <1>5, MaxOpsAssumption DEF SlotOf, Slots
<1>7. b.entry[SlotOf(b, i)].size \in Nat
  BY <1>6 DEF aesd_circular_buffer, Entry, NullEntry
<1>8. PICK x : x = Rest(i)
  OBVIOUS
<1> HIDE DEF Rest, Size
<1>9. x \in Nat /\ x < b.entry[SlotOf(b, i)].size
  BY <1>3, <1>5, <1>7, <1>8
<1> QED
  BY <1>3, <1>6, <1>8, <1>9

LEMMA AddEntryType ==
  ASSUME NEW b \in aesd_circular_buffer(Entry), NEW e \in Entry
  PROVE  aesd_circular_buffer_add_entry(b, e) \in aesd_circular_buffer(Entry)
<1> DEFINE c == aesd_circular_buffer_add_entry(b, e)
<1>1. /\ b.in_offs \in Slots /\ b.out_offs \in Slots
      /\ b.entry \in [Slots -> Entry \cup {NullEntry}]
      /\ UInt8(b.in_offs + 1) = b.in_offs + 1
  BY UInt8Lemma DEF aesd_circular_buffer
<1> QED
  BY <1>1, MaxOpsAssumption DEF aesd_circular_buffer_add_entry, aesd_circular_buffer, Slots

LEMMA ZeroedType ==
  ASSUME NEW n \in Nat
  PROVE  Zeroed(n) \in Seq(Byte) /\ Len(Zeroed(n)) = n
  BY DEF Zeroed, Byte

LEMMA ResizedType ==
  ASSUME NEW s \in Seq(Byte), NEW n \in Nat
  PROVE  Resized(s, n) \in Seq(Byte) /\ Len(Resized(s, n)) = n
  BY DEF Resized, Byte

LEMMA OverwriteType ==
  ASSUME NEW s \in Seq(Byte), NEW at \in Nat, NEW d \in Seq(Byte)
  PROVE  Overwrite(s, at, d) \in Seq(Byte) /\ Len(Overwrite(s, at, d)) = Len(s)
  BY DEF Overwrite

-----------------------------------------------------------------------------
(***************************************************************************)
(* Control: how a process moves, and the two steps of aesd_read.           *)
(***************************************************************************)

LEMMA InitControl == Init => ControlInv
  BY ProcAssumption
  DEF Init, ControlInv, TypeOK, LockDiscipline, InCriticalSection, ModuleInv, CallInv, FoundInv

\* Two processes in the critical section are one.
LEMMA Exclusive ==
  ASSUME LockDiscipline, NEW p \in Proc, NEW q \in Proc,
         InCriticalSection(p), InCriticalSection(q)
  PROVE  p = q
  BY DEF LockDiscipline

\* A process moves on inside its call, and not across the lock.
LEMMA MoveControl ==
  ASSUME ControlInv, NEW p \in Proc, NEW l \in Labels \ {"user"},
         pc[p] # "user", pc' = [pc EXCEPT ![p] = l],
         UNCHANGED <<module, lock, opened, call>>,
         buffer' = buffer \/ buffer' # NULL,
         l \in Critical <=> InCriticalSection(p), Fits(l, call[p])
  PROVE  pc' \in [Proc -> Labels] /\ LockDiscipline' /\ ModuleInv' /\ CallInv'
<1>1. pc \in [Proc -> Labels]
  BY DEF ControlInv, TypeOK, Labels, Critical
<1>2. \A q \in Proc : pc'[q] = IF q = p THEN l ELSE pc[q]
  BY <1>1
<1>3. LockDiscipline'
  BY <1>2 DEF ControlInv, LockDiscipline, InCriticalSection, Critical
<1>4. ModuleInv'
  BY DEF ControlInv, ModuleInv
<1>5. CallInv'
  BY <1>2 DEF ControlInv, CallInv
<1> QED
  BY <1>1, <1>3, <1>4, <1>5

\* What readers have found stays true while nobody else changes the buffer.
LEMMA MoveFound ==
  ASSUME ControlInv, NEW p \in Proc, NEW l \in Labels, l # "copy_to_user",
         pc' = [pc EXCEPT ![p] = l],
         \A q \in Proc \ {p} : found'[q] = found[q],
         buffer' = buffer \/ InCriticalSection(p)
  PROVE  FoundInv'
<1> SUFFICES ASSUME NEW q \in Proc, pc'[q] = "copy_to_user"
             PROVE  /\ found'[q] \in [slot : Slots, offset : Nat]
                    /\ found'[q].offset < buffer'.entry[found'[q].slot].size
  BY DEF FoundInv
<1>1. q # p /\ pc[q] = "copy_to_user"
  BY DEF ControlInv, TypeOK
<1>2. buffer' = buffer
  BY <1>1, Exclusive DEF ControlInv, InCriticalSection
<1> QED
  BY <1>1, <1>2 DEF ControlInv, FoundInv

\* A call is under way only while the device is there.
LEMMA InCall ==
  ASSUME ControlInv, NEW p \in Proc, pc[p] # "user"
  PROVE  /\ p \in opened /\ module = "live"
         /\ buffer \in aesd_circular_buffer(Entry)
         /\ call[p] \in Request /\ Fits(pc[p], call[p])
  BY DEF ControlInv, CallInv, ModuleInv, TypeOK

LEMMA ReadFindControl ==
  ASSUME ControlInv, NEW p \in Proc, ReadFind(p)
  PROVE  ControlInv'
<1> DEFINE e == aesd_circular_buffer_find_entry_offset_for_fpos(buffer, f_pos[p])
<1>1. /\ pc[p] = "find" /\ InCriticalSection(p)
      /\ UNCHANGED <<module, buffer, tmp, lock, heap, opened, f_pos, call>>
  BY DEF ReadFind, InCriticalSection, devVars
<1>2. Fits("unlock", call[p]) /\ Fits("copy_to_user", call[p]) /\ buffer \in aesd_circular_buffer(Entry)
  BY <1>1, InCall DEF Fits
<1>3. CASE e = NotFound
  <2>1. pc' = [pc EXCEPT ![p] = "unlock"] /\ found' = found /\ DOMAIN reply' = DOMAIN reply
    BY <1>3 DEF ReadFind, Finish, Goto
  <2>2. pc' \in [Proc -> Labels] /\ LockDiscipline' /\ ModuleInv' /\ CallInv'
    BY <1>1, <1>2, <2>1, MoveControl DEF Labels, Critical
  <2>3. FoundInv'
    BY <1>1, <2>1, MoveFound DEF Labels, Critical
  <2>4. TypeOK'
    BY <1>1, <2>1, <2>2 DEF ControlInv, TypeOK, Labels, Critical
  <2> QED
    BY <2>2, <2>3, <2>4 DEF ControlInv
<1>4. CASE e # NotFound
  <2>1. /\ pc' = [pc EXCEPT ![p] = "copy_to_user"]
        /\ found' = [found EXCEPT ![p] = e] /\ reply' = reply
    BY <1>4 DEF ReadFind, Goto
  <2>2. pc' \in [Proc -> Labels] /\ LockDiscipline' /\ ModuleInv' /\ CallInv'
    BY <1>1, <1>2, <2>1, MoveControl DEF Labels, Critical
  <2>3. e \in [slot : Slots, offset : Nat] /\ e.offset < buffer.entry[e.slot].size
    BY <1>2, <1>4, FindType
  <2>4. FoundInv'
    <3> HIDE DEF e
    <3> QED
      BY <1>1, <2>1, <2>3 DEF FoundInv, ControlInv, TypeOK
  <2>5. TypeOK'
    <3> HIDE DEF e
    <3> QED
      BY <1>1, <2>1, <2>2, <2>3 DEF ControlInv, TypeOK, Labels, Critical
  <2> QED
    BY <2>2, <2>4, <2>5 DEF ControlInv
<1> QED
  BY <1>3, <1>4

\* The bytes that are copied are bytes of the entry that was found.
LEMMA TrimmedBounds ==
  ASSUME ControlInv, NEW p \in Proc, pc[p] = "copy_to_user"
  PROVE  /\ Trimmed(p) \in Nat
         /\ found[p].slot \in Slots /\ found[p].offset \in Nat
         /\ found[p].offset + Trimmed(p) <= buffer.entry[found[p].slot].size
         /\ buffer.entry[found[p].slot] \in Entry
<1>1. call[p].count \in Nat
  BY InCall, RequestFields DEF Fits
<1>2. found[p].slot \in Slots /\ found[p].offset \in Nat
  BY DEF ControlInv, FoundInv
<1>3. /\ buffer.entry[found[p].slot] \in Entry \cup {NullEntry}
      /\ found[p].offset < buffer.entry[found[p].slot].size
  BY <1>2, InCall DEF ControlInv, FoundInv, aesd_circular_buffer
<1>4. buffer.entry[found[p].slot] \in Entry
  BY <1>2, <1>3 DEF NullEntry
<1>5. PICK size \in Nat : size = buffer.entry[found[p].slot].size
  BY <1>4 DEF Entry
<1>6. PICK offset \in Nat : offset = found[p].offset
  BY <1>2
<1>7. PICK count \in Nat : count = call[p].count
  BY <1>1
<1>8. offset < size /\ Trimmed(p) = Min({count, size - offset})
  BY <1>3, <1>5, <1>6, <1>7 DEF Trimmed
<1>9. Trimmed(p) \in Nat /\ offset + Trimmed(p) <= size
  <2>1. PICK rest \in Nat : rest = size - offset
    BY <1>8
  <2>2. Min({count, rest}) \in {count, rest} /\ Min({count, rest}) <= rest
    <3>1. count \in Int /\ rest \in Int
      OBVIOUS
    <3> QED
      BY <3>1, MinOfPair, Zenon
  <2>3. Trimmed(p) = Min({count, rest})
    BY <1>8, <2>1
  <2> QED
    BY <2>1, <2>2, <2>3
<1> QED
  BY <1>2, <1>4, <1>5, <1>6, <1>9

LEMMA ReadCopyControl ==
  ASSUME ControlInv, NEW p \in Proc, ReadCopy(p)
  PROVE  ControlInv'
<1>1. /\ pc[p] = "copy_to_user" /\ InCriticalSection(p)
      /\ UNCHANGED <<module, buffer, tmp, lock, heap, opened, call, found>>
  BY DEF ReadCopy, InCriticalSection, devVars
<1>2. pc' = [pc EXCEPT ![p] = "unlock"] /\ DOMAIN reply' = DOMAIN reply
  BY DEF ReadCopy, Finish, Goto
<1>3. f_pos' \in [Proc -> Nat]
  <2>1. f_pos' = [f_pos EXCEPT ![p] = @ + Trimmed(p)] \/ f_pos' = f_pos
    BY DEF ReadCopy
  <2>2. Trimmed(p) \in Nat /\ f_pos \in [Proc -> Nat]
    BY <1>1, TrimmedBounds DEF ControlInv, TypeOK
  <2> QED
    BY <2>1, <2>2
<1>4. pc' \in [Proc -> Labels] /\ LockDiscipline' /\ ModuleInv' /\ CallInv'
  BY <1>1, <1>2, MoveControl DEF Labels, Critical, Fits
<1>5. FoundInv'
  BY <1>1, <1>2, MoveFound DEF Labels, Critical
<1>6. TypeOK'
  BY <1>1, <1>2, <1>3, <1>4 DEF ControlInv, TypeOK, Labels, Critical
<1> QED
  BY <1>4, <1>5, <1>6 DEF ControlInv

-----------------------------------------------------------------------------
(***************************************************************************)
(* aesd_write: the only operation that changes blocks and the buffer.      *)
(***************************************************************************)

\* The bytes of a write.
LEMMA WriteData ==
  ASSUME ControlInv, NEW p \in Proc, pc[p] \in {"alloc", "copy_from_user", "commit"}
  PROVE  call[p].data \in Seq(Byte) /\ Len(call[p].data) \in Nat
  BY InCall, RequestFields DEF Fits

\* Both ways to get a block give an address and a heap of the right type.
LEMMA BlockType ==
  ASSUME TypeOK, NEW n \in Nat,
         NEW block \in kzalloc(n) \cup krealloc(tmp.ptr, n),
         tmp.ptr # NULL => heap[tmp.ptr] # FREE
  PROVE  /\ block.ptr \in Ptr
         /\ block.heap \in [Ptr -> Seq(Byte) \cup {FREE}]
         /\ block.heap[block.ptr] \in Seq(Byte) /\ Len(block.heap[block.ptr]) = n
         /\ \A q \in Ptr \ {block.ptr, tmp.ptr} : block.heap[q] = heap[q]
         /\ heap[block.ptr] # FREE => block.ptr = tmp.ptr
<1>1. heap \in [Ptr -> Seq(Byte) \cup {FREE}] /\ tmp.ptr \in Ptr \cup {NULL} /\ NULL \notin Ptr
  BY PtrAssumption DEF TypeOK
<1>2. CASE block \in kzalloc(n)
  <2>1. PICK q \in FreeBlocks(heap) : block = [ptr |-> q, heap |-> [heap EXCEPT ![q] = Zeroed(n)]]
    BY <1>2 DEF kzalloc
  <2>2. q \in Ptr /\ heap[q] = FREE
    BY DEF FreeBlocks
  <2> QED
    BY <1>1, <2>1, <2>2, ZeroedType
<1>3. CASE tmp.ptr = NULL /\ block \in krealloc(tmp.ptr, n)
  <2>1. PICK q \in FreeBlocks(heap) : block = [ptr |-> q, heap |-> [heap EXCEPT ![q] = Resized(<<>>, n)]]
    BY <1>3 DEF krealloc
  <2>2. q \in Ptr /\ heap[q] = FREE
    BY DEF FreeBlocks
  <2>3. Resized(<<>>, n) \in Seq(Byte) /\ Len(Resized(<<>>, n)) = n
    <3>1. <<>> \in Seq(Byte)
      OBVIOUS
    <3> QED
      BY <3>1, ResizedType, Zenon
  <2> QED
    BY <1>1, <2>1, <2>2, <2>3
<1>4. CASE tmp.ptr # NULL /\ block \in krealloc(tmp.ptr, n)
  <2>1. tmp.ptr \in Ptr /\ heap[tmp.ptr] \in Seq(Byte)
    BY <1>1, <1>4
  <2>2. Resized(heap[tmp.ptr], n) \in Seq(Byte) /\ Len(Resized(heap[tmp.ptr], n)) = n
    BY <2>1, ResizedType
  <2>3. CASE block = [ptr |-> tmp.ptr, heap |-> [heap EXCEPT ![tmp.ptr] = Resized(@, n)]]
    BY <1>1, <2>1, <2>2, <2>3
  <2>4. ASSUME NEW q \in FreeBlocks(heap),
               block = [ptr |-> q, heap |-> [kfree(heap, tmp.ptr) EXCEPT ![q] = Resized(heap[tmp.ptr], n)]]
        PROVE  /\ block.ptr \in Ptr
               /\ block.heap \in [Ptr -> Seq(Byte) \cup {FREE}]
               /\ block.heap[block.ptr] \in Seq(Byte) /\ Len(block.heap[block.ptr]) = n
               /\ \A r \in Ptr \ {block.ptr, tmp.ptr} : block.heap[r] = heap[r]
               /\ heap[block.ptr] = FREE
    <3>1. q \in Ptr /\ heap[q] = FREE
      BY DEF FreeBlocks
    <3>2. kfree(heap, tmp.ptr) = [heap EXCEPT ![tmp.ptr] = FREE]
      BY <1>4 DEF kfree
    <3> QED
      BY <1>1, <2>1, <2>2, <2>4, <3>1, <3>2
  <2> QED
    BY <1>4, <2>3, <2>4 DEF krealloc
<1> QED
  BY <1>2, <1>3, <1>4

\* The write of p has the lock, the new block and nobody else's attention.
LEMMA Writing ==
  ASSUME Inv, NEW p \in Proc, pc[p] \in {"copy_from_user", "commit"}
  PROVE  /\ tmp.ptr \in Ptr /\ tmp.size \in Nat
         /\ heap \in [Ptr -> Seq(Byte) \cup {FREE}]
         /\ heap[tmp.ptr] \in Seq(Byte)
         /\ Len(heap[tmp.ptr]) >= tmp.size + Len(call[p].data) + 1
         /\ call[p].data \in Seq(Byte) /\ Len(call[p].data) \in Nat
         /\ InCriticalSection(p)
<1>1. ControlInv /\ BlockInv
  BY DEF Inv
<1>2. call[p].data \in Seq(Byte) /\ Len(call[p].data) \in Nat
  BY <1>1, WriteData
<1>3. tmp.ptr \in Ptr /\ Len(heap[tmp.ptr]) >= tmp.size + Len(call[p].data) + 1
  BY <1>1 DEF BlockInv
<1>4. heap[tmp.ptr] # FREE
  BY <1>1, <1>3, PtrAssumption DEF BlockInv
<1>5. tmp.size \in Nat /\ heap \in [Ptr -> Seq(Byte) \cup {FREE}]
  BY <1>1 DEF ControlInv, TypeOK
<1> QED
  BY <1>2, <1>3, <1>4, <1>5 DEF InCriticalSection

\* Entries keep their blocks when only other blocks change.
LEMMA EntriesKept ==
  ASSUME EntriesOwnTheirBlocks, buffer' = buffer, buffer # NULL,
         \A i \in Slots : buffer.entry[i].buffptr # NULL =>
           /\ heap'[buffer.entry[i].buffptr] = heap[buffer.entry[i].buffptr]
           /\ tmp'.ptr # buffer.entry[i].buffptr
  PROVE  EntriesOwnTheirBlocks'
  BY DEF EntriesOwnTheirBlocks, BlockHolds

\* The second conjunct of BlockInv is about the holder of the lock only.
LEMMA BlockOfHolder ==
  ASSUME LockDiscipline', NEW p \in Proc, InCriticalSection(p)',
         (tmp.ptr # NULL => heap[tmp.ptr] # FREE)',
         pc'[p] \in {"copy_from_user", "commit"} =>
           /\ tmp'.ptr \in Ptr
           /\ Len(heap'[tmp'.ptr]) >= tmp'.size + Len(call'[p].data) + 1
  PROVE  BlockInv'
<1>1. ASSUME NEW q \in Proc, pc'[q] \in {"copy_from_user", "commit"}
      PROVE  q = p
  BY <1>1 DEF LockDiscipline, InCriticalSection
<1> QED
  BY <1>1 DEF BlockInv

LEMMA WriteAllocInv ==
  ASSUME Inv, NEW p \in Proc, WriteAlloc(p)
  PROVE  Inv'
<1>1. /\ pc[p] = "alloc" /\ InCriticalSection(p)
      /\ UNCHANGED <<module, buffer, lock, opened, f_pos, call, found>>
  BY DEF WriteAlloc, InCriticalSection
<1>2. /\ ControlInv /\ BlockInv /\ EntriesOwnTheirBlocks
      /\ buffer \in aesd_circular_buffer(Entry) /\ buffer # NULL
      /\ Fits("unlock", call[p]) /\ Fits("copy_from_user", call[p])
  <2>1. ControlInv /\ BlockInv /\ EntriesOwnTheirBlocks
    BY DEF Inv
  <2>2. module = "live" /\ buffer \in aesd_circular_buffer(Entry) /\ Fits(pc[p], call[p])
    BY <1>1, <2>1, InCall
  <2>3. buffer # NULL
    BY <2>1, <2>2 DEF ControlInv, ModuleInv
  <2> QED
    BY <1>1, <2>1, <2>2, <2>3 DEF Fits
<1>3. /\ tmp \in [ptr : Ptr \cup {NULL}, size : Nat]
      /\ heap \in [Ptr -> Seq(Byte) \cup {FREE}]
      /\ Len(call[p].data) \in Nat
  BY <1>1, <1>2, WriteData DEF ControlInv, TypeOK
<1>4. BlockSize(p) \in Nat /\ BlockSize(p) = tmp.size + Len(call[p].data) + 1
  BY <1>3 DEF BlockSize, DEBUG_BYTE
<1>5. CASE pc' = [pc EXCEPT ![p] = "copy_from_user"] /\ reply' = reply
  <2>1. PICK block \in kzalloc(BlockSize(p)) \cup krealloc(tmp.ptr, BlockSize(p)) :
          tmp' = [tmp EXCEPT !.ptr = block.ptr] /\ heap' = block.heap
    <3>1. pc'[p] # "unlock"
      BY <1>2, <1>5 DEF ControlInv, TypeOK
    <3>2. ~ Finish(p, "unlock", "ENOMEM", 0, <<>>)
      BY <1>2, <3>1 DEF Finish, Goto, ControlInv, TypeOK
    <3> QED
      BY <3>2 DEF WriteAlloc
  <2>2. /\ block.ptr \in Ptr
        /\ block.heap \in [Ptr -> Seq(Byte) \cup {FREE}]
        /\ block.heap[block.ptr] \in Seq(Byte) /\ Len(block.heap[block.ptr]) = BlockSize(p)
        /\ \A q \in Ptr \ {block.ptr, tmp.ptr} : block.heap[q] = heap[q]
        /\ heap[block.ptr] # FREE => block.ptr = tmp.ptr
    BY <1>2, <1>4, BlockType DEF ControlInv, BlockInv
  <2>3. tmp'.ptr = block.ptr /\ tmp'.size = tmp.size /\ tmp' \in [ptr : Ptr \cup {NULL}, size : Nat]
    BY <1>3, <2>1, <2>2
  <2>4. pc' \in [Proc -> Labels] /\ LockDiscipline' /\ ModuleInv' /\ CallInv'
    BY <1>1, <1>2, <1>5, MoveControl DEF Labels, Critical
  <2>5. FoundInv'
    BY <1>1, <1>2, <1>5, MoveFound DEF Labels, Critical
  <2>6. TypeOK'
    BY <1>1, <1>2, <1>5, <2>1, <2>2, <2>3, <2>4 DEF ControlInv, TypeOK, Labels, Critical
  <2>7. BlockInv'
    <3>1. InCriticalSection(p)'
      BY <1>2, <1>5 DEF ControlInv, TypeOK, InCriticalSection
    <3>2. heap'[tmp'.ptr] # FREE /\ Len(heap'[tmp'.ptr]) = BlockSize(p)
      BY <2>1, <2>2, <2>3, FreeAssumption
    <3> QED
      BY <1>1, <1>4, <2>2, <2>3, <2>4, <3>1, <3>2, BlockOfHolder
  <2>8. EntriesOwnTheirBlocks'
    <3>1. ASSUME NEW i \in Slots, buffer.entry[i].buffptr # NULL
          PROVE  /\ heap'[buffer.entry[i].buffptr] = heap[buffer.entry[i].buffptr]
                 /\ tmp'.ptr # buffer.entry[i].buffptr
      <4> DEFINE e == buffer.entry[i].buffptr
      <4>1. e \in Ptr /\ heap[e] # FREE /\ e # tmp.ptr
        BY <1>2, <3>1 DEF EntriesOwnTheirBlocks, BlockHolds, aesd_circular_buffer, Entry, NullEntry
      <4> HIDE DEF e
      <4>2. e # block.ptr
        BY <2>2, <4>1
      <4>3. heap'[e] = heap[e]
        BY <2>1, <2>2, <4>1, <4>2
      <4> QED
        BY <2>3, <4>2, <4>3 DEF e
    <3> QED
      BY <1>1, <1>2, <3>1, EntriesKept
  <2> QED
    BY <2>4, <2>5, <2>6, <2>7, <2>8 DEF Inv, ControlInv
<1>6. CASE pc' = [pc EXCEPT ![p] = "unlock"]
  <2>1. tmp' = [tmp EXCEPT !.ptr = NULL] /\ heap' = heap /\ DOMAIN reply' = DOMAIN reply
    <3>1. pc'[p] = "unlock"
      BY <1>2, <1>6 DEF ControlInv, TypeOK
    <3>2. ~ Goto(p, "copy_from_user")
      BY <1>2, <3>1 DEF Goto, ControlInv, TypeOK
    <3> QED
      BY <3>2 DEF WriteAlloc, Finish
  <2>2. tmp'.ptr = NULL /\ tmp' \in [ptr : Ptr \cup {NULL}, size : Nat]
    BY <1>3, <2>1
  <2>3. pc' \in [Proc -> Labels] /\ LockDiscipline' /\ ModuleInv' /\ CallInv'
    BY <1>1, <1>2, <1>6, MoveControl DEF Labels, Critical
  <2>4. FoundInv'
    BY <1>1, <1>2, <1>6, MoveFound DEF Labels, Critical
  <2>5. TypeOK'
    BY <1>1, <1>2, <1>6, <2>1, <2>2, <2>3 DEF ControlInv, TypeOK, Labels, Critical
  <2>6. BlockInv'
    <3>1. InCriticalSection(p)' /\ pc'[p] = "unlock"
      BY <1>2, <1>6 DEF ControlInv, TypeOK, InCriticalSection
    <3> QED
      BY <2>2, <2>3, <3>1, BlockOfHolder
  <2>7. EntriesOwnTheirBlocks'
    BY <1>1, <1>2, <2>1, <2>2, EntriesKept
  <2> QED
    BY <2>3, <2>4, <2>5, <2>6, <2>7 DEF Inv, ControlInv
<1> QED
  BY <1>5, <1>6 DEF WriteAlloc, Finish, Goto

\* A byte of the new block, or several, are stored; no entry is disturbed.
LEMMA StoreInBlock ==
  ASSUME Inv, NEW p \in Proc, pc[p] \in {"copy_from_user", "commit"}, buffer # NULL,
         NEW s \in Seq(Byte), Len(s) = Len(heap[tmp.ptr]),
         heap' = [heap EXCEPT ![tmp.ptr] = s], buffer' = buffer, tmp'.ptr = tmp.ptr
  PROVE  /\ heap' \in [Ptr -> Seq(Byte) \cup {FREE}]
         /\ heap'[tmp'.ptr] = s /\ heap'[tmp'.ptr] # FREE
         /\ EntriesOwnTheirBlocks'
<1>1. tmp.ptr \in Ptr /\ heap \in [Ptr -> Seq(Byte) \cup {FREE}]
  BY Writing
<1>2. heap'[tmp'.ptr] = s /\ s # FREE /\ heap' \in [Ptr -> Seq(Byte) \cup {FREE}]
  BY <1>1, FreeAssumption
<1>3. ASSUME NEW i \in Slots, buffer.entry[i].buffptr # NULL
      PROVE  /\ heap'[buffer.entry[i].buffptr] = heap[buffer.entry[i].buffptr]
             /\ tmp'.ptr # buffer.entry[i].buffptr
  <2> DEFINE e == buffer.entry[i].buffptr
  <2>1. e # tmp.ptr
    BY <1>3 DEF Inv, EntriesOwnTheirBlocks
  <2>2. buffer \in aesd_circular_buffer(Entry)
    BY DEF Inv, ControlInv, TypeOK
  <2>3. e \in Ptr
    BY <1>3, <2>2 DEF aesd_circular_buffer, Entry, NullEntry
  <2> HIDE DEF e
  <2>4. heap'[e] = heap[e]
    BY <1>1, <2>1, <2>3
  <2> QED
    BY <2>1, <2>4 DEF e
<1>4. EntriesOwnTheirBlocks'
  BY <1>3, EntriesKept DEF Inv
<1> QED
  BY <1>2, <1>4

LEMMA WriteCopyInv ==
  ASSUME Inv, NEW p \in Proc, WriteCopy(p)
  PROVE  Inv'
<1>1. /\ pc[p] = "copy_from_user" /\ InCriticalSection(p)
      /\ UNCHANGED <<module, buffer, tmp, lock, opened, f_pos, call, found>>
  BY DEF WriteCopy, InCriticalSection
<1>2. ControlInv /\ BlockInv /\ EntriesOwnTheirBlocks
  BY DEF Inv
<1>3. /\ tmp.ptr \in Ptr /\ tmp.size \in Nat
      /\ heap \in [Ptr -> Seq(Byte) \cup {FREE}]
      /\ heap[tmp.ptr] \in Seq(Byte)
      /\ Len(heap[tmp.ptr]) >= tmp.size + Len(call[p].data) + 1
      /\ call[p].data \in Seq(Byte) /\ Len(call[p].data) \in Nat
  BY <1>1, Writing
<1>4. buffer # NULL /\ Fits("unlock", call[p]) /\ Fits("commit", call[p])
  <2>1. module = "live" /\ Fits(pc[p], call[p])
    BY <1>1, <1>2, InCall
  <2> QED
    BY <1>1, <1>2, <2>1 DEF ControlInv, ModuleInv, Fits
<1>5. PICK l \in {"commit", "unlock"}, d \in Seq(Byte) :
        /\ heap' = [heap EXCEPT ![tmp.ptr] = Overwrite(heap[tmp.ptr], tmp.size, d)]
        /\ pc' = [pc EXCEPT ![p] = l]
        /\ DOMAIN reply' = DOMAIN reply
  <2>1. CASE /\ heap' = [heap EXCEPT ![tmp.ptr] = Overwrite(@, CopyOffset, call[p].data)]
             /\ Goto(p, "commit")
             /\ UNCHANGED reply
    BY <1>3, <2>1 DEF CopyOffset, Goto
  <2>2. ASSUME NEW k \in 0 .. Len(call[p].data) - 1,
               heap' = [heap EXCEPT ![tmp.ptr] =
                          Overwrite(@, CopyOffset, SubSeq(call[p].data, 1, k)
                                                     \o Zeroed(Len(call[p].data) - k))],
               Finish(p, "unlock", "EFAULT", 0, <<>>)
        PROVE  \E d \in Seq(Byte) :
                 /\ heap' = [heap EXCEPT ![tmp.ptr] = Overwrite(heap[tmp.ptr], tmp.size, d)]
                 /\ pc' = [pc EXCEPT ![p] = "unlock"]
                 /\ DOMAIN reply' = DOMAIN reply
    <3> DEFINE d == SubSeq(call[p].data, 1, k) \o Zeroed(Len(call[p].data) - k)
    <3>1. Len(call[p].data) - k \in Nat
      BY <1>3
    <3>2. Zeroed(Len(call[p].data) - k) \in Seq(Byte)
      BY <3>1, ZeroedType
    <3>3. SubSeq(call[p].data, 1, k) \in Seq(Byte)
      BY <1>3
    <3>4. d \in Seq(Byte)
      BY <3>2, <3>3
    <3>5. heap' = [heap EXCEPT ![tmp.ptr] = Overwrite(heap[tmp.ptr], tmp.size, d)]
      BY <2>2, Zenon DEF CopyOffset
    <3>6. pc' = [pc EXCEPT ![p] = "unlock"] /\ DOMAIN reply' = DOMAIN reply
      BY <2>2 DEF Finish, Goto
    <3> HIDE DEF d
    <3> QED
      BY <3>4, <3>5, <3>6
  <2> QED
    BY <2>1, <2>2 DEF WriteCopy
<1>6. /\ Overwrite(heap[tmp.ptr], tmp.size, d) \in Seq(Byte)
      /\ Len(Overwrite(heap[tmp.ptr], tmp.size, d)) = Len(heap[tmp.ptr])
  BY <1>3, OverwriteType
<1>7. /\ heap' \in [Ptr -> Seq(Byte) \cup {FREE}]
      /\ heap'[tmp'.ptr] # FREE /\ Len(heap'[tmp'.ptr]) = Len(heap[tmp.ptr])
      /\ EntriesOwnTheirBlocks'
  BY <1>1, <1>4, <1>5, <1>6, StoreInBlock
<1>8. pc' \in [Proc -> Labels] /\ LockDiscipline' /\ ModuleInv' /\ CallInv'
  BY <1>1, <1>2, <1>4, <1>5, MoveControl DEF Labels, Critical
<1>9. FoundInv'
  BY <1>1, <1>2, <1>5, MoveFound DEF Labels, Critical
<1>10. TypeOK'
  BY <1>1, <1>2, <1>5, <1>7, <1>8 DEF ControlInv, TypeOK, Labels, Critical
<1>11. BlockInv'
  <2>1. InCriticalSection(p)'
    BY <1>2, <1>5 DEF ControlInv, TypeOK, InCriticalSection
  <2> QED
    BY <1>1, <1>3, <1>7, <1>8, <2>1, BlockOfHolder
<1> QED
  BY <1>7, <1>8, <1>9, <1>10, <1>11 DEF Inv, ControlInv

\* The block with a NUL behind its size bytes.
LEMMA TerminatedType ==
  ASSUME NEW s \in Seq(Byte), NEW n \in Nat, n < Len(s)
  PROVE  /\ [s EXCEPT ![n + 1] = NUL] \in Seq(Byte)
         /\ Len([s EXCEPT ![n + 1] = NUL]) = Len(s)
         /\ [s EXCEPT ![n + 1] = NUL][n + 1] = NUL
<1>1. NUL \in Byte /\ n + 1 \in 1 .. Len(s)
  BY DEF Byte
<1> QED
  BY <1>1

\* The terminated command becomes an entry: it is nobody else's block, and the
\* block of the entry it replaces is nobody's any more.
LEMMA AddOwnBlock ==
  ASSUME Inv, NEW p \in Proc, pc[p] = "commit", buffer \in aesd_circular_buffer(Entry), buffer # NULL,
         NEW size \in Nat, NEW block \in Seq(Byte), size < Len(block), block[size + 1] = NUL,
         buffer' = aesd_circular_buffer_add_entry(buffer, [buffptr |-> tmp.ptr, size |-> size]),
         heap' = kfree([heap EXCEPT ![tmp.ptr] = block], ReplacedPtr(buffer)),
         tmp' = AfterAdd
  PROVE  /\ buffer' \in aesd_circular_buffer(Entry)
         /\ heap' \in [Ptr -> Seq(Byte) \cup {FREE}]
         /\ EntriesOwnTheirBlocks'
<1> DEFINE new == [buffptr |-> tmp.ptr, size |-> size]
           old == ReplacedPtr(buffer)
<1>1. /\ tmp.ptr \in Ptr /\ tmp.ptr # NULL
      /\ heap \in [Ptr -> Seq(Byte) \cup {FREE}] /\ EntriesOwnTheirBlocks
  <2>1. tmp.ptr \in Ptr /\ heap \in [Ptr -> Seq(Byte) \cup {FREE}]
    BY Writing
  <2> QED
    BY <2>1, PtrAssumption DEF Inv
<1>2. new \in Entry
  BY <1>1 DEF Entry
<1>3. buffer' \in aesd_circular_buffer(Entry)
  BY <1>2, AddEntryType
<1>4. /\ buffer.in_offs \in Slots
      /\ buffer.entry \in [Slots -> Entry \cup {NullEntry}]
      /\ buffer'.entry = [buffer.entry EXCEPT ![buffer.in_offs] = new]
  BY AddEntryFields
<1>5. \A i \in Slots : buffer.entry[i].buffptr \in Ptr \cup {NULL}
  BY <1>4 DEF Entry, NullEntry
<1>6. old \in Ptr \cup {NULL} /\ old # tmp.ptr
  BY <1>1, <1>4, <1>5 DEF ReplacedPtr, EntriesOwnTheirBlocks
<1> HIDE DEF new
<1>7. old = buffer.entry[buffer.in_offs].buffptr /\ new.buffptr = tmp.ptr /\ new.size = size
  BY DEF ReplacedPtr, new
<1> HIDE DEF old
<1>8. heap' = IF old = NULL THEN [heap EXCEPT ![tmp.ptr] = block]
              ELSE [[heap EXCEPT ![tmp.ptr] = block] EXCEPT ![old] = FREE]
  BY DEF kfree, old
<1>9. heap' \in [Ptr -> Seq(Byte) \cup {FREE}]
  BY <1>1, <1>6, <1>8
<1>10. heap'[tmp.ptr] = block /\ block # FREE
  BY <1>1, <1>6, <1>8, FreeAssumption
<1>11. ASSUME NEW q \in Ptr, q # tmp.ptr, q # old
       PROVE  heap'[q] = heap[q]
  BY <1>1, <1>6, <1>8, <1>11
<1>12. tmp'.ptr = NULL
  BY DEF AfterAdd
<1>13. ASSUME NEW i \in Slots, buffer'.entry[i].buffptr # NULL
       PROVE  /\ BlockHolds(buffer.entry[i].buffptr, buffer.entry[i].size)'
              /\ buffer'.entry[i].buffptr # tmp'.ptr
  <2>1. CASE i = buffer.in_offs
    <3>1. buffer'.entry[i].buffptr = tmp.ptr /\ buffer'.entry[i].size = size
      BY <1>4, <1>7, <2>1
    <3> QED
      BY <1>1, <1>10, <1>12, <3>1 DEF BlockHolds
  <2>2. CASE i # buffer.in_offs
    <3>1. buffer'.entry[i] = buffer.entry[i]
      BY <1>4, <2>2
    <3> DEFINE q == buffer.entry[i].buffptr
    <3>2. q # NULL /\ q \in Ptr
      BY <1>5, <1>13, <3>1
    <3>3. BlockHolds(q, buffer.entry[i].size) /\ q # tmp.ptr /\ q # old
      BY <1>1, <1>4, <1>7, <2>2, <3>2 DEF EntriesOwnTheirBlocks
    <3>4. heap'[q] = heap[q]
      BY <1>11, <3>2, <3>3
    <3> QED
      BY <1>12, <1>13, <3>1, <3>3, <3>4 DEF BlockHolds
  <2> QED
    BY <2>1, <2>2
<1>14. ASSUME NEW i \in Slots, NEW j \in Slots \ {i},
              buffer'.entry[i].buffptr = buffer'.entry[j].buffptr
       PROVE  buffer'.entry[i].buffptr = NULL
  <2>1. \A k \in Slots : buffer.entry[k].buffptr # tmp.ptr
    BY <1>1 DEF EntriesOwnTheirBlocks
  <2>2. \A k \in Slots : buffer'.entry[k].buffptr = IF k = buffer.in_offs THEN tmp.ptr
                                                    ELSE buffer.entry[k].buffptr
    BY <1>4, <1>7
  <2>3. i # buffer.in_offs /\ j # buffer.in_offs
    BY <1>14, <2>1, <2>2
  <2> QED
    BY <1>1, <1>14, <2>2, <2>3 DEF EntriesOwnTheirBlocks
<1> QED
  BY <1>3, <1>9, <1>13, <1>14 DEF EntriesOwnTheirBlocks

LEMMA WriteCommitInv ==
  ASSUME Inv, NEW p \in Proc, WriteCommit(p)
  PROVE  Inv'
<1> DEFINE count == Len(call[p].data)
           size  == tmp.size + count
           block == [heap[tmp.ptr] EXCEPT ![size + 1] = NUL]
           stored == [heap EXCEPT ![tmp.ptr] = block]
<1>1. /\ pc[p] = "commit" /\ InCriticalSection(p)
      /\ UNCHANGED <<module, lock, opened, call, found>>
      /\ pc' = [pc EXCEPT ![p] = "unlock"] /\ DOMAIN reply' = DOMAIN reply
      /\ f_pos' = [f_pos EXCEPT ![p] = @ + count]
  BY DEF WriteCommit, InCriticalSection, Finish, Goto
<1>2. ControlInv /\ BlockInv /\ EntriesOwnTheirBlocks
  BY DEF Inv
<1>3. /\ tmp.ptr \in Ptr /\ tmp.size \in Nat /\ count \in Nat
      /\ heap \in [Ptr -> Seq(Byte) \cup {FREE}]
      /\ heap[tmp.ptr] \in Seq(Byte)
      /\ Len(heap[tmp.ptr]) >= size + 1
  BY <1>1, Writing
<1>4. buffer \in aesd_circular_buffer(Entry) /\ buffer # NULL /\ Fits("unlock", call[p])
  <2>1. module = "live" /\ buffer \in aesd_circular_buffer(Entry) /\ Fits(pc[p], call[p])
    BY <1>1, <1>2, InCall
  <2> QED
    BY <1>1, <1>2, <2>1 DEF ControlInv, ModuleInv, Fits
<1>5. size \in Nat /\ size < Len(heap[tmp.ptr])
  BY <1>3
<1>6. block \in Seq(Byte) /\ Len(block) = Len(heap[tmp.ptr]) /\ block[size + 1] = NUL
  <2> HIDE DEF size
  <2> QED
    BY <1>3, <1>5, TerminatedType
<1>7. f_pos' \in [Proc -> Nat]
  BY <1>1, <1>2, <1>3 DEF ControlInv, TypeOK
<1>8. \/ /\ buffer' = aesd_circular_buffer_add_entry(buffer, [buffptr |-> tmp.ptr, size |-> size])
         /\ heap' = kfree(stored, ReplacedPtr(buffer))
         /\ tmp' = AfterAdd
      \/ /\ heap' = stored
         /\ tmp' = [tmp EXCEPT !.size = size]
         /\ buffer' = buffer
  BY DEF WriteCommit
<1>9. tmp \in [ptr : Ptr \cup {NULL}, size : Nat]
  BY <1>2 DEF ControlInv, TypeOK
<1> HIDE DEF size, block, count
<1>10. /\ buffer' \in aesd_circular_buffer(Entry)
       /\ heap' \in [Ptr -> Seq(Byte) \cup {FREE}]
       /\ tmp' \in [ptr : Ptr \cup {NULL}, size : Nat]
       /\ tmp'.ptr # NULL => heap'[tmp'.ptr] # FREE
       /\ EntriesOwnTheirBlocks'
  <2>1. CASE /\ buffer' = aesd_circular_buffer_add_entry(buffer, [buffptr |-> tmp.ptr, size |-> size])
             /\ heap' = kfree(stored, ReplacedPtr(buffer))
             /\ tmp' = AfterAdd
    <3>1. size < Len(block)
      BY <1>5, <1>6
    <3>2. /\ buffer' \in aesd_circular_buffer(Entry)
          /\ heap' \in [Ptr -> Seq(Byte) \cup {FREE}]
          /\ EntriesOwnTheirBlocks'
      BY <1>1, <1>4, <1>5, <1>6, <2>1, <3>1, AddOwnBlock
    <3> QED
      BY <2>1, <3>2 DEF AfterAdd
  <2>2. CASE heap' = stored /\ tmp' = [tmp EXCEPT !.size = size] /\ buffer' = buffer
    <3>1. tmp'.ptr = tmp.ptr /\ tmp' \in [ptr : Ptr \cup {NULL}, size : Nat]
      BY <1>5, <1>9, <2>2
    <3>2. /\ heap' \in [Ptr -> Seq(Byte) \cup {FREE}]
          /\ heap'[tmp'.ptr] # FREE
          /\ EntriesOwnTheirBlocks'
      BY <1>1, <1>4, <1>6, <2>2, <3>1, StoreInBlock
    <3> QED
      BY <1>4, <2>2, <3>1, <3>2
  <2> QED
    BY <1>8, <2>1, <2>2
<1>11. buffer' # NULL
  BY <1>10, NullAssumption
<1>12. pc' \in [Proc -> Labels] /\ LockDiscipline' /\ ModuleInv' /\ CallInv'
  BY <1>1, <1>2, <1>4, <1>11, MoveControl DEF Labels, Critical
<1>13. FoundInv'
  BY <1>1, <1>2, MoveFound DEF Labels, Critical
<1>14. TypeOK'
  BY <1>1, <1>2, <1>7, <1>10, <1>12 DEF ControlInv, TypeOK, Labels, Critical
<1>15. BlockInv'
  <2>1. InCriticalSection(p)' /\ pc'[p] = "unlock"
    BY <1>1, <1>2 DEF ControlInv, TypeOK, InCriticalSection
  <2> QED
    BY <1>10, <1>12, <2>1, BlockOfHolder
<1> QED
  BY <1>10, <1>12, <1>13, <1>14, <1>15 DEF Inv, ControlInv
-----------------------------------------------------------------------------
(***************************************************************************)
(* The steps that leave memory alone.                                      *)
(***************************************************************************)

\* Nobody becomes a writer with a block, and no block changes.
LEMMA MemoryKept ==
  ASSUME Inv, NEW p \in Proc, NEW l \in Labels \ {"copy_from_user", "commit"},
         pc' = [pc EXCEPT ![p] = l], UNCHANGED <<buffer, tmp, heap>>,
         \A q \in Proc \ {p} : call'[q] = call[q]
  PROVE  BlockInv' /\ EntriesOwnTheirBlocks'
<1>1. \A q \in Proc : pc'[q] = IF q = p THEN l ELSE pc[q]
  BY DEF Inv, ControlInv, TypeOK
<1>2. BlockInv'
  BY <1>1 DEF Inv, BlockInv
<1>3. EntriesOwnTheirBlocks'
  BY DEF Inv, EntriesOwnTheirBlocks, BlockHolds
<1> QED
  BY <1>2, <1>3

\* A process moves on, inside or outside the critical section, and at most
\* its file offset and its reply change.
LEMMA QuietStep ==
  ASSUME Inv, NEW p \in Proc,
         NEW l \in Labels \ {"user", "copy_to_user", "copy_from_user", "commit"},
         pc[p] # "user", pc' = [pc EXCEPT ![p] = l],
         UNCHANGED <<module, buffer, tmp, lock, heap, opened, call, found>>,
         f_pos' \in [Proc -> Nat], DOMAIN reply' = DOMAIN reply,
         l \in Critical <=> InCriticalSection(p), Fits(l, call[p])
  PROVE  Inv'
<1>1. ControlInv
  BY DEF Inv
<1>2. pc' \in [Proc -> Labels] /\ LockDiscipline' /\ ModuleInv' /\ CallInv'
  BY <1>1, MoveControl
<1>3. FoundInv'
  BY <1>1, MoveFound
<1>4. TypeOK'
  BY <1>1, <1>2 DEF ControlInv, TypeOK, Labels, Critical
<1>5. BlockInv' /\ EntriesOwnTheirBlocks'
  BY MemoryKept
<1> QED
  BY <1>2, <1>3, <1>4, <1>5 DEF Inv, ControlInv

LEMMA ReadInv ==
  ASSUME Inv, NEW p \in Proc, ReadFind(p) \/ ReadCopy(p)
  PROVE  Inv'
<1>1. ControlInv'
  BY ReadFindControl, ReadCopyControl DEF Inv
<1>2. PICK l \in Labels \ {"copy_from_user", "commit"} : pc' = [pc EXCEPT ![p] = l]
  BY DEF ReadFind, ReadCopy, Finish, Goto, Labels, Critical
<1>3. UNCHANGED <<buffer, tmp, heap, call>>
  BY DEF ReadFind, ReadCopy, devVars
<1>4. BlockInv' /\ EntriesOwnTheirBlocks'
  BY <1>2, <1>3, MemoryKept
<1> QED
  BY <1>1, <1>4 DEF Inv

LEMMA SeekInv ==
  ASSUME Inv, NEW p \in Proc, aesd_llseek(p) \/ aesd_adjust_file_offset(p)
  PROVE  Inv'
<1>1. /\ pc[p] \in {"seek", "adjust"} /\ InCriticalSection(p)
      /\ pc' = [pc EXCEPT ![p] = "unlock"] /\ DOMAIN reply' = DOMAIN reply
      /\ UNCHANGED <<module, buffer, tmp, lock, heap, opened, call, found>>
  BY DEF aesd_llseek, aesd_adjust_file_offset, Finish, Goto, devVars, InCriticalSection
<1>2. ControlInv /\ f_pos \in [Proc -> Nat]
  BY DEF Inv, ControlInv, TypeOK
<1>3. f_pos' \in [Proc -> Nat]
  <2>1. CASE aesd_llseek(p)
    <3>1. call[p].off \in Int
      BY <1>2, <2>1, InCall, RequestFields DEF aesd_llseek, Fits
    <3>2. fixed_size_llseek(f_pos[p], call[p].off, call[p].whence, get_buffer_size(buffer)).pos \in Nat
      BY <1>2, <3>1, LlseekType
    <3> QED
      BY <1>2, <2>1, <3>2 DEF aesd_llseek
  <2>2. CASE aesd_adjust_file_offset(p)
    <3> DEFINE target == BytesBefore(call[p].write_cmd) + call[p].write_cmd_offset
    <3>1. f_pos' = f_pos \/
          f_pos' = [f_pos EXCEPT ![p] = fixed_size_llseek(f_pos[p], target, "SEEK_SET",
                                                          get_buffer_size(buffer)).pos]
      BY <2>2 DEF aesd_adjust_file_offset
    <3> HIDE DEF target
    <3>2. fixed_size_llseek(f_pos[p], target, "SEEK_SET", get_buffer_size(buffer)).pos \in Nat
      BY <1>2, LlseekType
    <3> QED
      BY <1>2, <3>1, <3>2
  <2> QED
    BY <2>1, <2>2
<1> QED
  BY <1>1, <1>3, QuietStep DEF Labels, Critical, Fits

\* The tests before the lock: only a slot number gets to the lock.
LEMMA IoctlInv ==
  ASSUME Inv, NEW p \in Proc, aesd_ioctl(p)
  PROVE  Inv'
<1>1. /\ pc[p] = "ioctl" /\ ~InCriticalSection(p) /\ DOMAIN reply' = DOMAIN reply
      /\ UNCHANGED <<module, buffer, tmp, lock, heap, opened, f_pos, call, found>>
  BY DEF aesd_ioctl, Finish, Goto, devVars, InCriticalSection
<1>2. f_pos' \in [Proc -> Nat] /\ call[p].op = "ioctl"
  BY <1>1, InCall DEF Inv, ControlInv, TypeOK, Fits
<1>3. \/ pc' = [pc EXCEPT ![p] = "return"]
      \/ /\ pc' = [pc EXCEPT ![p] = "lock"]
         /\ call[p].cmd = "AESDCHAR_IOCSEEKTO" /\ call[p].write_cmd < MAX_WRITE_OPERATIONS
  BY DEF aesd_ioctl, Finish, Goto
<1> QED
  BY <1>1, <1>2, <1>3, QuietStep DEF Labels, Critical, Fits

LEMMA InterruptedInv ==
  ASSUME Inv, NEW p \in Proc, Interrupted(p)
  PROVE  Inv'
<1>1. /\ pc[p] = "lock" /\ ~InCriticalSection(p) /\ DOMAIN reply' = DOMAIN reply
      /\ pc' = [pc EXCEPT ![p] = "return"]
      /\ UNCHANGED <<module, buffer, tmp, lock, heap, opened, f_pos, call, found>>
  BY DEF Interrupted, Finish, Goto, devVars, InCriticalSection
<1>2. f_pos' \in [Proc -> Nat]
  BY <1>1 DEF Inv, ControlInv, TypeOK
<1> QED
  BY <1>1, <1>2, QuietStep DEF Labels, Critical, Fits

-----------------------------------------------------------------------------
(***************************************************************************)
(* Into and out of the critical section.                                   *)
(***************************************************************************)

LEMMA LockInv ==
  ASSUME Inv, NEW p \in Proc, Lock(p)
  PROVE  Inv'
<1> DEFINE l == Body[call[p].op]
<1>1. /\ pc[p] = "lock" /\ lock = NoOne /\ lock' = p /\ pc' = [pc EXCEPT ![p] = l]
      /\ UNCHANGED <<module, buffer, tmp, heap, opened, f_pos, call, found, reply>>
  BY DEF Lock, Goto
<1>2. ControlInv /\ pc \in [Proc -> Labels]
  BY DEF Inv, ControlInv, TypeOK, Labels, Critical
<1>3. call[p] \in Request /\ Fits("lock", call[p]) /\ p \in opened
  BY <1>1, <1>2, InCall
<1>4. l \in {"find", "alloc", "seek", "adjust"} /\ Fits(l, call[p])
  BY <1>3, RequestFields DEF Body, Fits
<1> HIDE DEF l
<1>5. \A q \in Proc : pc'[q] = IF q = p THEN l ELSE pc[q]
  BY <1>1, <1>2
<1>6. LockDiscipline'
  BY <1>1, <1>2, <1>4, <1>5, ProcAssumption DEF ControlInv, LockDiscipline, InCriticalSection
<1>7. ModuleInv' /\ CallInv'
  BY <1>1, <1>2, <1>3, <1>4, <1>5 DEF ControlInv, ModuleInv, CallInv
<1>8. FoundInv'
  BY <1>1, <1>2, <1>4, MoveFound DEF Labels, Critical
<1>9. TypeOK'
  BY <1>1, <1>2, <1>4 DEF ControlInv, TypeOK
<1>10. BlockInv' /\ EntriesOwnTheirBlocks'
  BY <1>1, <1>4, MemoryKept DEF Labels, Critical
<1> QED
  BY <1>6, <1>7, <1>8, <1>9, <1>10 DEF Inv, ControlInv

LEMMA UnlockInv ==
  ASSUME Inv, NEW p \in Proc, Unlock(p)
  PROVE  Inv'
<1>1. /\ pc[p] = "unlock" /\ lock' = NoOne /\ pc' = [pc EXCEPT ![p] = "return"]
      /\ found' = [found EXCEPT ![p] = NotFound]
      /\ UNCHANGED <<module, buffer, tmp, heap, opened, f_pos, call, reply>>
  BY DEF Unlock, Goto
<1>2. ControlInv /\ pc \in [Proc -> Labels]
  BY DEF Inv, ControlInv, TypeOK, Labels, Critical
<1>3. \A q \in Proc : pc'[q] = IF q = p THEN "return" ELSE pc[q]
  BY <1>1, <1>2
<1>4. \A q \in Proc \ {p} : ~InCriticalSection(q) /\ found'[q] = found[q]
  BY <1>1, <1>2, Exclusive DEF ControlInv, TypeOK, InCriticalSection
<1>5. LockDiscipline'
  BY <1>1, <1>3, <1>4, ProcAssumption DEF LockDiscipline, InCriticalSection
<1>6. ModuleInv' /\ CallInv'
  BY <1>1, <1>2, <1>3 DEF ControlInv, ModuleInv, CallInv, Fits
<1>7. FoundInv'
  BY <1>1, <1>2, <1>4, MoveFound DEF Labels, Critical
<1>8. TypeOK'
  BY <1>1, <1>2 DEF ControlInv, TypeOK
<1>9. BlockInv' /\ EntriesOwnTheirBlocks'
  BY <1>1, MemoryKept DEF Labels, Critical
<1> QED
  BY <1>5, <1>6, <1>7, <1>8, <1>9 DEF Inv, ControlInv

-----------------------------------------------------------------------------
(***************************************************************************)
(* Calls, files and the module.                                            *)
(***************************************************************************)

LEMMA InvokeInv ==
  ASSUME Inv, NEW p \in Proc, NEW r \in Request, Invoke(p, r)
  PROVE  Inv'
<1> DEFINE l == IF r.op = "ioctl" THEN "ioctl" ELSE "lock"
<1>1. /\ pc[p] = "user" /\ p \in opened
      /\ call' = [call EXCEPT ![p] = r] /\ pc' = [pc EXCEPT ![p] = l]
      /\ UNCHANGED <<module, buffer, tmp, lock, heap, opened, f_pos, found, reply>>
  BY DEF Invoke, devVars
<1>2. ControlInv /\ pc \in [Proc -> Labels] /\ call \in [Proc -> Request \cup {Idle}]
  BY DEF Inv, ControlInv, TypeOK, Labels, Critical
<1>3. l \in {"ioctl", "lock"} /\ Fits(l, r)
  BY DEF Fits
<1> HIDE DEF l
<1>4. \A q \in Proc : /\ pc'[q] = IF q = p THEN l ELSE pc[q]
                      /\ call'[q] = IF q = p THEN r ELSE call[q]
  BY <1>1, <1>2
<1>5. LockDiscipline'
  BY <1>1, <1>2, <1>3, <1>4 DEF ControlInv, LockDiscipline, InCriticalSection
<1>6. ModuleInv' /\ CallInv'
  BY <1>1, <1>2, <1>3, <1>4 DEF ControlInv, ModuleInv, CallInv
<1>7. FoundInv'
  BY <1>1, <1>2, <1>3, MoveFound DEF Labels, Critical
<1>8. TypeOK'
  BY <1>1, <1>2, <1>3 DEF ControlInv, TypeOK
<1>9. BlockInv' /\ EntriesOwnTheirBlocks'
  BY <1>1, <1>3, <1>4, MemoryKept DEF Labels, Critical
<1> QED
  BY <1>5, <1>6, <1>7, <1>8, <1>9 DEF Inv, ControlInv

LEMMA ReturnInv ==
  ASSUME Inv, NEW p \in Proc, Return(p)
  PROVE  Inv'
<1>1. /\ pc[p] = "return" /\ DOMAIN reply' = DOMAIN reply
      /\ call' = [call EXCEPT ![p] = Idle] /\ pc' = [pc EXCEPT ![p] = "user"]
      /\ UNCHANGED <<module, buffer, tmp, lock, heap, opened, f_pos, found>>
  BY DEF Return, Goto, devVars
<1>2. ControlInv /\ pc \in [Proc -> Labels] /\ call \in [Proc -> Request \cup {Idle}]
  BY DEF Inv, ControlInv, TypeOK, Labels, Critical
<1>3. \A q \in Proc : /\ pc'[q] = IF q = p THEN "user" ELSE pc[q]
                      /\ call'[q] = IF q = p THEN Idle ELSE call[q]
  BY <1>1, <1>2
<1>4. LockDiscipline'
  BY <1>1, <1>2, <1>3 DEF ControlInv, LockDiscipline, InCriticalSection
<1>5. ModuleInv' /\ CallInv'
  BY <1>1, <1>2, <1>3 DEF ControlInv, ModuleInv, CallInv
<1>6. FoundInv'
  BY <1>1, <1>2, MoveFound DEF Labels, Critical
<1>7. TypeOK'
  BY <1>1, <1>2 DEF ControlInv, TypeOK
<1>8. BlockInv' /\ EntriesOwnTheirBlocks'
  BY <1>1, <1>3, MemoryKept DEF Labels, Critical
<1> QED
  BY <1>4, <1>5, <1>6, <1>7, <1>8 DEF Inv, ControlInv

\* Files are opened and closed between calls.
LEMMA OpenInv ==
  ASSUME Inv, NEW p \in Proc, aesd_open(p) \/ aesd_release(p)
  PROVE  Inv'
<1>1. /\ UNCHANGED <<module, buffer, tmp, lock, heap, pc, call, found, reply>>
      /\ opened' \subseteq Proc /\ f_pos' \in [Proc -> Nat]
      /\ module # "live" => opened' = {}
      /\ \A q \in Proc : pc[q] # "user" /\ q \in opened => q \in opened'
  <2>1. opened \subseteq Proc /\ f_pos \in [Proc -> Nat] /\ ModuleInv
    BY DEF Inv, ControlInv, TypeOK
  <2>2. CASE aesd_open(p)
    BY <2>1, <2>2 DEF aesd_open, devVars
  <2>3. CASE aesd_release(p)
    BY <2>1, <2>3 DEF aesd_release, devVars, ModuleInv
  <2> QED
    BY <2>2, <2>3
<1>2. TypeOK' /\ ModuleInv' /\ CallInv'
  BY <1>1 DEF Inv, ControlInv, TypeOK, ModuleInv, CallInv
<1>3. LockDiscipline' /\ FoundInv'
  BY <1>1 DEF Inv, ControlInv, LockDiscipline, InCriticalSection, FoundInv
<1>4. BlockInv' /\ EntriesOwnTheirBlocks'
  BY <1>1 DEF Inv, BlockInv, EntriesOwnTheirBlocks, BlockHolds
<1> QED
  BY <1>2, <1>3, <1>4 DEF Inv, ControlInv

\* Loading and unloading happen while no file is open, hence while no call is
\* under way.
LEMMA ModuleStepInv ==
  ASSUME Inv, InitRegion \/ InitBuffer \/ InitCdev \/ aesd_cleanup_module
  PROVE  Inv'
<1>1. opened = {} /\ UNCHANGED <<opened, f_pos, pc, call, found, reply>>
  BY DEF InitRegion, InitBuffer, InitCdev, aesd_cleanup_module, procVars, Inv, ControlInv, ModuleInv
<1>2. \A p \in Proc : pc[p] = "user"
  BY <1>1 DEF Inv, ControlInv, CallInv
<1>3. lock' \notin Proc /\ lock' \in Proc \cup {NoOne}
  <2>1. lock \notin Proc /\ lock \in Proc \cup {NoOne}
    BY <1>2 DEF Inv, ControlInv, LockDiscipline, InCriticalSection, TypeOK
  <2> QED
    BY <2>1, ProcAssumption DEF InitRegion, InitBuffer, InitCdev, aesd_cleanup_module
<1>4. LockDiscipline' /\ CallInv' /\ FoundInv'
  BY <1>1, <1>2, <1>3 DEF LockDiscipline, InCriticalSection, CallInv, FoundInv
<1>5. /\ module' \in {"unloaded", "region", "buffer", "live"} /\ ModuleInv'
      /\ buffer' \in aesd_circular_buffer(Entry) \cup {NULL}
      /\ buffer' \in {buffer, NULL, aesd_circular_buffer_init}
  <2>1. aesd_circular_buffer_init \in aesd_circular_buffer(Entry)
    BY InitDisciplined
  <2>2. aesd_circular_buffer_init # NULL
    BY <2>1, NullAssumption
  <2>3. /\ module \in {"unloaded", "region", "buffer", "live"} /\ ModuleInv
        /\ buffer \in aesd_circular_buffer(Entry) \cup {NULL}
    BY DEF Inv, ControlInv, TypeOK
  <2> QED
    BY <1>1, <2>1, <2>2, <2>3
    DEF InitRegion, InitBuffer, InitCdev, aesd_cleanup_module, ModuleInv
<1>6. /\ tmp' \in [ptr : Ptr \cup {NULL}, size : Nat]
      /\ heap' \in [Ptr -> Seq(Byte) \cup {FREE}]
  <2>1. tmp \in [ptr : Ptr \cup {NULL}, size : Nat] /\ heap \in [Ptr -> Seq(Byte) \cup {FREE}]
    BY DEF Inv, ControlInv, TypeOK
  <2>2. CASE aesd_cleanup_module
    BY <2>1, <2>2 DEF aesd_cleanup_module
  <2> QED
    BY <2>1, <2>2 DEF InitRegion, InitBuffer, InitCdev
<1>7. TypeOK'
  BY <1>1, <1>3, <1>5, <1>6 DEF Inv, ControlInv, TypeOK
<1>8. \/ UNCHANGED <<tmp, heap>> /\ buffer' \in {buffer, NULL}
      \/ tmp'.ptr = NULL /\ buffer' \in {NULL, aesd_circular_buffer_init}
  BY DEF InitRegion, InitBuffer, InitCdev, aesd_cleanup_module
<1>9. BlockInv'
  BY <1>1, <1>2, <1>8 DEF Inv, BlockInv
<1>10. EntriesOwnTheirBlocks'
  <2>1. CASE buffer' = NULL
    BY <2>1 DEF EntriesOwnTheirBlocks
  <2>2. CASE buffer' = aesd_circular_buffer_init
    BY <2>2 DEF EntriesOwnTheirBlocks, aesd_circular_buffer_init, NullEntry
  <2>3. CASE UNCHANGED <<buffer, tmp, heap>>
    BY <2>3 DEF Inv, EntriesOwnTheirBlocks, BlockHolds
  <2> QED
    BY <1>8, <2>1, <2>2, <2>3
<1> QED
  BY <1>4, <1>5, <1>7, <1>9, <1>10 DEF Inv, ControlInv

-----------------------------------------------------------------------------
(***************************************************************************)
(* The invariant and what follows from it.                                 *)
(***************************************************************************)

LEMMA InitInv == Init => Inv
<1> SUFFICES ASSUME Init PROVE Inv
  OBVIOUS
<1>1. ControlInv
  BY InitControl
<1>2. BlockInv /\ EntriesOwnTheirBlocks
  BY DEF Init, BlockInv, EntriesOwnTheirBlocks
<1> QED
  BY <1>1, <1>2 DEF Inv

LEMMA NextInv == Inv /\ [Next]_vars => Inv'
<1> SUFFICES ASSUME Inv, [Next]_vars PROVE Inv'
  OBVIOUS
<1>1. CASE InitRegion \/ InitBuffer \/ InitCdev \/ aesd_cleanup_module
  BY <1>1, ModuleStepInv
<1>2. ASSUME NEW p \in Proc, aesd_open(p) \/ aesd_release(p)
      PROVE  Inv'
  BY <1>2, OpenInv
<1>3. ASSUME NEW p \in Proc, NEW r \in Request, Invoke(p, r)
      PROVE  Inv'
  BY <1>3, InvokeInv
<1>4. ASSUME NEW p \in Proc, Lock(p) \/ Interrupted(p)
      PROVE  Inv'
  BY <1>4, LockInv, InterruptedInv
<1>5. ASSUME NEW p \in Proc, Step(p)
      PROVE  Inv'
  BY <1>5, ReadInv, WriteAllocInv, WriteCopyInv, WriteCommitInv, SeekInv, IoctlInv,
     UnlockInv, ReturnInv DEF Step
<1>6. CASE UNCHANGED vars
  <2>1. UNCHANGED <<module, buffer, tmp, lock, heap, opened, f_pos, pc, call, found, reply>>
    BY <1>6 DEF vars, devVars, procVars
  <2>2. TypeOK' /\ ModuleInv' /\ CallInv'
    BY <2>1 DEF Inv, ControlInv, TypeOK, ModuleInv, CallInv
  <2>3. LockDiscipline' /\ FoundInv'
    BY <2>1 DEF Inv, ControlInv, LockDiscipline, InCriticalSection, FoundInv
  <2>4. BlockInv' /\ EntriesOwnTheirBlocks'
    BY <2>1 DEF Inv, BlockInv, EntriesOwnTheirBlocks, BlockHolds
  <2> QED
    BY <2>2, <2>3, <2>4 DEF Inv, ControlInv
<1> QED
  BY <1>1, <1>2, <1>3, <1>4, <1>5, <1>6 DEF Next

\* The inductive invariant of the driver.
LEMMA InvHolds == Spec => []Inv
  BY InitInv, NextInv, PTL DEF Spec

\* The accesses of a writer are in its block, those of a reader in the block
\* of the entry it has found.
LEMMA InvBounds == Inv => AccessesInBounds
<1> SUFFICES ASSUME Inv, NEW p \in Proc
             PROVE  /\ pc[p] \in {"copy_from_user", "commit"} =>
                         /\ tmp.ptr \in Ptr /\ heap[tmp.ptr] # FREE
                         /\ Len(heap[tmp.ptr]) >= tmp.size + Len(call[p].data) + 1
                    /\ pc[p] = "copy_to_user" =>
                         /\ buffer.entry[found[p].slot].buffptr \in Ptr
                         /\ heap[buffer.entry[found[p].slot].buffptr] # FREE
                         /\ found[p].offset + Trimmed(p) <= buffer.entry[found[p].slot].size
                         /\ buffer.entry[found[p].slot].size
                              < Len(heap[buffer.entry[found[p].slot].buffptr])
  BY DEF AccessesInBounds
<1>1. CASE pc[p] \in {"copy_from_user", "commit"}
  <2>1. tmp.ptr \in Ptr /\ Len(heap[tmp.ptr]) >= tmp.size + Len(call[p].data) + 1
    BY <1>1, Writing
  <2>2. heap[tmp.ptr] # FREE
    BY <2>1, PtrAssumption DEF Inv, BlockInv
  <2> QED
    BY <1>1, <2>1, <2>2
<1>2. CASE pc[p] = "copy_to_user"
  <2>1. /\ found[p].slot \in Slots
        /\ found[p].offset + Trimmed(p) <= buffer.entry[found[p].slot].size
        /\ buffer.entry[found[p].slot] \in Entry
    BY <1>2, TrimmedBounds DEF Inv
  <2>2. PICK e : e = buffer.entry[found[p].slot]
    OBVIOUS
  <2>3. e.buffptr \in Ptr /\ e.buffptr # NULL /\ e.size \in Nat
    BY <2>1, <2>2, PtrAssumption DEF Entry
  <2>4. buffer # NULL
    <3>1. module = "live"
      BY <1>2, InCall DEF Inv
    <3> QED
      BY <3>1 DEF Inv, ControlInv, ModuleInv
  <2>5. BlockHolds(e.buffptr, e.size)
    BY <2>1, <2>2, <2>3, <2>4 DEF Inv, EntriesOwnTheirBlocks
  <2>6. heap[e.buffptr] \in Seq(Byte)
    BY <2>3, <2>5 DEF BlockHolds, Inv, ControlInv, TypeOK
  <2> QED
    BY <1>2, <2>1, <2>2, <2>3, <2>5, <2>6 DEF BlockHolds
<1> QED
  BY <1>1, <1>2

(***************************************************************************)
(* For every number of processes and slots, and whatever fails: the state  *)
(* of the driver has its type, and dev->lock is held exactly between the   *)
(* lock and the unlock of a handler, on every path out of it.              *)
(***************************************************************************)
THEOREM LockSafety == Spec => [](TypeOK /\ LockDiscipline)
<1>1. Inv => TypeOK /\ LockDiscipline
  BY DEF Inv, ControlInv
<1> QED
  BY <1>1, InvHolds, PTL

(***************************************************************************)
(* For every number of processes, slots and blocks, and whatever fails:    *)
(* every entry of the buffer has an allocated block of its own with a NUL  *)
(* behind its bytes, so that the kfree of a replaced entry and those of    *)
(* aesd_cleanup_module never hit a block twice or one that is still used.  *)
(***************************************************************************)
THEOREM OwnershipSafety == Spec => []EntriesOwnTheirBlocks
<1>1. Inv => EntriesOwnTheirBlocks
  BY DEF Inv
<1> QED
  BY <1>1, InvHolds, PTL

(***************************************************************************)
(* Likewise, no copy from or to user space leaves the block it is made     *)
(* for.                                                                    *)
(***************************************************************************)
THEOREM BoundsSafety == Spec => []AccessesInBounds
  BY InvBounds, InvHolds, PTL

(***************************************************************************)
(* The state of the driver and of its callers has its type.                *)
(***************************************************************************)
THEOREM TypeSafety == Spec => []TypeOK
  BY LockSafety, PTL

-----------------------------------------------------------------------------
(***************************************************************************)
(* What the steps do to memory.  Every step but the three of aesd_write    *)
(* and those of the module leaves it alone, and the writers where they     *)
(* are.                                                                    *)
(***************************************************************************)

Writers == {"copy_from_user", "commit"}

QuietStepOf ==
  /\ UNCHANGED <<module, buffer, tmp, heap>>
  /\ \A q \in Proc : pc[q] \in Writers \/ pc'[q] \in Writers => pc'[q] = pc[q] /\ call'[q] = call[q]

ModuleStep == InitRegion \/ InitBuffer \/ InitCdev \/ aesd_cleanup_module

LEMMA MoveIsQuiet ==
  ASSUME Inv, NEW p \in Proc, NEW l, l \notin Writers, pc[p] \notin Writers, pc' = [pc EXCEPT ![p] = l],
         \A q \in Proc \ {p} : call'[q] = call[q], UNCHANGED <<module, buffer, tmp, heap>>
  PROVE  QuietStepOf
<1>1. \A q \in Proc : pc'[q] = IF q = p THEN l ELSE pc[q]
  BY DEF Inv, ControlInv, TypeOK
<1> QED
  BY <1>1 DEF QuietStepOf

LEMMA StepKinds ==
  ASSUME Inv, [Next]_vars
  PROVE  \/ QuietStepOf
         \/ ModuleStep
         \/ \E p \in Proc : WriteAlloc(p) \/ WriteCopy(p) \/ WriteCommit(p)
<1>1. CASE ModuleStep
  BY <1>1
<1>2. CASE \E p \in Proc : WriteAlloc(p) \/ WriteCopy(p) \/ WriteCommit(p)
  BY <1>2
<1>3. ASSUME NEW p \in Proc, aesd_open(p) \/ aesd_release(p)
      PROVE  QuietStepOf
  BY <1>3 DEF aesd_open, aesd_release, devVars, QuietStepOf
<1>4. ASSUME NEW p \in Proc, NEW r \in Request, Invoke(p, r)
      PROVE  QuietStepOf
  <2> DEFINE l == IF r.op = "ioctl" THEN "ioctl" ELSE "lock"
  <2>1. /\ pc[p] = "user" /\ pc' = [pc EXCEPT ![p] = l] /\ call' = [call EXCEPT ![p] = r]
        /\ UNCHANGED <<module, buffer, tmp, heap>>
    BY <1>4 DEF Invoke, devVars
  <2>2. l \notin Writers /\ pc[p] \notin Writers
    BY <2>1 DEF Writers
  <2>3. \A q \in Proc \ {p} : call'[q] = call[q]
    BY <2>1 DEF Inv, ControlInv, TypeOK
  <2> HIDE DEF l
  <2> QED
    BY <2>1, <2>2, <2>3, MoveIsQuiet
<1>5. ASSUME NEW p \in Proc, Lock(p)
      PROVE  QuietStepOf
  <2> DEFINE l == Body[call[p].op]
  <2>1. pc[p] = "lock" /\ pc' = [pc EXCEPT ![p] = l] /\ UNCHANGED <<module, buffer, tmp, heap, call>>
    BY <1>5 DEF Lock, Goto
  <2>2. l \notin Writers
    <3>1. call[p].op \in {"read", "write", "llseek", "ioctl"}
      BY <2>1, InCall, RequestFields DEF Inv
    <3> QED
      BY <3>1 DEF Body, Writers
  <2>3. pc[p] \notin Writers
    BY <2>1 DEF Writers
  <2> HIDE DEF l
  <2> QED
    BY <2>1, <2>2, <2>3, MoveIsQuiet
<1>6. ASSUME NEW p \in Proc,
             \/ Interrupted(p) \/ ReadFind(p) \/ ReadCopy(p) \/ aesd_llseek(p) \/ aesd_ioctl(p)
             \/ aesd_adjust_file_offset(p) \/ Unlock(p) \/ Return(p)
      PROVE  QuietStepOf
  <2>1. PICK l \in {"return", "unlock", "copy_to_user", "lock", "user"} :
          /\ pc' = [pc EXCEPT ![p] = l] /\ pc[p] \notin Writers
          /\ UNCHANGED <<module, buffer, tmp, heap>>
          /\ call' = call \/ call' = [call EXCEPT ![p] = Idle]
    BY <1>6 DEF Interrupted, ReadFind, ReadCopy, aesd_llseek, aesd_ioctl, aesd_adjust_file_offset,
                Unlock, Return, Finish, Goto, devVars, Writers
  <2>2. \A q \in Proc \ {p} : call'[q] = call[q]
    BY <2>1 DEF Inv, ControlInv, TypeOK
  <2>3. l \notin Writers
    BY DEF Writers
  <2> QED
    BY <2>1, <2>2, <2>3, MoveIsQuiet
<1>7. CASE UNCHANGED vars
  BY <1>7 DEF vars, devVars, procVars, QuietStepOf
<1> QED
  BY <1>1, <1>2, <1>3, <1>4, <1>5, <1>6, <1>7 DEF Next, Step, ModuleStep

\* A step of the module resets the buffer or leaves it; nobody is in a call.
LEMMA ModuleStepEffect ==
  ASSUME Inv, ModuleStep
  PROVE  /\ \A p \in Proc : pc[p] = "user" /\ pc'[p] = "user"
         /\ \/ UNCHANGED <<buffer, tmp, heap>>
            \/ /\ buffer' = NULL \/ \A i \in Slots : buffer'.entry[i] = NullEntry
               /\ (tmp' = tmp /\ heap' = heap) \/ tmp' = [ptr |-> NULL, size |-> 0]
<1>1. opened = {} /\ pc' = pc
  BY DEF ModuleStep, InitRegion, InitBuffer, InitCdev, aesd_cleanup_module, procVars, Inv, ControlInv, ModuleInv
<1>2. \A p \in Proc : pc[p] = "user"
  BY <1>1 DEF Inv, ControlInv, CallInv
<1>3. \A i \in Slots : aesd_circular_buffer_init.entry[i] = NullEntry
  BY DEF aesd_circular_buffer_init
<1> QED
  BY <1>1, <1>2, <1>3 DEF ModuleStep, InitRegion, InitBuffer, InitCdev, aesd_cleanup_module

\* What krealloc keeps: the bytes of the old block, in its place or another one.
LEMMA ReallocKeeps ==
  ASSUME TypeOK, tmp.ptr # NULL, heap[tmp.ptr] # FREE, NEW n \in Nat, NEW block \in krealloc(tmp.ptr, n)
  PROVE  /\ \A k \in 1 .. n : k <= Len(heap[tmp.ptr]) => block.heap[block.ptr][k] = heap[tmp.ptr][k]
         /\ block.ptr # tmp.ptr => block.heap[tmp.ptr] = FREE
<1>1. /\ heap \in [Ptr -> Seq(Byte) \cup {FREE}] /\ tmp.ptr \in Ptr
      /\ heap[tmp.ptr] \in Seq(Byte)
  BY DEF TypeOK
<1>2. \A k \in 1 .. n : k <= Len(heap[tmp.ptr]) => Resized(heap[tmp.ptr], n)[k] = heap[tmp.ptr][k]
  BY DEF Resized
<1>3. CASE block = [ptr |-> tmp.ptr, heap |-> [heap EXCEPT ![tmp.ptr] = Resized(@, n)]]
  <2>1. block.ptr = tmp.ptr /\ block.heap[block.ptr] = Resized(heap[tmp.ptr], n)
    BY <1>1, <1>3
  <2> QED
    BY <1>2, <2>1
<1>4. ASSUME NEW q \in FreeBlocks(heap),
             block = [ptr |-> q, heap |-> [kfree(heap, tmp.ptr) EXCEPT ![q] = Resized(heap[tmp.ptr], n)]]
      PROVE  /\ \A k \in 1 .. n : k <= Len(heap[tmp.ptr]) => block.heap[block.ptr][k] = heap[tmp.ptr][k]
             /\ block.heap[tmp.ptr] = FREE
  <2>1. q \in Ptr /\ q # tmp.ptr /\ kfree(heap, tmp.ptr) = [heap EXCEPT ![tmp.ptr] = FREE]
    BY DEF FreeBlocks, kfree
  <2>2. block.ptr = q /\ block.heap[q] = Resized(heap[tmp.ptr], n) /\ block.heap[tmp.ptr] = FREE
    BY <1>1, <1>4, <2>1
  <2> QED
    BY <1>2, <2>2
<1> QED
  BY <1>3, <1>4 DEF krealloc

\* The step that gets the block, or fails to.
LEMMA AllocEffect ==
  ASSUME Inv, NEW p \in Proc, WriteAlloc(p)
  PROVE  /\ pc[p] = "alloc" /\ UNCHANGED <<module, buffer, call>>
         /\ tmp'.size = tmp.size
         /\ \A q \in Proc \ {p} : pc'[q] = pc[q] /\ pc[q] \notin Writers
         /\ \/ /\ (IF tmp.size = 0 THEN "kzalloc" ELSE "krealloc") \in Faults
               /\ pc'[p] = "unlock" /\ tmp'.ptr = NULL /\ heap' = heap
            \/ /\ pc'[p] = "copy_from_user" /\ tmp'.ptr \in Ptr
               /\ heap'[tmp'.ptr] \in Seq(Byte)
               /\ Len(heap'[tmp'.ptr]) = tmp.size + Len(call[p].data) + 1
               /\ heap[tmp'.ptr] # FREE => tmp'.ptr = tmp.ptr
               /\ \A q \in Ptr \ {tmp'.ptr, tmp.ptr} : heap'[q] = heap[q]
               /\ tmp.ptr # NULL /\ tmp.size # 0 =>
                    /\ \A k \in 1 .. tmp.size : k <= Len(heap[tmp.ptr]) =>
                         heap'[tmp'.ptr][k] = heap[tmp.ptr][k]
                    /\ tmp'.ptr # tmp.ptr => heap'[tmp.ptr] = FREE
<1>1. TypeOK /\ ControlInv /\ LockDiscipline /\ (tmp.ptr # NULL => heap[tmp.ptr] # FREE)
  BY DEF Inv, ControlInv, BlockInv
<1>2. pc[p] = "alloc" /\ UNCHANGED <<module, buffer, call>>
  BY DEF WriteAlloc
<1>3. /\ tmp \in [ptr : Ptr \cup {NULL}, size : Nat] /\ Len(call[p].data) \in Nat
      /\ pc \in [Proc -> Labels]
  BY <1>1, <1>2, WriteData DEF TypeOK, Labels, Critical
<1>4. \A q \in Proc \ {p} : pc[q] \notin Writers
  BY <1>1, <1>2, Exclusive DEF InCriticalSection, Writers
<1>5. BlockSize(p) \in Nat /\ BlockSize(p) = tmp.size + Len(call[p].data) + 1
  BY <1>3 DEF BlockSize, DEBUG_BYTE
<1>6. CASE /\ (IF tmp.size = 0 THEN "kzalloc" ELSE "krealloc") \in Faults
           /\ tmp' = [tmp EXCEPT !.ptr = NULL]
           /\ Finish(p, "unlock", "ENOMEM", 0, <<>>)
           /\ UNCHANGED heap
  <2>1. pc' = [pc EXCEPT ![p] = "unlock"]
    BY <1>6 DEF Finish, Goto
  <2> QED
    BY <1>2, <1>3, <1>4, <1>6, <2>1
<1>7. ASSUME NEW block \in IF tmp.size = 0 THEN kzalloc(BlockSize(p)) ELSE krealloc(tmp.ptr, BlockSize(p)),
             tmp' = [tmp EXCEPT !.ptr = block.ptr], heap' = block.heap, Goto(p, "copy_from_user")
      PROVE  /\ tmp'.size = tmp.size
             /\ \A q \in Proc \ {p} : pc'[q] = pc[q]
             /\ pc'[p] = "copy_from_user" /\ tmp'.ptr \in Ptr
             /\ heap'[tmp'.ptr] \in Seq(Byte)
             /\ Len(heap'[tmp'.ptr]) = tmp.size + Len(call[p].data) + 1
             /\ heap[tmp'.ptr] # FREE => tmp'.ptr = tmp.ptr
             /\ \A q \in Ptr \ {tmp'.ptr, tmp.ptr} : heap'[q] = heap[q]
             /\ tmp.ptr # NULL /\ tmp.size # 0 =>
                  /\ \A k \in 1 .. tmp.size : k <= Len(heap[tmp.ptr]) =>
                       heap'[tmp'.ptr][k] = heap[tmp.ptr][k]
                  /\ tmp'.ptr # tmp.ptr => heap'[tmp.ptr] = FREE
  <2>1. tmp'.ptr = block.ptr /\ tmp'.size = tmp.size /\ pc' = [pc EXCEPT ![p] = "copy_from_user"]
    BY <1>3, <1>7 DEF Goto
  <2>2. block \in kzalloc(BlockSize(p)) \cup krealloc(tmp.ptr, BlockSize(p))
    BY <1>7
  <2>3. /\ block.ptr \in Ptr
        /\ block.heap[block.ptr] \in Seq(Byte) /\ Len(block.heap[block.ptr]) = BlockSize(p)
        /\ \A q \in Ptr \ {block.ptr, tmp.ptr} : block.heap[q] = heap[q]
        /\ heap[block.ptr] # FREE => block.ptr = tmp.ptr
    BY <1>1, <1>5, <2>2, BlockType
  <2>4. ASSUME tmp.ptr # NULL, tmp.size # 0
        PROVE  /\ \A k \in 1 .. BlockSize(p) : k <= Len(heap[tmp.ptr]) =>
                    block.heap[block.ptr][k] = heap[tmp.ptr][k]
               /\ block.ptr # tmp.ptr => block.heap[tmp.ptr] = FREE
    BY <1>1, <1>5, <1>7, <2>4, ReallocKeeps
  <2>5. \A k \in 1 .. tmp.size : k \in 1 .. BlockSize(p)
    BY <1>3, <1>5
  <2>6. pc'[p] = "copy_from_user" /\ \A q \in Proc \ {p} : pc'[q] = pc[q]
    BY <1>3, <2>1
  <2>7. tmp.ptr # NULL /\ tmp.size # 0 =>
          /\ \A k \in 1 .. tmp.size : k <= Len(heap[tmp.ptr]) =>
               heap'[tmp'.ptr][k] = heap[tmp.ptr][k]
          /\ tmp'.ptr # tmp.ptr => heap'[tmp.ptr] = FREE
    BY <1>7, <2>1, <2>4, <2>5
  <2> QED
    BY <1>5, <1>7, <2>1, <2>3, <2>6, <2>7
<1> QED
  BY <1>2, <1>4, <1>6, <1>7 DEF WriteAlloc

\* The copy from user space: it changes the new block from tmp.size on, and a
\* writer that goes on to commit has all its bytes there.
LEMMA CopyEffect ==
  ASSUME Inv, NEW p \in Proc, WriteCopy(p)
  PROVE  /\ pc[p] = "copy_from_user" /\ UNCHANGED <<module, buffer, tmp, call>>
         /\ \A q \in Proc \ {p} : pc'[q] = pc[q] /\ pc[q] \notin Writers
         /\ \A q \in Ptr \ {tmp.ptr} : heap'[q] = heap[q]
         /\ heap'[tmp.ptr] \in Seq(Byte) /\ Len(heap'[tmp.ptr]) = Len(heap[tmp.ptr])
         /\ \A k \in 1 .. tmp.size : heap'[tmp.ptr][k] = heap[tmp.ptr][k]
         /\ \/ /\ pc'[p] = "commit"
               /\ \A k \in 1 .. Len(call[p].data) : heap'[tmp.ptr][tmp.size + k] = call[p].data[k]
            \/ "copy" \in Faults /\ pc'[p] = "unlock"
<1>1. pc[p] = "copy_from_user" /\ UNCHANGED <<module, buffer, tmp, call>>
  BY DEF WriteCopy
<1>2. /\ tmp.ptr \in Ptr /\ tmp.size \in Nat
      /\ heap \in [Ptr -> Seq(Byte) \cup {FREE}]
      /\ heap[tmp.ptr] \in Seq(Byte)
      /\ Len(heap[tmp.ptr]) >= tmp.size + Len(call[p].data) + 1
      /\ call[p].data \in Seq(Byte) /\ Len(call[p].data) \in Nat
  BY <1>1, Writing
<1>3. LockDiscipline /\ pc \in [Proc -> Labels]
  BY DEF Inv, ControlInv, TypeOK, Labels, Critical
<1>4. \A q \in Proc \ {p} : pc[q] \notin Writers
  BY <1>1, <1>3, Exclusive DEF InCriticalSection, Writers
<1>5. ASSUME NEW d \in Seq(Byte), heap' = [heap EXCEPT ![tmp.ptr] = Overwrite(heap[tmp.ptr], tmp.size, d)]
      PROVE  /\ \A q \in Ptr \ {tmp.ptr} : heap'[q] = heap[q]
             /\ heap'[tmp.ptr] \in Seq(Byte) /\ Len(heap'[tmp.ptr]) = Len(heap[tmp.ptr])
             /\ \A k \in 1 .. tmp.size : heap'[tmp.ptr][k] = heap[tmp.ptr][k]
             /\ Len(d) <= Len(call[p].data) =>
                  \A k \in 1 .. Len(d) : heap'[tmp.ptr][tmp.size + k] = d[k]
  <2>1. heap'[tmp.ptr] = Overwrite(heap[tmp.ptr], tmp.size, d) /\ \A q \in Ptr \ {tmp.ptr} : heap'[q] = heap[q]
    BY <1>2, <1>5
  <2>2. PICK s \in Seq(Byte) : s = heap[tmp.ptr]
    BY <1>2
  <2>3. PICK at \in Nat : at = tmp.size
    BY <1>2
  <2>4. PICK n \in Nat : n = Len(call[p].data)
    BY <1>2
  <2>5. Overwrite(s, at, d) \in Seq(Byte) /\ Len(Overwrite(s, at, d)) = Len(s) /\ Len(s) >= at + n + 1
    BY <1>2, <2>2, <2>3, <2>4, OverwriteType
  <2>6. \A k \in 1 .. at : Overwrite(s, at, d)[k] = s[k]
    BY <2>5 DEF Overwrite
  <2>7. Len(d) <= n => \A k \in 1 .. Len(d) : Overwrite(s, at, d)[at + k] = d[k]
    BY <2>5 DEF Overwrite
  <2> QED
    BY <2>1, <2>2, <2>3, <2>4, <2>5, <2>6, <2>7
<1>6. CASE /\ heap' = [heap EXCEPT ![tmp.ptr] = Overwrite(@, CopyOffset, call[p].data)]
           /\ Goto(p, "commit")
  <2>1. heap' = [heap EXCEPT ![tmp.ptr] = Overwrite(heap[tmp.ptr], tmp.size, call[p].data)]
    BY <1>6, Zenon DEF CopyOffset
  <2>2. pc' = [pc EXCEPT ![p] = "commit"]
    BY <1>6 DEF Goto
  <2>3. pc'[p] = "commit" /\ \A q \in Proc \ {p} : pc'[q] = pc[q]
    BY <1>3, <2>2
  <2>4. /\ \A q \in Ptr \ {tmp.ptr} : heap'[q] = heap[q]
        /\ heap'[tmp.ptr] \in Seq(Byte) /\ Len(heap'[tmp.ptr]) = Len(heap[tmp.ptr])
        /\ \A k \in 1 .. tmp.size : heap'[tmp.ptr][k] = heap[tmp.ptr][k]
        /\ Len(call[p].data) <= Len(call[p].data) =>
             \A k \in 1 .. Len(call[p].data) : heap'[tmp.ptr][tmp.size + k] = call[p].data[k]
    BY <1>2, <1>5, <2>1, Zenon
  <2>5. Len(call[p].data) <= Len(call[p].data)
    BY <1>2
  <2> QED
    BY <1>1, <1>4, <2>3, <2>4, <2>5, Zenon
<1>7. ASSUME NEW k \in 0 .. Len(call[p].data) - 1, "copy" \in Faults,
             heap' = [heap EXCEPT ![tmp.ptr] =
                        Overwrite(@, CopyOffset, SubSeq(call[p].data, 1, k)
                                                   \o Zeroed(Len(call[p].data) - k))],
             Finish(p, "unlock", "EFAULT", 0, <<>>)
      PROVE  /\ \A q \in Proc \ {p} : pc'[q] = pc[q]
             /\ \A q \in Ptr \ {tmp.ptr} : heap'[q] = heap[q]
             /\ heap'[tmp.ptr] \in Seq(Byte) /\ Len(heap'[tmp.ptr]) = Len(heap[tmp.ptr])
             /\ \A i \in 1 .. tmp.size : heap'[tmp.ptr][i] = heap[tmp.ptr][i]
             /\ "copy" \in Faults /\ pc'[p] = "unlock"
  <2> DEFINE d == SubSeq(call[p].data, 1, k) \o Zeroed(Len(call[p].data) - k)
  <2>1. Len(call[p].data) - k \in Nat
    BY <1>2
  <2>2. Zeroed(Len(call[p].data) - k) \in Seq(Byte)
    BY <2>1, ZeroedType
  <2>3. d \in Seq(Byte)
    BY <1>2, <2>2
  <2>4. heap' = [heap EXCEPT ![tmp.ptr] = Overwrite(heap[tmp.ptr], tmp.size, d)]
    BY <1>7, Zenon DEF CopyOffset
  <2>5. pc'[p] = "unlock" /\ \A q \in Proc \ {p} : pc'[q] = pc[q]
    BY <1>3, <1>7 DEF Finish, Goto
  <2> HIDE DEF d
  <2> QED
    BY <1>5, <1>7, <2>3, <2>4, <2>5
<1> QED
  BY <1>1, <1>4, <1>6, <1>7 DEF WriteCopy

\* The size and the block of a command when its bytes have been counted.
NewSize(p) == tmp.size + Len(call[p].data)

NewBlock(p) == [heap[tmp.ptr] EXCEPT ![NewSize(p) + 1] = NUL]

\* The command becomes an entry, or it stays unfinished.
CommandAdded(p) ==
  /\ NL \in LastByte(NewBlock(p), NewSize(p))
  /\ \A i \in Slots : buffer'.entry[i] = IF i = buffer.in_offs THEN [buffptr |-> tmp.ptr, size |-> NewSize(p)]
                                         ELSE buffer.entry[i]
  /\ tmp'.ptr = NULL /\ tmp'.size = 0
  /\ ReplacedPtr(buffer) \in Ptr => heap'[ReplacedPtr(buffer)] = FREE
  /\ \A q \in Ptr \ {tmp.ptr, ReplacedPtr(buffer)} : heap'[q] = heap[q]

CommandKept(p) ==
  /\ buffer' = buffer /\ tmp'.ptr = tmp.ptr /\ tmp'.size = NewSize(p)
  /\ \A q \in Ptr \ {tmp.ptr} : heap'[q] = heap[q]

LEMMA CommitEffect ==
  ASSUME Inv, NEW p \in Proc, WriteCommit(p)
  PROVE  /\ pc[p] = "commit" /\ pc'[p] = "unlock" /\ UNCHANGED <<module, call>>
         /\ \A q \in Proc \ {p} : pc'[q] = pc[q] /\ pc[q] \notin Writers
         /\ buffer \in aesd_circular_buffer(Entry) /\ buffer # NULL /\ tmp.ptr \in Ptr
         /\ NewSize(p) \in Nat /\ NewSize(p) < Len(heap[tmp.ptr])
         /\ heap'[tmp.ptr] = NewBlock(p) /\ Len(NewBlock(p)) = Len(heap[tmp.ptr])
         /\ \A k \in 1 .. NewSize(p) : NewBlock(p)[k] = heap[tmp.ptr][k]
         /\ CommandAdded(p) \/ CommandKept(p)
<1>1. pc[p] = "commit" /\ UNCHANGED <<module, call>> /\ pc' = [pc EXCEPT ![p] = "unlock"]
  BY DEF WriteCommit, Finish, Goto
<1>2. /\ tmp.ptr \in Ptr /\ tmp.size \in Nat
      /\ heap \in [Ptr -> Seq(Byte) \cup {FREE}]
      /\ heap[tmp.ptr] \in Seq(Byte)
      /\ Len(heap[tmp.ptr]) >= tmp.size + Len(call[p].data) + 1
      /\ Len(call[p].data) \in Nat
  BY <1>1, Writing
<1>3. LockDiscipline /\ pc \in [Proc -> Labels]
  BY DEF Inv, ControlInv, TypeOK, Labels, Critical
<1>4. \A q \in Proc \ {p} : pc'[q] = pc[q] /\ pc[q] \notin Writers
  BY <1>1, <1>3, Exclusive DEF InCriticalSection, Writers
<1>5. buffer \in aesd_circular_buffer(Entry) /\ buffer # NULL
  BY <1>1, InCall DEF Inv, ControlInv, ModuleInv
<1>6. NewSize(p) \in Nat /\ NewSize(p) < Len(heap[tmp.ptr])
  BY <1>2 DEF NewSize
<1>7. Len(NewBlock(p)) = Len(heap[tmp.ptr]) /\ \A k \in 1 .. NewSize(p) : NewBlock(p)[k] = heap[tmp.ptr][k]
  <2>1. PICK s \in Seq(Byte) : s = heap[tmp.ptr]
    BY <1>2
  <2>2. PICK n \in Nat : n = NewSize(p)
    BY <1>6
  <2> QED
    BY <1>6, <2>1, <2>2, TerminatedType DEF NewBlock
<1>8. \A i \in Slots : buffer.entry[i].buffptr \in Ptr \cup {NULL} /\ buffer.entry[i].buffptr # tmp.ptr
  <2>1. EntriesOwnTheirBlocks /\ tmp.ptr # NULL
    BY <1>2, PtrAssumption DEF Inv
  <2> QED
    BY <1>5, <2>1 DEF EntriesOwnTheirBlocks, aesd_circular_buffer, Entry, NullEntry
<1>9. CASE /\ NL \in LastByte(NewBlock(p), NewSize(p))
           /\ buffer' = aesd_circular_buffer_add_entry(buffer, [buffptr |-> tmp.ptr, size |-> NewSize(p)])
           /\ heap' = kfree([heap EXCEPT ![tmp.ptr] = NewBlock(p)], ReplacedPtr(buffer))
           /\ tmp' = AfterAdd
  <2> DEFINE new == [buffptr |-> tmp.ptr, size |-> NewSize(p)]
             old == ReplacedPtr(buffer)
  <2>1. /\ buffer.in_offs \in Slots
        /\ buffer.entry \in [Slots -> Entry \cup {NullEntry}]
        /\ buffer'.entry = [buffer.entry EXCEPT ![buffer.in_offs] = new]
    BY <1>5, <1>9, AddEntryFields
  <2>2. old \in Ptr \cup {NULL} /\ old # tmp.ptr
    BY <1>8, <2>1 DEF ReplacedPtr
  <2> HIDE DEF new
  <2>3. \A i \in Slots : buffer'.entry[i] = IF i = buffer.in_offs THEN new ELSE buffer.entry[i]
    BY <2>1
  <2>4. tmp'.ptr = NULL /\ tmp'.size = 0
    BY <1>9 DEF AfterAdd
  <2> HIDE DEF old
  <2>5. heap' = IF old = NULL THEN [heap EXCEPT ![tmp.ptr] = NewBlock(p)]
                ELSE [[heap EXCEPT ![tmp.ptr] = NewBlock(p)] EXCEPT ![old] = FREE]
    BY <1>9 DEF kfree, old
  <2>6. /\ heap'[tmp.ptr] = NewBlock(p)
        /\ old \in Ptr => heap'[old] = FREE
        /\ \A q \in Ptr \ {tmp.ptr, old} : heap'[q] = heap[q]
    BY <1>2, <2>2, <2>5, PtrAssumption
  <2> QED
    BY <1>1, <1>2, <1>3, <1>4, <1>5, <1>6, <1>7, <1>9, <2>3, <2>4, <2>6 DEF CommandAdded, new, old
<1>10. CASE /\ heap' = [heap EXCEPT ![tmp.ptr] = NewBlock(p)]
            /\ tmp' = [tmp EXCEPT !.size = NewSize(p)]
            /\ buffer' = buffer
  <2>1. tmp \in [ptr : Ptr \cup {NULL}, size : Nat]
    BY DEF Inv, ControlInv, TypeOK
  <2>2. tmp'.ptr = tmp.ptr /\ tmp'.size = NewSize(p)
    BY <1>10, <2>1
  <2>3. heap'[tmp.ptr] = NewBlock(p) /\ \A q \in Ptr \ {tmp.ptr} : heap'[q] = heap[q]
    BY <1>2, <1>10
  <2> QED
    BY <1>1, <1>2, <1>3, <1>4, <1>5, <1>6, <1>7, <1>10, <2>2, <2>3 DEF CommandKept
<1> QED
  BY <1>9, <1>10 DEF WriteCommit, NewSize, NewBlock

-----------------------------------------------------------------------------
(***************************************************************************)
(* Terminated commands.                                                    *)
(***************************************************************************)

\* The block of an entry is allocated and is not the unfinished command.
LEMMA EntryBlock ==
  ASSUME Inv, buffer # NULL, NEW i \in Slots, buffer.entry[i].buffptr # NULL
  PROVE  /\ buffer.entry[i].buffptr \in Ptr /\ buffer.entry[i].buffptr # tmp.ptr
         /\ buffer.entry[i].size \in Nat
         /\ heap[buffer.entry[i].buffptr] \in Seq(Byte) /\ heap[buffer.entry[i].buffptr] # FREE
         /\ buffer.entry[i].size < Len(heap[buffer.entry[i].buffptr])
<1>1. buffer \in aesd_circular_buffer(Entry) /\ EntriesOwnTheirBlocks /\ heap \in [Ptr -> Seq(Byte) \cup {FREE}]
  BY DEF Inv, ControlInv, TypeOK
<1>2. buffer.entry[i] \in Entry
  BY <1>1 DEF aesd_circular_buffer, NullEntry
<1>3. buffer.entry[i].buffptr \in Ptr /\ buffer.entry[i].size \in Nat
  BY <1>2 DEF Entry
<1>4. BlockHolds(buffer.entry[i].buffptr, buffer.entry[i].size) /\ buffer.entry[i].buffptr # tmp.ptr
  BY <1>1 DEF EntriesOwnTheirBlocks
<1>5. heap[buffer.entry[i].buffptr] \in Seq(Byte)
  BY <1>1, <1>3, <1>4 DEF BlockHolds
<1>6. Len(heap[buffer.entry[i].buffptr]) \in Nat
  BY <1>5
<1> QED
  BY <1>3, <1>4, <1>5, <1>6 DEF BlockHolds

\* A write does not touch the blocks of the entries that stay.
LEMMA EntryBlocksKept ==
  ASSUME Inv, NEW p \in Proc, buffer # NULL, NEW i \in Slots, buffer.entry[i].buffptr # NULL,
         \/ WriteAlloc(p) \/ WriteCopy(p)
         \/ WriteCommit(p) /\ (i # buffer.in_offs \/ CommandKept(p))
  PROVE  heap'[buffer.entry[i].buffptr] = heap[buffer.entry[i].buffptr]
<1>1. PICK q \in Ptr : q = buffer.entry[i].buffptr /\ q # tmp.ptr /\ heap[q] # FREE
  BY EntryBlock
<1>2. CASE WriteAlloc(p)
  BY <1>1, <1>2, AllocEffect
<1>3. CASE WriteCopy(p)
  BY <1>1, <1>3, CopyEffect
<1>4. CASE WriteCommit(p) /\ CommandKept(p)
  BY <1>1, <1>4 DEF CommandKept
<1>5. CASE WriteCommit(p) /\ i # buffer.in_offs /\ CommandAdded(p)
  <2>1. buffer.in_offs \in Slots
    BY <1>5, CommitEffect DEF aesd_circular_buffer
  <2>2. q # ReplacedPtr(buffer)
    BY <1>1, <1>5, <2>1 DEF Inv, EntriesOwnTheirBlocks, ReplacedPtr
  <2> QED
    BY <1>1, <1>5, <2>2 DEF CommandAdded
<1> QED
  BY <1>2, <1>3, <1>4, <1>5, CommitEffect

\* The bytes of a write are among those that a process may write.
LEMMA WritePayload ==
  ASSUME Inv, NEW p \in Proc, pc[p] \in {"alloc", "copy_from_user", "commit"}
  PROVE  /\ call[p].data \in Payloads
         /\ call[p].data \in Seq(Chars \cup {NL}) /\ Len(call[p].data) \in Nat
         /\ <<>> \notin Payloads => Len(call[p].data) > 0
<1>1. call[p] \in Request /\ call[p].op = "write"
  BY InCall DEF Inv, Fits
<1>2. call[p].data \in Payloads
  BY <1>1 DEF Request
<1> QED
  BY <1>2, PayloadAssumption

LEMMA TerminatedStep ==
  ASSUME NL \notin StrayBytes \/ <<>> \notin Payloads, Inv, CommandsTerminated, [Next]_vars
  PROVE  CommandsTerminated'
<1>1. CASE QuietStepOf
  BY <1>1 DEF QuietStepOf, CommandsTerminated
<1>2. CASE ModuleStep
  BY <1>2, ModuleStepEffect DEF CommandsTerminated, NullEntry
<1>3. ASSUME NEW p \in Proc, WriteAlloc(p) \/ WriteCopy(p)
      PROVE  CommandsTerminated'
  <2>1. buffer' = buffer
    BY <1>3, AllocEffect, CopyEffect
  <2> QED
    BY <1>3, <2>1, EntryBlocksKept DEF CommandsTerminated
<1>4. ASSUME NEW p \in Proc, WriteCommit(p), CommandKept(p)
      PROVE  CommandsTerminated'
  BY <1>4, EntryBlocksKept DEF CommandsTerminated, CommandKept
<1>5. ASSUME NEW p \in Proc, WriteCommit(p), CommandAdded(p)
      PROVE  CommandsTerminated'
  <2> SUFFICES ASSUME NEW i \in Slots, buffer'.entry[i].buffptr # NULL
               PROVE  buffer'.entry[i].size > 0 /\ heap'[buffer'.entry[i].buffptr][buffer'.entry[i].size] = NL
    BY DEF CommandsTerminated
  <2>1. CASE i = buffer.in_offs
    <3>1. buffer'.entry[i].buffptr = tmp.ptr /\ buffer'.entry[i].size = NewSize(p)
      BY <1>5, <2>1 DEF CommandAdded
    <3>2. NewSize(p) \in Nat /\ heap'[tmp.ptr] = NewBlock(p)
      BY <1>5, CommitEffect
    <3>3. NL \in LastByte(NewBlock(p), NewSize(p))
      BY <1>5 DEF CommandAdded
    <3>4. NewSize(p) # 0 \/ NL \notin StrayBytes
      <4>1. pc[p] = "commit"
        BY <1>5, CommitEffect
      <4>2. tmp.size \in Nat
        BY DEF Inv, ControlInv, TypeOK
      <4>3. Len(call[p].data) \in Nat /\ (<<>> \notin Payloads => Len(call[p].data) > 0)
        BY <4>1, WritePayload
      <4> QED
        BY <4>2, <4>3 DEF NewSize
    <3>5. NewSize(p) # 0 /\ NewBlock(p)[NewSize(p)] = NL
      BY <3>3, <3>4 DEF LastByte
    <3> QED
      BY <3>1, <3>2, <3>5
  <2>2. CASE i # buffer.in_offs
    <3>1. buffer'.entry[i] = buffer.entry[i]
      BY <1>5, <2>2 DEF CommandAdded
    <3>2. buffer # NULL
      BY <1>5, CommitEffect
    <3>3. heap'[buffer.entry[i].buffptr] = heap[buffer.entry[i].buffptr]
      BY <1>5, <2>2, <3>1, <3>2, EntryBlocksKept
    <3> QED
      BY <3>1, <3>2, <3>3 DEF CommandsTerminated
  <2> QED
    BY <2>1, <2>2
<1> QED
  BY <1>1, <1>2, <1>3, <1>4, <1>5, StepKinds, CommitEffect

(***************************************************************************)
(* Every entry of the buffer is a command that ends with a newline,        *)
(* however many processes put it together and whatever fails (main.c:      *)
(* 129-142).  The hypothesis is about an empty write, for which the code   *)
(* looks at the byte in front of the block: nobody makes one, or that byte *)
(* is not a newline.                                                       *)
(***************************************************************************)
THEOREM CommandsAreTerminated ==
  ASSUME NL \notin StrayBytes \/ <<>> \notin Payloads
  PROVE  Spec => []CommandsTerminated
<1>1. Init => CommandsTerminated
  BY DEF Init, CommandsTerminated
<1>2. Inv /\ CommandsTerminated /\ [Next]_vars => CommandsTerminated'
  BY TerminatedStep
<1> QED
  BY <1>1, <1>2, InvHolds, PTL DEF Spec

-----------------------------------------------------------------------------
(***************************************************************************)
(* The bytes that are counted.                                             *)
(***************************************************************************)

\* An unfinished command that counts bytes has a block with room for them, and
\* a writer that is about to count its bytes has copied them.
TmpInv ==
  /\ tmp.ptr = NULL => tmp.size = 0
  /\ tmp.ptr # NULL => tmp.size < Len(heap[tmp.ptr])

CopiedInv ==
  \A p \in Proc : pc[p] = "commit" =>
    \A k \in 1 .. Len(call[p].data) : heap[tmp.ptr][tmp.size + k] = call[p].data[k]

Written(q, n) == \A k \in 1 .. n : heap[q][k] \in Chars \cup {NL}

StoredInv == TmpInv /\ CopiedInv /\ CountedBytesAreStored

LEMMA CountedUnfold ==
  CountedBytesAreStored <=>
    /\ buffer # NULL => \A i \in Slots : buffer.entry[i].buffptr # NULL =>
                                           Written(buffer.entry[i].buffptr, buffer.entry[i].size)
    /\ tmp.ptr # NULL => Written(tmp.ptr, tmp.size)
  BY DEF CountedBytesAreStored, Written

LEMMA StoredAlloc ==
  ASSUME "krealloc" \notin Faults, Inv, StoredInv, NEW p \in Proc, WriteAlloc(p)
  PROVE  StoredInv'
<1>1. buffer' = buffer /\ tmp'.size = tmp.size /\ tmp.size \in Nat
  BY AllocEffect DEF Inv, ControlInv, TypeOK
<1>2. pc'[p] \in {"unlock", "copy_from_user"} /\ \A q \in Proc \ {p} : pc'[q] = pc[q] /\ pc[q] \notin Writers
  BY AllocEffect
<1>3. CopiedInv'
  BY <1>2 DEF CopiedInv, Writers
<1>4. buffer # NULL => \A i \in Slots : buffer.entry[i].buffptr # NULL =>
        \A k \in 1 .. buffer.entry[i].size : heap'[buffer.entry[i].buffptr][k] \in Chars \cup {NL}
  BY EntryBlocksKept, CountedUnfold DEF StoredInv, Written
<1>5. TmpInv' /\ (tmp'.ptr # NULL => \A k \in 1 .. tmp'.size : heap'[tmp'.ptr][k] \in Chars \cup {NL})
  <2>1. CASE tmp'.ptr = NULL
    <3>1. tmp.size = 0
      BY <2>1, AllocEffect, PtrAssumption
    <3> QED
      BY <1>1, <2>1, <3>1 DEF TmpInv
  <2>2. CASE tmp'.ptr # NULL
    <3>1. /\ tmp'.ptr \in Ptr /\ Len(heap'[tmp'.ptr]) = tmp.size + Len(call[p].data) + 1
          /\ tmp.ptr # NULL /\ tmp.size # 0 =>
               \A k \in 1 .. tmp.size : k <= Len(heap[tmp.ptr]) =>
                  heap'[tmp'.ptr][k] = heap[tmp.ptr][k]
      BY <2>2, AllocEffect
    <3>2. Len(call[p].data) \in Nat
      BY AllocEffect, WritePayload
    <3>3. CASE tmp.size = 0
      BY <1>1, <2>2, <3>1, <3>2, <3>3 DEF TmpInv
    <3>4. CASE tmp.size # 0
      <4>1. tmp.ptr # NULL /\ tmp.size < Len(heap[tmp.ptr]) /\ Written(tmp.ptr, tmp.size)
        BY <3>4, CountedUnfold DEF StoredInv, TmpInv
      <4>2. Len(heap[tmp.ptr]) \in Nat
        <5>1. tmp.ptr \in Ptr /\ heap \in [Ptr -> Seq(Byte) \cup {FREE}] /\ heap[tmp.ptr] # FREE
          BY <4>1 DEF Inv, ControlInv, TypeOK, BlockInv
        <5> QED
          BY <5>1
      <4>3. \A k \in 1 .. tmp.size : heap'[tmp'.ptr][k] = heap[tmp.ptr][k]
        BY <1>1, <3>1, <3>4, <4>1, <4>2
      <4>4. TmpInv'
        BY <1>1, <2>2, <3>1, <3>2 DEF TmpInv
      <4> QED
        BY <1>1, <4>1, <4>3, <4>4 DEF Written
    <3> QED
      BY <3>3, <3>4
  <2> QED
    BY <2>1, <2>2
<1>6. CountedBytesAreStored'
  BY <1>1, <1>4, <1>5 DEF CountedBytesAreStored
<1> QED
  BY <1>3, <1>5, <1>6 DEF StoredInv

LEMMA StoredCopy ==
  ASSUME Inv, StoredInv, NEW p \in Proc, WriteCopy(p)
  PROVE  StoredInv'
<1>1. /\ UNCHANGED <<buffer, tmp, call>> /\ Len(heap'[tmp.ptr]) = Len(heap[tmp.ptr])
      /\ \A k \in 1 .. tmp.size : heap'[tmp.ptr][k] = heap[tmp.ptr][k]
  BY CopyEffect
<1>2. CopiedInv'
  BY <1>1, CopyEffect DEF CopiedInv, Writers
<1>3. TmpInv'
  BY <1>1 DEF StoredInv, TmpInv
<1>4. CountedBytesAreStored'
  BY <1>1, EntryBlocksKept DEF StoredInv, CountedBytesAreStored
<1> QED
  BY <1>2, <1>3, <1>4 DEF StoredInv

LEMMA StoredCommit ==
  ASSUME Inv, StoredInv, NEW p \in Proc, WriteCommit(p)
  PROVE  StoredInv'
<1>1. /\ pc[p] = "commit" /\ pc'[p] = "unlock"
      /\ \A q \in Proc \ {p} : pc'[q] = pc[q] /\ pc[q] \notin Writers
      /\ buffer # NULL /\ tmp.ptr \in Ptr
      /\ NewSize(p) \in Nat /\ NewSize(p) < Len(heap[tmp.ptr])
      /\ heap'[tmp.ptr] = NewBlock(p) /\ Len(NewBlock(p)) = Len(heap[tmp.ptr])
      /\ \A k \in 1 .. NewSize(p) : NewBlock(p)[k] = heap[tmp.ptr][k]
  BY CommitEffect
<1>2. CopiedInv'
  BY <1>1 DEF CopiedInv, Writers
<1>3. \A k \in 1 .. NewSize(p) : heap'[tmp.ptr][k] \in Chars \cup {NL}
  <2>1. PICK size \in Nat : size = tmp.size
    BY DEF Inv, ControlInv, TypeOK
  <2>2. PICK data \in Seq(Chars \cup {NL}) : data = call[p].data
    BY <1>1, WritePayload
  <2>3. \A k \in 1 .. size : heap[tmp.ptr][k] \in Chars \cup {NL}
    <3>1. tmp.ptr # NULL
      BY <1>1, PtrAssumption
    <3> QED
      BY <2>1, <3>1, CountedUnfold DEF StoredInv, Written
  <2>4. \A k \in 1 .. Len(data) : heap[tmp.ptr][size + k] = data[k]
    BY <1>1, <2>1, <2>2 DEF StoredInv, CopiedInv
  <2>5. NewSize(p) = size + Len(data)
    BY <2>1, <2>2 DEF NewSize
  <2>6. ASSUME NEW k \in 1 .. size + Len(data)
        PROVE  heap[tmp.ptr][k] \in Chars \cup {NL}
    <3>1. CASE k <= size
      BY <2>3, <3>1
    <3>2. CASE k > size
      <4>1. k - size \in 1 .. Len(data) /\ size + (k - size) = k
        BY <3>2
      <4>2. heap[tmp.ptr][k] = data[k - size]
        BY <2>4, <4>1
      <4> QED
        BY <4>1, <4>2
    <3> QED
      BY <3>1, <3>2
  <2> QED
    BY <1>1, <2>5, <2>6
<1>4. CASE CommandKept(p)
  <2>1. TmpInv'
    BY <1>1, <1>4, PtrAssumption DEF TmpInv, CommandKept
  <2>2. CountedBytesAreStored'
    BY <1>1, <1>3, <1>4, EntryBlocksKept DEF StoredInv, CountedBytesAreStored, CommandKept
  <2> QED
    BY <1>2, <2>1, <2>2 DEF StoredInv
<1>5. CASE CommandAdded(p)
  <2>1. TmpInv' /\ tmp'.ptr = NULL
    BY <1>5 DEF TmpInv, CommandAdded
  <2>2. ASSUME NEW i \in Slots, buffer'.entry[i].buffptr # NULL,
               NEW k \in 1 .. buffer'.entry[i].size
        PROVE  heap'[buffer'.entry[i].buffptr][k] \in Chars \cup {NL}
    <3>1. CASE i = buffer.in_offs
      BY <1>3, <1>5, <2>2, <3>1 DEF CommandAdded
    <3>2. CASE i # buffer.in_offs
      <4>1. buffer'.entry[i] = buffer.entry[i]
        BY <1>5, <3>2 DEF CommandAdded
      <4>2. heap'[buffer.entry[i].buffptr] = heap[buffer.entry[i].buffptr]
        BY <1>1, <2>2, <3>2, <4>1, EntryBlocksKept
      <4> QED
        BY <1>1, <2>2, <4>1, <4>2 DEF StoredInv, CountedBytesAreStored
    <3> QED
      BY <3>1, <3>2
  <2> QED
    BY <1>2, <2>1, <2>2 DEF StoredInv, CountedBytesAreStored
<1> QED
  BY <1>4, <1>5, CommitEffect

LEMMA StoredStep ==
  ASSUME "krealloc" \notin Faults, Inv, StoredInv, [Next]_vars
  PROVE  StoredInv'
<1>1. CASE QuietStepOf
  BY <1>1 DEF QuietStepOf, StoredInv, TmpInv, CopiedInv, CountedBytesAreStored, Writers
<1>2. CASE ModuleStep
  <2>1. CopiedInv'
    BY <1>2, ModuleStepEffect DEF CopiedInv
  <2>2. TmpInv'
    BY <1>2, ModuleStepEffect DEF TmpInv, StoredInv
  <2>3. CountedBytesAreStored'
    BY <1>2, ModuleStepEffect DEF StoredInv, CountedBytesAreStored, NullEntry
  <2> QED
    BY <2>1, <2>2, <2>3 DEF StoredInv
<1> QED
  BY <1>1, <1>2, StepKinds, StoredAlloc, StoredCopy, StoredCommit

(***************************************************************************)
(* Every byte that an entry or the unfinished command counts was written   *)
(* by a process, also after allocations and copies that failed (main.c:    *)
(* 104-142).  The hypothesis excludes the one failure that breaks it: when *)
(* krealloc fails the pointer is lost and the size stays.                  *)
(***************************************************************************)
THEOREM CountedBytesStored ==
  ASSUME "krealloc" \notin Faults
  PROVE  Spec => []CountedBytesAreStored
<1>1. Init => StoredInv
  BY DEF Init, StoredInv, TmpInv, CopiedInv, CountedBytesAreStored
<1>2. Inv /\ StoredInv /\ [Next]_vars => StoredInv'
  BY StoredStep
<1>3. StoredInv => CountedBytesAreStored
  BY DEF StoredInv
<1> QED
  BY <1>1, <1>2, <1>3, InvHolds, PTL DEF Spec

-----------------------------------------------------------------------------
(***************************************************************************)
(* No block gets lost.                                                     *)
(***************************************************************************)

\* Without the module nothing is allocated; an unfinished command that counts
\* no bytes yet belongs to a writer.
TmpOwnedInv ==
  /\ module # "live" => tmp.ptr = NULL /\ \A q \in Ptr : heap[q] = FREE
  /\ tmp.ptr = NULL => tmp.size = 0
  /\ tmp.ptr # NULL /\ tmp.size = 0 => \E p \in Proc : pc[p] \in Writers

\* Every allocated block has an owner.
NoLeak ==
  \A q \in Ptr :
    heap[q] # FREE => \/ q = tmp.ptr
                      \/ buffer # NULL /\ \E i \in Slots : buffer.entry[i].buffptr = q

LeakInv == TmpOwnedInv /\ NoLeak

NothingFails == Faults \cap {"kzalloc", "krealloc", "copy"} = {} /\ <<>> \notin Payloads

LEMMA LeakModule ==
  ASSUME Inv, LeakInv, ModuleStep
  PROVE  LeakInv'
<1>1. \A p \in Proc : pc[p] \notin Writers
  BY ModuleStepEffect DEF Writers
<1>2. CASE InitRegion
  BY <1>1, <1>2 DEF InitRegion, LeakInv, TmpOwnedInv, NoLeak
<1>3. CASE InitBuffer
  BY <1>1, <1>3 DEF InitBuffer, LeakInv, TmpOwnedInv, NoLeak
<1>4. CASE InitCdev
  BY <1>1, <1>4 DEF InitCdev, LeakInv, TmpOwnedInv, NoLeak
<1>5. CASE aesd_cleanup_module
  <2>1. /\ tmp'.ptr = NULL /\ tmp'.size = 0
        /\ \A q \in Ptr : heap'[q] = IF \/ \E i \in Slots : buffer.entry[i].buffptr = q
                                        \/ tmp.size > 0 /\ tmp.ptr = q
                                       THEN FREE ELSE heap[q]
    BY <1>5 DEF aesd_cleanup_module
  <2>2. tmp.ptr # NULL => tmp.size > 0
    BY <1>1 DEF LeakInv, TmpOwnedInv, Inv, ControlInv, TypeOK
  <2>3. \A q \in Ptr : heap'[q] = FREE
    BY <2>1, <2>2, PtrAssumption DEF LeakInv, NoLeak
  <2> QED
    BY <2>1, <2>3 DEF LeakInv, TmpOwnedInv, NoLeak
<1> QED
  BY <1>2, <1>3, <1>4, <1>5 DEF ModuleStep

LEMMA LeakAlloc ==
  ASSUME NothingFails, Inv, LeakInv, NEW p \in Proc, WriteAlloc(p)
  PROVE  LeakInv'
<1>1. /\ pc[p] = "alloc" /\ UNCHANGED <<module, buffer>> /\ tmp'.size = tmp.size
      /\ \A q \in Proc \ {p} : pc[q] \notin Writers
      /\ pc'[p] = "copy_from_user" /\ tmp'.ptr \in Ptr
      /\ \A q \in Ptr \ {tmp'.ptr, tmp.ptr} : heap'[q] = heap[q]
      /\ tmp.ptr # NULL /\ tmp.size # 0 /\ tmp'.ptr # tmp.ptr => heap'[tmp.ptr] = FREE
  BY AllocEffect DEF NothingFails
<1>2. module = "live"
  BY <1>1, InCall DEF Inv
<1>3. tmp.size = 0 => tmp.ptr = NULL
  BY <1>1 DEF LeakInv, TmpOwnedInv, Writers
<1>4. TmpOwnedInv'
  BY <1>1, <1>2, PtrAssumption DEF TmpOwnedInv, Writers
<1>5. NoLeak'
  BY <1>1, <1>3, PtrAssumption DEF LeakInv, NoLeak
<1> QED
  BY <1>4, <1>5 DEF LeakInv

LEMMA LeakCopy ==
  ASSUME NothingFails, Inv, LeakInv, NEW p \in Proc, WriteCopy(p)
  PROVE  LeakInv'
<1>1. /\ pc[p] = "copy_from_user" /\ UNCHANGED <<module, buffer, tmp>>
      /\ \A q \in Ptr \ {tmp.ptr} : heap'[q] = heap[q]
      /\ pc'[p] = "commit"
  BY CopyEffect DEF NothingFails
<1>2. module = "live" /\ tmp.ptr \in Ptr
  BY <1>1, InCall, Writing DEF Inv
<1>3. TmpOwnedInv'
  BY <1>1, <1>2 DEF LeakInv, TmpOwnedInv, Writers
<1>4. NoLeak'
  BY <1>1, <1>2 DEF LeakInv, NoLeak
<1> QED
  BY <1>3, <1>4 DEF LeakInv

LEMMA LeakCommit ==
  ASSUME NothingFails, Inv, Inv', LeakInv, NEW p \in Proc, WriteCommit(p)
  PROVE  LeakInv'
<1>1. /\ pc[p] = "commit" /\ module' = module /\ tmp.ptr \in Ptr
      /\ buffer \in aesd_circular_buffer(Entry) /\ buffer # NULL
  BY CommitEffect
<1>2. module = "live"
  BY <1>1, InCall DEF Inv
<1>3. NewSize(p) # 0 /\ tmp.ptr # NULL
  <2>1. tmp.size \in Nat
    BY DEF Inv, ControlInv, TypeOK
  <2>2. Len(call[p].data) \in Nat /\ Len(call[p].data) > 0
    BY <1>1, WritePayload DEF NothingFails
  <2> QED
    BY <1>1, <2>1, <2>2, PtrAssumption DEF NewSize
<1>4. CASE CommandKept(p)
  BY <1>1, <1>2, <1>3, <1>4 DEF LeakInv, TmpOwnedInv, NoLeak, CommandKept
<1>5. CASE CommandAdded(p)
  <2>1. TmpOwnedInv'
    BY <1>1, <1>2, <1>5 DEF TmpOwnedInv, CommandAdded
  <2>2. buffer' # NULL /\ buffer.in_offs \in Slots
    BY <1>1, <1>2 DEF Inv, ControlInv, ModuleInv, aesd_circular_buffer
  <2>3. ASSUME NEW q \in Ptr, heap'[q] # FREE
        PROVE  \E i \in Slots : buffer'.entry[i].buffptr = q
    <3>1. CASE q = tmp.ptr
      BY <1>5, <2>2, <3>1 DEF CommandAdded
    <3>2. CASE q # tmp.ptr
      <4>1. q # ReplacedPtr(buffer) /\ heap[q] # FREE
        BY <1>5, <2>3, <3>2 DEF CommandAdded
      <4>2. PICK i \in Slots : buffer.entry[i].buffptr = q
        BY <3>2, <4>1 DEF LeakInv, NoLeak
      <4>3. i # buffer.in_offs
        BY <4>1, <4>2 DEF ReplacedPtr
      <4> QED
        BY <1>5, <4>2, <4>3 DEF CommandAdded
    <3> QED
      BY <3>1, <3>2
  <2>4. NoLeak'
    BY <2>2, <2>3 DEF NoLeak
  <2> QED
    BY <2>1, <2>4 DEF LeakInv
<1> QED
  BY <1>4, <1>5, CommitEffect

LEMMA LeakStep ==
  ASSUME NothingFails, Inv, Inv', LeakInv, [Next]_vars
  PROVE  LeakInv'
<1>1. CASE QuietStepOf
  <2>1. TmpOwnedInv'
    BY <1>1 DEF QuietStepOf, LeakInv, TmpOwnedInv
  <2>2. NoLeak'
    BY <1>1 DEF QuietStepOf, LeakInv, NoLeak
  <2> QED
    BY <2>1, <2>2 DEF LeakInv
<1> QED
  BY <1>1, StepKinds, LeakModule, LeakAlloc, LeakCopy, LeakCommit

(***************************************************************************)
(* As long as memory suffices, user addresses are good and no write is     *)
(* empty, every allocated block is an entry's or the unfinished command,   *)
(* and nothing is allocated once the module is unloaded (main.c:104-142,   *)
(* 333-356).                                                               *)
(***************************************************************************)
THEOREM NoBlockIsLost ==
  ASSUME Faults \cap {"kzalloc", "krealloc", "copy"} = {}, <<>> \notin Payloads
  PROVE  Spec => [](NoLeak /\ (module = "unloaded" => \A q \in Ptr : heap[q] = FREE))
<1>1. Init => LeakInv
  BY DEF Init, LeakInv, TmpOwnedInv, NoLeak
<1>2. NothingFails
  BY DEF NothingFails
<1>3. Inv /\ Inv' /\ LeakInv /\ [Next]_vars => LeakInv'
  BY <1>2, LeakStep
<1>4. LeakInv => NoLeak /\ (module = "unloaded" => \A q \in Ptr : heap[q] = FREE)
  BY DEF LeakInv, TmpOwnedInv
<1> QED
  BY <1>1, <1>3, <1>4, InvHolds, PTL DEF Spec

\* Before the device is live nothing has an owner yet.
FreshInv ==
  module # "live" => /\ tmp.ptr = NULL
                     /\ buffer # NULL => \A i \in Slots : buffer.entry[i] = NullEntry

LEMMA FreshStep ==
  ASSUME Inv, FreshInv, [Next]_vars
  PROVE  FreshInv'
<1>1. CASE QuietStepOf
  BY <1>1 DEF QuietStepOf, FreshInv
<1>2. CASE ModuleStep
  <2>1. \A i \in Slots : aesd_circular_buffer_init.entry[i] = NullEntry
    BY DEF aesd_circular_buffer_init
  <2> QED
    BY <1>2, <2>1 DEF ModuleStep, InitRegion, InitBuffer, InitCdev, aesd_cleanup_module, FreshInv
<1>3. ASSUME NEW p \in Proc, WriteAlloc(p) \/ WriteCopy(p) \/ WriteCommit(p)
      PROVE  FreshInv'
  <2>1. module' = module /\ pc[p] \in {"alloc", "copy_from_user", "commit"}
    BY <1>3, AllocEffect, CopyEffect, CommitEffect
  <2>2. module = "live"
    BY <2>1, InCall DEF Inv
  <2> QED
    BY <2>1, <2>2 DEF FreshInv
<1> QED
  BY <1>1, <1>2, <1>3, StepKinds

LEMMA FinishEffect ==
  ASSUME Inv, NEW p \in Proc, NEW l, NEW err, NEW val, NEW data, Finish(p, l, err, val, data)
  PROVE  /\ pc' = [pc EXCEPT ![p] = l]
         /\ reply'[p] = [err |-> err, val |-> val, data |-> data]
         /\ \A q \in Proc \ {p} : reply'[q] = reply[q]
         /\ \A q \in Proc \ {p} : pc'[q] = pc[q]
         /\ pc'[p] = l
<1>1. pc \in [Proc -> Labels] /\ DOMAIN reply = Proc
  BY DEF Inv, ControlInv, TypeOK, Labels, Critical
<1> QED
  BY <1>1 DEF Finish, Goto

\* What BlocksKeepAnOwner says of one block.
KeepsOwner(q) ==
  heap'[q] # FREE /\ (heap[q] = FREE \/ HasOwner(q)) =>
    \/ HasOwner(q)'
    \/ /\ q = tmp.ptr
       /\ \/ tmp.size = 0
          \/ \E p \in Proc : pc[p] = "alloc" /\ reply'[p].err = "ENOMEM"

LEMMA OwnerModule ==
  ASSUME Inv, FreshInv, ModuleStep, NEW q \in Ptr
  PROVE  KeepsOwner(q)
<1>1. CASE module # "live"
  <2>1. heap' = heap
    BY <1>1 DEF ModuleStep, InitRegion, InitBuffer, InitCdev, aesd_cleanup_module
  <2>2. ~HasOwner(q)
    BY <1>1, PtrAssumption DEF FreshInv, HasOwner, NullEntry
  <2> QED
    BY <2>1, <2>2 DEF KeepsOwner
<1>2. CASE module = "live"
  <2>1. heap'[q] = IF \/ \E i \in Slots : buffer.entry[i].buffptr = q
                      \/ tmp.size > 0 /\ tmp.ptr = q
                     THEN FREE ELSE heap[q]
    BY <1>2 DEF ModuleStep, InitRegion, InitBuffer, InitCdev, aesd_cleanup_module
  <2>2. tmp.size \in Nat
    BY DEF Inv, ControlInv, TypeOK
  <2> QED
    BY <2>1, <2>2 DEF KeepsOwner, HasOwner
<1> QED
  BY <1>1, <1>2

LEMMA OwnerAlloc ==
  ASSUME Inv, NEW p \in Proc, WriteAlloc(p), NEW q \in Ptr
  PROVE  KeepsOwner(q)
<1>1. pc[p] = "alloc" /\ buffer' = buffer
  BY AllocEffect
<1>2. CASE pc'[p] = "unlock" /\ tmp'.ptr = NULL /\ heap' = heap
  <2>1. Finish(p, "unlock", "ENOMEM", 0, <<>>)
    <3>1. ASSUME Goto(p, "copy_from_user") PROVE FALSE
      BY <1>2, <3>1 DEF Goto, Inv, ControlInv, TypeOK
    <3> QED
      BY <3>1 DEF WriteAlloc
  <2>2. reply'[p].err = "ENOMEM"
    <3>1. reply'[p] = [err |-> "ENOMEM", val |-> 0, data |-> <<>>]
      BY <2>1, FinishEffect
    <3> QED
      BY <3>1
  <2> QED
    BY <1>1, <1>2, <2>2 DEF KeepsOwner, HasOwner
<1>3. CASE /\ tmp'.ptr \in Ptr
           /\ \A r \in Ptr \ {tmp'.ptr, tmp.ptr} : heap'[r] = heap[r]
           /\ tmp.ptr # NULL /\ tmp.size # 0 /\ tmp'.ptr # tmp.ptr => heap'[tmp.ptr] = FREE
  BY <1>1, <1>3, PtrAssumption DEF KeepsOwner, HasOwner
<1> QED
  BY <1>2, <1>3, AllocEffect

LEMMA OwnerCommit ==
  ASSUME Inv, Inv', NEW p \in Proc, WriteCommit(p), NEW q \in Ptr
  PROVE  KeepsOwner(q)
<1>1. /\ pc[p] = "commit" /\ module' = module /\ tmp.ptr \in Ptr
      /\ buffer \in aesd_circular_buffer(Entry) /\ buffer # NULL
  BY CommitEffect
<1>2. CASE CommandKept(p)
  BY <1>1, <1>2 DEF KeepsOwner, HasOwner, CommandKept
<1>3. CASE CommandAdded(p)
  <2>1. module = "live"
    BY <1>1, InCall DEF Inv
  <2>2. buffer' # NULL /\ buffer.in_offs \in Slots
    BY <1>1, <2>1 DEF Inv, ControlInv, ModuleInv, aesd_circular_buffer
  <2>3. CASE q = tmp.ptr
    <3>1. buffer'.entry[buffer.in_offs].buffptr = q
      BY <1>3, <2>2, <2>3 DEF CommandAdded
    <3> QED
      BY <2>2, <3>1 DEF KeepsOwner, HasOwner
  <2>4. ASSUME q # tmp.ptr, heap'[q] # FREE, heap[q] = FREE \/ HasOwner(q)
        PROVE  HasOwner(q)'
    <3>1. q # ReplacedPtr(buffer) /\ heap[q] # FREE
      BY <1>3, <2>4 DEF CommandAdded
    <3>2. PICK i \in Slots : buffer.entry[i].buffptr = q
      BY <2>4, <3>1 DEF HasOwner
    <3>3. i # buffer.in_offs
      BY <3>1, <3>2 DEF ReplacedPtr
    <3>4. buffer'.entry[i].buffptr = q
      BY <1>3, <3>2, <3>3 DEF CommandAdded
    <3> QED
      BY <2>2, <3>4 DEF HasOwner
  <2> QED
    BY <2>3, <2>4 DEF KeepsOwner
<1> QED
  BY <1>2, <1>3, CommitEffect

LEMMA OwnerStep ==
  ASSUME Inv, Inv', FreshInv, [Next]_vars, NEW q \in Ptr
  PROVE  KeepsOwner(q)
<1>1. CASE QuietStepOf
  BY <1>1 DEF QuietStepOf, KeepsOwner, HasOwner
<1>2. ASSUME NEW p \in Proc, WriteCopy(p)
      PROVE  KeepsOwner(q)
  <2>1. UNCHANGED <<buffer, tmp>> /\ (q # tmp.ptr => heap'[q] = heap[q])
    BY <1>2, CopyEffect
  <2> QED
    BY <2>1 DEF KeepsOwner, HasOwner
<1> QED
  BY <1>1, <1>2, StepKinds, OwnerModule, OwnerAlloc, OwnerCommit

(***************************************************************************)
(* Whatever fails and whatever is written, a block is lost in the three    *)
(* places only that BlocksKeepAnOwner names (main.c:106, 111 and 342), for *)
(* any number of processes, slots and blocks.                              *)
(***************************************************************************)
THEOREM BlocksAreOwned == Spec => BlocksKeepAnOwner
<1>1. Init => FreshInv
  BY DEF Init, FreshInv
<1>2. Inv /\ FreshInv /\ [Next]_vars => FreshInv'
  BY FreshStep
<1>3. Inv /\ Inv' /\ FreshInv /\ [Next]_vars => [\A q \in Ptr : KeepsOwner(q)]_vars
  BY OwnerStep
<1> QED
  BY <1>1, <1>2, <1>3, InvHolds, PTL DEF Spec, BlocksKeepAnOwner, KeepsOwner

-----------------------------------------------------------------------------
(***************************************************************************)
(* The driver implements the command device.  On top of Inv and StoredInv  *)
(* the refinement needs that the lookup goes through entries only, that a  *)
(* call has its outcome exactly when it is on its way out, that what a     *)
(* reader found stays where it was until the copy, and that no newline is  *)
(* left at the end of the unfinished command.                              *)
(***************************************************************************)

\* Every entry of the buffer that the lookup visits is one.
RingInv == buffer # NULL => Disciplined(buffer, Entry)

\* A process outside a call has none, and a call has its outcome from the step
\* that decides it until it returns.
CallerInv ==
  \A p \in Proc :
    /\ pc[p] = "user" => call[p] = Idle
    /\ reply[p] # NoReply <=> pc[p] \in {"unlock", "return"}

\* What a reader has found is still what its offset stands for.
LookupInv ==
  \A p \in Proc : pc[p] = "copy_to_user" =>
    found[p] = aesd_circular_buffer_find_entry_offset_for_fpos(buffer, f_pos[p])

\* The unfinished command does not end with a newline, and there is none until
\* the device is live.
TailInv ==
  /\ tmp.ptr # NULL /\ tmp.size > 0 => heap[tmp.ptr][tmp.size] # NL
  /\ module = "buffer" => tmp.ptr = NULL

DeviceInv == RingInv /\ CallerInv /\ LookupInv /\ TailInv

LEMMA EntryIs == 
  /\ \A e \in Entry : e.size \in Nat /\ e.buffptr \in Ptr /\ e.buffptr # NULL
  /\ NullEntry \notin Entry
BY PtrAssumption DEF Entry, NullEntry

-----------------------------------------------------------------------------
(***************************************************************************)
(* The control part of DeviceInv.                                          *)
(***************************************************************************)

LEMMA CallerMove ==
  ASSUME Inv, CallerInv, NEW p \in Proc, NEW l, pc' = [pc EXCEPT ![p] = l],
         \A q \in Proc \ {p} : call'[q] = call[q] /\ reply'[q] = reply[q],
         l = "user" => call'[p] = Idle,
         reply'[p] # NoReply <=> l \in {"unlock", "return"}
  PROVE  CallerInv'
<1>1. \A q \in Proc : pc'[q] = IF q = p THEN l ELSE pc[q]
  BY DEF Inv, ControlInv, TypeOK
<1> QED
  BY <1>1 DEF CallerInv

LEMMA CallerFinish ==
  ASSUME Inv, CallerInv, NEW p \in Proc, NEW l \in {"unlock", "return"}, NEW err, NEW val, NEW data,
         Finish(p, l, err, val, data), err # "none", call' = call
  PROVE  CallerInv'
<1>1. /\ pc' = [pc EXCEPT ![p] = l]
      /\ reply'[p] = [err |-> err, val |-> val, data |-> data]
      /\ \A q \in Proc \ {p} : reply'[q] = reply[q]
  BY FinishEffect
<1>2. [err |-> err, val |-> val, data |-> data].err = err /\ NoReply.err = "none"
  BY DEF NoReply
<1>3. reply'[p] # NoReply
  BY <1>1, <1>2
<1>4. l # "user"
  OBVIOUS
<1> QED
  BY <1>1, <1>3, <1>4, CallerMove

LEMMA LlseekOutcome ==
  ASSUME NEW pos, NEW off, NEW whence, NEW size
  PROVE  fixed_size_llseek(pos, off, whence, size).err \in {"ok", "EINVAL"}
BY DEF fixed_size_llseek

LEMMA CallerStep ==
  ASSUME Inv, CallerInv, [Next]_vars
  PROVE  CallerInv'
<1>0. DOMAIN call = Proc /\ DOMAIN reply = Proc
  BY DEF Inv, ControlInv, TypeOK
<1>1. CASE ModuleStep
  BY <1>1 DEF ModuleStep, InitRegion, InitBuffer, InitCdev, aesd_cleanup_module, procVars, CallerInv
<1>2. ASSUME NEW p \in Proc, aesd_open(p) \/ aesd_release(p)
      PROVE  CallerInv'
  BY <1>2 DEF aesd_open, aesd_release, CallerInv
<1>3. ASSUME NEW p \in Proc, NEW r \in Request, Invoke(p, r)
      PROVE  CallerInv'
  <2> DEFINE l == IF r.op = "ioctl" THEN "ioctl" ELSE "lock"
  <2>1. /\ pc[p] = "user" /\ pc' = [pc EXCEPT ![p] = l] /\ call' = [call EXCEPT ![p] = r]
        /\ reply' = reply
    BY <1>3 DEF Invoke
  <2>2. l \notin {"user", "unlock", "return"} /\ reply[p] = NoReply
    BY <2>1 DEF CallerInv
  <2> HIDE DEF l
  <2> QED
    BY <1>0, <2>1, <2>2, CallerMove
<1>4. ASSUME NEW p \in Proc, Lock(p)
      PROVE  CallerInv'
  <2> DEFINE l == Body[call[p].op]
  <2>1. pc[p] = "lock" /\ pc' = [pc EXCEPT ![p] = l] /\ UNCHANGED <<call, reply>>
    BY <1>4 DEF Lock, Goto
  <2>2. l \notin {"user", "unlock", "return"}
    <3>1. call[p].op \in {"read", "write", "llseek", "ioctl"}
      BY <2>1, InCall, RequestFields DEF Inv
    <3> QED
      BY <3>1 DEF Body
  <2>3. reply[p] = NoReply
    BY <2>1 DEF CallerInv
  <2> HIDE DEF l
  <2> QED
    BY <2>1, <2>2, <2>3, CallerMove
<1>5. ASSUME NEW p \in Proc, Interrupted(p)
      PROVE  CallerInv'
  BY <1>5, CallerFinish DEF Interrupted
<1>6. ASSUME NEW p \in Proc, Unlock(p)
      PROVE  CallerInv'
  <2>1. pc[p] = "unlock" /\ pc' = [pc EXCEPT ![p] = "return"] /\ UNCHANGED <<call, reply>>
    BY <1>6 DEF Unlock, Goto
  <2>2. reply[p] # NoReply
    BY <2>1 DEF CallerInv
  <2> QED
    BY <2>1, <2>2, CallerMove
<1>7. ASSUME NEW p \in Proc, Return(p)
      PROVE  CallerInv'
  <2>1. /\ pc' = [pc EXCEPT ![p] = "user"] /\ call' = [call EXCEPT ![p] = Idle]
        /\ reply' = [reply EXCEPT ![p] = NoReply]
    BY <1>7 DEF Return, Goto
  <2>2. /\ \A q \in Proc \ {p} : call'[q] = call[q] /\ reply'[q] = reply[q]
        /\ call'[p] = Idle /\ reply'[p] = NoReply
    BY <1>0, <2>1
  <2> QED
    BY <2>1, <2>2, CallerMove
<1>8. ASSUME NEW p \in Proc, NEW l \in {"copy_to_user", "copy_from_user", "commit", "lock"},
             pc[p] \in {"find", "alloc", "copy_from_user", "ioctl"},
             Goto(p, l), UNCHANGED <<call, reply>>
      PROVE  CallerInv'
  <2>1. pc' = [pc EXCEPT ![p] = l] /\ reply[p] = NoReply
    BY <1>8 DEF Goto, CallerInv
  <2> QED
    BY <1>8, <2>1, CallerMove
<1>9. ASSUME NEW p \in Proc, ReadFind(p)
      PROVE  CallerInv'
  BY <1>8, <1>9, CallerFinish DEF ReadFind
<1>10. ASSUME NEW p \in Proc, ReadCopy(p)
       PROVE  CallerInv'
  BY <1>10, CallerFinish DEF ReadCopy
<1>11. ASSUME NEW p \in Proc, WriteAlloc(p)
       PROVE  CallerInv'
  BY <1>8, <1>11, CallerFinish DEF WriteAlloc
<1>12. ASSUME NEW p \in Proc, WriteCopy(p)
       PROVE  CallerInv'
  BY <1>8, <1>12, CallerFinish DEF WriteCopy
<1>13. ASSUME NEW p \in Proc, WriteCommit(p)
       PROVE  CallerInv'
  BY <1>13, CallerFinish DEF WriteCommit
<1>14. ASSUME NEW p \in Proc, aesd_llseek(p)
       PROVE  CallerInv'
  <2> DEFINE to == fixed_size_llseek(f_pos[p], call[p].off, call[p].whence, get_buffer_size(buffer))
  <2>1. to.err \in {"ok", "EINVAL"}
    BY LlseekOutcome
  <2>2. Finish(p, "unlock", to.err, IF to.err = "ok" THEN to.pos ELSE 0, <<>>) /\ call' = call
    BY <1>14 DEF aesd_llseek
  <2> HIDE DEF to
  <2> QED
    BY <2>1, <2>2, CallerFinish
<1>15. ASSUME NEW p \in Proc, aesd_ioctl(p)
       PROVE  CallerInv'
  BY <1>8, <1>15, CallerFinish DEF aesd_ioctl
<1>16. ASSUME NEW p \in Proc, aesd_adjust_file_offset(p)
       PROVE  CallerInv'
  <2> DEFINE to == fixed_size_llseek(f_pos[p], BytesBefore(call[p].write_cmd) + call[p].write_cmd_offset,
                                     "SEEK_SET", get_buffer_size(buffer))
  <2>1. to.err \in {"ok", "EINVAL"}
    BY LlseekOutcome
  <2>2. /\ Finish(p, "unlock", "EINVAL", 0, <<>>) \/ Finish(p, "unlock", to.err, 0, <<>>)
        /\ call' = call
    BY <1>16 DEF aesd_adjust_file_offset
  <2> HIDE DEF to
  <2> QED
    BY <2>1, <2>2, CallerFinish
<1>17. CASE UNCHANGED vars
  BY <1>17 DEF vars, procVars, CallerInv
<1> QED
  BY <1>1, <1>2, <1>3, <1>4, <1>5, <1>6, <1>7, <1>9, <1>10, <1>11, <1>12, <1>13, <1>14, <1>15, <1>16, <1>17
  DEF Next, Step, ModuleStep

-----------------------------------------------------------------------------
(***************************************************************************)
(* The rest of DeviceInv.                                                  *)
(***************************************************************************)

NewEntry(p) == [buffptr |-> tmp.ptr, size |-> NewSize(p)]

\* The last byte decides what becomes of the command.
LEMMA CommitKinds ==
  ASSUME Inv, NEW p \in Proc, WriteCommit(p)
  PROVE  \/ /\ CommandAdded(p) /\ NL \in LastByte(NewBlock(p), NewSize(p))
            /\ buffer' = aesd_circular_buffer_add_entry(buffer, NewEntry(p))
         \/ /\ CommandKept(p) /\ \E last \in LastByte(NewBlock(p), NewSize(p)) : last # NL
<1>1. \/ /\ NL \in LastByte(NewBlock(p), NewSize(p))
         /\ buffer' = aesd_circular_buffer_add_entry(buffer, NewEntry(p))
         /\ tmp' = AfterAdd
      \/ /\ \E last \in LastByte(NewBlock(p), NewSize(p)) : last # NL
         /\ tmp' = [tmp EXCEPT !.size = NewSize(p)]
  BY DEF WriteCommit, NewSize, NewBlock, NewEntry
<1>2. tmp.ptr \in Ptr /\ tmp.ptr # NULL /\ tmp \in [ptr : Ptr \cup {NULL}, size : Nat]
  BY CommitEffect, PtrAssumption DEF Inv, ControlInv, TypeOK
<1>3. CASE tmp' = AfterAdd
  <2>1. tmp'.ptr = NULL
    BY <1>3 DEF AfterAdd
  <2>2. tmp' # [tmp EXCEPT !.size = NewSize(p)]
    BY <1>2, <2>1
  <2>3. ~CommandKept(p)
    BY <1>2, <2>1 DEF CommandKept
  <2> QED
    BY <1>1, <2>2, <2>3, CommitEffect
<1>4. CASE tmp' = [tmp EXCEPT !.size = NewSize(p)]
  <2>1. tmp'.ptr = tmp.ptr
    BY <1>2, <1>4
  <2>2. tmp' # AfterAdd
    BY <1>2, <2>1 DEF AfterAdd
  <2>3. ~CommandAdded(p)
    BY <1>2, <2>1 DEF CommandAdded
  <2> QED
    BY <1>1, <2>2, <2>3, CommitEffect
<1> QED
  BY <1>1, <1>3, <1>4

LEMMA RingStep ==
  ASSUME Inv, RingInv, [Next]_vars
  PROVE  RingInv'
<1>1. CASE QuietStepOf
  BY <1>1 DEF QuietStepOf, RingInv
<1>2. CASE ModuleStep
  <2>1. Disciplined(aesd_circular_buffer_init, Entry)
    BY InitDisciplined
  <2>2. buffer' \in {buffer, NULL, aesd_circular_buffer_init}
    BY <1>2 DEF ModuleStep, InitRegion, InitBuffer, InitCdev, aesd_cleanup_module
  <2> QED
    BY <2>1, <2>2 DEF RingInv
<1>3. ASSUME NEW p \in Proc, WriteAlloc(p) \/ WriteCopy(p)
      PROVE  RingInv'
  <2>1. buffer' = buffer
    BY <1>3, AllocEffect, CopyEffect
  <2> QED
    BY <2>1 DEF RingInv
<1>4. ASSUME NEW p \in Proc, WriteCommit(p)
      PROVE  RingInv'
  <2>1. /\ buffer \in aesd_circular_buffer(Entry) /\ buffer # NULL
        /\ tmp.ptr \in Ptr /\ NewSize(p) \in Nat
    BY <1>4, CommitEffect
  <2>2. NewEntry(p) \in Entry /\ Disciplined(buffer, Entry)
    BY <2>1 DEF NewEntry, Entry, RingInv
  <2>3. Disciplined(aesd_circular_buffer_add_entry(buffer, NewEntry(p)), Entry)
    BY <2>1, <2>2, AddEntryDisciplined
  <2>4. buffer' = buffer \/ buffer' = aesd_circular_buffer_add_entry(buffer, NewEntry(p))
    BY <1>4, CommitKinds DEF CommandKept
  <2> QED
    BY <2>2, <2>3, <2>4 DEF RingInv
<1> QED
  BY <1>1, <1>2, <1>3, <1>4, StepKinds

LEMMA TailStep ==
  ASSUME "krealloc" \notin Faults, Inv, StoredInv, TailInv, [Next]_vars
  PROVE  TailInv'
<1>0. tmp.size \in Nat /\ tmp.ptr \in Ptr \cup {NULL}
  BY DEF Inv, ControlInv, TypeOK
<1>1. CASE QuietStepOf
  BY <1>1 DEF QuietStepOf, TailInv
<1>2. CASE ModuleStep
  BY <1>2 DEF ModuleStep, InitRegion, InitBuffer, InitCdev, aesd_cleanup_module, TailInv
<1>3. ASSUME NEW p \in Proc, WriteAlloc(p)
      PROVE  TailInv'
  <2>1. module' = module /\ module = "live" /\ tmp'.size = tmp.size
    BY <1>3, AllocEffect, InCall DEF Inv
  <2>2. CASE tmp.size # 0 /\ tmp'.ptr # NULL
    <3>1. tmp.ptr # NULL /\ tmp.size < Len(heap[tmp.ptr])
      BY <2>2 DEF StoredInv, TmpInv
    <3>2. heap[tmp.ptr] \in Seq(Byte)
      BY <1>0, <3>1 DEF Inv, ControlInv, TypeOK, BlockInv
    <3>3. tmp.size \in 1 .. tmp.size /\ tmp.size <= Len(heap[tmp.ptr])
      BY <1>0, <2>2, <3>1, <3>2
    <3>4. heap'[tmp'.ptr][tmp.size] = heap[tmp.ptr][tmp.size]
      BY <1>3, <2>2, <3>1, <3>3, AllocEffect
    <3> QED
      BY <1>0, <2>1, <2>2, <3>1, <3>4 DEF TailInv
  <2> QED
    BY <1>0, <2>1, <2>2 DEF TailInv
<1>4. ASSUME NEW p \in Proc, WriteCopy(p)
      PROVE  TailInv'
  <2>1. /\ module' = module /\ module = "live" /\ tmp' = tmp
        /\ \A k \in 1 .. tmp.size : heap'[tmp.ptr][k] = heap[tmp.ptr][k]
    BY <1>4, CopyEffect, InCall DEF Inv
  <2> QED
    BY <1>0, <2>1 DEF TailInv
<1>5. ASSUME NEW p \in Proc, WriteCommit(p)
      PROVE  TailInv'
  <2>1. /\ module' = module /\ module = "live"
        /\ heap'[tmp.ptr] = NewBlock(p) /\ NewSize(p) \in Nat
    BY <1>5, CommitEffect, InCall DEF Inv
  <2>2. CASE CommandAdded(p)
    BY <2>1, <2>2 DEF CommandAdded, TailInv
  <2>3. CASE CommandKept(p) /\ \E last \in LastByte(NewBlock(p), NewSize(p)) : last # NL
    BY <2>1, <2>3 DEF CommandKept, TailInv, LastByte
  <2> QED
    BY <1>5, <2>2, <2>3, CommitKinds
<1> QED
  BY <1>1, <1>2, <1>3, <1>4, <1>5, StepKinds

LEMMA LookupMove ==
  ASSUME Inv, LookupInv, NEW p \in Proc, NEW l, l # "copy_to_user", pc' = [pc EXCEPT ![p] = l],
         \A q \in Proc \ {p} : found'[q] = found[q] /\ f_pos'[q] = f_pos[q],
         buffer' = buffer \/ InCriticalSection(p)
  PROVE  LookupInv'
<1>1. \A q \in Proc : pc'[q] = IF q = p THEN l ELSE pc[q]
  BY DEF Inv, ControlInv, TypeOK
<1>2. ASSUME NEW q \in Proc, pc'[q] = "copy_to_user"
      PROVE  found'[q] = aesd_circular_buffer_find_entry_offset_for_fpos(buffer', f_pos'[q])
  <2>1. q # p /\ pc[q] = "copy_to_user"
    BY <1>1, <1>2
  <2>2. InCriticalSection(q)
    BY <2>1 DEF InCriticalSection
  <2>3. buffer' = buffer
    BY <2>1, <2>2, Exclusive DEF Inv, ControlInv
  <2> QED
    BY <2>1, <2>3 DEF LookupInv
<1> QED
  BY <1>2 DEF LookupInv, aesd_circular_buffer_find_entry_offset_for_fpos, EntryCount, SlotOf

LEMMA LookupStep ==
  ASSUME Inv, LookupInv, [Next]_vars
  PROVE  LookupInv'
<1>0. DOMAIN f_pos = Proc /\ DOMAIN found = Proc
  BY DEF Inv, ControlInv, TypeOK
<1>1. CASE ModuleStep
  <2>1. \A p \in Proc : pc'[p] = "user"
    BY <1>1, ModuleStepEffect
  <2> QED
    BY <2>1 DEF LookupInv
<1>2. ASSUME NEW p \in Proc, aesd_open(p) \/ aesd_release(p)
      PROVE  LookupInv'
  <2>1. pc[p] = "user"
    BY <1>2 DEF aesd_open, aesd_release, Inv, ControlInv, CallInv
  <2>2. /\ UNCHANGED <<buffer, pc, found>>
        /\ \A q \in Proc \ {p} : f_pos'[q] = f_pos[q]
    BY <1>0, <1>2 DEF aesd_open, aesd_release, devVars
  <2>3. pc' = [pc EXCEPT ![p] = "user"]
    BY <2>1, <2>2 DEF Inv, ControlInv, TypeOK
  <2> QED
    BY <2>2, <2>3, LookupMove
<1>3. ASSUME NEW p \in Proc, NEW r \in Request, Invoke(p, r)
      PROVE  LookupInv'
  <2> DEFINE l == IF r.op = "ioctl" THEN "ioctl" ELSE "lock"
  <2>1. pc' = [pc EXCEPT ![p] = l] /\ UNCHANGED <<buffer, f_pos, found>>
    BY <1>3 DEF Invoke, devVars
  <2>2. l # "copy_to_user"
    OBVIOUS
  <2> HIDE DEF l
  <2> QED
    BY <2>1, <2>2, LookupMove
<1>4. ASSUME NEW p \in Proc, Lock(p)
      PROVE  LookupInv'
  <2> DEFINE l == Body[call[p].op]
  <2>1. pc[p] = "lock" /\ pc' = [pc EXCEPT ![p] = l] /\ UNCHANGED <<buffer, f_pos, found>>
    BY <1>4 DEF Lock, Goto
  <2>2. l # "copy_to_user"
    <3>1. call[p].op \in {"read", "write", "llseek", "ioctl"}
      BY <2>1, InCall, RequestFields DEF Inv
    <3> QED
      BY <3>1 DEF Body
  <2> HIDE DEF l
  <2> QED
    BY <2>1, <2>2, LookupMove
<1>5. ASSUME NEW p \in Proc, ReadFind(p)
      PROVE  LookupInv'
  <2> DEFINE e == aesd_circular_buffer_find_entry_offset_for_fpos(buffer, f_pos[p])
  <2>1. UNCHANGED <<buffer, f_pos>>
    BY <1>5 DEF ReadFind, devVars
  <2>2. CASE pc' = [pc EXCEPT ![p] = "unlock"] /\ found' = found
    BY <2>1, <2>2, LookupMove
  <2>3. CASE pc' = [pc EXCEPT ![p] = "copy_to_user"] /\ found' = [found EXCEPT ![p] = e]
    <3>1. \A q \in Proc : /\ found'[q] = IF q = p THEN e ELSE found[q]
                          /\ pc'[q] = "copy_to_user" => q = p \/ pc[q] = "copy_to_user"
      BY <1>0, <2>3 DEF Inv, ControlInv, TypeOK
    <3> QED
      BY <2>1, <3>1 DEF LookupInv
  <2> QED
    BY <1>5, <2>2, <2>3 DEF ReadFind, Finish, Goto
<1>6. ASSUME NEW p \in Proc,
             \/ Interrupted(p) \/ ReadCopy(p) \/ WriteAlloc(p) \/ WriteCopy(p) \/ WriteCommit(p)
             \/ aesd_llseek(p) \/ aesd_ioctl(p) \/ aesd_adjust_file_offset(p) \/ Unlock(p) \/ Return(p)
      PROVE  LookupInv'
  <2>1. PICK l \in {"return", "unlock", "copy_from_user", "commit", "lock", "user"} : pc' = [pc EXCEPT ![p] = l]
    BY <1>6 DEF Interrupted, ReadCopy, WriteAlloc, WriteCopy, WriteCommit, aesd_llseek, aesd_ioctl,
                aesd_adjust_file_offset, Unlock, Return, Finish, Goto
  <2>2. buffer' = buffer \/ WriteCommit(p)
    BY <1>6 DEF Interrupted, ReadCopy, WriteAlloc, WriteCopy, aesd_llseek, aesd_ioctl,
                aesd_adjust_file_offset, Unlock, Return, devVars
  <2>3. WriteCommit(p) => InCriticalSection(p)
    BY DEF WriteCommit, InCriticalSection
  <2>4. \E v : found' = [found EXCEPT ![p] = v]
    <3>1. found = [found EXCEPT ![p] = found[p]]
      BY DEF Inv, ControlInv, TypeOK
    <3> QED
      BY <1>6, <3>1 DEF Interrupted, ReadCopy, WriteAlloc, WriteCopy, WriteCommit, aesd_llseek, aesd_ioctl,
                        aesd_adjust_file_offset, Unlock, Return
  <2>5. \E v : f_pos' = [f_pos EXCEPT ![p] = v]
    <3>1. f_pos = [f_pos EXCEPT ![p] = f_pos[p]]
      BY DEF Inv, ControlInv, TypeOK
    <3> QED
      BY <1>6, <3>1 DEF Interrupted, ReadCopy, WriteAlloc, WriteCopy, WriteCommit, aesd_llseek, aesd_ioctl,
                        aesd_adjust_file_offset, Unlock, Return
  <2>6. \A q \in Proc \ {p} : found'[q] = found[q] /\ f_pos'[q] = f_pos[q]
    BY <1>0, <2>4, <2>5
  <2> QED
    BY <2>1, <2>2, <2>3, <2>6, LookupMove
<1>7. CASE UNCHANGED vars
  BY <1>7 DEF vars, devVars, procVars, LookupInv
<1> QED
  BY <1>1, <1>2, <1>3, <1>4, <1>5, <1>6, <1>7 DEF Next, Step, ModuleStep

LEMMA InitDevice == Init => StoredInv /\ DeviceInv
<1> SUFFICES ASSUME Init PROVE StoredInv /\ DeviceInv
  OBVIOUS
<1>1. StoredInv
  BY DEF Init, StoredInv, TmpInv, CopiedInv, CountedBytesAreStored
<1>2. RingInv /\ CallerInv /\ LookupInv /\ TailInv
  BY DEF Init, RingInv, CallerInv, LookupInv, TailInv
<1> QED
  BY <1>1, <1>2 DEF DeviceInv

LEMMA DeviceInvStep ==
  ASSUME "krealloc" \notin Faults, Inv, StoredInv, DeviceInv, [Next]_vars
  PROVE  DeviceInv'
BY RingStep, CallerStep, LookupStep, TailStep DEF DeviceInv

-----------------------------------------------------------------------------
(***************************************************************************)
(* The commands and the bytes of the abstract device.                      *)
(***************************************************************************)

LEMMA StoredBytesIs ==
  ASSUME NEW q, heap[q] \in Seq(Byte), NEW n \in Nat, n <= Len(heap[q])
  PROVE  /\ StoredBytes(q, n) \in Seq(Byte) /\ Len(StoredBytes(q, n)) = n
         /\ \A k \in 1 .. n : StoredBytes(q, n)[k] = heap[q][k]
<1>1. CASE n = 0
  BY <1>1 DEF StoredBytes
<1>2. CASE n # 0
  <2>1. StoredBytes(q, n) = SubSeq(heap[q], 1, n)
    BY <1>2 DEF StoredBytes
  <2>2. PICK s \in Seq(Byte) : s = heap[q]
    OBVIOUS
  <2> QED
    BY <2>1, <2>2
<1> QED
  BY <1>1, <1>2

\* The i-th command has the bytes of the block of the i-th oldest entry.
Block(i) == Contents(buffer)[i].buffptr
Size(i) == Contents(buffer)[i].size

LEMMA VisitedEntry ==
  ASSUME Inv, RingInv, buffer # NULL, NEW i \in 1 .. EntryCount(buffer)
  PROVE  /\ SlotOf(buffer, i - 1) \in Slots
         /\ Contents(buffer)[i] = buffer.entry[SlotOf(buffer, i - 1)]
         /\ Contents(buffer)[i] \in Entry
         /\ Block(i) \in Ptr /\ Block(i) # NULL /\ Size(i) \in Nat
         /\ heap[Block(i)] \in Seq(Byte) /\ Size(i) < Len(heap[Block(i)])
<1>1. buffer \in aesd_circular_buffer(Entry) /\ Disciplined(buffer, Entry)
  BY DEF Inv, ControlInv, TypeOK, RingInv
<1>2. EntryCount(buffer) \in Nat
  BY <1>1, ContentsLemma, MaxOpsAssumption
<1>3. SlotOf(buffer, i - 1) \in Slots
  <2>1. i - 1 \in 0 .. EntryCount(buffer) - 1
    BY <1>2
  <2> QED
    BY <1>1, <2>1, SlotOfLemma
<1>4. Contents(buffer)[i] = buffer.entry[SlotOf(buffer, i - 1)] /\ Contents(buffer)[i] \in Entry
  BY <1>1, ContentsLemma
<1>5. Block(i) \in Ptr /\ Block(i) # NULL /\ Size(i) \in Nat
  BY <1>4, EntryIs DEF Block, Size
<1> QED
  BY <1>3, <1>4, <1>5, EntryBlock DEF Block, Size

LEMMA CommandsIs ==
  ASSUME Inv, RingInv, buffer # NULL
  PROVE  /\ EntryCount(buffer) \in 0 .. MAX_WRITE_OPERATIONS
         /\ Commands = [i \in 1 .. EntryCount(buffer) |-> Commands[i]]
         /\ Commands \in Seq(Seq(Byte)) /\ Len(Commands) = EntryCount(buffer)
         /\ \A i \in 1 .. EntryCount(buffer) :
              /\ Commands[i] = StoredBytes(Block(i), Size(i))
              /\ Commands[i] \in Seq(Byte) /\ Len(Commands[i]) = Size(i)
              /\ \A k \in 1 .. Size(i) : Commands[i][k] = heap[Block(i)][k]
<1>1. EntryCount(buffer) \in 0 .. MAX_WRITE_OPERATIONS /\ EntryCount(buffer) \in Nat
  <2>1. buffer \in aesd_circular_buffer(Entry) /\ Disciplined(buffer, Entry)
    BY DEF Inv, ControlInv, TypeOK, RingInv
  <2> QED
    BY <2>1, ContentsLemma, MaxOpsAssumption
<1>2. Commands = [i \in 1 .. EntryCount(buffer) |-> StoredBytes(Block(i), Size(i))]
  BY DEF Commands, Block, Size
<1>3. ASSUME NEW i \in 1 .. EntryCount(buffer)
      PROVE  /\ Commands[i] = StoredBytes(Block(i), Size(i))
             /\ Commands[i] \in Seq(Byte) /\ Len(Commands[i]) = Size(i)
             /\ \A k \in 1 .. Size(i) : Commands[i][k] = heap[Block(i)][k]
  <2>1. heap[Block(i)] \in Seq(Byte) /\ Size(i) \in Nat /\ Size(i) <= Len(heap[Block(i)])
    <3>1. heap[Block(i)] \in Seq(Byte) /\ Size(i) \in Nat /\ Size(i) < Len(heap[Block(i)])
      BY VisitedEntry
    <3>2. Len(heap[Block(i)]) \in Nat
      BY <3>1
    <3> QED
      BY <3>1, <3>2
  <2>2. Commands[i] = StoredBytes(Block(i), Size(i))
    BY <1>2
  <2> QED
    BY <2>1, <2>2, StoredBytesIs
<1>4. Commands = [i \in 1 .. EntryCount(buffer) |-> Commands[i]]
  BY <1>2
<1> QED
  BY <1>1, <1>3, <1>4

LEMMA CommandsType ==
  ASSUME Inv, RingInv
  PROVE  Commands \in Seq(Seq(Byte)) /\ Device!Bytes \in Seq(Byte) /\ Device!Bytes = FlattenSeq(Commands)
<1>1. Commands \in Seq(Seq(Byte))
  <2>1. CASE buffer = NULL
    BY <2>1 DEF Commands
  <2> QED
    BY <2>1, CommandsIs
<1>2. Device!Bytes = FlattenSeq(Commands)
  BY Zenon DEF Device!Bytes, Device!FlattenSeq, FlattenSeq
<1>3. FlattenSeq(Commands) \in Seq(Byte)
  BY <1>1, FlattenType
<1> QED
  BY <1>1, <1>2, <1>3

LEMMA DeviceBytes ==
  ASSUME Inv, RingInv, buffer # NULL
  PROVE  /\ Len(Device!Bytes) = Upto(buffer, EntryCount(buffer))
         /\ Len(Device!Bytes) = get_buffer_size(buffer)
         /\ \A i \in 1 .. EntryCount(buffer) : \A k \in 1 .. Size(i) :
              Device!Bytes[Upto(buffer, i - 1) + k] = heap[Block(i)][k]
<1> DEFINE n == EntryCount(buffer)
           u == [i \in 0 .. Len(Commands) |-> Upto(buffer, i)]
<1>1. /\ buffer \in aesd_circular_buffer(Entry) /\ Disciplined(buffer, Entry)
      /\ \A e \in Entry : e.size \in Nat
  BY EntryIs DEF Inv, ControlInv, TypeOK, RingInv
<1>2. n \in Nat
  BY <1>1, UptoLemma
<1>3. /\ Commands \in Seq(Seq(Byte)) /\ Len(Commands) = n
      /\ \A i \in 1 .. n : Len(Commands[i]) = Contents(buffer)[i].size
      /\ \A i \in 1 .. n : \A k \in 1 .. Size(i) : Commands[i][k] = heap[Block(i)][k]
  BY CommandsIs DEF Size
<1>4. PrefixLengths(u, Commands)
  BY <1>1, <1>3, UptoPrefixLengths
<1>5. /\ Len(Device!Bytes) = u[Len(Commands)]
      /\ \A i \in 1 .. Len(Commands) : \A k \in 1 .. Len(Commands[i]) :
           Device!Bytes[u[i - 1] + k] = Commands[i][k]
  <2> HIDE DEF u, n
  <2>1. Commands \in Seq(Seq(Byte)) /\ Device!Bytes = FlattenSeq(Commands)
    BY CommandsType
  <2>. QED  BY <1>4, <2>1, FlattenPositions, Zenon
<1>6. ASSUME NEW i \in 1 .. n PROVE u[i - 1] = Upto(buffer, i - 1)
  <2>1. i - 1 \in 0 .. Len(Commands)
    BY <1>2, <1>3
  <2>. QED  BY <2>1
<1>7. u[Len(Commands)] = Upto(buffer, n)
  BY <1>2, <1>3
<1> HIDE DEF u, n
<1>8. ASSUME NEW i \in 1 .. n, NEW k \in 1 .. Size(i)
      PROVE  Device!Bytes[Upto(buffer, i - 1) + k] = heap[Block(i)][k]
  <2>1. i \in 1 .. Len(Commands) /\ k \in 1 .. Len(Commands[i])
    BY <1>3 DEF Size
  <2>2. Device!Bytes[u[i - 1] + k] = Commands[i][k]
    BY <1>5, <2>1, Zenon
  <2>. QED  BY <1>3, <1>6, <2>2
<1>9. get_buffer_size(buffer) = Upto(buffer, n)
  BY <1>1, SizeIsUpto DEF n
<1>. QED  BY <1>5, <1>7, <1>8, <1>9 DEF n

-----------------------------------------------------------------------------
(***************************************************************************)
(* Each step of the driver is a step of the abstract device, or none.      *)
(***************************************************************************)

DeviceStep == Device!Next \/ UNCHANGED <<Commands, Unfinished, f_pos, call, reply>>

LEMMA SameMemory ==
  ASSUME UNCHANGED <<buffer, tmp, heap>>
  PROVE  UNCHANGED <<Commands, Unfinished>>
BY DEF Commands, Unfinished, StoredBytes, Contents, EntryCount, SlotOf

\* A call whose outcome is open.
LEMMA Undecided ==
  ASSUME Inv, CallerInv, NEW p \in Proc, pc[p] \notin {"user", "unlock", "return"}
  PROVE  /\ call[p] \in Request /\ Fits(pc[p], call[p]) /\ call[p] # Idle /\ reply[p] = NoReply
         /\ buffer \in aesd_circular_buffer(Entry) /\ buffer # NULL
         /\ Device!Pending(p, call[p].op)
<1>1. call[p] \in Request /\ Fits(pc[p], call[p]) /\ buffer \in aesd_circular_buffer(Entry)
  BY InCall DEF Inv
<1>2. buffer # NULL
  BY <1>1, NullAssumption
<1> QED
  BY <1>1, <1>2, IdleAssumption DEF CallerInv, Device!Pending

LEMMA RefuseStep ==
  ASSUME Inv, CallerInv, NEW p \in Proc, pc[p] \notin {"user", "unlock", "return"},
         NEW l, NEW err \in {"ENOMEM", "EFAULT", "ERESTARTSYS"}, Finish(p, l, err, 0, <<>>),
         UNCHANGED <<Commands, Unfinished, f_pos, call>>
  PROVE  DeviceStep
<1>1. call[p] # Idle /\ reply[p] = NoReply
  BY Undecided
<1>2. reply' = [reply EXCEPT ![p] = [err |-> err, val |-> 0, data |-> <<>>]]
  BY DEF Finish
<1>3. Device!Fail(p, err)
  BY <1>2 DEF Device!Fail
<1>4. Device!Refuse(p)
  BY <1>1, <1>3 DEF Device!Refuse
<1> QED
  BY <1>4 DEF Device!Next, DeviceStep

LEMMA ModuleRefines ==
  ASSUME Inv, DeviceInv, ModuleStep
  PROVE  DeviceStep
<1>1. UNCHANGED <<f_pos, call, reply>> /\ \A p \in Proc : call[p] = Idle
  <2>1. \A p \in Proc : pc[p] = "user"
    BY ModuleStepEffect
  <2> QED
    BY <2>1 DEF ModuleStep, InitRegion, InitBuffer, InitCdev, aesd_cleanup_module, procVars, DeviceInv, CallerInv
<1>2. CASE UNCHANGED <<buffer, tmp, heap>>
  BY <1>1, <1>2, SameMemory DEF DeviceStep
<1>3. CASE buffer' \in {NULL, aesd_circular_buffer_init} /\ tmp'.ptr = NULL
  <2>1. Unfinished' = <<>>
    BY <1>3 DEF Unfinished
  <2>2. Commands' = <<>>
    <3>1. CASE buffer' = NULL
      BY <3>1 DEF Commands
    <3>2. CASE buffer' # NULL
      <4>1. EntryCount(buffer') = 0
        BY <1>3, <3>2 DEF EntryCount, aesd_circular_buffer_init
      <4>2. Commands' = [i \in 1 .. EntryCount(buffer') |-> Commands'[i]]
        BY <3>2 DEF Commands, EntryCount
      <4> QED
        BY <4>1, <4>2
    <3> QED
      BY <3>1, <3>2
  <2>3. Device!Forget
    BY <1>1, <2>1, <2>2 DEF Device!Forget
  <2> QED
    BY <2>3 DEF Device!Next, DeviceStep
<1>4. UNCHANGED <<buffer, tmp, heap>> \/ (buffer' \in {NULL, aesd_circular_buffer_init} /\ tmp'.ptr = NULL)
  BY DEF ModuleStep, InitRegion, InitBuffer, InitCdev, aesd_cleanup_module, DeviceInv, TailInv
<1> QED
  BY <1>2, <1>3, <1>4

\* The steps that only open, close, call, return, or take and release the lock.
LEMMA CallsRefine ==
  ASSUME Inv, DeviceInv, NEW p \in Proc,
         \/ aesd_open(p) \/ aesd_release(p) \/ (\E r \in Request : Invoke(p, r))
         \/ Lock(p) \/ Unlock(p) \/ Return(p) \/ Interrupted(p) \/ aesd_ioctl(p)
  PROVE  DeviceStep
<1>1. UNCHANGED <<Commands, Unfinished>> /\ CallerInv
  <2>1. UNCHANGED <<buffer, tmp, heap>>
    BY DEF aesd_open, aesd_release, Invoke, Lock, Unlock, Return, Interrupted, aesd_ioctl, devVars
  <2> QED
    BY <2>1, SameMemory DEF DeviceInv
<1>2. CASE aesd_open(p)
  <2>1. call[p] = Idle
    BY <1>2 DEF aesd_open, Inv, ControlInv, CallInv, DeviceInv, CallerInv
  <2>2. Device!Rewind(p)
    BY <1>1, <1>2, <2>1 DEF aesd_open, Device!Rewind
  <2> QED
    BY <2>2 DEF Device!Next, DeviceStep
<1>3. CASE aesd_release(p) \/ Lock(p) \/ Unlock(p)
  BY <1>1, <1>3 DEF aesd_release, Lock, Unlock, DeviceStep
<1>4. ASSUME NEW r \in Request, Invoke(p, r)
      PROVE  DeviceStep
  <2>1. call[p] = Idle
    BY <1>1, <1>4 DEF Invoke, CallerInv
  <2>2. Device!Invoke(p, r)
    BY <1>1, <1>4, <2>1 DEF Invoke, Device!Invoke
  <2> QED
    BY <2>2 DEF Device!Next, DeviceStep
<1>5. CASE Return(p)
  <2>1. reply[p] # NoReply
    BY <1>1, <1>5 DEF Return, CallerInv
  <2>2. Device!Return(p)
    BY <1>1, <1>5, <2>1 DEF Return, Device!Return
  <2> QED
    BY <2>2 DEF Device!Next, DeviceStep
<1>6. CASE Interrupted(p)
  BY <1>1, <1>6, RefuseStep DEF Interrupted
<1>7. CASE aesd_ioctl(p)
  <2>1. pc[p] = "ioctl" /\ UNCHANGED <<f_pos, call>>
    BY <1>7 DEF aesd_ioctl
  <2>2. Device!Pending(p, "ioctl")
    BY <1>1, <2>1, Undecided DEF Fits
  <2>3. CASE Finish(p, "return", "EFAULT", 0, <<>>)
    BY <1>1, <2>1, <2>3, RefuseStep
  <2>4. CASE reply' = reply
    BY <1>1, <2>1, <2>4 DEF DeviceStep
  <2>5. ASSUME NEW err \in {"EINVAL", "ENOTTY"}, Finish(p, "return", err, 0, <<>>)
        PROVE  DeviceStep
    <3>1. Device!Fail(p, err)
      BY <1>1, <2>1, <2>5 DEF Device!Fail, Finish
    <3>2. Device!SeekTo(p)
      BY <2>2, <3>1 DEF Device!SeekTo
    <3> QED
      BY <3>2 DEF Device!Next, DeviceStep
  <2> QED
    BY <1>7, <2>3, <2>4, <2>5 DEF aesd_ioctl
<1> QED
  BY <1>2, <1>3, <1>4, <1>5, <1>6, <1>7

LEMMA SubSeqIs ==
  ASSUME NEW S, NEW s \in Seq(S), NEW i \in Nat, NEW n \in Nat, i + n <= Len(s)
  PROVE  SubSeq(s, i + 1, i + n) = [k \in 1 .. n |-> s[i + k]]
<1> DEFINE a == SubSeq(s, i + 1, i + n)
<1>1. a \in Seq(S)
  <2>1. \A k \in i + 1 .. i + n : s[k] \in S
    OBVIOUS
  <2> QED
    BY <2>1, SubSeqProperties
<1>2. Len(a) = n
  OBVIOUS
<1>3. ASSUME NEW k \in 1 .. n PROVE a[k] = s[i + k]
  OBVIOUS
<1> HIDE DEF a
<1>4. a = [k \in 1 .. n |-> s[i + k]]
  BY <1>1, <1>2, <1>3
<1> QED
  BY <1>4 DEF a

LEMMA SubSeqEqual ==
  ASSUME NEW S, NEW s \in Seq(S), NEW t \in Seq(S), NEW i \in Nat, NEW j \in Nat, NEW n \in Nat,
         i + n <= Len(s), j + n <= Len(t), \A k \in 1 .. n : s[i + k] = t[j + k]
  PROVE  SubSeq(s, i + 1, i + n) = SubSeq(t, j + 1, j + n)
<1>1. SubSeq(s, i + 1, i + n) = [k \in 1 .. n |-> s[i + k]]
  BY SubSeqIs
<1>2. SubSeq(t, j + 1, j + n) = [k \in 1 .. n |-> t[j + k]]
  BY SubSeqIs
<1> QED
  BY <1>1, <1>2, Zenon

LEMMA EmptySubSeq ==
  ASSUME NEW S, NEW s \in Seq(S), NEW i \in Nat
  PROVE  SubSeq(s, i + 1, i) = <<>>
OBVIOUS

\* A lookup that finds nothing is at the end of the bytes, one that finds an
\* entry is at a byte of it.
LEMMA LookupMeans ==
  ASSUME Inv, RingInv, buffer \in aesd_circular_buffer(Entry), buffer # NULL, NEW off \in Nat, NEW e,
         e = aesd_circular_buffer_find_entry_offset_for_fpos(buffer, off)
  PROVE  /\ Len(Device!Bytes) \in Nat
         /\ e = NotFound => off >= Len(Device!Bytes)
         /\ e # NotFound =>
              \E i \in 1 .. EntryCount(buffer) :
                /\ e.slot \in Slots /\ buffer.entry[e.slot] = Contents(buffer)[i]
                /\ Upto(buffer, i - 1) \in Nat /\ e.offset \in Nat
                /\ off = Upto(buffer, i - 1) + e.offset
                /\ e.offset < Size(i)
                /\ Upto(buffer, i - 1) + Size(i) <= Len(Device!Bytes)
<1> DEFINE n == EntryCount(buffer)
<1>1. Disciplined(buffer, Entry) /\ \A x \in Entry : x.size \in Nat
  BY EntryIs DEF RingInv
<1>2. n \in Nat /\ n \in 0 .. n /\ Upto(buffer, n) \in Nat
  <2>1. n \in Nat
    BY <1>1, UptoLemma
  <2>2. n \in 0 .. n
    BY <2>1
  <2> QED
    BY <1>1, <2>1, <2>2, UptoLemma
<1>3. Len(Device!Bytes) = Upto(buffer, n)
  BY DeviceBytes
<1>4. /\ off >= Upto(buffer, n) => e = NotFound
      /\ off < Upto(buffer, n) =>
           \E i \in 1 .. n :
             /\ off - Upto(buffer, i - 1) \in 0 .. Contents(buffer)[i].size - 1
             /\ e = [slot |-> SlotOf(buffer, i - 1), offset |-> off - Upto(buffer, i - 1)]
  BY <1>1, FindLemma
<1>5. ASSUME off < Upto(buffer, n)
      PROVE  /\ e # NotFound
             /\ \E i \in 1 .. n :
                /\ e.slot \in Slots /\ buffer.entry[e.slot] = Contents(buffer)[i]
                /\ Upto(buffer, i - 1) \in Nat /\ e.offset \in Nat
                /\ off = Upto(buffer, i - 1) + e.offset
                /\ e.offset < Size(i)
                /\ Upto(buffer, i - 1) + Size(i) <= Upto(buffer, n)
  <2>1. PICK i \in 1 .. n :
             /\ off - Upto(buffer, i - 1) \in 0 .. Contents(buffer)[i].size - 1
             /\ e = [slot |-> SlotOf(buffer, i - 1), offset |-> off - Upto(buffer, i - 1)]
    BY <1>4, <1>5
  <2>2. i - 1 \in 0 .. n /\ i \in 0 .. n
    BY <1>2
  <2>3. Upto(buffer, i - 1) \in Nat /\ Upto(buffer, i) = Upto(buffer, i - 1) + Size(i) /\ Upto(buffer, i) <= Upto(buffer, n)
    BY <1>1, <2>2, UptoLemma, UptoGrows DEF Size
  <2>4. SlotOf(buffer, i - 1) \in Slots /\ Contents(buffer)[i] = buffer.entry[SlotOf(buffer, i - 1)] /\ Size(i) \in Nat
    BY VisitedEntry
  <2>5. e.slot = SlotOf(buffer, i - 1) /\ e.offset = off - Upto(buffer, i - 1)
    BY <2>1
  <2>6. e # NotFound
    BY <2>4, <2>5, NullSlotAssumption DEF NotFound
  <2>7. e.offset \in 0 .. Size(i) - 1
    BY <2>1, <2>5 DEF Size
  <2>8. e.offset \in Nat /\ e.offset < Size(i) /\ off = Upto(buffer, i - 1) + e.offset
    BY <2>3, <2>4, <2>5, <2>7
  <2>9. /\ e.slot \in Slots /\ buffer.entry[e.slot] = Contents(buffer)[i]
        /\ Upto(buffer, i - 1) + Size(i) <= Upto(buffer, n)
    BY <2>3, <2>4, <2>5
  <2> QED
    BY <2>3, <2>6, <2>8, <2>9
<1>6. e = NotFound => off >= Upto(buffer, n)
  BY <1>2, <1>5
<1> QED
  BY <1>2, <1>3, <1>4, <1>5, <1>6

LEMMA ReadStep ==
  ASSUME NEW p \in Proc, Device!Pending(p, "read"), NEW k \in 0 .. call[p].count,
         k = 0 => call[p].count = 0 \/ f_pos[p] >= Len(Device!Bytes),
         k > 0 => f_pos[p] + k <= Len(Device!Bytes),
         NEW data, data = SubSeq(Device!Bytes, f_pos[p] + 1, f_pos[p] + k),
         reply' = [reply EXCEPT ![p] = [err |-> "ok", val |-> k, data |-> data]],
         f_pos' = [f_pos EXCEPT ![p] = f_pos[p] + k],
         UNCHANGED <<Commands, Unfinished, call>>
  PROVE  DeviceStep
<1>1. Device!Succeed(p, k, SubSeq(Device!Bytes, f_pos[p] + 1, f_pos[p] + k))
  BY DEF Device!Succeed
<1>2. Device!Read(p)
  BY <1>1 DEF Device!Read
<1> QED
  BY <1>2 DEF Device!Next, DeviceStep

LEMMA ReadFindRefines ==
  ASSUME Inv, DeviceInv, NEW p \in Proc, ReadFind(p)
  PROVE  DeviceStep
<1> DEFINE e == aesd_circular_buffer_find_entry_offset_for_fpos(buffer, f_pos[p])
<1>1. pc[p] = "find" /\ UNCHANGED <<Commands, Unfinished, f_pos, call>> /\ CallerInv /\ RingInv
  BY SameMemory DEF ReadFind, devVars, DeviceInv
<1>2. /\ buffer \in aesd_circular_buffer(Entry) /\ buffer # NULL
      /\ Device!Pending(p, "read") /\ call[p].count \in Nat
  BY <1>1, Undecided, RequestFields DEF Fits
<1>3. CASE reply' = reply
  BY <1>1, <1>3 DEF DeviceStep
<1>4. CASE e = NotFound /\ Finish(p, "unlock", "ok", 0, <<>>)
  <2>1. f_pos[p] \in Nat /\ f_pos \in [Proc -> Nat]
    BY DEF Inv, ControlInv, TypeOK
  <2>2. f_pos[p] >= Len(Device!Bytes)
    BY <1>1, <1>2, <1>4, <2>1, LookupMeans
  <2>3. Device!Bytes \in Seq(Byte)
    BY <1>1, CommandsType
  <2>4. SubSeq(Device!Bytes, f_pos[p] + 1, f_pos[p] + 0) = <<>>
    BY <2>1, <2>3, EmptySubSeq
  <2>6. PICK k \in Nat : k = 0
    OBVIOUS
  <2>7. /\ <<>> = SubSeq(Device!Bytes, f_pos[p] + 1, f_pos[p] + k) 
        /\ reply' = [reply EXCEPT ![p] = [err |-> "ok", val |-> k, data |-> <<>>]]
        /\ f_pos' = [f_pos EXCEPT ![p] = f_pos[p] + k]
        /\ k \in 0 .. call[p].count
    BY <1>1, <1>2, <1>4, <2>1, <2>4, <2>6 DEF Finish
  <2>8. /\ k = 0 => call[p].count = 0 \/ f_pos[p] >= Len(Device!Bytes)
        /\ k > 0 => f_pos[p] + k <= Len(Device!Bytes)
    BY <2>2, <2>6
  <2> QED
    BY <1>1, <1>2, <2>7, <2>8, ReadStep, Zenon
<1> QED
  BY <1>3, <1>4 DEF ReadFind

LEMMA ReadCopyRefines ==
  ASSUME Inv, DeviceInv, NEW p \in Proc, ReadCopy(p)
  PROVE  DeviceStep
<1> DEFINE n    == Trimmed(p)
           slot == found[p].slot
           off  == found[p].offset
           data == SubSeq(heap[buffer.entry[slot].buffptr], off + 1, off + n)
<1>1. pc[p] = "copy_to_user" /\ UNCHANGED <<Commands, Unfinished, call>> /\ CallerInv /\ RingInv
  BY SameMemory DEF ReadCopy, devVars, DeviceInv
<1>2. /\ buffer \in aesd_circular_buffer(Entry) /\ buffer # NULL
      /\ Device!Pending(p, "read") /\ call[p].count \in Nat
  BY <1>1, Undecided, RequestFields DEF Fits
<1>3. CASE Finish(p, "unlock", "EFAULT", 0, <<>>) /\ f_pos' = f_pos
  BY <1>1, <1>3, RefuseStep
<1>4. CASE Finish(p, "unlock", "ok", n, data) /\ f_pos' = [f_pos EXCEPT ![p] = @ + n]
  <2>1. f_pos[p] \in Nat /\ f_pos \in [Proc -> Nat]
    BY DEF Inv, ControlInv, TypeOK
  <2>2. found[p] = aesd_circular_buffer_find_entry_offset_for_fpos(buffer, f_pos[p]) /\ slot \in Slots
    BY <1>1, TrimmedBounds DEF DeviceInv, LookupInv, Inv
  <2>3. found[p] # NotFound
    BY <2>2, NullSlotAssumption DEF NotFound
  <2>4. PICK i \in 1 .. EntryCount(buffer) :
          /\ buffer.entry[slot] = Contents(buffer)[i]
          /\ Upto(buffer, i - 1) \in Nat /\ off \in Nat
          /\ f_pos[p] = Upto(buffer, i - 1) + off
          /\ off < Size(i)
          /\ Upto(buffer, i - 1) + Size(i) <= Len(Device!Bytes)
    BY <1>1, <1>2, <2>1, <2>2, <2>3, LookupMeans
  <2>5. /\ heap[Block(i)] \in Seq(Byte) /\ Size(i) \in Nat /\ Size(i) < Len(heap[Block(i)])
        /\ buffer.entry[slot].buffptr = Block(i) /\ buffer.entry[slot].size = Size(i)
    BY <1>1, <1>2, <2>4, VisitedEntry DEF Block, Size
  <2>6. n \in Nat /\ n <= call[p].count /\ off + n <= Size(i) /\ (n = 0 => call[p].count = 0)
    <3>1. n = Min({call[p].count, Size(i) - off})
      BY <2>5 DEF Trimmed
    <3>2. Size(i) - off \in Int /\ Size(i) - off > 0
      BY <2>4, <2>5
    <3>3. n \in {call[p].count, Size(i) - off} /\ n <= call[p].count /\ n <= Size(i) - off
      <4>1. PICK c \in Int : c = call[p].count
        BY <1>2
      <4>2. PICK d \in Int : d = Size(i) - off
        BY <3>2
      <4> HIDE DEF n, off
      <4> QED
        BY <3>1, <4>1, <4>2, MinOfPair
    <3> HIDE DEF n, off
    <3> QED
      BY <1>2, <2>4, <2>5, <3>2, <3>3
  <2>7. Device!Bytes \in Seq(Byte) /\ Len(Device!Bytes) \in Nat
    BY <1>1, CommandsType
  <2>8. \A k \in 1 .. n : Device!Bytes[f_pos[p] + k] = heap[Block(i)][off + k]
    <3> SUFFICES ASSUME NEW k \in 1 .. n PROVE Device!Bytes[f_pos[p] + k] = heap[Block(i)][off + k]
      OBVIOUS
    <3> HIDE DEF n, off
    <3>1. off + k \in 1 .. Size(i)
      BY <2>4, <2>5, <2>6
    <3>2. Device!Bytes[Upto(buffer, i - 1) + (off + k)] = heap[Block(i)][off + k]
      BY <1>1, <1>2, <3>1, DeviceBytes
    <3>3. Upto(buffer, i - 1) + (off + k) = f_pos[p] + k
      BY <2>4, <2>6
    <3> QED
      BY <3>2, <3>3
  <2>9. data = SubSeq(Device!Bytes, f_pos[p] + 1, f_pos[p] + n)
    <3> HIDE DEF n, off, slot
    <3>1. f_pos[p] + n <= Len(Device!Bytes) /\ off + n <= Len(heap[Block(i)])
      <4>1. Len(heap[Block(i)]) \in Nat
        BY <2>5
      <4> QED
        BY <2>4, <2>5, <2>6, <2>7, <4>1
    <3>2. SubSeq(Device!Bytes, f_pos[p] + 1, f_pos[p] + n) = SubSeq(heap[Block(i)], off + 1, off + n)
      <4>1. PICK s \in Seq(Byte) : s = Device!Bytes
        BY <2>7
      <4>2. PICK t \in Seq(Byte) : t = heap[Block(i)]
        BY <2>5
      <4>3. PICK a \in Nat, b \in Nat, m \in Nat : a = f_pos[p] /\ b = off /\ m = n
        BY <2>1, <2>4, <2>6
      <4>4. a + m <= Len(s) /\ b + m <= Len(t) /\ \A k \in 1 .. m : s[a + k] = t[b + k]
        BY <2>8, <3>1, <4>1, <4>2, <4>3
      <4>5. SubSeq(s, a + 1, a + m) = SubSeq(t, b + 1, b + m)
        BY <4>4, SubSeqEqual
      <4> QED
        BY <4>1, <4>2, <4>3, <4>5
    <3> QED
      BY <2>5, <3>2 DEF slot
  <2>11. n > 0 => f_pos[p] + n <= Len(Device!Bytes)
    <3> HIDE DEF n, off
    <3> QED
      BY <2>4, <2>5, <2>6, <2>7
  <2>12. n \in 0 .. call[p].count
    <3> HIDE DEF n
    <3> QED
      BY <1>2, <2>6
  <2> HIDE DEF n, data
  <2>13. reply' = [reply EXCEPT ![p] = [err |-> "ok", val |-> n, data |-> data]]
    BY <1>4 DEF Finish
  <2> QED
    BY <1>1, <1>2, <1>4, <2>13, <2>6, <2>9, <2>11, <2>12, ReadStep
<1> QED
  BY <1>3, <1>4 DEF ReadCopy

LEMMA LseekRefines ==
  ASSUME Inv, DeviceInv, NEW p \in Proc, aesd_llseek(p)
  PROVE  DeviceStep
<1> DEFINE r == call[p]
           size == Len(Device!Bytes)
           T == CASE r.whence = "SEEK_SET" -> r.off
                  [] r.whence = "SEEK_CUR" -> f_pos[p] + r.off
                  [] r.whence = "SEEK_END" -> size + r.off
                  [] OTHER -> -1
           C == r.whence = "SEEK_CUR" /\ r.off = 0
           to == fixed_size_llseek(f_pos[p], r.off, r.whence, get_buffer_size(buffer))
<1>1. pc[p] = "seek" /\ UNCHANGED <<Commands, Unfinished, call>> /\ CallerInv /\ RingInv
  BY SameMemory DEF aesd_llseek, devVars, DeviceInv
<1>2. buffer # NULL /\ Device!Pending(p, "llseek")
  BY <1>1, Undecided DEF Fits
<1>3. get_buffer_size(buffer) = size /\ size \in Nat
  BY <1>1, <1>2, DeviceBytes, CommandsType
<1>4. to = IF (T \in Nat /\ T <= size) \/ C THEN [err |-> "ok", pos |-> T] ELSE [err |-> "EINVAL", pos |-> f_pos[p]]
  BY <1>3 DEF fixed_size_llseek
<1>5. /\ f_pos' = [f_pos EXCEPT ![p] = to.pos]
      /\ reply' = [reply EXCEPT ![p] = [err |-> to.err, val |-> IF to.err = "ok" THEN to.pos ELSE 0, data |-> <<>>]]
  BY DEF aesd_llseek, Finish
<1>6. (T \in Nat /\ T <= size) <=> T \in 0 .. size
  <2> HIDE DEF T, size
  <2> QED
    BY <1>3
<1>7. Device!Lseek(p) <=>
        /\ Device!Pending(p, "llseek")
        /\ IF T \in 0 .. size \/ C
             THEN /\ Device!Succeed(p, T, <<>>)
                  /\ f_pos' = [f_pos EXCEPT ![p] = T]
                  /\ UNCHANGED <<Commands, Unfinished, call>>
             ELSE Device!Fail(p, "EINVAL")
  BY Zenon DEF Device!Lseek
<1> HIDE DEF T, C, to, size
<1>8. CASE T \in 0 .. size \/ C
  <2>1. to.pos = T /\ to.err = "ok"
    BY <1>4, <1>6, <1>8
  <2>2. Device!Succeed(p, T, <<>>)
    BY <1>5, <2>1 DEF Device!Succeed
  <2>3. Device!Lseek(p)
    BY <1>1, <1>2, <1>5, <1>7, <1>8, <2>1, <2>2
  <2> QED
    BY <2>3 DEF Device!Next, DeviceStep
<1>9. CASE ~(T \in 0 .. size \/ C)
  <2>1. to.pos = f_pos[p] /\ to.err = "EINVAL"
    BY <1>4, <1>6, <1>9
  <2>2. f_pos' = f_pos
    BY <1>5, <2>1 DEF Inv, ControlInv, TypeOK
  <2>3. Device!Fail(p, "EINVAL")
    BY <1>1, <1>5, <2>1, <2>2 DEF Device!Fail
  <2>4. Device!Lseek(p)
    BY <1>2, <1>7, <1>9, <2>3
  <2> QED
    BY <2>4 DEF Device!Next, DeviceStep
<1> QED
  BY <1>8, <1>9

\* The sum over the first slots grows with their number.
LEMMA SumPrefix ==
  ASSUME NEW n \in Nat, NEW f \in [0 .. n - 1 -> Nat], NEW i \in 0 .. n - 1
  PROVE  /\ SumFunctionOnSet(f, 0 .. i - 1) \in Nat
         /\ SumFunctionOnSet(f, 0 .. i) = SumFunctionOnSet(f, 0 .. i - 1) + f[i]
         /\ SumFunctionOnSet(f, 0 .. i - 1) + f[i] <= SumFunctionOnSet(f, 0 .. n - 1)
<1> DEFINE X == 0 .. n - 1
           G(j) == SumFunctionOnSet(f, 0 .. j - 1)
           u == [j \in 0 .. n |-> G(j)]
           s == [j \in 1 .. n |-> [k \in 1 .. f[j - 1] |-> 0]]
<1>1. IsFiniteSet(X)
  BY IntervalFinite
<1>2. ASSUME NEW j \in 0 .. n PROVE G(j) \in Nat
  <2>1. 0 .. j - 1 \in SUBSET X
    OBVIOUS
  <2> QED
    BY <1>1, <2>1, SumType
<1>3. ASSUME NEW j \in X PROVE SumFunctionOnSet(f, 0 .. j) = G(j) + f[j] /\ f[j] \in Nat
  <2> DEFINE R == 0 .. j - 1
  <2>1. 0 .. j = R \cup {j} /\ R \in SUBSET X /\ j \notin R
    OBVIOUS
  <2> HIDE DEF R, X
  <2>2. SumFunctionOnSet(f, R \cup {j}) = f[j] + SumFunctionOnSet(f, R)
    BY <1>1, <2>1, SumInsert DEF X
  <2>3. j \in 0 .. n
    BY DEF X
  <2>4. SumFunctionOnSet(f, R) \in Nat
    BY <1>2, <2>3 DEF R
  <2>5. f[j] \in Nat
    BY DEF X
  <2>6. SumFunctionOnSet(f, 0 .. j) = SumFunctionOnSet(f, R \cup {j})
    BY <2>1, Zenon
  <2>7. SumFunctionOnSet(f, 0 .. j) = SumFunctionOnSet(f, R) + f[j]
    BY <2>2, <2>4, <2>5, <2>6
  <2> QED
    BY <2>5, <2>7, Zenon DEF R
<1>4. G(0) = 0
  <2>1. 0 .. 0 - 1 = {}
    OBVIOUS
  <2> QED
    BY <2>1, SumEmpty
<1>5. s \in Seq(Seq({0})) /\ Len(s) = n /\ \A j \in 1 .. n : Len(s[j]) = f[j - 1]
  <2>1. ASSUME NEW j \in 1 .. n PROVE s[j] \in Seq({0}) /\ Len(s[j]) = f[j - 1]
    <3>1. j - 1 \in 0 .. n - 1
      OBVIOUS
    <3>2. f[j - 1] \in Nat
      BY <3>1
    <3> QED
      BY <3>2
  <2> QED
    BY <2>1
<1>6. u \in [0 .. n -> Nat] /\ u[0] = 0
  BY <1>2, <1>4
<1>7. ASSUME NEW j \in 1 .. n PROVE u[j] = u[j - 1] + Len(s[j])
  <2>1. j - 1 \in X /\ j - 1 \in 0 .. n /\ j \in 0 .. n
    OBVIOUS
  <2>2. u[j] = SumFunctionOnSet(f, 0 .. j - 1) /\ u[j - 1] = G(j - 1)
    BY <2>1
  <2>3. SumFunctionOnSet(f, 0 .. j - 1) = G(j - 1) + f[j - 1]
    <3> HIDE DEF G, u, s, X
    <3> QED
      BY <1>3, <2>1
  <2> HIDE DEF u, s, X
  <2> QED
    BY <1>5, <2>2, <2>3
<1>8. u[i + 1] <= u[n]
  <2>1. i + 1 \in 0 .. n /\ n \in i + 1 .. n
    OBVIOUS
  <2> HIDE DEF s, u
  <2>2. PrefixLengths(u, s)
    BY <1>5, <1>6, <1>7 DEF PrefixLengths
  <2> QED
    BY <1>5, <2>1, <2>2, PrefixLengthsGrow
<1>9. /\ i \in X /\ i \in 0 .. n /\ i + 1 \in 0 .. n /\ n \in 0 .. n /\ (i + 1) - 1 = i
  OBVIOUS
<1>10. u[i + 1] = SumFunctionOnSet(f, 0 .. i) /\ u[n] = G(n)
  BY <1>9
<1> HIDE DEF u, X
<1> QED
  BY <1>2, <1>3, <1>8, <1>9, <1>10

\* The seek by command stays inside the bytes of the log.
LEMMA BytesBeforeBound ==
  ASSUME Inv, RingInv, buffer \in aesd_circular_buffer(Entry), buffer # NULL, NEW w \in Slots
  PROVE  /\ BytesBefore(w) \in Nat /\ buffer.entry[w].size \in Nat
         /\ BytesBefore(w) + buffer.entry[w].size <= Len(Device!Bytes)
<1>1. SlotSize(buffer) \in [Slots -> Nat] /\ get_buffer_size(buffer) = SumFunctionOnSet(SlotSize(buffer), Slots)
  BY EntryIs, SlotSizeType DEF RingInv
<1>2. MAX_WRITE_OPERATIONS \in Nat /\ Slots = 0 .. MAX_WRITE_OPERATIONS - 1
  BY MaxOpsAssumption DEF Slots
<1>3. BytesBefore(w) = SumFunctionOnSet(SlotSize(buffer), 0 .. w - 1) /\ SlotSize(buffer)[w] = buffer.entry[w].size
  BY DEF BytesBefore, SlotSize
<1>4. get_buffer_size(buffer) = Len(Device!Bytes)
  BY DeviceBytes
<1>5. /\ SumFunctionOnSet(SlotSize(buffer), 0 .. w - 1) \in Nat
      /\ SumFunctionOnSet(SlotSize(buffer), 0 .. w - 1) + SlotSize(buffer)[w]
           <= SumFunctionOnSet(SlotSize(buffer), 0 .. MAX_WRITE_OPERATIONS - 1)
  BY <1>1, <1>2, SumPrefix
<1>6. SlotSize(buffer)[w] \in Nat
  BY <1>1
<1> QED
  BY <1>1, <1>2, <1>3, <1>4, <1>5, <1>6

LEMMA SeekToRefines ==
  ASSUME Inv, DeviceInv, NEW p \in Proc, aesd_adjust_file_offset(p)
  PROVE  DeviceStep
<1> DEFINE w == call[p].write_cmd
           o == call[p].write_cmd_offset
           to == fixed_size_llseek(f_pos[p], BytesBefore(w) + o, "SEEK_SET", get_buffer_size(buffer))
<1>1. pc[p] = "adjust" /\ UNCHANGED <<Commands, Unfinished, call>> /\ CallerInv /\ RingInv
  BY SameMemory DEF aesd_adjust_file_offset, devVars, DeviceInv
<1>2. /\ buffer \in aesd_circular_buffer(Entry) /\ buffer # NULL /\ Device!Pending(p, "ioctl")
      /\ w \in Slots /\ o \in Nat
  <2>1. /\ buffer \in aesd_circular_buffer(Entry) /\ buffer # NULL
        /\ Device!Pending(p, call[p].op) /\ call[p] \in Request /\ Fits("adjust", call[p])
    BY <1>1, Undecided
  <2>2. call[p].op = "ioctl" /\ call[p].cmd = "AESDCHAR_IOCSEEKTO" /\ w < MAX_WRITE_OPERATIONS
    BY <2>1 DEF Fits
  <2>3. w \in Nat /\ o \in Nat
    BY <2>1, <2>2, RequestFields
  <2> QED
    BY <2>1, <2>2, <2>3, MaxOpsAssumption DEF Slots
<1>3. ASSUME Finish(p, "unlock", "EINVAL", 0, <<>>), f_pos' = f_pos
      PROVE  DeviceStep
  <2>1. Device!Fail(p, "EINVAL")
    BY <1>1, <1>3 DEF Device!Fail, Finish
  <2>2. Device!SeekTo(p)
    BY <1>2, <2>1 DEF Device!SeekTo
  <2> QED
    BY <2>2 DEF Device!Next, DeviceStep
<1>4. CASE /\ ~(o >= buffer.entry[w].size)
           /\ f_pos' = [f_pos EXCEPT ![p] = to.pos]
           /\ Finish(p, "unlock", to.err, 0, <<>>)
  <2>1. /\ BytesBefore(w) \in Nat /\ buffer.entry[w].size \in Nat
        /\ BytesBefore(w) + buffer.entry[w].size <= Len(Device!Bytes)
        /\ get_buffer_size(buffer) = Len(Device!Bytes) /\ Len(Device!Bytes) \in Nat
    BY <1>1, <1>2, BytesBeforeBound, DeviceBytes, CommandsType
  <2> DEFINE q == BytesBefore(w) + o
  <2>2. q \in 0 .. Len(Device!Bytes) - 1
    BY <1>2, <1>4, <2>1
  <2>3. to.pos = q /\ to.err = "ok"
    <3> HIDE DEF q
    <3>1. q \in Nat /\ q <= get_buffer_size(buffer)
      BY <2>1, <2>2
    <3>2. to = fixed_size_llseek(f_pos[p], q, "SEEK_SET", get_buffer_size(buffer))
      BY DEF q
    <3> HIDE DEF to
    <3> QED
      BY <3>1, <3>2 DEF fixed_size_llseek
  <2> HIDE DEF q, to
  <2>4. Device!Succeed(p, 0, <<>>) /\ f_pos' = [f_pos EXCEPT ![p] = q]
    BY <1>4, <2>3 DEF Device!Succeed, Finish
  <2>5. Device!SeekTo(p)
    BY <1>1, <1>2, <2>2, <2>4 DEF Device!SeekTo
  <2> QED
    BY <2>5 DEF Device!Next, DeviceStep
<1> QED
  BY <1>3, <1>4 DEF aesd_adjust_file_offset

\* The first n bytes of a block of a heap.
StoredIn(h, q, n) == IF n = 0 THEN <<>> ELSE SubSeq(h[q], 1, n)

LEMMA StoredInIs ==
  ASSUME NEW h, NEW q, h[q] \in Seq(Byte), NEW n \in Nat, n <= Len(h[q])
  PROVE  /\ StoredIn(h, q, n) \in Seq(Byte) /\ Len(StoredIn(h, q, n)) = n
         /\ StoredIn(h, q, n) = [k \in 1 .. n |-> h[q][k]]
<1>1. PICK s \in Seq(Byte) : s = h[q]
  OBVIOUS
<1>2. CASE n = 0
  BY <1>2 DEF StoredIn
<1>3. CASE n # 0
  BY <1>1, <1>3 DEF StoredIn
<1> QED
  BY <1>2, <1>3

LEMMA StoredSame ==
  ASSUME NEW h, NEW q, h[q] \in Seq(Byte), NEW g, NEW r, g[r] \in Seq(Byte), NEW n \in Nat,
         n <= Len(h[q]), n <= Len(g[r]), \A k \in 1 .. n : h[q][k] = g[r][k]
  PROVE  StoredIn(h, q, n) = StoredIn(g, r, n)
<1>1. StoredIn(h, q, n) = [k \in 1 .. n |-> h[q][k]] /\ StoredIn(g, r, n) = [k \in 1 .. n |-> g[r][k]]
  BY StoredInIs
<1> QED
  BY <1>1

\* The abstract state before and after a step.
LEMMA AbstractState ==
  /\ buffer # NULL => Commands = [i \in 1 .. EntryCount(buffer) |-> StoredIn(heap, Block(i), Size(i))]
  /\ Unfinished = IF tmp.ptr = NULL THEN <<>> ELSE StoredIn(heap, tmp.ptr, tmp.size)
  /\ buffer' # NULL =>
       Commands' = [i \in 1 .. EntryCount(buffer') |->
                      StoredIn(heap', Contents(buffer')[i].buffptr, Contents(buffer')[i].size)]
  /\ Unfinished' = IF tmp'.ptr = NULL THEN <<>> ELSE StoredIn(heap', tmp'.ptr, tmp'.size)
<1>1. buffer # NULL => Commands = [i \in 1 .. EntryCount(buffer) |-> StoredIn(heap, Block(i), Size(i))]
  BY DEF Commands, StoredBytes, StoredIn, Block, Size
<1>2. buffer' # NULL =>
       Commands' = [i \in 1 .. EntryCount(buffer') |->
                      StoredIn(heap', Contents(buffer')[i].buffptr, Contents(buffer')[i].size)]
  BY DEF Commands, StoredBytes, StoredIn, Contents, EntryCount, SlotOf
<1> QED
  BY <1>1, <1>2 DEF Unfinished, StoredBytes, StoredIn

LEMMA CommandsKept ==
  ASSUME Inv, RingInv, buffer # NULL, buffer' = buffer,
         \A i \in Slots : buffer.entry[i].buffptr # NULL =>
            heap'[buffer.entry[i].buffptr] = heap[buffer.entry[i].buffptr]
  PROVE  Commands' = Commands
<1>1. ASSUME NEW i \in 1 .. EntryCount(buffer)
      PROVE  StoredIn(heap', Block(i), Size(i)) = StoredIn(heap, Block(i), Size(i))
  <2>1. heap'[Block(i)] = heap[Block(i)]
    BY VisitedEntry DEF Block
  <2> QED
    BY <2>1 DEF StoredIn
<1>2. Commands' = [i \in 1 .. EntryCount(buffer) |-> StoredIn(heap', Block(i), Size(i))]
  BY AbstractState DEF Block, Size
<1> QED
  BY <1>1, <1>2, AbstractState

LEMMA WriteAllocRefines ==
  ASSUME "krealloc" \notin Faults, Inv, Inv', StoredInv, DeviceInv, NEW p \in Proc, WriteAlloc(p)
  PROVE  DeviceStep
<1>1. /\ pc[p] = "alloc" /\ UNCHANGED <<buffer, call, f_pos>> /\ CallerInv /\ RingInv
      /\ tmp'.size = tmp.size /\ tmp.size \in Nat /\ tmp.ptr \in Ptr \cup {NULL}
  BY AllocEffect DEF WriteAlloc, DeviceInv, Inv, ControlInv, TypeOK
<1>2. buffer # NULL
  BY <1>1, Undecided
<1>3. Commands' = Commands
  BY <1>1, <1>2, CommandsKept, EntryBlocksKept
<1>4. Unfinished' = Unfinished
  <2>1. CASE tmp.size = 0
    BY <1>1, <2>1, AbstractState DEF StoredIn
  <2>2. CASE tmp.size # 0
    <3>1. tmp.ptr # NULL /\ tmp.ptr \in Ptr /\ tmp.size < Len(heap[tmp.ptr])
      BY <1>1, <2>2 DEF StoredInv, TmpInv
    <3>2. heap[tmp.ptr] \in Seq(Byte)
      BY <3>1 DEF Inv, ControlInv, TypeOK, BlockInv
    <3>3. Len(heap[tmp.ptr]) \in Nat
      BY <3>2
    <3>4. /\ tmp'.ptr \in Ptr /\ heap'[tmp'.ptr] \in Seq(Byte)
          /\ Len(heap'[tmp'.ptr]) = tmp.size + Len(call[p].data) + 1
          /\ \A k \in 1 .. tmp.size : k <= Len(heap[tmp.ptr]) => heap'[tmp'.ptr][k] = heap[tmp.ptr][k]
      BY <2>2, <3>1, AllocEffect
    <3>5. Len(call[p].data) \in Nat
      BY <1>1, WritePayload
    <3>6. /\ tmp.size <= Len(heap[tmp.ptr]) /\ tmp.size <= Len(heap'[tmp'.ptr])
          /\ \A k \in 1 .. tmp.size : heap'[tmp'.ptr][k] = heap[tmp.ptr][k]
      BY <1>1, <3>1, <3>3, <3>4, <3>5
    <3>7. StoredIn(heap', tmp'.ptr, tmp.size) = StoredIn(heap, tmp.ptr, tmp.size)
      <4>1. PICK q \in Ptr, r \in Ptr, n \in Nat : q = tmp'.ptr /\ r = tmp.ptr /\ n = tmp.size
        BY <1>1, <3>1, <3>4
      <4>2. /\ heap'[q] \in Seq(Byte) /\ heap[r] \in Seq(Byte)
            /\ n <= Len(heap'[q]) /\ n <= Len(heap[r]) /\ \A k \in 1 .. n : heap'[q][k] = heap[r][k]
        BY <3>2, <3>4, <3>6, <4>1
      <4>3. StoredIn(heap', q, n) = StoredIn(heap, r, n)
        BY <4>2, StoredSame
      <4> QED
        BY <4>1, <4>3
    <3>8. tmp'.ptr # NULL
      BY <3>4, PtrAssumption
    <3> QED
      BY <1>1, <3>1, <3>7, <3>8, AbstractState
  <2> QED
    BY <2>1, <2>2
<1>5. CASE reply' = reply
  BY <1>1, <1>3, <1>4, <1>5 DEF DeviceStep
<1>6. CASE Finish(p, "unlock", "ENOMEM", 0, <<>>)
  BY <1>1, <1>3, <1>4, <1>6, RefuseStep
<1> QED
  BY <1>5, <1>6 DEF WriteAlloc

LEMMA WriteCopyRefines ==
  ASSUME Inv, StoredInv, DeviceInv, NEW p \in Proc, WriteCopy(p)
  PROVE  DeviceStep
<1>1. /\ pc[p] = "copy_from_user" /\ UNCHANGED <<buffer, tmp, call, f_pos>> /\ CallerInv /\ RingInv
      /\ heap'[tmp.ptr] \in Seq(Byte) /\ Len(heap'[tmp.ptr]) = Len(heap[tmp.ptr])
      /\ \A k \in 1 .. tmp.size : heap'[tmp.ptr][k] = heap[tmp.ptr][k]
  BY CopyEffect DEF WriteCopy, DeviceInv
<1>2. buffer # NULL
  BY <1>1, Undecided
<1>3. Commands' = Commands
  BY <1>1, <1>2, CommandsKept, EntryBlocksKept
<1>4. Unfinished' = Unfinished
  <2>1. tmp.ptr \in Ptr /\ tmp.ptr # NULL /\ tmp.size \in Nat /\ heap[tmp.ptr] \in Seq(Byte)
    BY <1>1, Writing, PtrAssumption
  <2>2. tmp.size <= Len(heap[tmp.ptr])
    <3>1. tmp.size < Len(heap[tmp.ptr]) /\ Len(heap[tmp.ptr]) \in Nat
      BY <2>1 DEF StoredInv, TmpInv
    <3> QED
      BY <2>1, <3>1
  <2>3. StoredIn(heap', tmp.ptr, tmp.size) = StoredIn(heap, tmp.ptr, tmp.size)
    BY <1>1, <2>1, <2>2, StoredSame
  <2> QED
    BY <1>1, <2>3, AbstractState
<1>5. CASE reply' = reply
  BY <1>1, <1>3, <1>4, <1>5 DEF DeviceStep
<1>6. CASE Finish(p, "unlock", "EFAULT", 0, <<>>)
  BY <1>1, <1>3, <1>4, <1>6, RefuseStep
<1> QED
  BY <1>5, <1>6 DEF WriteCopy

LEMMA SeqIsFunction ==
  ASSUME NEW S, NEW s \in Seq(S)
  PROVE  s = [k \in 1 .. Len(s) |-> s[k]]
OBVIOUS

LEMMA TailParts ==
  ASSUME NEW S, NEW s \in Seq(S), NEW n \in Nat \ {0}, Len(s) = n
  PROVE  Tail(s) \in Seq(S) /\ Len(Tail(s)) = n - 1 /\ \A i \in 1 .. n - 1 : Tail(s)[i] = s[i + 1]
OBVIOUS

LEMMA AppendParts ==
  ASSUME NEW S, NEW s \in Seq(S), NEW e \in S, NEW n \in Nat, Len(s) = n
  PROVE  Append(s, e) = [i \in 1 .. n + 1 |-> IF i <= n THEN s[i] ELSE e]
<1>1. Append(s, e) \in Seq(S) /\ Len(Append(s, e)) = n + 1
  OBVIOUS
<1>2. Append(s, e) = [i \in 1 .. n + 1 |-> Append(s, e)[i]]
  BY <1>1, SeqIsFunction
<1>3. \A i \in 1 .. n + 1 : Append(s, e)[i] = IF i <= n THEN s[i] ELSE e
  OBVIOUS
<1> QED
  BY <1>2, <1>3

\* The bytes that a write commits: the unfinished command and its own.
LEMMA CommittedBytes ==
  ASSUME Inv, StoredInv, NEW p \in Proc, WriteCommit(p)
  PROVE  /\ StoredIn(heap', tmp.ptr, NewSize(p)) = Unfinished \o call[p].data
         /\ Unfinished \o call[p].data \in Seq(Byte)
<1>1. /\ pc[p] = "commit" /\ tmp.ptr \in Ptr
      /\ heap'[tmp.ptr] = NewBlock(p) /\ Len(NewBlock(p)) = Len(heap[tmp.ptr])
      /\ NewSize(p) \in Nat /\ NewSize(p) < Len(heap[tmp.ptr])
      /\ \A k \in 1 .. NewSize(p) : NewBlock(p)[k] = heap[tmp.ptr][k]
  BY CommitEffect
<1>2. PICK s \in Seq(Byte) : s = heap[tmp.ptr]
  BY <1>1, Writing
<1>3. PICK d \in Seq(Byte) : d = call[p].data
  BY <1>1, WriteData DEF Inv
<1>4. PICK n \in Nat : n = tmp.size
  BY DEF Inv, ControlInv, TypeOK
<1>5. NewSize(p) = n + Len(d) /\ n + Len(d) < Len(s)
  BY <1>1, <1>2, <1>3, <1>4 DEF NewSize
<1>6. \A k \in 1 .. Len(d) : s[n + k] = d[k]
  BY <1>1, <1>2, <1>3, <1>4 DEF StoredInv, CopiedInv
<1>7. PICK u \in Seq(Byte) : u = Unfinished /\ u = [k \in 1 .. n |-> s[k]] /\ Len(u) = n
  <2>1. Unfinished = StoredIn(heap, tmp.ptr, tmp.size)
    BY <1>1, AbstractState, PtrAssumption
  <2>2. heap[tmp.ptr] \in Seq(Byte) /\ tmp.size \in Nat /\ tmp.size <= Len(heap[tmp.ptr])
    BY <1>2, <1>4, <1>5
  <2> QED
    BY <1>2, <1>4, <2>1, <2>2, StoredInIs
<1>8. StoredIn(heap', tmp.ptr, NewSize(p)) = [k \in 1 .. n + Len(d) |-> s[k]]
  <2>1. heap'[tmp.ptr] \in Seq(Byte)
    <3>1. NewBlock(p) = [s EXCEPT ![(n + Len(d)) + 1] = NUL]
      BY <1>2, <1>5 DEF NewBlock
    <3>2. n + Len(d) \in Nat
      OBVIOUS
    <3>3. [s EXCEPT ![(n + Len(d)) + 1] = NUL] \in Seq(Byte)
      BY <1>5, <3>2, TerminatedType
    <3> QED
      BY <1>1, <3>1, <3>3
  <2>2. NewSize(p) <= Len(heap'[tmp.ptr])
    BY <1>1, <1>2
  <2>3. StoredIn(heap', tmp.ptr, NewSize(p)) = [k \in 1 .. NewSize(p) |-> heap'[tmp.ptr][k]]
    <3>1. PICK q \in Ptr, m \in Nat : q = tmp.ptr /\ m = NewSize(p)
      BY <1>1
    <3>2. StoredIn(heap', q, m) = [k \in 1 .. m |-> heap'[q][k]]
      <4>1. heap'[q] \in Seq(Byte) /\ m <= Len(heap'[q])
        BY <2>1, <2>2, <3>1
      <4> QED
        BY <4>1, StoredInIs
    <3> QED
      BY <3>1, <3>2
  <2>4. \A k \in 1 .. NewSize(p) : heap'[tmp.ptr][k] = s[k]
    BY <1>1, <1>2
  <2> QED
    BY <1>5, <2>3, <2>4
<1>9. u \o d = [k \in 1 .. n + Len(d) |-> s[k]]
  <2>1. u \o d \in Seq(Byte) /\ Len(u \o d) = n + Len(d)
    BY <1>7
  <2>2. ASSUME NEW k \in 1 .. n + Len(d) PROVE (u \o d)[k] = s[k]
    <3>1. CASE k <= n
      BY <1>7, <3>1
    <3>2. CASE k > n
      <4>1. k - n \in 1 .. Len(d) /\ n + (k - n) = k
        BY <3>2
      <4>2. (u \o d)[k] = d[k - n]
        BY <1>7, <3>2
      <4> QED
        BY <1>6, <4>1, <4>2
    <3>3. k <= n \/ k > n
      OBVIOUS
    <3> QED
      BY <3>1, <3>2, <3>3, Zenon
  <2>3. u \o d = [k \in 1 .. Len(u \o d) |-> (u \o d)[k]]
    BY <2>1, SeqIsFunction
  <2> QED
    BY <2>1, <2>2, <2>3
<1>10. Unfinished \o call[p].data = u \o d /\ u \o d \in Seq(Byte)
  BY <1>3, <1>7
<1>11. StoredIn(heap', tmp.ptr, NewSize(p)) = u \o d
  BY <1>8, <1>9
<1> QED
  BY <1>10, <1>11

\* A command is finished exactly when the data of the write ends with a newline.
LEMMA FinishedBy ==
  ASSUME NL \notin StrayBytes \/ <<>> \notin Payloads, Inv, StoredInv, TailInv, NEW p \in Proc, WriteCommit(p)
  PROVE  /\ NL \in LastByte(NewBlock(p), NewSize(p)) =>
              call[p].data # <<>> /\ call[p].data[Len(call[p].data)] = NL
         /\ (\E last \in LastByte(NewBlock(p), NewSize(p)) : last # NL) =>
              ~(call[p].data # <<>> /\ call[p].data[Len(call[p].data)] = NL)
<1>1. /\ pc[p] = "commit" /\ tmp.ptr \in Ptr /\ NewSize(p) \in Nat
      /\ \A k \in 1 .. NewSize(p) : NewBlock(p)[k] = heap[tmp.ptr][k]
  BY CommitEffect
<1>2. PICK d \in Seq(Byte) : d = call[p].data
  BY <1>1, WriteData DEF Inv
<1>3. PICK n \in Nat : n = tmp.size
  BY DEF Inv, ControlInv, TypeOK
<1>4. NewSize(p) = n + Len(d) /\ Len(d) \in Nat
  BY <1>2, <1>3 DEF NewSize
<1>5. CASE d = <<>>
  <2>1. Len(d) = 0
    BY <1>5
  <2>2. NewSize(p) = n
    BY <1>4, <2>1
  <2>3. CASE n = 0
    <3>1. NL \notin StrayBytes
      BY <1>1, <1>2, <1>5, WritePayload
    <3> QED
      BY <1>2, <1>5, <2>2, <2>3, <3>1 DEF LastByte
  <2>4. CASE n # 0
    <3>1. NewBlock(p)[n] = heap[tmp.ptr][n]
      BY <1>1, <2>2, <2>4
    <3>2. heap[tmp.ptr][n] # NL
      BY <1>1, <1>3, <2>4, PtrAssumption DEF TailInv
    <3> QED
      BY <1>2, <1>5, <2>2, <2>4, <3>1, <3>2 DEF LastByte
  <2> QED
    BY <2>3, <2>4
<1>6. CASE d # <<>>
  <2>1. Len(d) \in 1 .. Len(d) /\ n + Len(d) \in 1 .. n + Len(d) /\ n + Len(d) # 0
    BY <1>4, <1>6
  <2>2. heap[tmp.ptr][n + Len(d)] = d[Len(d)]
    BY <1>1, <1>2, <1>3, <2>1 DEF StoredInv, CopiedInv
  <2>3. NewBlock(p)[NewSize(p)] = d[Len(d)] /\ NewSize(p) # 0
    BY <1>1, <1>4, <2>1, <2>2
  <2> QED
    BY <1>2, <1>6, <2>3 DEF LastByte
<1> QED
  BY <1>5, <1>6

\* The commands once a finished one has been added.
LEMMA CommandsGrow ==
  ASSUME Inv, RingInv, StoredInv, NEW p \in Proc, WriteCommit(p), CommandAdded(p),
         buffer' = aesd_circular_buffer_add_entry(buffer, NewEntry(p))
  PROVE  Commands' = Append(IF Len(Commands) = MAX_WRITE_OPERATIONS THEN Tail(Commands) ELSE Commands,
                            Unfinished \o call[p].data)
<1> DEFINE n == EntryCount(buffer)
           cmd == Unfinished \o call[p].data
           c == IF Len(Commands) = MAX_WRITE_OPERATIONS THEN Tail(Commands) ELSE Commands
           shift == IF buffer.full THEN 1 ELSE 0
<1>1. /\ buffer \in aesd_circular_buffer(Entry) /\ buffer # NULL /\ Disciplined(buffer, Entry)
      /\ tmp.ptr \in Ptr /\ NewSize(p) \in Nat /\ NewEntry(p) \in Entry
  BY CommitEffect DEF RingInv, NewEntry, Entry
<1>2. /\ buffer' \in aesd_circular_buffer(Entry) /\ Disciplined(buffer', Entry) /\ buffer' # NULL
  BY <1>1, AddEntryDisciplined, NullAssumption
<1>3. /\ n \in 0 .. MAX_WRITE_OPERATIONS /\ Len(Contents(buffer)) = n /\ Contents(buffer) \in Seq(Entry)
      /\ Len(Contents(buffer')) = EntryCount(buffer') /\ Contents(buffer') \in Seq(Entry)
      /\ MAX_WRITE_OPERATIONS \in Nat
  BY <1>1, <1>2, ContentsLemma, MaxOpsAssumption
<1>4. /\ Commands \in Seq(Seq(Byte)) /\ Len(Commands) = n
      /\ Commands = [i \in 1 .. n |-> StoredIn(heap, Block(i), Size(i))]
  BY <1>1, CommandsIs, AbstractState
<1>5. cmd \in Seq(Byte) /\ StoredIn(heap', tmp.ptr, NewSize(p)) = cmd
  BY CommittedBytes
<1>6. buffer.full \in BOOLEAN /\ buffer.in_offs \in Slots /\ shift \in {0, 1}
  BY <1>1 DEF aesd_circular_buffer
<1>7. /\ n = MAX_WRITE_OPERATIONS <=> buffer.full
      /\ n - shift \in Nat
      /\ EntryCount(buffer') = (n - shift) + 1
      /\ Contents(buffer')[(n - shift) + 1] = NewEntry(p)
      /\ \A i \in 1 .. n - shift : Contents(buffer')[i] = Contents(buffer)[i + shift]
  <2>1. CASE ~buffer.full
    <3>1. Contents(buffer') = Append(Contents(buffer), NewEntry(p)) /\ n < MAX_WRITE_OPERATIONS
      BY <1>1, <1>3, <2>1, AddEntryAppends
    <3>2. shift = 0 /\ n - shift = n /\ n \in Nat
      BY <1>3, <2>1
    <3> HIDE DEF n, shift
    <3> QED
      BY <1>3, <2>1, <3>1, <3>2
  <2>2. CASE buffer.full
    <3>1. Contents(buffer') = Append(Tail(Contents(buffer)), NewEntry(p)) /\ n = MAX_WRITE_OPERATIONS
      BY <1>1, <1>3, <2>2, AddEntryDropsOldest
    <3>2. shift = 1 /\ n \in Nat \ {0}
      BY <2>2, <3>1, MaxOpsAssumption
    <3> HIDE DEF n, shift
    <3>3. PICK t \in Seq(Entry) : t = Tail(Contents(buffer)) /\ Len(t) = n - 1 /\ \A i \in 1 .. n - 1 : t[i] = Contents(buffer)[i + 1]
      BY <1>3, <3>2, TailParts
    <3> QED
      BY <1>3, <2>2, <3>1, <3>2, <3>3
  <2> QED
    BY <1>6, <2>1, <2>2
<1>8. /\ c \in Seq(Seq(Byte)) /\ Len(c) = n - shift
      /\ \A i \in 1 .. n - shift : c[i] = Commands[i + shift]
  <2>1. CASE ~buffer.full
    <3>1. c = Commands /\ shift = 0
      BY <1>4, <1>7, <2>1
    <3> HIDE DEF n, shift, c
    <3> QED
      BY <1>3, <1>4, <3>1
  <2>2. CASE buffer.full
    <3>1. c = Tail(Commands) /\ shift = 1 /\ n \in Nat \ {0}
      BY <1>4, <1>7, <2>2, MaxOpsAssumption
    <3> HIDE DEF n, shift, c
    <3>2. c \in Seq(Seq(Byte)) /\ Len(c) = n - 1 /\ \A i \in 1 .. n - 1 : c[i] = Commands[i + 1]
      BY <1>4, <3>1, TailParts
    <3> QED
      BY <3>1, <3>2
  <2> QED
    BY <1>6, <2>1, <2>2
<1>9. ASSUME NEW i \in 1 .. n - shift
      PROVE  /\ i + shift \in 1 .. n
             /\ heap'[Block(i + shift)] = heap[Block(i + shift)]
  <2>1. i + shift \in 1 .. n /\ (i + shift) - 1 \in 0 .. n - 1
    BY <1>3, <1>6
  <2> HIDE DEF shift
  <2>2. PICK j \in 1 .. n : j = i + shift
    BY <2>1
  <2>3. /\ SlotOf(buffer, j - 1) \in Slots /\ Block(j) # NULL
        /\ Block(j) = buffer.entry[SlotOf(buffer, j - 1)].buffptr
    BY <1>1, VisitedEntry DEF Block
  <2>4. SlotOf(buffer, j - 1) # buffer.in_offs
    <3>1. SlotOf(buffer, j - 1) = IF ~buffer.full THEN j - 1
                                  ELSE IF buffer.in_offs + (j - 1) < MAX_WRITE_OPERATIONS THEN buffer.in_offs + (j - 1)
                                  ELSE buffer.in_offs + (j - 1) - MAX_WRITE_OPERATIONS
      BY <1>1, <2>1, <2>2, SlotOfLemma
    <3>2. n = IF buffer.full THEN MAX_WRITE_OPERATIONS ELSE buffer.in_offs
      BY DEF EntryCount
    <3>3. buffer.in_offs \in 0 .. MAX_WRITE_OPERATIONS - 1
      BY <1>6 DEF Slots
    <3>4. buffer.full => j > 1
      BY <2>2 DEF shift
    <3> HIDE DEF n
    <3> QED
      BY <1>3, <3>1, <3>2, <3>3, <3>4
  <2>5. heap'[Block(j)] = heap[Block(j)]
    BY <1>1, <2>3, <2>4, EntryBlocksKept
  <2> QED
    BY <2>1, <2>2, <2>5
<1>10. Commands' = [i \in 1 .. (n - shift) + 1 |->
                      StoredIn(heap', Contents(buffer')[i].buffptr, Contents(buffer')[i].size)]
  BY <1>2, <1>7, AbstractState
<1>11. ASSUME NEW i \in 1 .. n - shift
       PROVE  Commands'[i] = c[i]
  <2> HIDE DEF n, shift, c
  <2>1. Contents(buffer')[i].buffptr = Block(i + shift) /\ Contents(buffer')[i].size = Size(i + shift)
    BY <1>7 DEF Block, Size
  <2>2. i \in 1 .. (n - shift) + 1
    BY <1>7
  <2>3. Commands'[i] = StoredIn(heap', Block(i + shift), Size(i + shift))
    BY <1>10, <2>1, <2>2
  <2>4. c[i] = StoredIn(heap, Block(i + shift), Size(i + shift))
    BY <1>4, <1>8, <1>9
  <2> QED
    BY <1>9, <2>3, <2>4 DEF StoredIn
<1>12. Commands'[(n - shift) + 1] = cmd
  <2> HIDE DEF n, shift, cmd
  <2>1. (n - shift) + 1 \in 1 .. (n - shift) + 1
    BY <1>7
  <2>2. Commands'[(n - shift) + 1] = StoredIn(heap', NewEntry(p).buffptr, NewEntry(p).size)
    BY <1>7, <1>10, <2>1
  <2> QED
    BY <1>5, <2>2 DEF NewEntry
<1> HIDE DEF n, shift, cmd, c
<1>13. PICK m \in Nat : m = n - shift
  BY <1>7
<1>14. Commands' = [i \in 1 .. m + 1 |-> IF i <= m THEN c[i] ELSE cmd]
  <2>1. Commands' = [i \in 1 .. m + 1 |-> Commands'[i]]
    BY <1>10, <1>13
  <2>2. ASSUME NEW i \in 1 .. m + 1 PROVE Commands'[i] = IF i <= m THEN c[i] ELSE cmd
    <3>1. CASE i <= m
      BY <1>11, <1>13, <3>1
    <3>2. CASE ~(i <= m)
      <4>1. i = m + 1
        BY <3>2
      <4> QED
        BY <1>12, <1>13, <3>2, <4>1
    <3> QED
      BY <3>1, <3>2
  <2> QED
    BY <2>1, <2>2
<1>15. Commands' = Append(c, cmd)
  <2>1. c \in Seq(Seq(Byte)) /\ Len(c) = m
    BY <1>8, <1>13
  <2>2. Append(c, cmd) = [i \in 1 .. m + 1 |-> IF i <= m THEN c[i] ELSE cmd]
    BY <1>5, <2>1, AppendParts
  <2> QED
    BY <1>14, <2>2
<1> QED
  BY <1>15 DEF c, cmd

LEMMA WriteCommitRefines ==
  ASSUME NL \notin StrayBytes \/ <<>> \notin Payloads, Inv, StoredInv, DeviceInv, NEW p \in Proc, WriteCommit(p)
  PROVE  DeviceStep
<1> DEFINE data == call[p].data
           cmd == Unfinished \o data
           Ends == data # <<>> /\ data[Len(data)] = NL
<1>1. /\ pc[p] = "commit" /\ call' = call /\ CallerInv /\ RingInv /\ TailInv
      /\ tmp.ptr \in Ptr /\ tmp.ptr # NULL
  BY CommitEffect, PtrAssumption DEF DeviceInv
<1>2. buffer # NULL /\ Device!Pending(p, "write")
  BY <1>1, Undecided DEF Fits
<1>3. /\ f_pos' = [f_pos EXCEPT ![p] = @ + Len(data)]
      /\ Device!Succeed(p, Len(data), <<>>)
  BY DEF WriteCommit, Finish, Device!Succeed
<1>4. Device!Write(p) <=>
        /\ Device!Pending(p, "write")
        /\ IF Ends
             THEN /\ Commands' = Append(IF Len(Commands) = MAX_WRITE_OPERATIONS THEN Tail(Commands) ELSE Commands, cmd)
                  /\ Unfinished' = <<>>
             ELSE Commands' = Commands /\ Unfinished' = cmd
        /\ Device!Succeed(p, Len(data), <<>>)
        /\ f_pos' = [f_pos EXCEPT ![p] = @ + Len(data)]
        /\ call' = call
  BY Zenon DEF Device!Write, Device!Last
<1>5. /\ NL \in LastByte(NewBlock(p), NewSize(p)) => Ends
      /\ (\E last \in LastByte(NewBlock(p), NewSize(p)) : last # NL) => ~Ends
  BY <1>1, FinishedBy
<1>6. CASE /\ CommandAdded(p) /\ NL \in LastByte(NewBlock(p), NewSize(p))
           /\ buffer' = aesd_circular_buffer_add_entry(buffer, NewEntry(p))
  <2>1. Unfinished' = <<>>
    BY <1>6, AbstractState DEF CommandAdded
  <2>2. Commands' = Append(IF Len(Commands) = MAX_WRITE_OPERATIONS THEN Tail(Commands) ELSE Commands, cmd)
    BY <1>1, <1>6, CommandsGrow
  <2> HIDE DEF Ends, cmd, data
  <2>3. Device!Write(p)
    BY <1>1, <1>2, <1>3, <1>4, <1>5, <1>6, <2>1, <2>2, Zenon
  <2> QED
    BY <2>3 DEF Device!Next, DeviceStep
<1>7. CASE CommandKept(p) /\ \E last \in LastByte(NewBlock(p), NewSize(p)) : last # NL
  <2>1. buffer' = buffer /\ tmp'.ptr = tmp.ptr /\ tmp'.size = NewSize(p)
    BY <1>7 DEF CommandKept
  <2>2. Unfinished' = cmd
    BY <1>1, <2>1, AbstractState, CommittedBytes
  <2>3. Commands' = Commands
    BY <1>1, <1>2, <1>7, <2>1, CommandsKept, EntryBlocksKept
  <2> HIDE DEF Ends, cmd, data
  <2>4. Device!Write(p)
    BY <1>1, <1>2, <1>3, <1>4, <1>5, <1>7, <2>2, <2>3, Zenon
  <2> QED
    BY <2>4 DEF Device!Next, DeviceStep
<1> QED
  BY <1>6, <1>7, CommitKinds

LEMMA NextRefines ==
  ASSUME "krealloc" \notin Faults, NL \notin StrayBytes \/ <<>> \notin Payloads,
         Inv, Inv', StoredInv, DeviceInv, [Next]_vars
  PROVE  [Device!Next]_<<Commands, Unfinished, f_pos, call, reply>>
<1>1. CASE UNCHANGED vars
  <2>1. UNCHANGED <<buffer, tmp, heap, f_pos, call, reply>>
    BY <1>1 DEF vars, devVars, procVars
  <2> QED
    BY <2>1, SameMemory
<1>2. CASE Next
  <2>1. DeviceStep
    <3>1. CASE ModuleStep
      BY <3>1, ModuleRefines
    <3>2. ASSUME NEW p \in Proc,
                 \/ aesd_open(p) \/ aesd_release(p) \/ (\E r \in Request : Invoke(p, r))
                 \/ Lock(p) \/ Unlock(p) \/ Return(p) \/ Interrupted(p) \/ aesd_ioctl(p)
          PROVE  DeviceStep
      BY <3>2, CallsRefine
    <3>3. ASSUME NEW p \in Proc, ReadFind(p) \/ ReadCopy(p)
          PROVE  DeviceStep
      BY <3>3, ReadFindRefines, ReadCopyRefines
    <3>4. ASSUME NEW p \in Proc, WriteAlloc(p) \/ WriteCopy(p) \/ WriteCommit(p)
          PROVE  DeviceStep
      BY <3>4, WriteAllocRefines, WriteCopyRefines, WriteCommitRefines
    <3>5. ASSUME NEW p \in Proc, aesd_llseek(p) \/ aesd_adjust_file_offset(p)
          PROVE  DeviceStep
      BY <3>5, LseekRefines, SeekToRefines
    <3> QED
      BY <1>2, <3>1, <3>2, <3>3, <3>4, <3>5 DEF Next, Step, ModuleStep
  <2> QED
    BY <2>1 DEF DeviceStep
<1> QED
  BY <1>1, <1>2

LEMMA InitRefines == Init => Device!Init
BY DEF Init, Device!Init, Commands, Unfinished

(***************************************************************************)
(* The driver implements the command device (main.c, all file operations): *)
(* every call takes effect at one instant between its invocation and its   *)
(* return, reads return the bytes of the log, a write appends as a whole,  *)
(* a failing call changes nothing.  The hypotheses exclude the failure     *)
(* that loses the unfinished command (krealloc) and the empty write that   *)
(* finishes a command by what happens to lie in front of its block.        *)
(***************************************************************************)
THEOREM DriverImplementsCommandDevice ==
  ASSUME "krealloc" \notin Faults, NL \notin StrayBytes \/ <<>> \notin Payloads
  PROVE  Spec => ImplementsCommandDevice
<1>1. Init => Device!Init
  BY InitRefines
<1>2. Init => StoredInv /\ DeviceInv
  BY InitDevice
<1>3. Inv /\ StoredInv /\ DeviceInv /\ [Next]_vars => StoredInv' /\ DeviceInv'
  BY StoredStep, DeviceInvStep
<1>4. Inv /\ Inv' /\ StoredInv /\ DeviceInv /\ [Next]_vars
        => [Device!Next]_<<Commands, Unfinished, f_pos, call, reply>>
  BY NextRefines
<1> QED
  BY <1>1, <1>2, <1>3, <1>4, InvHolds, PTL
  DEF Spec, ImplementsCommandDevice, Device!Spec, Device!vars

-----------------------------------------------------------------------------
(***************************************************************************)
(* The seek by command.                                                    *)
(***************************************************************************)

\* Until the array is full the slots are in the order of the commands.
LEMMA OldestBytes ==
  ASSUME Inv, RingInv, buffer # NULL, buffer.out_offs = 0, NEW w \in 0 .. EntryCount(buffer)
  PROVE  SizeOfOldest(w) = BytesBefore(w)
<1> DEFINE n == EntryCount(buffer)
           f == SlotSize(buffer)
           g == [i \in 1 .. n |-> Contents(buffer)[i].size]
           F(k) == SumFunctionOnSet(f, 0 .. k - 1)
           G(k) == SumFunctionOnSet(g, 1 .. k)
           D == {k \in 0 .. n : F(k) # G(k)}
<1>1. /\ buffer \in aesd_circular_buffer(Entry) /\ Disciplined(buffer, Entry)
      /\ f \in [Slots -> Nat] /\ MAX_WRITE_OPERATIONS \in Nat
  <2>1. buffer \in aesd_circular_buffer(Entry) /\ Disciplined(buffer, Entry)
    BY DEF Inv, ControlInv, TypeOK, RingInv
  <2> QED
    BY <2>1, EntryIs, SlotSizeType
<1>2. n \in 0 .. MAX_WRITE_OPERATIONS /\ n \in Nat /\ Slots = 0 .. MAX_WRITE_OPERATIONS - 1
  BY <1>1, MaxOpsAssumption DEF EntryCount, aesd_circular_buffer, Slots
<1>3. ASSUME NEW i \in 1 .. n PROVE g[i] = f[i - 1] /\ g[i] \in Nat /\ i - 1 \in Slots
  <2>1. i - 1 \in 0 .. n - 1 /\ i - 1 \in Slots
    BY <1>1, <1>2
  <2>2. SlotOf(buffer, i - 1) = i - 1
    <3>1. buffer.full => buffer.in_offs = 0
      BY <1>1 DEF Disciplined
    <3> QED
      BY <1>1, <1>2, <2>1, <3>1, SlotOfLemma
  <2>3. Contents(buffer)[i] = buffer.entry[i - 1]
    BY <1>1, <2>2, ContentsLemma
  <2> QED
    BY <1>1, <2>1, <2>3 DEF SlotSize
<1>4. g \in [1 .. n -> Nat] /\ IsFiniteSet(1 .. n)
  <2>1. g = [i \in 1 .. n |-> g[i]]
    OBVIOUS
  <2>2. IsFiniteSet(1 .. n)
    BY <1>2, FS_Interval
  <2> HIDE DEF g, n, f
  <2> QED
    BY <1>3, <2>1, <2>2
<1>5. F(0) = 0 /\ G(0) = 0
  <2>1. 0 .. 0 - 1 = {} /\ 1 .. 0 = {}
    OBVIOUS
  <2> QED
    BY <2>1, SumEmpty
<1>6. ASSUME NEW k \in 0 .. n - 1, F(k) = G(k) PROVE F(k + 1) = G(k + 1)
  <2>1. F(k) \in Nat /\ SumFunctionOnSet(f, 0 .. k) = F(k) + f[k]
    <3>1. k \in 0 .. MAX_WRITE_OPERATIONS - 1
      BY <1>1, <1>2
    <3> HIDE DEF f
    <3> QED
      BY <1>1, <1>2, <3>1, SumPrefix
  <2> DEFINE R == 1 .. k
             X == 1 .. n
             x == k + 1
  <2>2. 1 .. k + 1 = R \cup {x} /\ R \in SUBSET X /\ x \in X /\ x \notin R
    BY <1>2
  <2>2a. IsFiniteSet(X) /\ g \in [X -> Nat]
    BY <1>4
  <2> HIDE DEF R, X, x, g
  <2>3. SumFunctionOnSet(g, R \cup {x}) = g[x] + SumFunctionOnSet(g, R)
    BY <2>2, <2>2a, SumInsert
  <2>4. G(k + 1) = g[k + 1] + G(k)
    BY <2>2, <2>3, Zenon DEF R, x
  <2>5. g[k + 1] = f[k] /\ f[k] \in Nat
    <3>1. (k + 1) - 1 = k
      BY <1>2
    <3> QED
      BY <1>3, <2>2, <3>1 DEF X, x
  <2>6. (k + 1) - 1 = k
    BY <1>2
  <2>7. F(k + 1) = SumFunctionOnSet(f, 0 .. k)
    BY <2>6, Zenon
  <2> HIDE DEF F, G, f, g
  <2> QED
    BY <1>6, <2>1, <2>4, <2>5, <2>7
<1>7. D = {}
  <2> SUFFICES ASSUME D # {} PROVE FALSE
    OBVIOUS
  <2>1. D \in SUBSET Nat
    BY <1>2
  <2>2. PICK k \in D : \A j \in D : k <= j
    BY <2>1, LeastElement
  <2> HIDE DEF F, G, f, g, n
  <2>3. k # 0 /\ k \in 0 .. n /\ F(k) # G(k)
    BY <1>5
  <2>4. k - 1 \in 0 .. n - 1 /\ k - 1 \in 0 .. n /\ (k - 1) + 1 = k
    BY <1>2, <2>3
  <2>5. k - 1 \notin D
    <3> HIDE DEF D
    <3> QED
      BY <1>2, <2>2, <2>3
  <2>6. F(k - 1) = G(k - 1)
    BY <2>4, <2>5
  <2>7. F((k - 1) + 1) = G((k - 1) + 1)
    BY <1>6, <2>4, <2>6
  <2> QED
    BY <2>3, <2>4, <2>7
<1>8. F(w) = G(w)
  BY <1>7
<1> QED
  BY <1>8 DEF SizeOfOldest, BytesBefore, SlotSize

\* Nobody but the process itself takes it out of the seek.
LEMMA SeekIsAdjust ==
  ASSUME Inv, [Next]_vars, NEW p \in Proc, pc[p] = "adjust", pc'[p] = "unlock"
  PROVE  aesd_adjust_file_offset(p)
<1>0. pc \in [Proc -> Labels]
  BY DEF Inv, ControlInv, TypeOK, Labels, Critical
<1>1. CASE ModuleStep
  BY <1>1, ModuleStepEffect
<1>2. CASE UNCHANGED vars
  BY <1>2 DEF vars, procVars
<1>3. ASSUME NEW q \in Proc, aesd_open(q) \/ aesd_release(q)
      PROVE  FALSE
  BY <1>3 DEF aesd_open, aesd_release
<1>4. ASSUME NEW q \in Proc, NEW l, pc' = [pc EXCEPT ![q] = l]
      PROVE  q = p
  BY <1>0, <1>4
<1>5. ASSUME NEW q \in Proc, NEW r \in Request, Invoke(q, r)
      PROVE  FALSE
  BY <1>4, <1>5 DEF Invoke
<1>6. ASSUME NEW q \in Proc, Lock(q) \/ Interrupted(q) \/ Step(q)
      PROVE  aesd_adjust_file_offset(p)
  <2>1. \E l : pc' = [pc EXCEPT ![q] = l]
    BY <1>6 DEF Lock, Interrupted, Step, ReadFind, ReadCopy, WriteAlloc, WriteCopy, WriteCommit,
                aesd_llseek, aesd_ioctl, aesd_adjust_file_offset, Unlock, Return, Finish, Goto
  <2>2. q = p
    BY <1>4, <2>1
  <2> QED
    BY <1>6, <2>2 DEF Lock, Interrupted, Step, ReadFind, ReadCopy, WriteAlloc, WriteCopy, WriteCommit,
                aesd_llseek, aesd_ioctl, Unlock, Return
<1> QED
  BY <1>1, <1>2, <1>3, <1>5, <1>6 DEF Next, ModuleStep

LEMMA SeekStep ==
  ASSUME Inv, RingInv, CallerInv, NEW p \in Proc, [Next]_vars, Seeks(p), buffer.out_offs = 0
  PROVE  LandsOnCommand(p)
<1> DEFINE w == call[p].write_cmd
           o == call[p].write_cmd_offset
           q == BytesBefore(w) + o
           to == fixed_size_llseek(f_pos[p], q, "SEEK_SET", get_buffer_size(buffer))
<1>1. pc[p] = "adjust" /\ reply'[p].err = "ok" /\ aesd_adjust_file_offset(p)
  BY SeekIsAdjust DEF Seeks
<1>2. /\ buffer \in aesd_circular_buffer(Entry) /\ buffer # NULL /\ Disciplined(buffer, Entry)
      /\ w \in Slots /\ o \in Nat
  <2>1. /\ buffer \in aesd_circular_buffer(Entry) /\ buffer # NULL
        /\ call[p] \in Request /\ Fits("adjust", call[p])
    BY <1>1, Undecided
  <2>2. call[p].op = "ioctl" /\ call[p].cmd = "AESDCHAR_IOCSEEKTO" /\ w < MAX_WRITE_OPERATIONS
    BY <2>1 DEF Fits
  <2>3. w \in Nat /\ o \in Nat
    BY <2>1, <2>2, RequestFields
  <2> QED
    BY <2>1, <2>2, <2>3, MaxOpsAssumption DEF Slots, RingInv
<1>3. ~(o >= buffer.entry[w].size) /\ f_pos' = [f_pos EXCEPT ![p] = to.pos]
  <2>1. ASSUME Finish(p, "unlock", "EINVAL", 0, <<>>)
        PROVE  FALSE
    <3>1. reply'[p] = [err |-> "EINVAL", val |-> 0, data |-> <<>>]
      BY <2>1, FinishEffect
    <3> QED
      BY <1>1, <3>1
  <2> QED
    BY <1>1, <2>1 DEF aesd_adjust_file_offset
<1>4. /\ BytesBefore(w) \in Nat /\ buffer.entry[w].size \in Nat
      /\ BytesBefore(w) + buffer.entry[w].size <= Len(Device!Bytes)
      /\ get_buffer_size(buffer) = Len(Device!Bytes) /\ Len(Device!Bytes) \in Nat
  BY <1>2, BytesBeforeBound, DeviceBytes, CommandsType
<1>5. to.pos = q
  <2>1. q \in Nat /\ q <= get_buffer_size(buffer)
    BY <1>2, <1>3, <1>4
  <2> HIDE DEF q
  <2> QED
    BY <2>1 DEF fixed_size_llseek
<1>6. f_pos'[p] = q
  BY <1>3, <1>5 DEF Inv, ControlInv, TypeOK
<1>7. w < EntryCount(buffer) /\ w \in 0 .. EntryCount(buffer)
  <2>1. buffer.entry[w] # NullEntry
    BY <1>2, <1>3, <1>4 DEF NullEntry
  <2>2. ~buffer.full => w < buffer.in_offs
    BY <1>2, <2>1 DEF Disciplined
  <2>3. buffer.in_offs \in Nat /\ w \in Nat /\ w < MAX_WRITE_OPERATIONS /\ MAX_WRITE_OPERATIONS \in Nat
    <3>1. buffer.in_offs \in Slots
      BY <1>2 DEF aesd_circular_buffer
    <3>2. w \in Slots
      BY <1>2
    <3> HIDE DEF w
    <3> QED
      BY <3>1, <3>2, MaxOpsAssumption DEF Slots
  <2> HIDE DEF w
  <2>4. CASE buffer.full
    BY <2>3, <2>4 DEF EntryCount
  <2>5. CASE ~buffer.full
    BY <2>2, <2>3, <2>5 DEF EntryCount
  <2> QED
    BY <2>4, <2>5
<1>8. SizeOfOldest(w) = BytesBefore(w)
  BY <1>2, <1>7, OldestBytes
<1> QED
  BY <1>6, <1>7, <1>8 DEF LandsOnCommand

(***************************************************************************)
(* While the oldest command is in slot 0 AESDCHAR_IOCSEEKTO lands on the   *)
(* byte of the command it names, counted from the oldest                   *)
(* (aesd_adjust_file_offset, main.c:182-223): write_cmd is the index of a  *)
(* slot, and only then are the slots in the order of the commands.         *)
(***************************************************************************)
THEOREM SeekLands == Spec => SeekLandsWhileOldestIsFirst
<1>1. Init => RingInv /\ CallerInv
  BY InitDevice DEF DeviceInv
<1>2. Inv /\ RingInv /\ CallerInv /\ [Next]_vars => RingInv' /\ CallerInv'
  BY RingStep, CallerStep
<1>3. Inv /\ RingInv /\ CallerInv /\ [Next]_vars
        => [\A p \in Proc : Seeks(p) /\ buffer.out_offs = 0 => LandsOnCommand(p)]_vars
  BY SeekStep
<1> QED
  BY <1>1, <1>2, <1>3, InvHolds, PTL DEF Spec, SeekLandsWhileOldestIsFirst

=============================================================================
