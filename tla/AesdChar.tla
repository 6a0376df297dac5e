------------------------------- MODULE AesdChar -------------------------------
(***************************************************************************)
(* The character driver aesd-char-driver/main.c: module load and unload,   *)
(* and the file operations of several processes, each with a file of its   *)
(* own, that run concurrently and serialise on dev->lock.  A handler is    *)
(* split where the code blocks or may fail: at the mutex, at every         *)
(* allocation and at every copy from or to user space.                     *)
(*                                                                         *)
(* The module is modelled as it is built: AESD_DEBUG is defined            *)
(* (aesdchar.h:13), so each block has DEBUG_BYTE = 1 spare byte for a NUL. *)
(***************************************************************************)
EXTENDS CircularBuffer, SequencesExt

CONSTANTS
  Proc,          \* the processes that use the device
  Ptr,           \* addresses kzalloc may return
  FREE,          \* an address that is not allocated
  Chars, NL, NUL,\* bytes: ordinary ones, newline and the terminator
  JUNK,          \* a byte nobody has written
  Payloads,      \* what a process may write in one call
  Counts,        \* how many bytes a process may ask to read
  Offsets, Whences,  \* arguments of lseek
  WriteCmds, CmdOffsets,  \* arguments of AESDCHAR_IOCSEEKTO
  Faults,        \* which kernel services may fail
  StrayBytes,    \* values the byte in front of a block may have
  NoOne, Idle,   \* nobody holds the lock; no call is under way
  MaxPos,        \* bound on a file offset that a write starts from
  MaxPartial     \* bound on the unfinished command that a write starts from

Byte == Chars \cup {NL, NUL, JUNK}

ASSUME PtrAssumption == NULL \notin Ptr
ASSUME FreeAssumption == FREE \notin Seq(Byte)
ASSUME ProcAssumption == NoOne \notin Proc
ASSUME PayloadAssumption == Payloads \subseteq Seq(Chars \cup {NL})
ASSUME CountAssumption == Counts \subseteq Nat /\ CmdOffsets \subseteq Nat /\ WriteCmds \subseteq Nat
ASSUME OffsetAssumption ==
  Offsets \subseteq Int /\ Whences \subseteq {"SEEK_SET", "SEEK_CUR", "SEEK_END", "SEEK_HOLE"}
ASSUME StrayAssumption == StrayBytes \subseteq Byte
ASSUME FaultAssumption == Faults \subseteq {"region", "kzalloc", "krealloc", "cdev", "copy"}

DEBUG_BYTE == 1

Entry == [buffptr : Ptr, size : Nat]

ASSUME NullAssumption == NULL \notin aesd_circular_buffer(Entry)

Request ==
  [op : {"read"}, count : Counts]
  \cup [op : {"write"}, data : Payloads]
  \cup [op : {"llseek"}, off : Offsets, whence : Whences]
  \cup [op : {"ioctl"}, cmd : {"AESDCHAR_IOCSEEKTO"},
        write_cmd : WriteCmds, write_cmd_offset : CmdOffsets]
  \cup [op : {"ioctl"}, cmd : {"other"}]

ASSUME IdleAssumption == Idle \notin Request
ASSUME NullSlotAssumption == NULL \notin Slots

NoReply == [err |-> "none", val |-> 0, data |-> <<>>]

VARIABLES
  module,   \* how far the module is loaded
  buffer,   \* *aesd_device.buffer, NULL when there is none
  tmp,      \* aesd_device.tmp_buff_ptr and tmp_buff_size
  lock,     \* aesd_device.lock: its holder
  heap,     \* the kernel's blocks: their bytes, or FREE
  opened,   \* the processes that have the device open
  f_pos,    \* the offset of each process's file
  pc,       \* where each process is in its call
  call,     \* its arguments
  found,    \* locals entry and entry_offset_byte of aesd_read
  reply     \* what the call is going to return, once that is decided

devVars  == <<module, buffer, tmp, lock, heap>>
procVars == <<opened, f_pos, pc, call, found, reply>>
vars     == <<devVars, procVars>>

Init ==
  /\ module = "unloaded" /\ buffer = NULL
  /\ tmp = [ptr |-> NULL, size |-> 0]
  /\ lock = NoOne
  /\ heap = [q \in Ptr |-> FREE]
  /\ opened = {}
  /\ f_pos = [p \in Proc |-> 0]
  /\ pc = [p \in Proc |-> "user"]
  /\ call = [p \in Proc |-> Idle]
  /\ found = [p \in Proc |-> NotFound]
  /\ reply = [p \in Proc |-> NoReply]

-----------------------------------------------------------------------------
(***************************************************************************)
(* The kernel's services, as the driver uses them.                         *)
(***************************************************************************)

FreeBlocks(h) == {q \in Ptr : h[q] = FREE}

kfree(h, q) == IF q = NULL THEN h ELSE [h EXCEPT ![q] = FREE]

Zeroed(n) == [i \in 1 .. n |-> NUL]

\* The bytes of a block that has been resized to n bytes.
Resized(s, n) == [i \in 1 .. n |-> IF i <= Len(s) THEN s[i] ELSE JUNK]

\* s with the bytes of d stored from 0-based index at on.
Overwrite(s, at, d) ==
  [i \in 1 .. Len(s) |-> IF i > at /\ i <= at + Len(d) THEN d[i - at] ELSE s[i]]

\* fixed_size_llseek: the offset it moves to and the error it returns.
fixed_size_llseek(pos, off, whence, size) ==
  LET target == CASE whence = "SEEK_SET" -> off
                  [] whence = "SEEK_CUR" -> pos + off
                  [] whence = "SEEK_END" -> size + off
                  [] OTHER -> -1
  IN  IF (target \in Nat /\ target <= size) \/ (whence = "SEEK_CUR" /\ off = 0)
        THEN [err |-> "ok", pos |-> target]
        ELSE [err |-> "EINVAL", pos |-> pos]

-----------------------------------------------------------------------------
(***************************************************************************)
(* aesd_init_module and aesd_cleanup_module.                               *)
(***************************************************************************)

\* alloc_chrdev_region; when it fails the module is not loaded.
InitRegion ==
  /\ module = "unloaded"
  /\ module' \in {"region"} \cup (IF "region" \in Faults THEN {"unloaded"} ELSE {})
  /\ UNCHANGED <<buffer, tmp, lock, heap, procVars>>

\* memset of aesd_device and kzalloc of the buffer; without memory, unregister.
InitBuffer ==
  /\ module = "region"
  /\ tmp' = [ptr |-> NULL, size |-> 0]
  /\ lock' = NoOne
  /\ \/ /\ module' = "buffer"
        /\ buffer' = aesd_circular_buffer_init
     \/ /\ "kzalloc" \in Faults
        /\ module' = "unloaded"
        /\ buffer' = NULL
  /\ UNCHANGED <<heap, procVars>>

\* aesd_setup_cdev makes the device live, or fails and everything is undone.
InitCdev ==
  /\ module = "buffer"
  /\ \/ module' = "live" /\ UNCHANGED buffer
     \/ "cdev" \in Faults /\ module' = "unloaded" /\ buffer' = NULL
  /\ UNCHANGED <<tmp, lock, heap, procVars>>

\* Faulty cleanup: the unfinished command is forgotten.
CleanupKeepsTmp ==
  /\ module = "live" /\ opened = {}
  /\ heap' = [q \in Ptr |-> IF \E i \in Slots : buffer.entry[i].buffptr = q THEN FREE ELSE heap[q]]
  /\ module' = "unloaded" /\ buffer' = NULL
  /\ tmp' = [ptr |-> NULL, size |-> 0]
  /\ UNCHANGED <<lock, procVars>>

(***************************************************************************)
(* The kernel removes a module only while no file of it is open.  The      *)
(* unfinished command is freed when it has bytes, then every entry.        *)
(* (aesd_device keeps its old values until the next memset; nothing reads  *)
(* them, and they are reset here.)                                         *)
(***************************************************************************)
aesd_cleanup_module ==
  /\ module = "live" /\ opened = {}
  /\ LET owned == {buffer.entry[i].buffptr : i \in Slots}
                  \cup (IF tmp.size > 0 THEN {tmp.ptr} ELSE {})
     IN  heap' = [q \in Ptr |-> IF q \in owned THEN FREE ELSE heap[q]]
  /\ module' = "unloaded" /\ buffer' = NULL
  /\ tmp' = [ptr |-> NULL, size |-> 0]
  /\ UNCHANGED <<lock, procVars>>

-----------------------------------------------------------------------------
(***************************************************************************)
(* Files and calls.                                                        *)
(***************************************************************************)

aesd_open(p) ==
  /\ module = "live" /\ p \notin opened
  /\ opened' = opened \cup {p}
  /\ f_pos' = [f_pos EXCEPT ![p] = 0]
  /\ UNCHANGED <<devVars, pc, call, found, reply>>

aesd_release(p) ==
  /\ p \in opened /\ pc[p] = "user"
  /\ opened' = opened \ {p}
  /\ UNCHANGED <<devVars, f_pos, pc, call, found, reply>>

\* Bounds of the model on the writes it explores.
WithinBounds(p, r) ==
  r.op = "write" => /\ f_pos[p] + Len(r.data) <= MaxPos
                    /\ tmp.size + Len(r.data) <= MaxPartial

\* A process enters a file operation; all but ioctl go straight to the lock.
Invoke(p, r) ==
  /\ p \in opened /\ pc[p] = "user"
  /\ WithinBounds(p, r)
  /\ call' = [call EXCEPT ![p] = r]
  /\ pc' = [pc EXCEPT ![p] = IF r.op = "ioctl" THEN "ioctl" ELSE "lock"]
  /\ UNCHANGED <<devVars, opened, f_pos, found, reply>>

Goto(p, label) == pc' = [pc EXCEPT ![p] = label]

\* Faulty error paths: they return directly instead of going to fail or out.
FinishErrorsReturn(p, label, err, val, data) ==
  /\ reply' = [reply EXCEPT ![p] = [err |-> err, val |-> val, data |-> data]]
  /\ Goto(p, IF err = "ok" THEN label ELSE "return")

\* The outcome is decided; label says whether the lock is still to be released.
Finish(p, label, err, val, data) ==
  /\ reply' = [reply EXCEPT ![p] = [err |-> err, val |-> val, data |-> data]]
  /\ Goto(p, label)

Return(p) ==
  /\ pc[p] = "return"
  /\ Goto(p, "user")
  /\ call' = [call EXCEPT ![p] = Idle]
  /\ reply' = [reply EXCEPT ![p] = NoReply]
  /\ UNCHANGED <<devVars, opened, f_pos, found>>

\* The first step of each operation under the lock.
Body == [read |-> "find", write |-> "alloc", llseek |-> "seek", ioctl |-> "adjust"]

\* Faulty lock: taken whether or not somebody holds it.
LockAnyway(p) ==
  /\ pc[p] = "lock"
  /\ lock' = p
  /\ Goto(p, Body[call[p].op])
  /\ UNCHANGED <<module, buffer, tmp, heap, opened, f_pos, call, found, reply>>

Lock(p) ==
  /\ pc[p] = "lock" /\ lock = NoOne
  /\ lock' = p
  /\ Goto(p, Body[call[p].op])
  /\ UNCHANGED <<module, buffer, tmp, heap, opened, f_pos, call, found, reply>>

\* A signal ends the wait in mutex_lock_interruptible.
Interrupted(p) ==
  /\ pc[p] = "lock" /\ lock # NoOne
  /\ Finish(p, "return", "ERESTARTSYS", 0, <<>>)
  /\ UNCHANGED <<devVars, opened, f_pos, call, found>>

\* The label fail or out: mutex_unlock, and the call returns.
Unlock(p) ==
  /\ pc[p] = "unlock"
  /\ lock' = NoOne
  /\ Goto(p, "return")
  /\ found' = [found EXCEPT ![p] = NotFound]
  /\ UNCHANGED <<module, buffer, tmp, heap, opened, f_pos, call, reply>>

-----------------------------------------------------------------------------
(***************************************************************************)
(* aesd_read                                                               *)
(***************************************************************************)

\* Look the offset up; beyond the last byte the call returns 0.
ReadFind(p) ==
  /\ pc[p] = "find"
  /\ LET e == aesd_circular_buffer_find_entry_offset_for_fpos(buffer, f_pos[p])
     IN  IF e = NotFound
           THEN Finish(p, "unlock", "ok", 0, <<>>) /\ UNCHANGED found
           ELSE /\ found' = [found EXCEPT ![p] = e]
                /\ Goto(p, "copy_to_user")
                /\ UNCHANGED reply
  /\ UNCHANGED <<devVars, opened, f_pos, call>>

\* Faulty trim: the offset inside the entry is not taken off.
TrimmedToEntrySize(p) == Min({call[p].count, buffer.entry[found[p].slot].size})

\* How many bytes of the entry that was found are copied: count, trimmed to it.
Trimmed(p) ==
  Min({call[p].count, buffer.entry[found[p].slot].size - found[p].offset})

\* Copy and advance the offset, or fail on a bad user address.
ReadCopy(p) ==
  /\ pc[p] = "copy_to_user"
  /\ LET n    == Trimmed(p)
         data == SubSeq(heap[buffer.entry[found[p].slot].buffptr],
                        found[p].offset + 1, found[p].offset + n)
     IN  \/ /\ Finish(p, "unlock", "ok", n, data)
            /\ f_pos' = [f_pos EXCEPT ![p] = @ + n]
         \/ /\ "copy" \in Faults
            /\ Finish(p, "unlock", "EFAULT", 0, <<>>)
            /\ UNCHANGED f_pos
  /\ UNCHANGED <<devVars, opened, call, found>>

-----------------------------------------------------------------------------
(***************************************************************************)
(* aesd_write                                                              *)
(***************************************************************************)

\* The two ways to get the block: its address and the heap afterwards.
kzalloc(n) ==
  {[ptr |-> q, heap |-> [heap EXCEPT ![q] = Zeroed(n)]] : q \in FreeBlocks(heap)}

\* In place, or into another block; of a null pointer, a block nobody wrote.
krealloc(old, n) ==
  IF old = NULL
    THEN {[ptr |-> q, heap |-> [heap EXCEPT ![q] = Resized(<<>>, n)]] : q \in FreeBlocks(heap)}
    ELSE {[ptr |-> old, heap |-> [heap EXCEPT ![old] = Resized(@, n)]]}
         \cup {[ptr |-> q, heap |-> [kfree(heap, old) EXCEPT ![q] = Resized(heap[old], n)]]
                 : q \in FreeBlocks(heap)}

\* Faulty size: the block has no room for the NUL.
BlockSizeNoDebugByte(p) == tmp.size + Len(call[p].data)

\* The size of the block that the write asks for.
BlockSize(p) == tmp.size + Len(call[p].data) + DEBUG_BYTE

(***************************************************************************)
(* Without unfinished bytes a new block is allocated, otherwise the block  *)
(* is enlarged.  When that fails tmp_buff_ptr is overwritten with NULL all *)
(* the same, and tmp_buff_size stays.                                      *)
(***************************************************************************)
WriteAlloc(p) ==
  /\ pc[p] = "alloc"
  /\ \/ \E block \in IF tmp.size = 0 THEN kzalloc(BlockSize(p))
                     ELSE krealloc(tmp.ptr, BlockSize(p)) :
          /\ tmp' = [tmp EXCEPT !.ptr = block.ptr]
          /\ heap' = block.heap
          /\ Goto(p, "copy_from_user")
          /\ UNCHANGED reply
     \/ /\ (IF tmp.size = 0 THEN "kzalloc" ELSE "krealloc") \in Faults
        /\ tmp' = [tmp EXCEPT !.ptr = NULL]
        /\ Finish(p, "unlock", "ENOMEM", 0, <<>>)
        /\ UNCHANGED heap
  /\ UNCHANGED <<module, buffer, lock, opened, f_pos, call, found>>

\* Faulty copy: to the start of the block.
CopyOffsetZero == 0

\* Where in the block the new bytes go.
CopyOffset == tmp.size

(***************************************************************************)
(* A copy that fails has stored the first k bytes and zeroed the rest.     *)
(***************************************************************************)
WriteCopy(p) ==
  /\ pc[p] = "copy_from_user"
  /\ LET data == call[p].data
     IN  \/ /\ heap' = [heap EXCEPT ![tmp.ptr] = Overwrite(@, CopyOffset, data)]
            /\ Goto(p, "commit")
            /\ UNCHANGED reply
         \/ \E k \in 0 .. Len(data) - 1 :
              /\ "copy" \in Faults
              /\ heap' = [heap EXCEPT ![tmp.ptr] =
                            Overwrite(@, CopyOffset, SubSeq(data, 1, k) \o Zeroed(Len(data) - k))]
              /\ Finish(p, "unlock", "EFAULT", 0, <<>>)
  /\ UNCHANGED <<module, buffer, tmp, lock, opened, f_pos, call, found>>

\* Faulty commit: tmp_buff_ptr still points to the block of the entry.
AfterAddKeepsPtr == [ptr |-> tmp.ptr, size |-> 0]

\* tmp_buff_ptr and tmp_buff_size once the command belongs to the buffer.
AfterAdd == [ptr |-> NULL, size |-> 0]

\* tmp_buff_ptr[tmp_buff_size - 1]: with nothing written, the byte in front of the block.
LastByte(block, size) == IF size = 0 THEN StrayBytes ELSE {block[size]}

(***************************************************************************)
(* Count the bytes, terminate them, and move a command that ends with a    *)
(* newline into the circular buffer, freeing the one it replaces.          *)
(***************************************************************************)
WriteCommit(p) ==
  /\ pc[p] = "commit"
  /\ LET count == Len(call[p].data)
         size  == tmp.size + count
         block == [heap[tmp.ptr] EXCEPT ![size + 1] = NUL]
         stored == [heap EXCEPT ![tmp.ptr] = block]
     IN  /\ \E last \in LastByte(block, size) :
              \/ /\ last = NL
                 /\ buffer' = aesd_circular_buffer_add_entry(
                                buffer, [buffptr |-> tmp.ptr, size |-> size])
                 /\ heap' = kfree(stored, ReplacedPtr(buffer))
                 /\ tmp' = AfterAdd
              \/ /\ last # NL
                 /\ heap' = stored
                 /\ tmp' = [tmp EXCEPT !.size = size]
                 /\ UNCHANGED buffer
         /\ f_pos' = [f_pos EXCEPT ![p] = @ + count]
         /\ Finish(p, "unlock", "ok", count, <<>>)
  /\ UNCHANGED <<module, lock, opened, call, found>>

-----------------------------------------------------------------------------
(***************************************************************************)
(* aesd_llseek and aesd_ioctl                                              *)
(***************************************************************************)

aesd_llseek(p) ==
  /\ pc[p] = "seek"
  /\ LET to == fixed_size_llseek(f_pos[p], call[p].off, call[p].whence, get_buffer_size(buffer))
     IN  /\ f_pos' = [f_pos EXCEPT ![p] = to.pos]
         /\ Finish(p, "unlock", to.err, IF to.err = "ok" THEN to.pos ELSE 0, <<>>)
  /\ UNCHANGED <<devVars, opened, call, found>>

\* What aesd_ioctl and aesd_adjust_file_offset test before the lock.  The address
\* is tested for other commands too, if they have the driver's magic and number.
aesd_ioctl(p) ==
  /\ pc[p] = "ioctl"
  /\ \/ /\ call[p].cmd = "other"
        /\ Finish(p, "return", "ENOTTY", 0, <<>>)
     \/ /\ "copy" \in Faults
        /\ Finish(p, "return", "EFAULT", 0, <<>>)
     \/ /\ call[p].cmd = "AESDCHAR_IOCSEEKTO" /\ call[p].write_cmd >= MAX_WRITE_OPERATIONS
        /\ Finish(p, "return", "EINVAL", 0, <<>>)
     \/ /\ call[p].cmd = "AESDCHAR_IOCSEEKTO" /\ call[p].write_cmd < MAX_WRITE_OPERATIONS
        /\ Goto(p, "lock")
        /\ UNCHANGED reply
  /\ UNCHANGED <<devVars, opened, f_pos, call, found>>

\* Faulty sum: the command itself is counted too.
BytesThrough(write_cmd) ==
  SumFunctionOnSet([i \in Slots |-> buffer.entry[i].size], 0 .. write_cmd)

\* The loop over the slots in front of write_cmd.
BytesBefore(write_cmd) ==
  SumFunctionOnSet([i \in Slots |-> buffer.entry[i].size], 0 .. write_cmd - 1)

\* write_cmd is used as the index of a slot.
aesd_adjust_file_offset(p) ==
  /\ pc[p] = "adjust"
  /\ LET write_cmd == call[p].write_cmd
         write_cmd_offset == call[p].write_cmd_offset
         to == fixed_size_llseek(f_pos[p], BytesBefore(write_cmd) + write_cmd_offset,
                                 "SEEK_SET", get_buffer_size(buffer))
     IN  IF write_cmd_offset >= buffer.entry[write_cmd].size
           THEN Finish(p, "unlock", "EINVAL", 0, <<>>) /\ UNCHANGED f_pos
           ELSE /\ f_pos' = [f_pos EXCEPT ![p] = to.pos]
                /\ Finish(p, "unlock", to.err, 0, <<>>)
  /\ UNCHANGED <<devVars, opened, call, found>>

-----------------------------------------------------------------------------

\* What a process does once it is inside a file operation.
Step(p) ==
  \/ ReadFind(p) \/ ReadCopy(p)
  \/ WriteAlloc(p) \/ WriteCopy(p) \/ WriteCommit(p)
  \/ aesd_llseek(p)
  \/ aesd_ioctl(p) \/ aesd_adjust_file_offset(p)
  \/ Unlock(p) \/ Return(p)

Next ==
  \/ InitRegion \/ InitBuffer \/ InitCdev \/ aesd_cleanup_module
  \/ \E p \in Proc :
       \/ aesd_open(p) \/ aesd_release(p)
       \/ \E r \in Request : Invoke(p, r)
       \/ Lock(p) \/ Interrupted(p)
       \/ Step(p)

Spec == Init /\ [][Next]_vars

(***************************************************************************)
(* A process inside the driver runs on, and the kernel's mutex hands the   *)
(* lock to each waiter in the end.  Nobody has to make a call, and no      *)
(* signal has to come.                                                     *)
(***************************************************************************)
FairSpec == Spec /\ \A p \in Proc : WF_vars(Step(p)) /\ SF_vars(Lock(p))

-----------------------------------------------------------------------------
(***************************************************************************)
(* Properties                                                              *)
(***************************************************************************)

InCriticalSection(p) ==
  pc[p] \in {"find", "copy_to_user", "alloc", "copy_from_user", "commit", "seek", "adjust", "unlock"}

\* The state of the device and of the calls.
TypeOK ==
  /\ module \in {"unloaded", "region", "buffer", "live"}
  /\ buffer \in aesd_circular_buffer(Entry) \cup {NULL}
  /\ tmp \in [ptr : Ptr \cup {NULL}, size : Nat]
  /\ lock \in Proc \cup {NoOne}
  /\ heap \in [Ptr -> Seq(Byte) \cup {FREE}]
  /\ opened \subseteq Proc
  /\ f_pos \in [Proc -> Nat]
  /\ pc \in [Proc -> {"user", "ioctl", "lock", "find", "copy_to_user", "alloc", "copy_from_user",
                      "commit", "seek", "adjust", "unlock", "return"}]
  /\ call \in [Proc -> Request \cup {Idle}]
  /\ found \in [Proc -> [slot : Slots, offset : Nat] \cup {NotFound}]
  /\ DOMAIN reply = Proc

(***************************************************************************)
(* dev->lock is held by exactly the process that is between the lock and   *)
(* the unlock of a handler, on every path out of it, failures included.    *)
(***************************************************************************)
LockDiscipline ==
  \A p \in Proc : InCriticalSection(p) <=> lock = p

(***************************************************************************)
(* Who owns a block.  Every entry of the buffer points to an allocated     *)
(* block of its own that holds size bytes and a NUL behind them (aesd_read *)
(* prints it with %s), and the unfinished command is none of them: no read *)
(* after free, no double free by the write that replaces an entry or by    *)
(* the module's exit, no two commands sharing memory.                      *)
(***************************************************************************)
BlockHolds(q, size) ==
  /\ heap[q] # FREE
  /\ Len(heap[q]) > size
  /\ heap[q][size + 1] = NUL

EntriesOwnTheirBlocks ==
  buffer # NULL =>
    /\ \A i \in Slots :
         /\ buffer.entry[i].buffptr # NULL =>
              /\ BlockHolds(buffer.entry[i].buffptr, buffer.entry[i].size)
              /\ buffer.entry[i].buffptr # tmp.ptr
         /\ \A j \in Slots \ {i} :
              buffer.entry[i].buffptr = buffer.entry[j].buffptr => buffer.entry[i].buffptr = NULL

(***************************************************************************)
(* Each copy the code is about to make is inside a block that is           *)
(* allocated: the copy from user space with the NUL behind it, and the     *)
(* copy to user space of the bytes that were found.  (The read of          *)
(* tmp_buff_ptr[tmp_buff_size - 1], main.c:130, is not: after an empty     *)
(* write it is in front of the block, see LastByte and CommandsTerminated.)*)
(***************************************************************************)
AccessesInBounds ==
  \A p \in Proc :
    /\ pc[p] \in {"copy_from_user", "commit"} =>
         /\ tmp.ptr \in Ptr /\ heap[tmp.ptr] # FREE
         /\ Len(heap[tmp.ptr]) >= tmp.size + Len(call[p].data) + 1
    /\ pc[p] = "copy_to_user" =>
         LET e == buffer.entry[found[p].slot]
         IN  /\ e.buffptr \in Ptr /\ heap[e.buffptr] # FREE
             /\ found[p].offset + Trimmed(p) <= e.size
             /\ e.size < Len(heap[e.buffptr])

\* The block belongs to an entry or is the unfinished command.
HasOwner(q) ==
  \/ q = tmp.ptr
  \/ buffer # NULL /\ \E i \in Slots : buffer.entry[i].buffptr = q

(***************************************************************************)
(* A block has an owner from its allocation until it is freed, over        *)
(* eviction, enlargement, unload and every failure.  The code loses a      *)
(* block in these cases only: tmp_buff_ptr is overwritten (main.c:106) or  *)
(* the module unloaded (main.c:342) while the unfinished command counts no *)
(* bytes, after a failed copy or an empty write, or an enlargement fails   *)
(* (main.c:111).                                                           *)
(***************************************************************************)
BlocksKeepAnOwner ==
  [][\A q \in Ptr :
       heap'[q] # FREE /\ (heap[q] = FREE \/ HasOwner(q)) =>
         \/ HasOwner(q)'
         \/ /\ q = tmp.ptr
            /\ \/ tmp.size = 0
               \/ \E p \in Proc : pc[p] = "alloc" /\ reply'[p].err = "ENOMEM"]_vars

(***************************************************************************)
(* Every byte that an entry or the unfinished command counts was written   *)
(* by a process ("Number of bytes stored in buffptr",                      *)
(* aesd-circular-buffer.h:28): none is left from an allocation, from a     *)
(* copy that failed or from the NUL behind an earlier piece.               *)
(***************************************************************************)
CountedBytesAreStored ==
  LET Written(q, n) == \A k \in 1 .. n : heap[q][k] \in Chars \cup {NL}
  IN  /\ buffer # NULL =>
           \A i \in Slots : LET e == buffer.entry[i]
                            IN  e.buffptr # NULL => Written(e.buffptr, e.size)
      /\ tmp.ptr # NULL => Written(tmp.ptr, tmp.size)

(***************************************************************************)
(* Only terminated commands are in the buffer ("if command is terminated,  *)
(* add to circular buffer", main.c:129).  An empty write with nothing      *)
(* unfinished looks at the byte in front of the block instead of at a last *)
(* byte: the property holds if nobody makes one or that byte is no newline *)
(* (CommandsAreTerminated in AesdCharProofs), and not otherwise.           *)
(***************************************************************************)
CommandsTerminated ==
  buffer # NULL =>
    \A i \in Slots : LET e == buffer.entry[i]
                     IN  e.buffptr # NULL => e.size > 0 /\ heap[e.buffptr][e.size] = NL

\* The bytes of the n oldest commands.
SizeOfOldest(n) == SumFunctionOnSet([i \in 1 .. EntryCount(buffer) |-> Contents(buffer)[i].size], 1 .. n)

Seeks(p) == pc[p] = "adjust" /\ pc'[p] = "unlock" /\ reply'[p].err = "ok"

LandsOnCommand(p) ==
  /\ call[p].write_cmd < EntryCount(buffer)
  /\ f_pos'[p] = SizeOfOldest(call[p].write_cmd) + call[p].write_cmd_offset

(***************************************************************************)
(* AESDCHAR_IOCSEEKTO moves to the byte write_cmd_offset of the command    *)
(* number write_cmd, counted from the oldest one, as "the zero referenced  *)
(* write command to seek into" (aesd_ioctl.h:27) says.                     *)
(***************************************************************************)
SeekLandsOnCommand ==
  [][\A p \in Proc : Seeks(p) => LandsOnCommand(p)]_vars

(***************************************************************************)
(* It does so while the oldest command is in slot 0: until the first       *)
(* command is dropped, the buffer that is just full included, and again    *)
(* whenever as many as there are slots have been dropped.                  *)
(***************************************************************************)
SeekLandsWhileOldestIsFirst ==
  [][\A p \in Proc : Seeks(p) /\ buffer.out_offs = 0 => LandsOnCommand(p)]_vars

(***************************************************************************)
(* Every call returns: no path leaves the lock taken and nobody starves.   *)
(***************************************************************************)
CallsReturn == \A p \in Proc : pc[p] # "user" ~> pc[p] = "user"

(***************************************************************************)
(* The driver is a linearizable command log: see CommandDevice.  Calls     *)
(* take effect under the lock, and one that fails has no effect, also when *)
(* a copy or the first allocation fails half way.                          *)
(***************************************************************************)
StoredBytes(q, n) == IF n = 0 THEN <<>> ELSE SubSeq(heap[q], 1, n)

\* The commands in the buffer, oldest first, and the one that is not finished.
Commands ==
  IF buffer = NULL THEN <<>>
  ELSE [i \in 1 .. EntryCount(buffer) |->
          StoredBytes(Contents(buffer)[i].buffptr, Contents(buffer)[i].size)]

Unfinished == IF tmp.ptr = NULL THEN <<>> ELSE StoredBytes(tmp.ptr, tmp.size)

Device == INSTANCE CommandDevice WITH
  Capacity <- MAX_WRITE_OPERATIONS,
  pos      <- f_pos,
  log      <- Commands,
  partial  <- Unfinished

ImplementsCommandDevice == Device!Spec

=============================================================================
