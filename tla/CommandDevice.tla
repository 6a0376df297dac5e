---------------------------- MODULE CommandDevice ----------------------------
(***************************************************************************)
(* What /dev/aesdchar promises to its users: a linearizable log of the     *)
(* last Capacity newline-terminated commands, and a partial command that   *)
(* all writers share.  A call takes effect at one instant between its      *)
(* invocation and its return; one that fails has no effect.                *)
(***************************************************************************)
EXTENDS Integers, Sequences, SequencesExt

CONSTANTS
  Proc,      \* the callers, each with a file of its own
  Request,   \* the calls they may make
  Capacity,  \* how many commands are kept
  NL,        \* the byte that ends a command
  Idle,      \* no call is under way
  NoReply    \* the call has not taken effect yet

VARIABLES
  log,       \* the commands, oldest first, each a sequence of bytes
  partial,   \* the bytes of the command that is not finished yet
  pos,       \* the offset of each caller's file
  call,      \* the call each caller has under way
  reply      \* its outcome, from the instant it takes effect until it returns

vars == <<log, partial, pos, call, reply>>

Bytes == FlattenSeq(log)

Init ==
  /\ log = <<>> /\ partial = <<>>
  /\ pos = [p \in Proc |-> 0]
  /\ call = [p \in Proc |-> Idle]
  /\ reply = [p \in Proc |-> NoReply]

Pending(p, op) == call[p] # Idle /\ reply[p] = NoReply /\ call[p].op = op

Succeed(p, val, data) ==
  reply' = [reply EXCEPT ![p] = [err |-> "ok", val |-> val, data |-> data]]

Fail(p, err) ==
  /\ reply' = [reply EXCEPT ![p] = [err |-> err, val |-> 0, data |-> <<>>]]
  /\ UNCHANGED <<log, partial, pos, call>>

-----------------------------------------------------------------------------

\* open() starts at the beginning of the log.
Rewind(p) ==
  /\ call[p] = Idle
  /\ pos' = [pos EXCEPT ![p] = 0]
  /\ UNCHANGED <<log, partial, call, reply>>

\* Removing the module forgets everything; nobody has a call under way then.
Forget ==
  /\ \A p \in Proc : call[p] = Idle
  /\ log' = <<>> /\ partial' = <<>>
  /\ UNCHANGED <<pos, call, reply>>

Invoke(p, r) ==
  /\ call[p] = Idle
  /\ call' = [call EXCEPT ![p] = r]
  /\ UNCHANGED <<log, partial, pos, reply>>

Return(p) ==
  /\ reply[p] # NoReply
  /\ call' = [call EXCEPT ![p] = Idle]
  /\ reply' = [reply EXCEPT ![p] = NoReply]
  /\ UNCHANGED <<log, partial, pos>>

\* Any call may run out of memory, hit a bad address or be interrupted.
Refuse(p) ==
  /\ call[p] # Idle /\ reply[p] = NoReply
  /\ \E err \in {"ENOMEM", "EFAULT", "ERESTARTSYS"} : Fail(p, err)

(***************************************************************************)
(* A read may be short, but it returns nothing only at the end of the log. *)
(***************************************************************************)
Read(p) ==
  /\ Pending(p, "read")
  /\ \E k \in 0 .. call[p].count :
       /\ k = 0 => call[p].count = 0 \/ pos[p] >= Len(Bytes)
       /\ k > 0 => pos[p] + k <= Len(Bytes)
       /\ Succeed(p, k, SubSeq(Bytes, pos[p] + 1, pos[p] + k))
       /\ pos' = [pos EXCEPT ![p] = @ + k]
  /\ UNCHANGED <<log, partial, call>>

(***************************************************************************)
(* A write extends the partial command as a whole; a newline at its end    *)
(* moves the command to the log, at the price of the oldest one.           *)
(***************************************************************************)
Write(p) ==
  /\ Pending(p, "write")
  /\ LET data == call[p].data
         cmd  == partial \o data
     IN  /\ IF data # <<>> /\ Last(data) = NL
              THEN /\ log' = Append(IF Len(log) = Capacity THEN Tail(log) ELSE log, cmd)
                   /\ partial' = <<>>
              ELSE /\ log' = log
                   /\ partial' = cmd
         /\ Succeed(p, Len(data), <<>>)
         /\ pos' = [pos EXCEPT ![p] = @ + Len(data)]
  /\ UNCHANGED call

(***************************************************************************)
(* lseek never moves outside the log; asking for the current position      *)
(* always succeeds, even when the log has shrunk below it.                 *)
(***************************************************************************)
Lseek(p) ==
  /\ Pending(p, "llseek")
  /\ LET r == call[p]
         target == CASE r.whence = "SEEK_SET" -> r.off
                     [] r.whence = "SEEK_CUR" -> pos[p] + r.off
                     [] r.whence = "SEEK_END" -> Len(Bytes) + r.off
                     [] OTHER -> -1
     IN  IF target \in 0 .. Len(Bytes) \/ (r.whence = "SEEK_CUR" /\ r.off = 0)
           THEN /\ Succeed(p, target, <<>>)
                /\ pos' = [pos EXCEPT ![p] = target]
                /\ UNCHANGED <<log, partial, call>>
           ELSE Fail(p, "EINVAL")

(***************************************************************************)
(* The seek by command moves to some byte of the log or is refused.  Which *)
(* byte it should be is the subject of SeekLandsOnCommand in AesdChar.     *)
(***************************************************************************)
SeekTo(p) ==
  /\ Pending(p, "ioctl")
  /\ \/ \E q \in 0 .. Len(Bytes) - 1 :
          /\ pos' = [pos EXCEPT ![p] = q]
          /\ Succeed(p, 0, <<>>)
          /\ UNCHANGED <<log, partial, call>>
     \/ \E err \in {"EINVAL", "ENOTTY"} : Fail(p, err)

Next ==
  \/ Forget
  \/ \E p \in Proc :
       \/ Rewind(p) \/ Return(p) \/ Refuse(p)
       \/ Read(p) \/ Write(p) \/ Lseek(p) \/ SeekTo(p)
       \/ \E r \in Request : Invoke(p, r)

Spec == Init /\ [][Next]_vars

=============================================================================
