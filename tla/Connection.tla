----------------------------- MODULE Connection -----------------------------
(***************************************************************************)
(* One connection at the level of bytes: the loops of sock_thread.c that   *)
(* SockThread reduces to their outcomes.  readline_from_socket collects a  *)
(* line from whatever pieces recv delivers, parse_ctrl_line looks for an   *)
(* embedded control string, and send_file sends the device's lines in      *)
(* whatever pieces send accepts.                                           *)
(*                                                                         *)
(* Bytes are ASCII codes.  The device keeps all its commands here: what    *)
(* eviction does is the subject of AesdChar and CommandDevice.             *)
(***************************************************************************)
EXTENDS Integers, Sequences, FiniteSets, SequencesExt, FiniteSetsExt

CONSTANTS
  BUFLEN,           \* the first size of the line buffer
  IntBits,          \* the width of int and of uint32_t
  LongBits,         \* the width of long, which atoi computes with
  EMBED_CTRL_PREF,  \* the prefix of an embedded control string
  Chars,            \* the bytes a client sends
  MaxStream,        \* bound: how many bytes are received
  Commands,         \* the commands in the device when the client connects
  Unfinished,       \* what an earlier client has written without a newline
  MaxErrors,        \* bound: how many calls of send fail
  Faults            \* which calls may fail

NL == 10
COMMA == 44
Digit == 48 .. 57
JUNK == -1          \* a byte outside the line

INT_MAX == 2^(IntBits - 1) - 1
MIN_EMBED_PARAM_CHARS == 3

ASSUME SizeAssumption == BUFLEN \in 1 .. INT_MAX /\ MaxStream \in Nat /\ MaxErrors \in Nat
\* The widths are those of types: the powers of two are natural numbers.
ASSUME WidthAssumption == {2^IntBits, 2^(IntBits - 1), 2^(LongBits - 1)} \subseteq Nat \ {0}
ASSUME ByteAssumption ==
  /\ Chars \subseteq 0 .. 255 /\ EMBED_CTRL_PREF \in Seq(0 .. 255)
  /\ Commands \in Seq(Seq(0 .. 255)) /\ Unfinished \in Seq((0 .. 255) \ {NL})

VARIABLES
  pc,
  bufsize, offset, buf,              \* of readline_from_socket
  line, seek_to,                     \* of sock_thread_func
  out, send_offset, bytes_left,      \* of send_file: its line, offset and bytes_left
  errno,                             \* "0", or the call that set it last
  result,
  device, pos,                       \* the device and the position of the open file
  stream, hup, received, errors      \* what has gone over the connection

readVars == <<bufsize, offset, buf>>
sendVars == <<out, send_offset, bytes_left, result>>
devVars  == <<device, pos>>
vars     == <<pc, readVars, line, seek_to, sendVars, errno, devVars, stream, hup, received, errors>>

NotCtrl == <<>>

Init ==
  /\ pc = "malloc"
  /\ bufsize = BUFLEN /\ offset = 0 /\ buf = <<>>
  /\ line = <<>> /\ seek_to = NotCtrl
  /\ out = <<>> /\ send_offset = 0 /\ bytes_left = 0
  /\ errno = "0" /\ result = FALSE
  /\ device = Commands /\ pos = 0
  /\ stream = <<>> /\ hup = FALSE /\ received = <<>> /\ errors = 0

-----------------------------------------------------------------------------
(***************************************************************************)
(* readline_from_socket                                                    *)
(***************************************************************************)

\* The position of the first newline, 0 when there is none.
Eol(s) == Min({i \in DOMAIN s : s[i] = NL} \cup {Len(s) + 1}) % (Len(s) + 1)

\* It returns NULL, and the thread closes the connection.
GiveUp == pc' = "failed"

MallocBuffer ==
  /\ pc = "malloc"
  /\ pc' = "recv" \/ ("malloc" \in Faults /\ GiveUp)
  /\ UNCHANGED <<readVars, line, seek_to, sendVars, errno, devVars, stream, hup, received, errors>>

\* Faulty call: the room in front of offset is counted twice.
RoomWholeBuffer == bufsize

Room == bufsize - offset

\* Faulty test: the buffer is enlarged one byte too late.
IsFullLate(o) == o > bufsize

IsFull(o) == o = bufsize

(***************************************************************************)
(* The buffer is doubled when it is full.  Once bufsize overflows it is    *)
(* negative, which reallocarray takes as a size beyond all memory.         *)
(***************************************************************************)
Enlarge ==
  \/ /\ 2 * bufsize <= INT_MAX
     /\ bufsize' = 2 * bufsize
     /\ UNCHANGED pc
  \/ /\ 2 * bufsize > INT_MAX \/ "reallocarray" \in Faults
     /\ GiveUp
     /\ UNCHANGED bufsize

\* The pieces that recv may deliver into n bytes.
Pieces(n) == UNION {[1 .. k -> Chars] : k \in 1 .. n}

Recv ==
  /\ pc = "recv"
  /\ \E piece \in Pieces(Min({Room, MaxStream - Len(stream)})) :
       /\ stream' = stream \o piece
       /\ buf' = SubSeq(buf, 1, offset) \o piece
       /\ IF Eol(piece) # 0
            THEN /\ line' = SubSeq(buf', 1, offset + Eol(piece))
                 /\ pc' = "parse"
                 /\ UNCHANGED <<bufsize, offset>>
            ELSE /\ offset' = offset + Len(piece)
                 /\ IF IsFull(offset') THEN Enlarge ELSE UNCHANGED <<pc, bufsize>>
                 /\ UNCHANGED line
  /\ UNCHANGED <<seek_to, sendVars, errno, devVars, hup, received, errors>>

\* recv returns 0 when the client has closed its end, and when there is no room.
RecvNothing ==
  /\ pc = "recv"
  /\ hup' = TRUE \/ (Room = 0 /\ UNCHANGED hup)
  /\ line' = SubSeq(buf, 1, offset)
  /\ pc' = "parse"
  /\ UNCHANGED <<readVars, seek_to, sendVars, errno, devVars, stream, received, errors>>

RecvFails ==
  /\ pc = "recv" /\ "recv" \in Faults
  /\ GiveUp
  /\ UNCHANGED <<readVars, line, seek_to, sendVars, errno, devVars, stream, hup, received, errors>>

-----------------------------------------------------------------------------
(***************************************************************************)
(* parse_ctrl_line                                                         *)
(***************************************************************************)

\* How many bytes at the start of s are in S.
Span(s, S) == Max({k \in 0 .. Len(s) : \A i \in 1 .. k : s[i] \in S})

Clamp(v, bits) == Max({-(2^(bits - 1)), Min({v, 2^(bits - 1) - 1})})

\* The number behind white space and a sign, up to the first byte that is no digit.
DecimalValue(s) ==
  LET text     == SubSeq(s, Span(s, (9 .. 13) \cup {32}) + 1, Len(s))
      signed   == text # <<>> /\ text[1] \in {43, 45}
      number   == IF signed THEN Tail(text) ELSE text
      value    == FoldLeft(LAMBDA v, d : 10 * v + d - 48, 0, SubSeq(number, 1, Span(number, Digit)))
  IN  IF signed /\ text[1] = 45 THEN -value ELSE value

atoi(s) == Clamp(DecimalValue(s), LongBits)

\* The conversion to int, and from there to uint32_t.
UInt32(v) == v % 2^IntBits

\* Faulty parser: the second parameter starts at the comma.
SecondAtComma(comma) == comma

SecondStart(comma) == comma + 1

\* The two strings that an embedded control string has for numbers.
CtrlParams(l) ==
  LET p == Len(EMBED_CTRL_PREF)
      commas == {i \in p + 1 .. Len(l) : l[i] = COMMA}
  IN  IF \/ Len(l) < p + MIN_EMBED_PARAM_CHARS \/ Last(l) # NL
         \/ ~IsPrefix(EMBED_CTRL_PREF, l) \/ commas = {}
        THEN NotCtrl
        ELSE <<SubSeq(l, p + 1, Min(commas) - 1), SubSeq(l, SecondStart(Min(commas)), Len(l) - 1)>>

parse_ctrl_line(l) ==
  IF CtrlParams(l) = NotCtrl
    THEN NotCtrl
    ELSE [write_cmd |-> UInt32(atoi(CtrlParams(l)[1])),
          write_cmd_offset |-> UInt32(atoi(CtrlParams(l)[2]))]

\* From here on the bytes behind the line, which are in the same buffer, are lost.
\* A number that does not fit into a long leaves ERANGE in errno.
Parse ==
  /\ pc = "parse"
  /\ seek_to' = parse_ctrl_line(line)
  /\ errno' = IF \E s \in Range(CtrlParams(line)) : atoi(s) # DecimalValue(s) THEN "atoi" ELSE errno
  /\ pc' = "device"
  /\ UNCHANGED <<readVars, line, sendVars, devVars, stream, hup, received, errors>>

-----------------------------------------------------------------------------
(***************************************************************************)
(* sock_thread_func between the two loops: store the line and open the     *)
(* device anew, or move to the command.                                    *)
(***************************************************************************)

Bytes == FlattenSeq(device)

\* The bytes in front of the place that an embedded control string asks for.
SeekPos(s) == Len(FlattenSeq(SubSeq(device, 1, s.write_cmd))) + s.write_cmd_offset

\* The locals of readline_from_socket are gone.
ForgetReading == bufsize' = BUFLEN /\ offset' = 0 /\ buf' = <<>> /\ stream' = <<>>

\* The device shows a line only when it is complete, behind what was left unfinished
\* before it; a write that fails sets errno.
AppendLine ==
  /\ pc = "device" /\ seek_to = NotCtrl
  /\ \/ /\ device' = IF Eol(line) # 0 THEN Append(device, Unfinished \o line) ELSE device
        /\ UNCHANGED errno
     \/ /\ "fwrite" \in Faults
        /\ errno' = "fwrite"
        /\ UNCHANGED device
  /\ pc' = "getline"
  /\ ForgetReading
  /\ UNCHANGED <<line, seek_to, sendVars, pos, hup, received, errors>>

IoctlSeek ==
  /\ pc = "device" /\ seek_to # NotCtrl
  /\ IF seek_to.write_cmd < Len(device) /\ seek_to.write_cmd_offset < Len(device[seek_to.write_cmd + 1])
       THEN pos' = SeekPos(seek_to) /\ pc' = "getline"
       ELSE pc' = "refused" /\ UNCHANGED pos
  /\ ForgetReading
  /\ UNCHANGED <<line, seek_to, sendVars, errno, device, hup, received, errors>>

-----------------------------------------------------------------------------
(***************************************************************************)
(* send_file                                                               *)
(***************************************************************************)

\* Faulty end: errno is not looked at.
SendFileResultTrue == TRUE

SendFileResult == errno = "0"

\* The bytes up to and with the next newline, or up to the end of the file.
NextLine ==
  LET rest == SubSeq(Bytes, pos + 1, Len(Bytes))
  IN  IF Eol(rest) = 0 THEN rest ELSE SubSeq(rest, 1, Eol(rest))

\* The line is to be sent; without a byte it returns -1, the loop ends and errno
\* decides on the result.
GetlineReturns(bytes) ==
  /\ out' = bytes
  /\ bytes_left' = Len(bytes) /\ send_offset' = 0
  /\ pos' = pos + Len(bytes)
  /\ IF bytes = <<>> THEN pc' = "done" /\ result' = SendFileResult'
                     ELSE pc' = "send" /\ UNCHANGED result

Getline ==
  /\ pc = "getline"
  /\ UNCHANGED errno
  /\ GetlineReturns(NextLine)
  /\ UNCHANGED <<readVars, line, seek_to, device, stream, hup, received, errors>>

\* The read of the device or the allocation of the line fails; what getline has of
\* the line when a read fails it returns.
GetlineFails ==
  /\ pc = "getline" /\ "getline" \in Faults
  /\ errno' = "getline"
  /\ \E n \in 0 .. Len(NextLine) :
       /\ Eol(SubSeq(NextLine, 1, n)) = 0
       /\ GetlineReturns(SubSeq(NextLine, 1, n))
  /\ UNCHANGED <<readVars, line, seek_to, device, stream, hup, received, errors>>

\* Faulty loop: after a short send the line is sent from its start again.
SentNoOffset(n) ==
  /\ bytes_left' = bytes_left - n
  /\ send_offset' = send_offset

\* send returned n, also when n is -1: bytes_left is unsigned, and line + offset wraps.
Sent(n) ==
  /\ bytes_left' = bytes_left - n
  /\ send_offset' = send_offset + n

ByteOfLine(i) == IF i \in DOMAIN out THEN out[i] ELSE JUNK

SendSome ==
  /\ pc = "send"
  /\ \E n \in 1 .. bytes_left :
       /\ received' = received \o [i \in 1 .. n |-> ByteOfLine(send_offset + i)]
       /\ Sent(n)
  /\ pc' = IF bytes_left' = 0 THEN "getline" ELSE "send"
  /\ UNCHANGED <<readVars, line, seek_to, out, result, errno, devVars, stream, hup, errors>>

\* A failure that passes, such as ENOBUFS, or the first one after a reset.
SendFails ==
  /\ pc = "send" /\ "send" \in Faults /\ errors < MaxErrors
  /\ Sent(-1)
  /\ errno' = "send"
  /\ errors' = errors + 1
  /\ UNCHANGED <<pc, readVars, line, seek_to, out, result, devVars, stream, hup, received>>

\* The client has gone: SIGPIPE ends the process.
SendKills ==
  /\ pc = "send" /\ "sigpipe" \in Faults
  /\ pc' = "killed"
  /\ UNCHANGED <<readVars, line, seek_to, sendVars, errno, devVars, stream, hup, received, errors>>

Next ==
  \/ MallocBuffer \/ Recv \/ RecvNothing \/ RecvFails
  \/ Parse \/ AppendLine \/ IoctlSeek
  \/ Getline \/ GetlineFails \/ SendSome \/ SendFails \/ SendKills

Spec == Init /\ [][Next]_vars

-----------------------------------------------------------------------------
(***************************************************************************)
(* Properties                                                              *)
(***************************************************************************)

\* Types; every byte received is inside the line buffer, and send stays in front
\* of the end of its line (sock_thread.c:42, 83).
TypeOK ==
  /\ bufsize \in 1 .. INT_MAX /\ Len(buf) <= bufsize
  /\ buf \in Seq(Chars) /\ received \in Seq(0 .. 255 \cup {JUNK})
  /\ bytes_left >= 0 /\ send_offset + bytes_left = Len(out)
  /\ result \in BOOLEAN

(***************************************************************************)
(* However the bytes are cut into pieces and however often the buffer is   *)
(* doubled, the line is the client's bytes up to and with the first        *)
(* newline; it ends without one only if the client has closed its end      *)
(* (sock_thread.c:41-67): a recv without room would look the same.         *)
(***************************************************************************)
LineIsFirstLine ==
  pc = "parse" =>
    IF Eol(stream) # 0 THEN line = SubSeq(stream, 1, Eol(stream)) ELSE hup /\ line = stream

LONG_MAX == 2^(LongBits - 1) - 1

TenTo[n \in Nat] == IF n = 0 THEN 1 ELSE 10 * TenTo[n - 1]

\* The decimal number that a string of digits stands for.
Number(s) == SumFunction([i \in DOMAIN s |-> (s[i] - 48) * TenTo[Len(s) - i]])

AllDigits(s) == s # <<>> /\ \A i \in DOMAIN s : s[i] \in Digit

(***************************************************************************)
(* A line of the documented form "AESDCHAR_IOCSEEKTO:<X>,<Y>" is taken as  *)
(* a control string with these two numbers, modulo the width of uint32_t   *)
(* (one that is too large for a long counts as the largest long), and a    *)
(* line without the prefix or the newline never is one                     *)
(* (sock_thread.c:97-134).                                                 *)
(***************************************************************************)
SeekAsDocumented ==
  pc = "device" =>
    /\ \A i \in DOMAIN line : LET X == SubSeq(line, Len(EMBED_CTRL_PREF) + 1, i - 1)
                                  Y == SubSeq(line, i + 1, Len(line) - 1)
         IN  (line = EMBED_CTRL_PREF \o X \o <<COMMA>> \o Y \o <<NL>> /\ AllDigits(X) /\ AllDigits(Y))
               => seek_to = [write_cmd |-> Min({Number(X), LONG_MAX}) % 2^IntBits,
                             write_cmd_offset |-> Min({Number(Y), LONG_MAX}) % 2^IntBits]
    /\ seek_to # NotCtrl => IsPrefix(EMBED_CTRL_PREF, line) /\ Last(line) = NL

\* What the client should receive: the device from the place it asked for on.
Answer ==
  LET from == IF seek_to = NotCtrl THEN 0 ELSE SeekPos(seek_to)
  IN  SubSeq(Bytes, from + 1, Len(Bytes))

\* s without the elements at the positions in D.
Without(s, D) == FlattenSeq([i \in DOMAIN s |-> IF i \in D THEN <<>> ELSE <<s[i]>>])

(***************************************************************************)
(* However send cuts it, the client receives the bytes of the device in    *)
(* order; each send that failed and was tried again puts exactly one byte  *)
(* too many in between, and none is lost (sock_thread.c:82-86).  Only a    *)
(* getline that fails cuts the answer short (sock_thread.c:79).            *)
(***************************************************************************)
AnswerArrives ==
  pc = "done" =>
    \E extra \in kSubset(errors, DOMAIN received) :
      /\ IsPrefix(Without(received, extra), Answer)
      /\ errno # "getline" => Without(received, extra) = Answer

(***************************************************************************)
(* When send_file returns true the client has received exactly the         *)
(* device's contents, its own complete line at their end, behind what was  *)
(* left unfinished before it (sock_thread.c:88-93).                        *)
(***************************************************************************)
TrueMeansSent ==
  pc = "done" /\ result =>
    /\ received = Answer
    /\ seek_to = NotCtrl /\ Eol(line) # 0 => Last(device) = Unfinished \o line

=============================================================================
