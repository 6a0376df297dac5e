----------------------------- MODULE SockThread -----------------------------
(***************************************************************************)
(* sock_thread_func of server/sock_thread.c: a client's thread reads one   *)
(* line, appends it to the device or file under the mutex and sends its    *)
(* contents back, or those from a command on when the line is an embedded  *)
(* control string.                                                         *)
(***************************************************************************)
EXTENDS ServerBase

Goto(c, label) == tpc' = [tpc EXCEPT ![c] = label]

\* Ready to take the step: the thread is at the label and the process is there.
At(c, label) == Alive /\ tpc[c] = label

\* What readline_from_socket returns: NULL on an error, otherwise a line, also
\* one that the end of the connection has cut short or left empty.
readline_from_socket(c) ==
  (IF input[c] # "none" THEN {input[c]} ELSE {})
  \cup (IF MayFail("recv") THEN {NULL} ELSE {})

\* Whether a line is an embedded control string, which only the device knows.
parse_ctrl_line(line) == build = "device" /\ line = "ctrl"

\* An embedded control string goes straight to the mutex.
ReadLine(c) ==
  /\ At(c, "readline")
  /\ \E line \in readline_from_socket(c) :
       Goto(c, CASE line = NULL            -> "close"
                 [] parse_ctrl_line(line)  -> "lock"
                 [] OTHER                  -> "fopen_a")
  /\ UNCHANGED <<mainVars, sigVars, timerVars, sharedVars, localVars, netVars, devVars>>

FopenAppend(c) ==
  /\ At(c, "fopen_a")
  /\ \/ /\ OpenFd("file", c)
        /\ file' = [file EXCEPT ![c] = LowestFd]
        /\ exists' = TRUE
        /\ Goto(c, "lock")
     \/ /\ MayFail("fopen_a")
        /\ Goto(c, "close")
        /\ UNCHANGED <<fds, file, exists>>
  /\ UNCHANGED <<lost, start, response, sent, listening, conn, input,
                 mainVars, sigVars, sharedVars, devVars, config, timer, tickVars>>

\* Faulty lock: nobody waits.
ThreadLockNoWait(c) ==
  /\ At(c, "lock")
  /\ mutex' = c
  /\ Goto(c, IF parse_ctrl_line(input[c]) THEN "fopen_r" ELSE "append")
  /\ UNCHANGED <<mainVars, sigVars, timerVars, argVars, localVars, netVars, devVars>>

ThreadLock(c) ==
  /\ At(c, "lock") /\ mutex = NULL
  /\ mutex' = c
  /\ Goto(c, IF parse_ctrl_line(input[c]) THEN "fopen_r" ELSE "append")
  /\ UNCHANGED <<mainVars, sigVars, timerVars, argVars, localVars, netVars, devVars>>

\* The path err_mutex_lock, on which file is closed without the lock.
ThreadLockFails(c) ==
  /\ At(c, "lock") /\ MayFail("mutex_lock")
  /\ Goto(c, "fclose_r")
  /\ UNCHANGED <<mainVars, sigVars, timerVars, sharedVars, localVars, netVars, devVars>>

\* Whether append_to_file has lost the line on the way into the file's buffer; it
\* returns true all the same.
append_to_file == {FALSE} \cup (IF MayFail("fwrite") THEN {TRUE} ELSE {})

\* What the device keeps once the bytes of client c have been written to it; a
\* file keeps everything.
DeviceWrite(c) ==
  CASE build = "file" /\ input[c] # "eof" ->
         log' = Append(log, <<c>>) /\ UNCHANGED partial
    [] build = "device" /\ input[c] = "line" ->
         /\ log' = Append(IF Len(log) = Capacity THEN Tail(log) ELSE log, Append(partial, c))
         /\ partial' = <<>>
    [] build = "device" /\ input[c] = "partial" -> partial' = Append(partial, c) /\ UNCHANGED log
    [] OTHER -> UNCHANGED devVars     \* no bytes, no write

\* The line goes into the file's buffer, which is the thread's own, and fclose
\* writes it out; the thread goes on when that fails.
AppendAndClose(c) ==
  /\ At(c, "append")
  /\ \E failed \in append_to_file \cup (IF MayFail("fclose") THEN {TRUE} ELSE {}) :
       /\ lost' = [lost EXCEPT ![c] = failed]
       /\ IF failed THEN UNCHANGED devVars ELSE DeviceWrite(c)
  /\ CloseFd(file[c])
  /\ file' = [file EXCEPT ![c] = NoFile]
  /\ Goto(c, "fopen_r")
  /\ UNCHANGED <<start, response, sent, listening,
                 conn, input, mainVars, sigVars, timerVars, sharedVars>>

FopenRead(c) ==
  /\ At(c, "fopen_r")
  /\ \/ /\ OpenFd("file", c)
        /\ file' = [file EXCEPT ![c] = LowestFd]
        /\ Goto(c, IF parse_ctrl_line(input[c]) THEN "ioctl" ELSE "send")
     \/ /\ MayFail("fopen_r")
        /\ Goto(c, "unlock")
        /\ UNCHANGED <<fds, file>>
  /\ UNCHANGED <<lost, start, response, sent, listening,
                 conn, input, mainVars, sigVars, timerVars, sharedVars, devVars>>

\* AESDCHAR_IOCSEEKTO moves to some command of the log or is refused.
SeekTo(c) ==
  /\ At(c, "ioctl")
  /\ \/ \E i \in 1 .. Len(log) : start' = [start EXCEPT ![c] = i] /\ Goto(c, "send")
     \/ UNCHANGED start /\ Goto(c, "unlock")
  /\ UNCHANGED <<file, lost, response, sent, mainVars, sigVars, timerVars, sharedVars, netVars, devVars>>

\* The place in the log of the next piece that send_file reads.
NextPiece(c) == start[c] + Len(response[c])

\* The loop of send_file: one more piece of the contents is sent.  send waits,
\* with the mutex, until the client takes it.
SendNext(c) ==
  /\ At(c, "send") /\ NextPiece(c) <= Len(log)
  /\ response' = [response EXCEPT ![c] = Append(@, log[NextPiece(c)])]
  /\ UNCHANGED <<tpc, sent, file, lost, start, mainVars, sigVars, timerVars,
                 sharedVars, netVars, devVars>>

\* getline finds the end of the contents, or fails and cuts the answer short.
SendEnd(c) ==
  /\ At(c, "send")
  /\ \/ NextPiece(c) > Len(log) /\ sent' = [sent EXCEPT ![c] = TRUE]
     \/ MayFail("getline") /\ UNCHANGED sent
  /\ Goto(c, "unlock")
  /\ UNCHANGED <<file, lost, start, response, mainVars, sigVars, timerVars,
                 sharedVars, netVars, devVars>>

\* The client has gone: send raises SIGPIPE, which nobody handles.
SendKills(c) ==
  /\ At(c, "send") /\ MayFail("send")
  /\ mpc' = "killed"
  /\ UNCHANGED <<is_running, connVars, listVars, sigVars, timerVars,
                 sharedVars, threadVars, netVars, devVars>>

ThreadUnlock(c) ==
  /\ At(c, "unlock")
  /\ mutex' = NULL
  /\ Goto(c, "fclose_r")
  /\ UNCHANGED <<mainVars, sigVars, timerVars, argVars, localVars, netVars, devVars>>

\* fclose(NULL), after a failed fopen or lock, crashes the process.
FcloseRead(c) ==
  /\ At(c, "fclose_r")
  /\ \/ /\ file[c] # NoFile
        /\ CloseFd(file[c])
        /\ file' = [file EXCEPT ![c] = NoFile]
        /\ Goto(c, "close")
        /\ UNCHANGED mpc
     \/ /\ file[c] = NoFile
        /\ mpc' = "killed"
        /\ UNCHANGED <<fds, file, tpc>>
  /\ UNCHANGED <<is_running, lost, start, response, sent, listening,
                 conn, input, connVars, listVars, sigVars, timerVars, sharedVars, devVars>>

\* Faulty end: the connection stays open.
CloseConnectionForgotten(c) ==
  /\ At(c, "close")
  /\ Goto(c, "finish")
  /\ UNCHANGED <<mainVars, sigVars, timerVars, sharedVars, localVars, netVars, devVars>>

CloseConnection(c) ==
  /\ At(c, "close")
  /\ CloseSocket(sock_fd[c])
  /\ Goto(c, "finish")
  /\ UNCHANGED <<listening, input, mainVars, sigVars, timerVars, sharedVars, localVars, devVars>>

\* The function returns, and what it knew goes with it.
SetFinished(c) ==
  /\ At(c, "finish")
  /\ finished' = [finished EXCEPT ![c] = TRUE]
  /\ lost' = [lost EXCEPT ![c] = FALSE]
  /\ start' = [start EXCEPT ![c] = 1]
  /\ response' = [response EXCEPT ![c] = <<>>]
  /\ sent' = [sent EXCEPT ![c] = FALSE]
  /\ Goto(c, "ended")
  /\ UNCHANGED <<file, args, sock_fd, mutex, mainVars, sigVars, timerVars, netVars, devVars>>

=============================================================================
