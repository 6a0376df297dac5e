----------------------------- MODULE TimerThread -----------------------------
(***************************************************************************)
(* server/itimer_thread.c and what main does with it: in the configuration *)
(* without USE_AESD_CHAR_DEVICE a POSIX timer appends a timestamp to the   *)
(* file at every expiration.  Each expiration runs timer_thread in a       *)
(* thread of its own, which timer_delete does not wait for.                *)
(***************************************************************************)
EXTENDS ServerBase

-----------------------------------------------------------------------------
(***************************************************************************)
(* main                                                                    *)
(***************************************************************************)

start_timer ==
  /\ mpc = "start_timer"
  /\ \/ timer' = "armed" /\ mpc' = "run"
     \/ MayFail("timer_create") /\ UNCHANGED timer /\ mpc' = "destroy"
  /\ UNCHANGED <<is_running, connVars, listVars, sigVars, sharedVars, threadVars,
                 netVars, devVars, exists, config, tickVars>>

\* Faulty end: the timer goes on.
DeleteTimerForgotten ==
  /\ mpc = "timer_delete"
  /\ mpc' = "drain"
  /\ UNCHANGED <<is_running, connVars, listVars, sigVars, sharedVars, threadVars,
                 netVars, devVars, timerVars>>

DeleteTimer ==
  /\ mpc = "timer_delete"
  /\ timer' = "deleted"
  /\ mpc' = "drain"
  /\ UNCHANGED <<is_running, connVars, listVars, sigVars, sharedVars, threadVars,
                 netVars, devVars, exists, config, tickVars>>

\* The file loses its name; whoever has it open writes where nobody reads.
\* When remove fails the file stays, and main goes on.
RemoveFile ==
  /\ mpc = "remove"
  /\ \/ /\ exists' = FALSE /\ log' = <<>>
        /\ fds' = [f \in Fd |-> IF fds[f].use = "file" THEN [fds[f] EXCEPT !.use = "unlinked"]
                                                        ELSE fds[f]]
     \/ MayFail("remove") /\ UNCHANGED <<exists, log, fds>>
  /\ mpc' = "destroy"
  /\ UNCHANGED <<is_running, connVars, listVars, sigVars, sharedVars, threadVars,
                 listening, conn, input, partial, config, timer, tickVars>>

-----------------------------------------------------------------------------
(***************************************************************************)
(* timer_thread                                                            *)
(***************************************************************************)

TickAt(t, label) == Alive /\ kpc[t] = label

TickGoto(t, label) == kpc' = [kpc EXCEPT ![t] = label]

TimerExpires(t) ==
  /\ TickAt(t, "none") /\ timer = "armed"
  /\ TickGoto(t, "fopen")
  /\ UNCHANGED <<mainVars, sigVars, sharedVars, threadVars, netVars, devVars,
                 exists, config, timer, kfile, stamp>>

\* Mode "a+" creates the file when it is not there.
TimerFopen(t) ==
  /\ TickAt(t, "fopen")
  /\ \/ /\ OpenFd("file", t)
        /\ kfile' = [kfile EXCEPT ![t] = LowestFd]
        /\ exists' = TRUE
        /\ TickGoto(t, "lock")
     \/ /\ MayFail("timer_fopen")
        /\ TickGoto(t, "ended")
        /\ UNCHANGED <<fds, kfile, exists>>
  /\ UNCHANGED <<mainVars, sigVars, sharedVars, threadVars, listening, conn, input,
                 devVars, config, timer, stamp>>

\* A mutex that main has destroyed is refused or taken for a free one.
TimerLock(t) ==
  /\ TickAt(t, "lock")
  /\ \/ /\ mutex \in {NULL, "destroyed"}
        /\ mutex' = IF mutex = NULL THEN t ELSE mutex
        /\ TickGoto(t, "append")
     \/ /\ mutex = "destroyed" \/ MayFail("timer_lock")
        /\ TickGoto(t, "fclose")
        /\ UNCHANGED mutex
  /\ UNCHANGED <<mainVars, sigVars, argVars, threadVars, netVars, devVars,
                 exists, config, timer, kfile, stamp>>

\* strftime or fwrite may fail; otherwise the timestamp is in the file's buffer,
\* which is the thread's own, when it releases the mutex.
TimerAppend(t) ==
  /\ TickAt(t, "append")
  /\ \E failed \in {FALSE} \cup (IF MayFail("timer_fwrite") THEN {TRUE} ELSE {}) :
       stamp' = [stamp EXCEPT ![t] = ~failed]
  /\ mutex' = IF mutex = t THEN NULL ELSE mutex
  /\ TickGoto(t, "fclose")
  /\ UNCHANGED <<mainVars, sigVars, argVars, threadVars, netVars, devVars,
                 exists, config, timer, kfile>>

\* fclose writes the timestamp out, without the mutex.
TimerFclose(t) ==
  /\ TickAt(t, "fclose")
  /\ log' = IF stamp[t] /\ fds[kfile[t]].use = "file" THEN Append(log, <<t>>) ELSE log
  /\ CloseFd(kfile[t])
  /\ kfile' = [kfile EXCEPT ![t] = NoFile]
  /\ stamp' = [stamp EXCEPT ![t] = FALSE]
  /\ TickGoto(t, "ended")
  /\ UNCHANGED <<mainVars, sigVars, sharedVars, threadVars, listening, conn, input,
                 partial, exists, config, timer>>

=============================================================================
