----------------------------- MODULE ServerMain -----------------------------
(***************************************************************************)
(* server/main.c: the main thread starts up, accepts connections, starts a *)
(* thread for each, reaps the finished ones and, once it has been told to  *)
(* stop, waits for the rest; the signal handler tells it at any moment.    *)
(***************************************************************************)
EXTENDS ServerBase

(***************************************************************************)
(* signal_handler for SIGINT and SIGTERM, from set_signals on.  The model  *)
(* is bounded to one signal.  The thread that the kernel picks to run the  *)
(* handler is suspended meanwhile, the others are not.                     *)
(***************************************************************************)

SignalArrives ==
  /\ Alive /\ sigpc = "ready"
  /\ sigpc' = "caught"
  /\ sighost' \in {"main"} \cup {c \in Client : tpc[c] \notin {"none", "ended"}}
                        \cup {t \in Tick : kpc[t] \notin {"none", "ended"}}
  /\ UNCHANGED <<mainVars, timerVars, sharedVars, threadVars, netVars, devVars>>

HandlerClearsFlag ==
  /\ Alive /\ sigpc = "caught"
  /\ is_running' = FALSE
  /\ sigpc' = "shutdown"
  /\ UNCHANGED <<mpc, sighost, connVars, listVars, timerVars, sharedVars, threadVars, netVars, devVars>>

\* Faulty handler: it does not wake up accept.
HandlerNoShutdown ==
  /\ Alive /\ sigpc = "shutdown"
  /\ sigpc' = "done" /\ sighost' = NULL
  /\ UNCHANGED <<mainVars, timerVars, sharedVars, threadVars, netVars, devVars>>

HandlerShutsDown ==
  /\ Alive /\ sigpc = "shutdown"
  /\ StopListening
  /\ sigpc' = "done" /\ sighost' = NULL
  /\ UNCHANGED <<fds, input, mainVars, timerVars, sharedVars, threadVars, devVars>>

-----------------------------------------------------------------------------
(***************************************************************************)
(* main: start                                                             *)
(***************************************************************************)

\* An argument it does not know is ignored.
parse_args ==
  /\ mpc = "parse_args"
  /\ \/ /\ Len(argv) <= 1 /\ argv # <<"-h">>
        /\ mpc' = "start"
        /\ UNCHANGED exit_code
     \/ /\ Len(argv) > 1 \/ argv = <<"-h">>
        /\ mpc' = "exited"
        /\ exit_code' = IF Len(argv) > 1 THEN "EXIT_FAILURE" ELSE "EXIT_SUCCESS"
  /\ UNCHANGED <<is_running, server_sock_fd, client_sock_fd, new, listVars,
                 sigVars, timerVars, sharedVars, threadVars, netVars, devVars>>

should_daemonize == argv = <<"-d">>

\* listen() may fail without start_listening returning an error; a failure
\* of setsockopt leaves the socket open.
start_listening ==
  /\ mpc = "start"
  /\ \/ /\ OpenFd("server", NULL)
        /\ server_sock_fd' = LowestFd
        /\ listening' \in {TRUE} \cup (IF MayFail("listen") THEN {FALSE} ELSE {})
        /\ mpc' = "set_signals"
     \/ /\ MayFail("bind")
        /\ UNCHANGED fds \/ OpenFd("server", NULL)
        /\ server_sock_fd' = -1
        /\ mpc' = "exited"
        /\ UNCHANGED listening
  /\ UNCHANGED <<is_running, client_sock_fd, exit_code, new, conn,
                 input, listVars, sigVars, timerVars, sharedVars, threadVars, devVars>>

\* When the last sigaction fails SIGINT is handled already.
set_signals ==
  /\ mpc = "set_signals"
  /\ \/ sigpc' = "ready" /\ mpc' = "daemonize"
     \/ MayFail("sigaction") /\ sigpc' \in {sigpc, "ready"} /\ mpc' = "close_server"
  /\ UNCHANGED <<is_running, sighost, connVars, listVars, timerVars,
                 sharedVars, threadVars, netVars, devVars>>

\* With -d the child of the second fork goes on, and keeps the descriptor of
\* /dev/null open; a failure ends the process at once.
daemonize ==
  /\ mpc = "daemonize"
  /\ \/ /\ mpc' = "mutex_init"
        /\ IF should_daemonize THEN OpenFd("null", NULL) ELSE UNCHANGED fds
     \/ /\ should_daemonize /\ MayFail("fork")
        /\ mpc' = "killed"
        /\ UNCHANGED fds
  /\ UNCHANGED <<is_running, listening, conn, input, connVars, listVars, sigVars, timerVars,
                 sharedVars, threadVars, devVars>>

InitMutexAndList ==
  /\ mpc = "mutex_init"
  /\ \/ mutex' = NULL /\ mpc' = IF build = "file" THEN "start_timer" ELSE "run"
     \/ MayFail("mutex_init") /\ mutex' = mutex /\ mpc' = "close_server"
  /\ head' = NULL
  /\ UNCHANGED <<is_running, link, cur, cleaning, connVars,
                 sigVars, timerVars, argVars, threadVars, netVars, devVars>>

StartRunning ==
  /\ mpc = "run"
  /\ is_running' = TRUE
  /\ mpc' = "check"
  /\ UNCHANGED <<connVars, listVars, sigVars, timerVars, sharedVars, threadVars, netVars, devVars>>

-----------------------------------------------------------------------------
(***************************************************************************)
(* main: the accept loop                                                   *)
(***************************************************************************)

LeaveLoop == exit_code' = "EXIT_SUCCESS" /\ mpc' = "cleanup"

CheckRunning ==
  /\ mpc = "check"
  /\ IF is_running THEN mpc' = "accept" /\ UNCHANGED exit_code ELSE LeaveLoop
  /\ UNCHANGED <<is_running, server_sock_fd, client_sock_fd, new, listVars,
                 sigVars, timerVars, sharedVars, threadVars, netVars, devVars>>

Accept(c) ==
  /\ mpc = "accept" /\ listening /\ conn[c] = "queued"
  /\ OpenFd("socket", c)
  /\ client_sock_fd' = LowestFd
  /\ conn' = [conn EXCEPT ![c] = "accepted"]
  /\ new' = c
  /\ mpc' = "init_thread"
  /\ UNCHANGED <<is_running, server_sock_fd, exit_code, listening, input,
                 listVars, sigVars, timerVars, sharedVars, threadVars, devVars>>

AcceptFails ==
  /\ mpc = "accept" /\ (~listening \/ MayFail("accept"))
  /\ client_sock_fd' = -1
  /\ IF is_running THEN mpc' = "check" /\ UNCHANGED exit_code ELSE LeaveLoop
  /\ UNCHANGED <<is_running, server_sock_fd, new, listVars,
                 sigVars, timerVars, sharedVars, threadVars, netVars, devVars>>

init_thread ==
  /\ mpc = "init_thread"
  /\ \/ /\ args' = [args EXCEPT ![new] = "live"]
        /\ sock_fd' = [sock_fd EXCEPT ![new] = client_sock_fd]
        /\ finished' = [finished EXCEPT ![new] = FALSE]
        /\ mpc' = "pthread_create"
     \/ /\ MayFail("malloc")
        /\ mpc' = "cleanup"
        /\ UNCHANGED <<args, sock_fd, finished>>
  /\ UNCHANGED <<is_running, mutex, connVars, listVars, sigVars, timerVars, threadVars, netVars, devVars>>

CreateThread ==
  /\ mpc = "pthread_create"
  /\ \/ /\ tpc' = [tpc EXCEPT ![new] = "readline"]
        /\ mpc' = "insert"
        /\ UNCHANGED args
     \/ /\ MayFail("pthread_create")
        /\ args' = [args EXCEPT ![new] = "freed"]
        /\ mpc' = "cleanup"
        /\ UNCHANGED tpc
  /\ UNCHANGED <<is_running, finished, sock_fd, mutex, connVars,
                 listVars, sigVars, timerVars, localVars, netVars, devVars>>

\* Faulty loop: client_sock_fd keeps the descriptor that is the thread's now.
ClientFdStays == client_sock_fd

\* Faulty loop: the descriptor is marked with 0.
ClientFdZero == 0

\* client_sock_fd = -1: the descriptor belongs to the thread from now on.
ClientFdHandedOver == -1

SLIST_INSERT_HEAD(c) ==
  /\ link' = [link EXCEPT ![c] = head]
  /\ head' = c

\* The thread enters the list, and remove_joinable_threads starts at its head.
InsertThread ==
  /\ mpc = "insert"
  /\ client_sock_fd' = ClientFdHandedOver
  /\ SLIST_INSERT_HEAD(new)
  /\ cur' = new /\ new' = NULL
  /\ mpc' = "reap"
  /\ UNCHANGED <<is_running, server_sock_fd, exit_code, cleaning,
                 sigVars, timerVars, sharedVars, threadVars, netVars, devVars>>

-----------------------------------------------------------------------------
(***************************************************************************)
(* remove_joinable_threads                                                 *)
(***************************************************************************)

\* Faulty test: every thread is waited for.
IsFinishedAlways(c) == TRUE

IsFinished(c) == finished[c]

\* The test of the loop of SLIST_FOREACH_SAFE and of next->finished.
ReapNext ==
  /\ mpc = "reap"
  /\ \/ /\ cur = NULL
        /\ mpc' = IF cleaning THEN "drain" ELSE "check"
        /\ UNCHANGED cur
     \/ /\ cur # NULL /\ ~IsFinished(cur)
        /\ cur' = link[cur]
        /\ UNCHANGED mpc
     \/ /\ cur # NULL /\ IsFinished(cur)
        /\ mpc' = "join"
        /\ UNCHANGED cur
  /\ UNCHANGED <<is_running, head, link, cleaning, connVars,
                 sigVars, timerVars, sharedVars, threadVars, netVars, devVars>>

\* Faulty removal: always of the first element.
SLIST_REMOVE_First(c) == head' = link[head] /\ link' = link

\* Unlink c from behind the head or from behind its predecessor.
SLIST_REMOVE(c) ==
  IF head = c
    THEN head' = link[head] /\ link' = link
    ELSE /\ head' = head
         /\ link' = [p \in Client |-> IF link[p] = c THEN link[c] ELSE link[p]]

\* pthread_join returns when the thread has ended; unlink and free its args.
JoinAndFree ==
  /\ mpc = "join" /\ tpc[cur] = "ended"
  /\ SLIST_REMOVE(cur)
  /\ args' = [args EXCEPT ![cur] = "freed"]
  /\ cur' = link[cur]
  /\ mpc' = "reap"
  /\ UNCHANGED <<is_running, cleaning, finished, sock_fd, mutex,
                 connVars, sigVars, timerVars, threadVars, netVars, devVars>>

-----------------------------------------------------------------------------
(***************************************************************************)
(* main: the end                                                           *)
(***************************************************************************)

CloseClientFd ==
  /\ mpc = "cleanup"
  /\ IF client_sock_fd # -1 THEN CloseSocket(client_sock_fd) ELSE UNCHANGED <<fds, conn>>
  /\ cleaning' = TRUE
  /\ mpc' = IF build = "file" THEN "timer_delete" ELSE "drain"
  /\ UNCHANGED <<is_running, head, link, cur, listening,
                 input, connVars, sigVars, timerVars, sharedVars, threadVars, devVars>>

\* Faulty end: nobody waits for the threads.
DrainNothing ==
  /\ mpc = "drain"
  /\ mpc' = "destroy"
  /\ UNCHANGED <<is_running, connVars, listVars,
                 sigVars, timerVars, sharedVars, threadVars, netVars, devVars>>

remove_all_remaining_threads ==
  /\ mpc = "drain"
  /\ IF head = NULL THEN mpc' = (IF build = "file" THEN "remove" ELSE "destroy") /\ UNCHANGED cur
                    ELSE mpc' = "reap" /\ cur' = head
  /\ UNCHANGED <<is_running, head, link, cleaning, connVars,
                 sigVars, timerVars, sharedVars, threadVars, netVars, devVars>>

DestroyMutex ==
  /\ mpc = "destroy"
  /\ mutex' = IF mutex = NULL THEN "destroyed" ELSE mutex
  /\ mpc' = "close_server"
  /\ UNCHANGED <<is_running, connVars, listVars, sigVars, timerVars,
                 argVars, threadVars, netVars, devVars>>

CloseServer ==
  /\ mpc = "close_server"
  /\ CloseFd(server_sock_fd)
  /\ StopListening
  /\ mpc' = "exited"
  /\ UNCHANGED <<is_running, input, connVars, listVars,
                 sigVars, timerVars, sharedVars, threadVars, devVars>>

=============================================================================
