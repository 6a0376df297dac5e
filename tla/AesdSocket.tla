----------------------------- MODULE AesdSocket -----------------------------
(***************************************************************************)
(* The socket server: the main thread, the signal handler, the threads of  *)
(* the clients and of the timer, and the clients, interleaved, and what    *)
(* they guarantee together.                                                *)
(***************************************************************************)
EXTENDS ServerMain, SockThread, TimerThread

MainStep ==
  /\ sighost # "main"
  /\ \/ parse_args \/ start_listening \/ set_signals \/ daemonize \/ InitMutexAndList \/ start_timer \/ StartRunning
     \/ CheckRunning \/ (\E c \in Client : Accept(c)) \/ AcceptFails
     \/ init_thread \/ CreateThread \/ InsertThread
     \/ ReapNext \/ JoinAndFree
     \/ CloseClientFd \/ DeleteTimer \/ remove_all_remaining_threads
     \/ RemoveFile \/ DestroyMutex \/ CloseServer

signal_handler == HandlerClearsFlag \/ HandlerShutsDown

sock_thread_func(c) ==
  /\ sighost # c
  /\ \/ ReadLine(c) \/ FopenAppend(c) \/ ThreadLock(c) \/ ThreadLockFails(c) \/ AppendAndClose(c)
     \/ FopenRead(c) \/ SeekTo(c) \/ SendEnd(c) \/ SendKills(c)
     \/ ThreadUnlock(c) \/ FcloseRead(c) \/ CloseConnection(c) \/ SetFinished(c)

\* The step of a client's thread that needs the client: it takes what is sent.
send_to_client(c) == sighost # c /\ SendNext(c)

timer_thread(t) ==
  /\ sighost # t
  /\ TimerFopen(t) \/ TimerLock(t) \/ TimerAppend(t) \/ TimerFclose(t)

Next ==
  \/ MainStep
  \/ SignalArrives \/ signal_handler
  \/ \E t \in Tick : TimerExpires(t) \/ timer_thread(t)
  \/ \E c \in Client : Connect(c) \/ Send(c) \/ sock_thread_func(c) \/ send_to_client(c)

Spec == Init /\ [][Next]_vars

(***************************************************************************)
(* Every thread and the handler are scheduled again and again.  A thread   *)
(* takes the mutex once, so waiters are not overtaken for ever.  Clients   *)
(* need not connect, send, read what is sent to them or hang up.           *)
(***************************************************************************)
FairSpec ==
  /\ Spec
  /\ WF_vars(MainStep) /\ WF_vars(signal_handler)
  /\ \A c \in Client : WF_vars(sock_thread_func(c))
  /\ \A t \in Tick : WF_vars(timer_thread(t))

\* In addition, a client that has been accepted sends something or hangs up, and
\* reads its answer.
PromptClientsSpec ==
  FairSpec /\ \A c \in Client : WF_vars(Send(c)) /\ WF_vars(send_to_client(c))

-----------------------------------------------------------------------------
(***************************************************************************)
(* Properties                                                              *)
(***************************************************************************)

Active(c) == tpc[c] \notin {"none", "ended"}

\* The state of the server.
TypeOK ==
  /\ is_running \in BOOLEAN /\ cleaning \in BOOLEAN
  /\ client_sock_fd \in Fd \cup {-1} /\ server_sock_fd \in Fd \cup {-1, 0}
  /\ {head, cur, new} \subseteq Client \cup {NULL}
  /\ link \in [Client -> Client \cup {NULL}]
  /\ args \in [Client -> {"none", "live", "freed"}]
  /\ mutex \in Client \cup Tick \cup {NULL, "none", "destroyed"}
  /\ file \in [Client -> Fd \cup {NoFile}] /\ kfile \in [Tick -> Fd \cup {NoFile}]
  /\ fds \in [Fd -> [use : {"free", "null", "server", "socket", "file", "unlinked"},
                    by : Client \cup Tick \cup {NULL}]]
  /\ conn \in [Client -> {"none", "queued", "accepted", "closed", "reset"}]
  /\ partial \in Seq(Client)

IsTimestamp(piece) == \E t \in Tick : piece = <<t>>

\* From position first on the log holds nothing but timestamps.
OnlyTimestampsFrom(first) == \A i \in first .. Len(log) : IsTimestamp(log[i])

\* The last piece of the log that is not a timestamp ends with c's line.
LastLineIs(c) ==
  \E i \in DOMAIN log : ~IsTimestamp(log[i]) /\ Last(log[i]) = c /\ OnlyTimestampsFrom(i + 1)

(***************************************************************************)
(* A client receives the contents as one snapshot: it ends with the        *)
(* client's own line when that was stored, and no line of another client   *)
(* comes in between, although each thread writes and reads back through    *)
(* different open files (sock_thread.c:166-214).  Only timestamps, which   *)
(* the timer flushes without the mutex, may come in between or be missing  *)
(* at the end (itimer_thread.c:58-63).                                     *)
(***************************************************************************)
EchoIsSnapshot ==
  \A c \in Client : tpc[c] = "unlock" /\ sent[c] =>
    /\ IsPrefix(response[c], SubSeq(log, start[c], Len(log)))
    /\ OnlyTimestampsFrom(start[c] + Len(response[c]))
    /\ input[c] = "line" /\ ~lost[c] => start[c] = 1 /\ LastLineIs(c)

(***************************************************************************)
(* A connection's descriptor, and the one of an open file, refers to it    *)
(* until its own thread closes it: although numbers are used again, main   *)
(* and the threads never close one another's (main.c:329, 338-340).        *)
(***************************************************************************)
DescriptorsStayWithTheirThread ==
  \A c \in Client :
    /\ Active(c) /\ tpc[c] # "finish" => fds[sock_fd[c]] = [use |-> "socket", by |-> c]
    /\ file[c] # NoFile => fds[file[c]] = [use |-> "file", by |-> c]

\* The elements of the list of thread args, in at most one round.
Listed ==
  LET nth[n \in 0 .. Cardinality(Client)] ==
        IF n = 0 THEN head ELSE IF nth[n - 1] = NULL THEN NULL ELSE link[nth[n - 1]]
  IN  {nth[n] : n \in DOMAIN nth} \ {NULL}

(***************************************************************************)
(* The list holds exactly the threads that have been started and not       *)
(* joined, and the args of a running thread are allocated: main walks over *)
(* no freed element and loses no thread (main.c:225-249).                  *)
(***************************************************************************)
ListHoldsThreads == Alive =>
  /\ Listed = {c \in Client : /\ tpc[c] # "none" /\ args[c] = "live"
                              /\ ~(mpc = "insert" /\ new = c)}
  /\ mpc \in {"reap", "join"} => cur \in Listed \cup {NULL}
  /\ \A c \in Client : Active(c) => args[c] = "live"

(***************************************************************************)
(* When main returns, all threads of clients have ended, their args and    *)
(* connections are released, and so are the mutex and the descriptors; the *)
(* mutex is destroyed only when no such thread can use it any more, on the *)
(* error paths of the loop too.  Three things the code does leave behind:  *)
(* the descriptor of /dev/null that daemonize opens; the server's socket   *)
(* when setsockopt fails, with -1 in server_sock_fd (main.c:97-101); and   *)
(* what a thread of the timer that is under way has, since nobody waits    *)
(* for it (main.c:342).                                                    *)
(***************************************************************************)
ExitReleasesEverything ==
  /\ mutex = "destroyed" => \A c \in Client : ~Active(c)
  /\ mpc = "exited" =>
       /\ \A c \in Client : ~Active(c) /\ args[c] # "live" /\ conn[c] # "accepted"
       /\ mutex \in {"none", "destroyed"} \/ \E t \in Tick : kpc[t] # "none"
       /\ \A f \in Fd : \/ fds[f].use \in {"free", "null"} \/ fds[f].by \in Tick
                        \/ fds[f].use = "server" /\ server_sock_fd = -1

\* No thread of the timer is under way.
TimerQuiet == \A t \in Tick : kpc[t] \in {"none", "ended"}

\* main has removed the file, or may not have created one.
Removed == build = "file" /\ mpc \in {"destroy", "close_server", "exited"}

(***************************************************************************)
(* The file stays removed: once main has removed it while no thread of the *)
(* timer is under way, none comes that would create it again (main.c:      *)
(* 342-350).  One that was under way may.                                  *)
(***************************************************************************)
RemovedForGood ==
  [][Removed /\ TimerQuiet /\ ~exists => TimerQuiet' /\ ~exists']_vars

(***************************************************************************)
(* A client that waits in the backlog is accepted or reset, even if the    *)
(* clients that are being served never say a word.                         *)
(***************************************************************************)
ClientsAreAccepted ==
  \A c \in Client : conn[c] = "queued" ~> conn[c] # "queued"

\* The thread of client c holds the mutex and has more to send to the client.
Unread(c) == tpc[c] = "send" /\ NextPiece(c) <= Len(log)

(***************************************************************************)
(* A connection whose client has spoken or hung up is closed in the end,   *)
(* although the threads queue up for one mutex, unless from some moment on *)
(* a client, this one or another, never reads the rest of its answer: send *)
(* waits for it with the mutex held (sock_thread.c:83, 166-214).           *)
(***************************************************************************)
ConnectionsEnd ==
  \A c \in Client :
    (conn[c] = "accepted" /\ input[c] # "none")
      ~> (conn[c] = "closed" \/ [](\E d \in Client : Unread(d)))

InLoop ==
  mpc \in {"check", "accept", "init_thread", "pthread_create", "insert", "reap", "join"}

\* A client that is connected and has not said a word.
Silent(c) == conn[c] = "accepted" /\ input[c] = "none"

(***************************************************************************)
(* A signal that comes while the accept loop runs, wherever in the loop    *)
(* main is, ends the server in the end, unless for ever a client stays     *)
(* connected and silent or does not read the rest of its answer: main      *)
(* waits for every thread (main.c:246).                                    *)
(***************************************************************************)
StopEndsServerUnlessHeldUp ==
  (sigpc = "caught" /\ InLoop) ~> [](mpc = "exited" \/ \E c \in Client : Silent(c) \/ Unread(c))

(***************************************************************************)
(* A signal ends the server whenever the handler catches it ("Caught       *)
(* signal, exiting", main.c:35).                                           *)
(***************************************************************************)
SignalEndsServer == sigpc = "caught" ~> mpc = "exited"

=============================================================================
