-------------------------- MODULE AesdSocketProofs --------------------------
(***************************************************************************)
(* TLAPS proofs about the socket server, for every number of clients and   *)
(* of expirations of the timer, in both configurations and whatever fails: *)
(* descriptors, the list of threads, the mutex, what is left at exit and   *)
(* what the clients receive.                                               *)
(* One inductive invariant carries all of them: who may close a descriptor *)
(* depends on where main and the threads are, and that on the list.        *)
(***************************************************************************)
EXTENDS AesdSocket, InductionProofs, FiniteSetTheorems, TLAPS

Starting == {"parse_args", "start", "set_signals", "daemonize", "mutex_init", "start_timer", "run"}

Over == {"remove", "destroy", "close_server", "exited"}

MainLabels ==
  Starting \cup Over \cup {"check", "accept", "init_thread", "pthread_create", "insert", "reap", "join",
                           "cleanup", "timer_delete", "drain", "killed"}

Locked == {"append", "fopen_r", "ioctl", "send", "unlock"}

ThreadLabels ==
  Locked \cup {"none", "readline", "fopen_a", "lock", "fclose_r", "close", "finish", "ended"}

TypeInv ==
  /\ TypeOK
  /\ mpc \in MainLabels
  /\ tpc \in [Client -> ThreadLabels]
  /\ kpc \in [Tick -> {"none", "fopen", "lock", "append", "fclose", "ended"}]
  /\ sock_fd \in [Client -> Fd \cup {-1}]
  /\ DOMAIN input = Client

\* The same in parts.
LabelTypes ==
  /\ mpc \in MainLabels
  /\ tpc \in [Client -> ThreadLabels]
  /\ kpc \in [Tick -> {"none", "fopen", "lock", "append", "fclose", "ended"}]

MainTypes ==
  /\ is_running \in BOOLEAN /\ cleaning \in BOOLEAN
  /\ {head, cur, new} \subseteq Client \cup {NULL}
  /\ link \in [Client -> Client \cup {NULL}]
  /\ args \in [Client -> {"none", "live", "freed"}]
  /\ mutex \in Client \cup Tick \cup {NULL, "none", "destroyed"}

NumberTypes ==
  /\ client_sock_fd \in Fd \cup {-1} /\ server_sock_fd \in Fd \cup {-1, 0}
  /\ sock_fd \in [Client -> Fd \cup {-1}]
  /\ file \in [Client -> Fd \cup {NoFile}] /\ kfile \in [Tick -> Fd \cup {NoFile}]

FdTypes ==
  fds \in [Fd -> [use : {"free", "null", "server", "socket", "file", "unlinked"},
                  by : Client \cup Tick \cup {NULL}]]

NetTypes ==
  /\ conn \in [Client -> {"none", "queued", "accepted", "closed", "reset"}]
  /\ DOMAIN input = Client
  /\ partial \in Seq(Client)

LEMMA TypeParts == TypeInv <=> LabelTypes /\ MainTypes /\ NumberTypes /\ FdTypes /\ NetTypes
BY DEF TypeInv, TypeOK, LabelTypes, MainTypes, NumberTypes, FdTypes, NetTypes

-----------------------------------------------------------------------------
(***************************************************************************)
(* Where main is, what it has left behind and what is still to come.       *)
(***************************************************************************)

\* Accepted, and no thread yet: its descriptor is main's.
Pending(c) == new = c /\ tpc[c] = "none" /\ mpc \in {"init_thread", "pthread_create", "cleanup", "killed"}

\* The thread has its connection.
Talking(c) == Active(c) /\ tpc[c] # "finish"

NoThreads == \A c \in Client : tpc[c] = "none"

PhaseInv ==
  /\ mpc \in Starting => new = NULL /\ NoThreads /\ \A c \in Client : args[c] # "live"
  /\ mpc \in Over => \A c \in Client : ~Active(c) /\ args[c] # "live"
  /\ mpc \in Starting \cup {"check", "accept", "init_thread", "pthread_create", "insert", "cleanup"} => ~cleaning
  /\ mpc \in {"timer_delete", "drain"} => cleaning
  /\ mpc \in {"init_thread", "pthread_create"} => new \in Client /\ tpc[new] = "none"
  /\ mpc \in {"pthread_create", "insert"} => args[new] = "live"
  /\ mpc = "insert" => new \in Client /\ tpc[new] # "none"
  /\ \A c \in Client : Active(c) => args[c] = "live"
  /\ Alive => \A c \in Client : args[c] = "live" => tpc[c] # "none" \/ (mpc = "pthread_create" /\ new = c)

TimerInv ==
  /\ mpc \in Starting \ {"run"} => timer = "none" /\ \A t \in Tick : kpc[t] = "none"
  /\ mpc = "start_timer" => build = "file"
  /\ timer = "armed" =>
       /\ build = "file"
       /\ \/ mpc \in {"run", "check", "accept", "init_thread", "pthread_create", "insert", "cleanup",
                      "timer_delete", "killed"}
          \/ mpc \in {"reap", "join"} /\ ~cleaning

-----------------------------------------------------------------------------
(***************************************************************************)
(* Descriptors.                                                            *)
(***************************************************************************)

\* Descriptor f refers to a file or a socket that is who's.
Refers(f, use, who) == f \in Fd /\ fds[f].use = use /\ fds[f].by = who

\* A socket is the connection of one thread, or the one main has just accepted.
SocketInv ==
  /\ \A f \in Fd : fds[f].use = "socket" =>
       /\ fds[f].by \in Client
       /\ \/ Talking(fds[f].by) /\ f = sock_fd[fds[f].by]
          \/ Pending(fds[f].by) /\ f = client_sock_fd
  /\ \A c \in Client : Talking(c) => Refers(sock_fd[c], "socket", c)
  /\ mpc \in {"init_thread", "pthread_create"} => Refers(client_sock_fd, "socket", new)
  /\ mpc = "pthread_create" => sock_fd[new] = client_sock_fd

\* What main is going to close, if anything, is no thread's.  Before the first
\* accept client_sock_fd is not initialised, but then there are no threads.
ClientFdInv ==
  /\ mpc \in {"check", "accept"} \/ (mpc \in {"reap", "join"} /\ ~cleaning) =>
       new = NULL /\ (client_sock_fd = -1 \/ NoThreads)
  /\ mpc = "cleanup" =>
       \/ new = NULL /\ (client_sock_fd = -1 \/ NoThreads)
       \/ new \in Client /\ tpc[new] = "none" /\ Refers(client_sock_fd, "socket", new)

ConnInv ==
  /\ \A c \in Client :
       /\ conn[c] = "accepted" => Talking(c) \/ Pending(c)
       /\ conn[c] \in {"none", "queued", "reset"} => tpc[c] = "none"
  /\ mpc \in {"init_thread", "pthread_create"} => conn[new] = "accepted"

\* No thread is left and none will come.
Quiet ==
  /\ mpc \in Over \cup {"timer_delete", "drain"}
  /\ \A c \in Client : ~Active(c)
  /\ mpc \in {"timer_delete", "drain"} => head = NULL

HasFile == {"lock", "append", "ioctl", "send", "unlock", "fclose_r"}

\* A thread with a control string has opened no file when it waits for the mutex.
InputInv ==
  \A c \in Client :
    /\ tpc[c] = "fopen_a" => input[c] # "none" /\ ~parse_ctrl_line(input[c])
    /\ tpc[c] = "lock" => input[c] # "none" /\ (parse_ctrl_line(input[c]) => file[c] = NoFile)

\* An open file is that of one thread.  Once there are no threads any more main
\* may close a descriptor of the timer's, but then there is nobody it could hurt.
FileInv ==
  /\ \A f \in Fd : fds[f].use \in {"file", "unlinked"} =>
       \/ fds[f].by \in Client /\ fds[f].use = "file" /\ f = file[fds[f].by]
       \/ fds[f].by \in Tick /\ f = kfile[fds[f].by]
  /\ \A c \in Client : file[c] # NoFile => Refers(file[c], "file", c) /\ tpc[c] \in HasFile
  /\ \A t \in Tick : kfile[t] # NoFile =>
       /\ kpc[t] \in {"lock", "append", "fclose"}
       /\ (fds[kfile[t]].by = t /\ fds[kfile[t]].use \in {"file", "unlinked"}) \/ Quiet

\* The rest: the server's socket, and /dev/null.
ServerFdInv ==
  /\ \A f \in Fd : fds[f].use = "free" => fds[f].by = NULL
  /\ mpc \in {"parse_args", "start"} => \A f \in Fd : fds[f].use = "free"
  /\ server_sock_fd = -1 => mpc = "exited"
  /\ server_sock_fd # -1 => \A f \in Fd : fds[f].use = "server" => f = server_sock_fd /\ mpc # "exited"
  /\ \A f, g \in Fd : fds[f].use = "null" /\ fds[g].use = "null" => f = g
  /\ mpc \in {"parse_args", "start", "set_signals", "daemonize"} => \A f \in Fd : fds[f].use # "null"

-----------------------------------------------------------------------------
(***************************************************************************)
(* The mutex and the list.                                                 *)
(***************************************************************************)

MutexInv ==
  /\ \A c \in Client : tpc[c] \in Locked <=> mutex = c
  /\ \A t \in Tick : mutex = t => kpc[t] = "append"
  /\ mpc \in {"parse_args", "start", "set_signals", "daemonize", "mutex_init"} => mutex = "none"
  /\ mutex = "destroyed" => mpc \in {"close_server", "exited"}
  /\ mpc \in {"close_server", "exited"} => mutex \in {"none", "destroyed"} \/ \E t \in Tick : kpc[t] # "none"

\* The threads that have been started and not joined, apart from the one that
\* main has started and not inserted yet.
Started == {c \in Client : tpc[c] # "none" /\ args[c] = "live" /\ ~(mpc = "insert" /\ new = c)}

\* s is the list that starts at first and is chained by next.
IsList(s, first, next) ==
  /\ \A i, j \in 1 .. Len(s) : s[i] = s[j] => i = j
  /\ first = IF s = <<>> THEN NULL ELSE s[1]
  /\ \A i \in 1 .. Len(s) : next[s[i]] = IF i = Len(s) THEN NULL ELSE s[i + 1]

Elements(s) == {s[i] : i \in 1 .. Len(s)}

ListInv == Alive =>
  /\ \E s \in Seq(Client) : IsList(s, head, link) /\ Elements(s) = Started
  /\ mpc \in {"reap", "join"} => cur \in Started \cup {NULL}
  /\ mpc = "join" => cur # NULL

Inv ==
  /\ TypeInv
  /\ PhaseInv /\ TimerInv
  /\ SocketInv /\ ClientFdInv /\ ConnInv /\ InputInv /\ FileInv /\ ServerFdInv
  /\ MutexInv /\ ListInv

-----------------------------------------------------------------------------
(***************************************************************************)
(* A descriptor is free whenever one is opened.  Each descriptor in use    *)
(* has a slot of its own, there are as many slots as descriptors, and the  *)
(* slot of the one that is being opened is empty.                          *)
(***************************************************************************)

Slot ==
  ({"socket"} \X Client) \cup ({"file"} \X (Client \cup Tick)) \cup {<<"server", NULL>>, <<"null", NULL>>}

LEMMA SlotCount == IsFiniteSet(Slot) /\ Cardinality(Slot) <= MaxFd
<1> DEFINE A == {"socket"} \X Client
           B == {"file"} \X (Client \cup Tick)
           C == {<<"server", NULL>>, <<"null", NULL>>}
<1>1. /\ IsFiniteSet({"socket"}) /\ Cardinality({"socket"}) = 1
      /\ IsFiniteSet({"file"}) /\ Cardinality({"file"}) = 1
  BY FS_Singleton
<1>2. /\ Cardinality(Client) \in Nat /\ Cardinality(Tick) \in Nat
      /\ IsFiniteSet(Client) /\ IsFiniteSet(Tick)
  BY ClientAssumption, FS_CardinalityType
<1>3. /\ IsFiniteSet(Client \cup Tick) /\ Cardinality(Client \cup Tick) \in Nat
      /\ Cardinality(Client \cup Tick) <= Cardinality(Client) + Cardinality(Tick)
  <2>1. IsFiniteSet(Client \cap Tick) /\ Cardinality(Client \cap Tick) \in Nat
    BY <1>2, FS_Intersection, FS_CardinalityType
  <2>2. /\ IsFiniteSet(Client \cup Tick)
        /\ Cardinality(Client \cup Tick)
             = Cardinality(Client) + Cardinality(Tick) - Cardinality(Client \cap Tick)
    BY <1>2, FS_Union
  <2>. QED  BY <1>2, <2>1, <2>2, FS_CardinalityType
<1>4. IsFiniteSet(A) /\ Cardinality(A) = 1 * Cardinality(Client)
  BY <1>1, <1>2, FS_Product
<1>5. IsFiniteSet(B) /\ Cardinality(B) = 1 * Cardinality(Client \cup Tick)
  BY <1>1, <1>3, FS_Product
<1>6. IsFiniteSet(C) /\ Cardinality(C) <= 2 /\ Cardinality(C) \in Nat
  <2>1. C = {<<"server", NULL>>} \cup {<<"null", NULL>>}
    OBVIOUS
  <2>2. /\ IsFiniteSet({<<"server", NULL>>}) /\ Cardinality({<<"server", NULL>>}) = 1
    BY FS_Singleton
  <2>3. IsFiniteSet(C) /\ (Cardinality(C) = 1 \/ Cardinality(C) = 1 + 1)
    BY <2>1, <2>2, FS_AddElement
  <2>. QED  BY <2>3
<1> HIDE DEF A, B, C
<1>7. ASSUME NEW S, NEW T, IsFiniteSet(S), IsFiniteSet(T)
      PROVE  /\ IsFiniteSet(S \cup T) /\ Cardinality(S \cup T) \in Nat
             /\ Cardinality(S \cup T) <= Cardinality(S) + Cardinality(T)
  <2>1. IsFiniteSet(S \cap T)
    BY <1>7, FS_Intersection
  <2>2. Cardinality(S) \in Nat /\ Cardinality(T) \in Nat /\ Cardinality(S \cap T) \in Nat
    BY <1>7, <2>1, FS_CardinalityType
  <2>3. IsFiniteSet(S \cup T) /\ Cardinality(S \cup T) = Cardinality(S) + Cardinality(T) - Cardinality(S \cap T)
    BY <1>7, FS_Union
  <2>4. Cardinality(S \cup T) \in Nat
    BY <2>3, FS_CardinalityType
  <2>. QED  BY <2>2, <2>3, <2>4
<1>8. IsFiniteSet(A \cup B) /\ Cardinality(A \cup B) \in Nat /\ Cardinality(A \cup B) <= Cardinality(A) + Cardinality(B)
  BY <1>4, <1>5, <1>7
<1>9. IsFiniteSet((A \cup B) \cup C) /\ Cardinality((A \cup B) \cup C) <= Cardinality(A \cup B) + Cardinality(C)
  BY <1>6, <1>7, <1>8
<1>10. Slot = (A \cup B) \cup C
  BY DEF Slot, A, B, C
<1>11. Cardinality((A \cup B) \cup C) \in Nat
  BY <1>9, FS_CardinalityType
<1>. QED  BY <1>2, <1>3, <1>4, <1>5, <1>6, <1>8, <1>9, <1>10, <1>11, FdAssumption

\* The slot in which a new descriptor belongs is empty.
Empty(use, who) ==
  \/ use = "server" /\ who = NULL /\ mpc = "start"
  \/ use = "null" /\ who = NULL /\ mpc = "daemonize"
  \/ use = "socket" /\ who \in Client /\ ~Talking(who) /\ ~Pending(who)
  \/ use = "file" /\ who \in Client /\ file[who] = NoFile
  \/ use = "file" /\ who \in Tick /\ kfile[who] = NoFile

LEMMA FreeFd ==
  ASSUME Inv, Alive, NEW use, NEW who, Empty(use, who)
  PROVE  LowestFd \in Fd /\ fds[LowestFd] = Free
<1> DEFINE slot(f) == << IF fds[f].use = "unlinked" THEN "file" ELSE fds[f].use,
                         IF fds[f].use \in {"server", "null"} THEN NULL ELSE fds[f].by >>
           T == Slot \ {<<use, who>>}
           own == [f \in Fd |-> slot(f)]
<1>1. ASSUME NEW f \in Fd PROVE fds[f].use = "free" => fds[f] = Free
  BY DEF Inv, ServerFdInv, TypeInv, TypeOK, Free
<1>2. ASSUME \A f \in Fd : fds[f] # Free PROVE FALSE
  <2>1. MaxFd \in Nat /\ IsFiniteSet(Fd) /\ Cardinality(Fd) = MaxFd
    BY FdAssumption, FS_Interval DEF Fd
  <2>2. <<use, who>> \in Slot
    BY DEF Slot, Empty
  <2>3. IsFiniteSet(T) /\ Cardinality(T) < Cardinality(Fd)
    <3>1. IsFiniteSet(T) /\ Cardinality(T) = Cardinality(Slot) - 1
      BY <2>2, SlotCount, FS_RemoveElement
    <3>2. Cardinality(Slot) \in Nat
      BY SlotCount, FS_CardinalityType
    <3>. QED  BY <2>1, <3>1, <3>2, SlotCount
  <2>4. ASSUME NEW f \in Fd PROVE slot(f) \in T
    <3>1. fds[f].use \in {"null", "server", "socket", "file", "unlinked"}
      BY <1>1, <1>2 DEF Inv, TypeInv, TypeOK
    <3>2. CASE fds[f].use \in {"server", "null"}
      <4>1. slot(f) = <<fds[f].use, NULL>>
        BY <3>2
      <4>2. mpc # "start" /\ (mpc = "daemonize" => fds[f].use # "null")
        BY <3>2 DEF Inv, ServerFdInv
      <4>. QED  BY <3>2, <4>1, <4>2 DEF Slot, Empty
    <3>3. CASE fds[f].use = "socket"
      <4>1. slot(f) = <<"socket", fds[f].by>>
        BY <3>3
      <4>2. fds[f].by \in Client /\ (Talking(fds[f].by) \/ Pending(fds[f].by))
        BY <3>3 DEF Inv, SocketInv
      <4>. QED  BY <4>1, <4>2 DEF Slot, Empty
    <3>4. CASE fds[f].use \in {"file", "unlinked"}
      <4>1. slot(f) = <<"file", fds[f].by>>
        BY <3>4
      <4>2. \/ fds[f].by \in Client /\ f = file[fds[f].by]
            \/ fds[f].by \in Tick /\ f = kfile[fds[f].by]
        BY <3>4 DEF Inv, FileInv
      <4>3. f # NoFile
        BY <2>1 DEF Fd, NoFile
      <4>. QED  BY <4>1, <4>2, <4>3, ClientAssumption DEF Slot, Empty
    <3>. QED  BY <3>1, <3>2, <3>3, <3>4
  <2>5. own \in [Fd -> T]
    BY <2>4
  <2>6. PICK f, g \in Fd : f # g /\ own[f] = own[g]
    <3> HIDE DEF T, own
    <3>. QED  BY <2>1, <2>3, <2>5, FS_PigeonHole
  <2>7. slot(f) = slot(g)
    BY <2>6
  <2>8. fds[f].use \notin {"free"} /\ fds[g].use \notin {"free"}
    BY <1>1, <1>2
  <2>9. /\ fds[f].use \in {"free", "null", "server", "socket", "file", "unlinked"}
        /\ fds[g].use \in {"free", "null", "server", "socket", "file", "unlinked"}
    BY DEF Inv, TypeInv, TypeOK
  <2>10. CASE fds[f].use = "server"
    <3>1. fds[g].use = "server" /\ server_sock_fd # -1
      BY <2>7, <2>9, <2>10 DEF Inv, ServerFdInv, Alive
    <3>. QED  BY <2>6, <2>10, <3>1 DEF Inv, ServerFdInv
  <2>11. CASE fds[f].use = "null"
    <3>1. fds[g].use = "null"
      BY <2>7, <2>9, <2>11
    <3>. QED  BY <2>6, <2>11, <3>1 DEF Inv, ServerFdInv
  <2>12. CASE fds[f].use = "socket"
    <3>1. fds[g].use = "socket" /\ fds[g].by = fds[f].by
      BY <2>7, <2>9, <2>12
    <3>. QED  BY <2>6, <2>12, <3>1 DEF Inv, SocketInv, Talking, Pending, Active
  <2>13. CASE fds[f].use \in {"file", "unlinked"}
    <3>1. fds[g].use \in {"file", "unlinked"} /\ fds[g].by = fds[f].by
      BY <2>7, <2>9, <2>13
    <3>. QED  BY <2>6, <2>13, <3>1, ClientAssumption DEF Inv, FileInv
  <2>. QED  BY <2>8, <2>9, <2>10, <2>11, <2>12, <2>13
<1>3. {f \in Fd : fds[f] = Free} \in SUBSET Nat
  BY FdAssumption DEF Fd
<1>4. {f \in Fd : fds[f] = Free} # {}
  BY <1>2
<1>5. LowestFd \in {f \in Fd : fds[f] = Free}
  BY <1>3, <1>4, MinExists DEF LowestFd
<1>. QED  BY <1>5

-----------------------------------------------------------------------------
(***************************************************************************)
(* The steps, by what they do to the descriptors.                          *)
(***************************************************************************)
USE DEF mainVars, connVars, listVars, sigVars, argVars, sharedVars, localVars, threadVars,
        netVars, devVars, tickVars, config, timerVars, Goto, At, TickGoto, TickAt

StartStep == parse_args \/ set_signals \/ InitMutexAndList \/ start_timer \/ StartRunning

LoopStep == CheckRunning \/ AcceptFails \/ init_thread \/ CreateThread \/ InsertThread

EndStep == ReapNext \/ JoinAndFree \/ DeleteTimer \/ remove_all_remaining_threads \/ DestroyMutex

OutsideStep ==
  \/ SignalArrives \/ HandlerClearsFlag \/ HandlerShutsDown
  \/ \E c \in Client : Connect(c) \/ Send(c)

TimerStep(t) == TimerExpires(t) \/ TimerLock(t) \/ TimerAppend(t)

LockStep(c) == ThreadLock(c) \/ ThreadLockFails(c) \/ ThreadUnlock(c)

EchoStep(c) == SeekTo(c) \/ SendNext(c) \/ SendEnd(c) \/ SendKills(c) \/ SetFinished(c)

LEMMA StepKinds ==
  ASSUME Next
  PROVE  \/ StartStep \/ LoopStep \/ EndStep \/ OutsideStep
         \/ \E c \in Client : ReadLine(c) \/ LockStep(c) \/ EchoStep(c)
         \/ \E t \in Tick : TimerStep(t)
         \/ start_listening \/ daemonize \/ CloseClientFd \/ RemoveFile \/ CloseServer
         \/ \E c \in Client : \/ Accept(c) \/ FopenAppend(c) \/ FopenRead(c)
                              \/ AppendAndClose(c) \/ FcloseRead(c) \/ CloseConnection(c)
         \/ \E t \in Tick : TimerFopen(t) \/ TimerFclose(t)
BY Zenon DEF Next, MainStep, signal_handler, timer_thread, sock_thread_func, send_to_client, StartStep, LoopStep, EndStep,
       OutsideStep, TimerStep, LockStep, EchoStep

\* The new descriptor was free, and no other descriptor changes.
Opened(use, who) ==
  /\ LowestFd \in Fd /\ fds[LowestFd].use = "free"
  /\ fds'[LowestFd].use = use /\ fds'[LowestFd].by = who
  /\ \A f \in Fd : f # LowestFd => fds'[f] = fds[f]

\* No other descriptor is closed.
Closed(g) ==
  /\ g \in Fd => fds'[g].use = "free" /\ fds'[g].by = NULL
  /\ \A f \in Fd : f # g => fds'[f] = fds[f]

LEMMA NoFd == NoFile \notin Fd /\ -1 \notin Fd
BY FdAssumption DEF NoFile, Fd

LEMMA OpenEffect ==
  ASSUME Inv, Alive, NEW use, NEW who, Empty(use, who), OpenFd(use, who)
  PROVE  Opened(use, who)
<1>1. LowestFd \in Fd /\ fds[LowestFd] = Free
  BY FreeFd
<1>2. fds \in [Fd -> [use : {"free", "null", "server", "socket", "file", "unlinked"},
                      by : Client \cup Tick \cup {NULL}]]
  BY DEF Inv, TypeInv, TypeOK
<1>. QED  BY <1>1, <1>2 DEF OpenFd, Opened, Free

LEMMA CloseEffect ==
  ASSUME Inv, NEW g, CloseFd(g)
  PROVE  Closed(g)
BY DEF CloseFd, Closed, Free, Inv, TypeInv, TypeOK

LEMMA FopenEffect ==
  ASSUME Inv, NEW c \in Client, FopenAppend(c) \/ FopenRead(c)
  PROVE  /\ file[c] = NoFile
         /\ \/ UNCHANGED <<fds, file>>
            \/ Opened("file", c) /\ file' = [file EXCEPT ![c] = LowestFd]
<1>1. file[c] = NoFile /\ Alive
  BY DEF FopenAppend, FopenRead, Inv, FileInv, HasFile
<1>2. Empty("file", c)
  BY <1>1 DEF Empty
<1>3. \/ UNCHANGED <<fds, file>>
      \/ OpenFd("file", c) /\ file' = [file EXCEPT ![c] = LowestFd]
  BY DEF FopenAppend, FopenRead
<1>. QED  BY <1>1, <1>2, <1>3, OpenEffect

LEMMA TimerFopenEffect ==
  ASSUME Inv, NEW t \in Tick, TimerFopen(t)
  PROVE  /\ kfile[t] = NoFile
         /\ \/ UNCHANGED <<fds, kfile>> /\ kpc' = [kpc EXCEPT ![t] = "ended"]
            \/ /\ Opened("file", t) /\ kfile' = [kfile EXCEPT ![t] = LowestFd]
               /\ kpc' = [kpc EXCEPT ![t] = "lock"]
<1>1. kfile[t] = NoFile /\ Alive
  BY DEF TimerFopen, Inv, FileInv
<1>2. Empty("file", t)
  BY <1>1 DEF Empty
<1>3. \/ UNCHANGED <<fds, kfile>> /\ kpc' = [kpc EXCEPT ![t] = "ended"]
      \/ /\ OpenFd("file", t) /\ kfile' = [kfile EXCEPT ![t] = LowestFd]
         /\ kpc' = [kpc EXCEPT ![t] = "lock"]
  BY DEF TimerFopen
<1>. QED  BY <1>1, <1>2, <1>3, OpenEffect

LEMMA AcceptEffect ==
  ASSUME Inv, NEW c \in Client, Accept(c)
  PROVE  Opened("socket", c) /\ tpc[c] = "none"
<1>1. tpc[c] = "none" /\ Alive /\ Empty("socket", c)
  BY DEF Accept, Inv, ConnInv, Talking, Active, Pending, Alive, Empty
<1>. QED  BY <1>1, OpenEffect DEF Accept

LEMMA ListenEffect ==
  ASSUME Inv, start_listening
  PROVE  \/ server_sock_fd' = LowestFd /\ mpc' = "set_signals" /\ Opened("server", NULL)
         \/ server_sock_fd' = -1 /\ mpc' = "exited" /\ (UNCHANGED fds \/ Opened("server", NULL))
<1>1. Alive /\ Empty("server", NULL)
  BY DEF start_listening, Alive, Empty
<1>2. \/ server_sock_fd' = LowestFd /\ mpc' = "set_signals" /\ OpenFd("server", NULL)
      \/ server_sock_fd' = -1 /\ mpc' = "exited" /\ (UNCHANGED fds \/ OpenFd("server", NULL))
  BY DEF start_listening
<1>. QED  BY <1>1, <1>2, OpenEffect

LEMMA DaemonizeEffect ==
  ASSUME Inv, daemonize
  PROVE  UNCHANGED fds \/ Opened("null", NULL)
<1>1. Alive /\ Empty("null", NULL)
  BY DEF daemonize, Alive, Empty
<1>. QED  BY <1>1, OpenEffect DEF daemonize

\* The list is empty exactly when there is no thread to join.
LEMMA EmptyList ==
  ASSUME Inv, Alive
  PROVE  head = NULL <=> Started = {}
<1>1. PICK s \in Seq(Client) : IsList(s, head, link) /\ Elements(s) = Started
  BY DEF Inv, ListInv
<1>2. CASE s = <<>>
  BY <1>1, <1>2 DEF IsList, Elements
<1>3. CASE s # <<>>
  <2>1. 1 \in 1 .. Len(s) /\ s[1] \in Client
    BY <1>3
  <2>2. head = s[1]
    BY <1>1, <1>3 DEF IsList
  <2>3. s[1] \in Elements(s)
    BY <2>1 DEF Elements
  <2>. QED  BY <1>1, <2>1, <2>2, <2>3, ClientAssumption
<1>. QED  BY <1>2, <1>3

-----------------------------------------------------------------------------
(***************************************************************************)
(* Each part of the invariant is kept by every step: one leaf per kind of  *)
(* step, and one per action where the kind does not settle it.             *)
(***************************************************************************)

LEMMA MutexKept == ASSUME Inv, Next PROVE MutexInv'
<1> USE ClientAssumption, NameAssumption DEF Inv, MutexInv, TypeInv, PhaseInv, Active, Over,
       Starting, Locked, Alive, MainLabels
<1>0. mutex \in Client \cup Tick \cup {NULL, "none", "destroyed"}
  BY DEF TypeOK
<1> USE <1>0
<1>1. CASE StartStep
  BY <1>1 DEF StartStep, parse_args, set_signals, InitMutexAndList, start_timer, StartRunning
<1>2. CASE LoopStep
  BY <1>2 DEF LoopStep, CheckRunning, AcceptFails, LeaveLoop, init_thread, CreateThread,
         InsertThread, ClientFdHandedOver, SLIST_INSERT_HEAD
<1>3. CASE EndStep
  BY <1>3 DEF EndStep, ReapNext, JoinAndFree, SLIST_REMOVE, DeleteTimer,
         remove_all_remaining_threads, DestroyMutex
<1>4. CASE OutsideStep
  BY <1>4 DEF OutsideStep, SignalArrives, HandlerClearsFlag, HandlerShutsDown, StopListening,
         Connect, Send
<1>5. ASSUME NEW c \in Client, ReadLine(c) PROVE MutexInv'
  BY <1>5 DEF ReadLine
<1>6. ASSUME NEW c \in Client, LockStep(c) PROVE MutexInv'
  <2>1. CASE ThreadLock(c)
    BY <2>1 DEF ThreadLock
  <2>2. CASE ThreadLockFails(c)
    BY <2>2 DEF ThreadLockFails
  <2>3. CASE ThreadUnlock(c)
    BY <2>3 DEF ThreadUnlock
  <2> HIDE DEF Inv, MutexInv
  <2>. QED  BY <1>6, <2>1, <2>2, <2>3 DEF LockStep
<1>7. ASSUME NEW c \in Client, EchoStep(c) PROVE MutexInv'
  BY <1>7 DEF EchoStep, SeekTo, SendNext, SendEnd, SendKills, SetFinished
<1>8. ASSUME NEW t \in Tick, TimerStep(t) PROVE MutexInv'
  <2>1. CASE TimerExpires(t)
    BY <2>1 DEF TimerExpires
  <2>2. CASE TimerLock(t)
    BY <2>2 DEF TimerLock
  <2>3. CASE TimerAppend(t)
    BY <2>3 DEF TimerAppend
  <2> HIDE DEF Inv, MutexInv
  <2>. QED  BY <1>8, <2>1, <2>2, <2>3 DEF TimerStep
<1>9. CASE start_listening
  BY <1>9 DEF start_listening
<1>10. CASE daemonize
  BY <1>10 DEF daemonize
<1>11. CASE CloseClientFd
  BY <1>11 DEF CloseClientFd, CloseSocket
<1>12. CASE RemoveFile
  BY <1>12 DEF RemoveFile
<1>13. CASE CloseServer
  BY <1>13 DEF CloseServer, StopListening
<1>14. ASSUME NEW c \in Client, Accept(c) PROVE MutexInv'
  BY <1>14 DEF Accept
<1>15. ASSUME NEW c \in Client, FopenAppend(c) PROVE MutexInv'
  BY <1>15 DEF FopenAppend
<1>16. ASSUME NEW c \in Client, FopenRead(c) PROVE MutexInv'
  BY <1>16 DEF FopenRead
<1>17. ASSUME NEW c \in Client, AppendAndClose(c) PROVE MutexInv'
  BY <1>17 DEF AppendAndClose
<1>18. ASSUME NEW c \in Client, FcloseRead(c) PROVE MutexInv'
  BY <1>18 DEF FcloseRead
<1>19. ASSUME NEW c \in Client, CloseConnection(c) PROVE MutexInv'
  BY <1>19 DEF CloseConnection, CloseSocket
<1>20. ASSUME NEW t \in Tick, TimerFopen(t) PROVE MutexInv'
  BY <1>20 DEF TimerFopen
<1>21. ASSUME NEW t \in Tick, TimerFclose(t) PROVE MutexInv'
  BY <1>21 DEF TimerFclose
<1> HIDE DEF Inv, MutexInv
<1>. QED  BY StepKinds, <1>1, <1>2, <1>3, <1>4, <1>5, <1>6, <1>7, <1>8, <1>9, <1>10, <1>11, <1>12,
       <1>13, <1>14, <1>15, <1>16, <1>17, <1>18, <1>19, <1>20, <1>21

LEMMA InputKept == ASSUME Inv, Next PROVE InputInv'
<1> USE InputAssumption DEF Inv, InputInv, TypeInv, TypeOK, parse_ctrl_line, FileInv, HasFile
<1>1. CASE StartStep
  BY <1>1 DEF StartStep, parse_args, set_signals, InitMutexAndList, start_timer, StartRunning
<1>2. CASE LoopStep
  BY <1>2 DEF LoopStep, CheckRunning, AcceptFails, LeaveLoop, init_thread, CreateThread,
         InsertThread, ClientFdHandedOver, SLIST_INSERT_HEAD
<1>3. CASE EndStep
  BY <1>3 DEF EndStep, ReapNext, JoinAndFree, SLIST_REMOVE, DeleteTimer,
         remove_all_remaining_threads, DestroyMutex
<1>4. CASE OutsideStep
  BY <1>4 DEF OutsideStep, SignalArrives, HandlerClearsFlag, HandlerShutsDown, StopListening,
         Connect, Send
<1>5. ASSUME NEW c \in Client, ReadLine(c) PROVE InputInv'
  <2>1. PICK line \in readline_from_socket(c) :
             tpc' = [tpc EXCEPT ![c] = CASE line = NULL -> "close"
                                         [] parse_ctrl_line(line) -> "lock"
                                         [] OTHER -> "fopen_a"]
    BY <1>5 DEF ReadLine
  <2>2. line # NULL => line = input[c] /\ input[c] # "none"
    BY DEF readline_from_socket
  <2>3. tpc'[c] \in {"close", "lock", "fopen_a"} /\ \A d \in Client : d # c => tpc'[d] = tpc[d]
    BY <2>1, NameAssumption
  <2>4. tpc'[c] \in {"lock", "fopen_a"} => line # NULL /\ (tpc'[c] = "lock" <=> parse_ctrl_line(line))
    BY <2>1, NameAssumption
  <2>5. file[c] = NoFile
    BY <1>5 DEF ReadLine
  <2>. QED  BY <1>5, <2>2, <2>3, <2>4, <2>5 DEF ReadLine
<1>6. ASSUME NEW c \in Client, LockStep(c) PROVE InputInv'
  BY <1>6 DEF LockStep, ThreadLock, ThreadLockFails, ThreadUnlock
<1>7. ASSUME NEW c \in Client, EchoStep(c) PROVE InputInv'
  BY <1>7 DEF EchoStep, SeekTo, SendNext, SendEnd, SendKills, SetFinished
<1>8. ASSUME NEW t \in Tick, TimerStep(t) PROVE InputInv'
  <2>1. CASE TimerExpires(t)
    BY <2>1 DEF TimerExpires
  <2>2. CASE TimerLock(t)
    BY <2>2 DEF TimerLock
  <2>3. CASE TimerAppend(t)
    BY <2>3 DEF TimerAppend
  <2> HIDE DEF Inv, InputInv
  <2>. QED  BY <1>8, <2>1, <2>2, <2>3 DEF TimerStep
<1>9. CASE start_listening
  BY <1>9 DEF start_listening
<1>10. CASE daemonize
  BY <1>10 DEF daemonize
<1>11. CASE CloseClientFd
  BY <1>11 DEF CloseClientFd, CloseSocket
<1>12. CASE RemoveFile
  BY <1>12 DEF RemoveFile
<1>13. CASE CloseServer
  BY <1>13 DEF CloseServer, StopListening
<1>14. ASSUME NEW c \in Client, Accept(c) PROVE InputInv'
  BY <1>14 DEF Accept
<1>15. ASSUME NEW c \in Client, FopenAppend(c) PROVE InputInv'
  BY <1>15 DEF FopenAppend
<1>16. ASSUME NEW c \in Client, FopenRead(c) PROVE InputInv'
  BY <1>16 DEF FopenRead
<1>17. ASSUME NEW c \in Client, AppendAndClose(c) PROVE InputInv'
  BY <1>17 DEF AppendAndClose
<1>18. ASSUME NEW c \in Client, FcloseRead(c) PROVE InputInv'
  BY <1>18 DEF FcloseRead
<1>19. ASSUME NEW c \in Client, CloseConnection(c) PROVE InputInv'
  BY <1>19 DEF CloseConnection, CloseSocket
<1>20. ASSUME NEW t \in Tick, TimerFopen(t) PROVE InputInv'
  BY <1>20 DEF TimerFopen
<1>21. ASSUME NEW t \in Tick, TimerFclose(t) PROVE InputInv'
  BY <1>21 DEF TimerFclose
<1> HIDE DEF Inv, InputInv
<1>. QED  BY StepKinds, <1>1, <1>2, <1>3, <1>4, <1>5, <1>6, <1>7, <1>8, <1>9, <1>10, <1>11, <1>12,
       <1>13, <1>14, <1>15, <1>16, <1>17, <1>18, <1>19, <1>20, <1>21

LEMMA TimerKept == ASSUME Inv, Next PROVE TimerInv'
<1> USE DEF Inv, TimerInv, TypeInv, TypeOK, PhaseInv, Starting, Alive, MainLabels
<1>1. CASE StartStep
  BY <1>1 DEF StartStep, parse_args, set_signals, InitMutexAndList, start_timer, StartRunning
<1>2. CASE LoopStep
  BY <1>2 DEF LoopStep, CheckRunning, AcceptFails, LeaveLoop, init_thread, CreateThread,
         InsertThread, ClientFdHandedOver, SLIST_INSERT_HEAD
<1>3. CASE EndStep
  BY <1>3 DEF EndStep, ReapNext, JoinAndFree, SLIST_REMOVE, DeleteTimer,
         remove_all_remaining_threads, DestroyMutex
<1>4. CASE OutsideStep
  BY <1>4 DEF OutsideStep, SignalArrives, HandlerClearsFlag, HandlerShutsDown, StopListening,
         Connect, Send
<1>5. ASSUME NEW c \in Client, ReadLine(c) PROVE TimerInv'
  BY <1>5 DEF ReadLine
<1>6. ASSUME NEW c \in Client, LockStep(c) PROVE TimerInv'
  BY <1>6 DEF LockStep, ThreadLock, ThreadLockFails, ThreadUnlock
<1>7. ASSUME NEW c \in Client, EchoStep(c) PROVE TimerInv'
  BY <1>7 DEF EchoStep, SeekTo, SendNext, SendEnd, SendKills, SetFinished
<1>8. ASSUME NEW t \in Tick, TimerStep(t) PROVE TimerInv'
  <2>1. CASE TimerExpires(t)
    BY <2>1 DEF TimerExpires
  <2>2. CASE TimerLock(t)
    BY <2>2 DEF TimerLock
  <2>3. CASE TimerAppend(t)
    BY <2>3 DEF TimerAppend
  <2> HIDE DEF Inv, TimerInv
  <2>. QED  BY <1>8, <2>1, <2>2, <2>3 DEF TimerStep
<1>9. CASE start_listening
  BY <1>9 DEF start_listening
<1>10. CASE daemonize
  BY <1>10 DEF daemonize
<1>11. CASE CloseClientFd
  BY <1>11 DEF CloseClientFd, CloseSocket
<1>12. CASE RemoveFile
  BY <1>12 DEF RemoveFile
<1>13. CASE CloseServer
  BY <1>13 DEF CloseServer, StopListening
<1>14. ASSUME NEW c \in Client, Accept(c) PROVE TimerInv'
  BY <1>14 DEF Accept
<1>15. ASSUME NEW c \in Client, FopenAppend(c) PROVE TimerInv'
  BY <1>15 DEF FopenAppend
<1>16. ASSUME NEW c \in Client, FopenRead(c) PROVE TimerInv'
  BY <1>16 DEF FopenRead
<1>17. ASSUME NEW c \in Client, AppendAndClose(c) PROVE TimerInv'
  BY <1>17 DEF AppendAndClose
<1>18. ASSUME NEW c \in Client, FcloseRead(c) PROVE TimerInv'
  BY <1>18 DEF FcloseRead
<1>19. ASSUME NEW c \in Client, CloseConnection(c) PROVE TimerInv'
  BY <1>19 DEF CloseConnection, CloseSocket
<1>20. ASSUME NEW t \in Tick, TimerFopen(t) PROVE TimerInv'
  BY <1>20 DEF TimerFopen
<1>21. ASSUME NEW t \in Tick, TimerFclose(t) PROVE TimerInv'
  BY <1>21 DEF TimerFclose
<1> HIDE DEF Inv, TimerInv
<1>. QED  BY StepKinds, <1>1, <1>2, <1>3, <1>4, <1>5, <1>6, <1>7, <1>8, <1>9, <1>10, <1>11, <1>12,
       <1>13, <1>14, <1>15, <1>16, <1>17, <1>18, <1>19, <1>20, <1>21

LEMMA ServerFdKept == ASSUME Inv, Next PROVE ServerFdInv'
<1> USE DEF Inv, ServerFdInv, Alive, PhaseInv, TimerInv, Starting, NoThreads
<1>1. CASE StartStep
  BY <1>1 DEF StartStep, parse_args, set_signals, InitMutexAndList, start_timer, StartRunning
<1>2. CASE LoopStep
  BY <1>2 DEF LoopStep, CheckRunning, AcceptFails, LeaveLoop, init_thread, CreateThread,
         InsertThread, ClientFdHandedOver, SLIST_INSERT_HEAD
<1>3. CASE EndStep
  BY <1>3 DEF EndStep, ReapNext, JoinAndFree, SLIST_REMOVE, DeleteTimer,
         remove_all_remaining_threads, DestroyMutex
<1>4. CASE OutsideStep
  BY <1>4 DEF OutsideStep, SignalArrives, HandlerClearsFlag, HandlerShutsDown, StopListening,
         Connect, Send
<1>5. ASSUME NEW c \in Client, ReadLine(c) PROVE ServerFdInv'
  BY <1>5 DEF ReadLine
<1>6. ASSUME NEW c \in Client, LockStep(c) PROVE ServerFdInv'
  BY <1>6 DEF LockStep, ThreadLock, ThreadLockFails, ThreadUnlock
<1>7. ASSUME NEW c \in Client, EchoStep(c) PROVE ServerFdInv'
  BY <1>7 DEF EchoStep, SeekTo, SendNext, SendEnd, SendKills, SetFinished
<1>8. ASSUME NEW t \in Tick, TimerStep(t) PROVE ServerFdInv'
  <2>1. CASE TimerExpires(t)
    BY <2>1 DEF TimerExpires
  <2>2. CASE TimerLock(t)
    BY <2>2 DEF TimerLock
  <2>3. CASE TimerAppend(t)
    BY <2>3 DEF TimerAppend
  <2> HIDE DEF Inv, ServerFdInv
  <2>. QED  BY <1>8, <2>1, <2>2, <2>3 DEF TimerStep
<1>9. CASE start_listening
  <2>1. \/ server_sock_fd' = LowestFd /\ mpc' = "set_signals" /\ Opened("server", NULL)
        \/ server_sock_fd' = -1 /\ mpc' = "exited" /\ (UNCHANGED fds \/ Opened("server", NULL))
    BY <1>9, ListenEffect
  <2>2. LowestFd \in Fd => LowestFd # -1
    BY FdAssumption DEF Fd
  <2>3. mpc = "start" /\ \A f \in Fd : fds[f].use = "free" /\ fds[f].by = NULL
    BY <1>9 DEF start_listening
  <2>. QED  BY <2>1, <2>2, <2>3 DEF Opened
<1>10. CASE daemonize
  <2>1. UNCHANGED fds \/ Opened("null", NULL)
    BY <1>10, DaemonizeEffect
  <2>. QED  BY <1>10, <2>1 DEF daemonize, Opened
<1>11. CASE CloseClientFd
  <2>1. UNCHANGED fds \/ Closed(client_sock_fd)
    BY <1>11, CloseEffect DEF CloseClientFd, CloseSocket
  <2>. QED  BY <1>11, <2>1 DEF CloseClientFd, Closed
<1>12. CASE RemoveFile
  <2>1. CASE UNCHANGED fds
    BY <1>12, <2>1 DEF RemoveFile
  <2>2. CASE fds' = [f \in Fd |-> IF fds[f].use = "file" THEN [fds[f] EXCEPT !.use = "unlinked"] ELSE fds[f]]
    BY <1>12, <2>2 DEF RemoveFile
  <2>. QED  BY <1>12, <2>1, <2>2 DEF RemoveFile
<1>13. CASE CloseServer
  <2>1. Closed(server_sock_fd)
    BY <1>13, CloseEffect DEF CloseServer
  <2>. QED  BY <1>13, <2>1 DEF CloseServer, Closed
<1>14. ASSUME NEW c \in Client, Accept(c) PROVE ServerFdInv'
  <2>1. Opened("socket", c) /\ tpc[c] = "none"
    BY <1>14, AcceptEffect
  <2>. QED  BY <1>14, <2>1 DEF Accept, Opened
<1>15. ASSUME NEW c \in Client, FopenAppend(c) PROVE ServerFdInv'
  <2>1. /\ file[c] = NoFile
        /\ UNCHANGED <<fds, file>> \/ (Opened("file", c) /\ file' = [file EXCEPT ![c] = LowestFd])
    BY <1>15, FopenEffect
  <2>. QED  BY <1>15, <2>1 DEF FopenAppend, Opened
<1>16. ASSUME NEW c \in Client, FopenRead(c) PROVE ServerFdInv'
  <2>1. /\ file[c] = NoFile
        /\ UNCHANGED <<fds, file>> \/ (Opened("file", c) /\ file' = [file EXCEPT ![c] = LowestFd])
    BY <1>16, FopenEffect
  <2>. QED  BY <1>16, <2>1 DEF FopenRead, Opened
<1>17. ASSUME NEW c \in Client, AppendAndClose(c) PROVE ServerFdInv'
  <2>1. Closed(file[c])
    BY <1>17, CloseEffect DEF AppendAndClose
  <2>. QED  BY <1>17, <2>1 DEF AppendAndClose, Closed
<1>18. ASSUME NEW c \in Client, FcloseRead(c) PROVE ServerFdInv'
  <2>1. UNCHANGED <<fds, file, tpc>> \/ (file[c] # NoFile /\ Closed(file[c]))
    BY <1>18, CloseEffect DEF FcloseRead
  <2>. QED  BY <1>18, <2>1 DEF FcloseRead, Closed
<1>19. ASSUME NEW c \in Client, CloseConnection(c) PROVE ServerFdInv'
  <2>1. Closed(sock_fd[c])
    BY <1>19, CloseEffect DEF CloseConnection, CloseSocket
  <2>. QED  BY <1>19, <2>1 DEF CloseConnection, Closed
<1>20. ASSUME NEW t \in Tick, TimerFopen(t) PROVE ServerFdInv'
  <2>1. /\ kfile[t] = NoFile
        /\ \/ UNCHANGED <<fds, kfile>> /\ kpc' = [kpc EXCEPT ![t] = "ended"]
           \/ /\ Opened("file", t) /\ kfile' = [kfile EXCEPT ![t] = LowestFd]
              /\ kpc' = [kpc EXCEPT ![t] = "lock"]
    BY <1>20, TimerFopenEffect
  <2>. QED  BY <1>20, <2>1 DEF TimerFopen, Opened
<1>21. ASSUME NEW t \in Tick, TimerFclose(t) PROVE ServerFdInv'
  <2>1. Closed(kfile[t])
    BY <1>21, CloseEffect DEF TimerFclose
  <2>. QED  BY <1>21, <2>1 DEF TimerFclose, Closed
<1> HIDE DEF Inv, ServerFdInv
<1>. QED  BY StepKinds, <1>1, <1>2, <1>3, <1>4, <1>5, <1>6, <1>7, <1>8, <1>9, <1>10, <1>11, <1>12,
       <1>13, <1>14, <1>15, <1>16, <1>17, <1>18, <1>19, <1>20, <1>21

LEMMA ClientFdKept == ASSUME Inv, Next PROVE ClientFdInv'
<1> USE ClientAssumption, NoFd DEF Inv, ClientFdInv, TypeInv, PhaseInv, Active, Talking, Alive,
       SocketInv, FileInv, Quiet, Over, Refers, NoThreads, Starting
<1>1. CASE StartStep
  BY <1>1 DEF StartStep, parse_args, set_signals, InitMutexAndList, start_timer, StartRunning
<1>2. CASE LoopStep
  BY <1>2 DEF LoopStep, CheckRunning, AcceptFails, LeaveLoop, init_thread, CreateThread,
         InsertThread, ClientFdHandedOver, SLIST_INSERT_HEAD
<1>3. CASE EndStep
  BY <1>3 DEF EndStep, ReapNext, JoinAndFree, SLIST_REMOVE, DeleteTimer,
         remove_all_remaining_threads, DestroyMutex
<1>4. CASE OutsideStep
  BY <1>4 DEF OutsideStep, SignalArrives, HandlerClearsFlag, HandlerShutsDown, StopListening,
         Connect, Send
<1>5. ASSUME NEW c \in Client, ReadLine(c) PROVE ClientFdInv'
  BY <1>5 DEF ReadLine
<1>6. ASSUME NEW c \in Client, LockStep(c) PROVE ClientFdInv'
  BY <1>6 DEF LockStep, ThreadLock, ThreadLockFails, ThreadUnlock
<1>7. ASSUME NEW c \in Client, EchoStep(c) PROVE ClientFdInv'
  BY <1>7 DEF EchoStep, SeekTo, SendNext, SendEnd, SendKills, SetFinished
<1>8. ASSUME NEW t \in Tick, TimerStep(t) PROVE ClientFdInv'
  <2>1. CASE TimerExpires(t)
    BY <2>1 DEF TimerExpires
  <2>2. CASE TimerLock(t)
    BY <2>2 DEF TimerLock
  <2>3. CASE TimerAppend(t)
    BY <2>3 DEF TimerAppend
  <2> HIDE DEF Inv, ClientFdInv
  <2>. QED  BY <1>8, <2>1, <2>2, <2>3 DEF TimerStep
<1>9. CASE start_listening
  <2>1. \/ server_sock_fd' = LowestFd /\ mpc' = "set_signals" /\ Opened("server", NULL)
        \/ server_sock_fd' = -1 /\ mpc' = "exited" /\ (UNCHANGED fds \/ Opened("server", NULL))
    BY <1>9, ListenEffect
  <2>. QED  BY <1>9, <2>1 DEF start_listening, Opened
<1>10. CASE daemonize
  <2>1. UNCHANGED fds \/ Opened("null", NULL)
    BY <1>10, DaemonizeEffect
  <2>. QED  BY <1>10, <2>1 DEF daemonize, Opened
<1>11. CASE CloseClientFd
  <2>1. UNCHANGED fds \/ Closed(client_sock_fd)
    BY <1>11, CloseEffect DEF CloseClientFd, CloseSocket
  <2>. QED  BY <1>11, <2>1 DEF CloseClientFd, Closed
<1>12. CASE RemoveFile
  BY <1>12 DEF RemoveFile
<1>13. CASE CloseServer
  <2>1. Closed(server_sock_fd)
    BY <1>13, CloseEffect DEF CloseServer
  <2>. QED  BY <1>13, <2>1 DEF CloseServer, Closed
<1>14. ASSUME NEW c \in Client, Accept(c) PROVE ClientFdInv'
  <2>1. Opened("socket", c) /\ tpc[c] = "none"
    BY <1>14, AcceptEffect
  <2>. QED  BY <1>14, <2>1 DEF Accept, Opened
<1>15. ASSUME NEW c \in Client, FopenAppend(c) PROVE ClientFdInv'
  <2>1. /\ file[c] = NoFile
        /\ UNCHANGED <<fds, file>> \/ (Opened("file", c) /\ file' = [file EXCEPT ![c] = LowestFd])
    BY <1>15, FopenEffect
  <2>. QED  BY <1>15, <2>1 DEF FopenAppend, Opened
<1>16. ASSUME NEW c \in Client, FopenRead(c) PROVE ClientFdInv'
  <2>1. /\ file[c] = NoFile
        /\ UNCHANGED <<fds, file>> \/ (Opened("file", c) /\ file' = [file EXCEPT ![c] = LowestFd])
    BY <1>16, FopenEffect
  <2>. QED  BY <1>16, <2>1 DEF FopenRead, Opened
<1>17. ASSUME NEW c \in Client, AppendAndClose(c) PROVE ClientFdInv'
  <2>1. Closed(file[c])
    BY <1>17, CloseEffect DEF AppendAndClose
  <2>. QED  BY <1>17, <2>1 DEF AppendAndClose, Closed
<1>18. ASSUME NEW c \in Client, FcloseRead(c) PROVE ClientFdInv'
  <2>1. UNCHANGED <<fds, file, tpc>> \/ (file[c] # NoFile /\ Closed(file[c]))
    BY <1>18, CloseEffect DEF FcloseRead
  <2>. QED  BY <1>18, <2>1 DEF FcloseRead, Closed
<1>19. ASSUME NEW c \in Client, CloseConnection(c) PROVE ClientFdInv'
  <2>1. Closed(sock_fd[c])
    BY <1>19, CloseEffect DEF CloseConnection, CloseSocket
  <2>. QED  BY <1>19, <2>1 DEF CloseConnection, Closed
<1>20. ASSUME NEW t \in Tick, TimerFopen(t) PROVE ClientFdInv'
  <2>1. /\ kfile[t] = NoFile
        /\ \/ UNCHANGED <<fds, kfile>> /\ kpc' = [kpc EXCEPT ![t] = "ended"]
           \/ /\ Opened("file", t) /\ kfile' = [kfile EXCEPT ![t] = LowestFd]
              /\ kpc' = [kpc EXCEPT ![t] = "lock"]
    BY <1>20, TimerFopenEffect
  <2>. QED  BY <1>20, <2>1 DEF TimerFopen, Opened
<1>21. ASSUME NEW t \in Tick, TimerFclose(t) PROVE ClientFdInv'
  <2>1. Closed(kfile[t])
    BY <1>21, CloseEffect DEF TimerFclose
  <2>. QED  BY <1>21, <2>1 DEF TimerFclose, Closed
<1> HIDE DEF Inv, ClientFdInv
<1>. QED  BY StepKinds, <1>1, <1>2, <1>3, <1>4, <1>5, <1>6, <1>7, <1>8, <1>9, <1>10, <1>11, <1>12,
       <1>13, <1>14, <1>15, <1>16, <1>17, <1>18, <1>19, <1>20, <1>21

LEMMA ConnKept == ASSUME Inv, Next PROVE ConnInv'
<1> USE DEF Inv, ConnInv, TypeInv, TypeOK, PhaseInv, Active, Talking, Pending, Alive, SocketInv,
       ClientFdInv, Refers
<1>1. CASE StartStep
  BY <1>1 DEF StartStep, parse_args, set_signals, InitMutexAndList, start_timer, StartRunning
<1>2. CASE LoopStep
  <2>1. CASE CheckRunning
    BY <2>1 DEF CheckRunning, LeaveLoop
  <2>2. CASE AcceptFails
    BY <2>2 DEF AcceptFails, LeaveLoop
  <2>3. CASE init_thread
    BY <2>3 DEF init_thread
  <2>4. CASE CreateThread
    <3>1. new \in Client /\ tpc[new] = "none" /\ Pending(new) /\ \A c \in Client : Pending(c) => c = new
      BY <2>4 DEF CreateThread
    <3>2. CASE tpc' = [tpc EXCEPT ![new] = "readline"]
      BY <2>4, <3>1, <3>2 DEF CreateThread
    <3>3. CASE tpc' = tpc /\ mpc' = "cleanup"
      BY <2>4, <3>1, <3>3 DEF CreateThread
    <3>. QED  BY <2>4, <3>2, <3>3 DEF CreateThread
  <2>5. CASE InsertThread
    BY <2>5 DEF InsertThread, ClientFdHandedOver, SLIST_INSERT_HEAD
  <2> HIDE DEF Inv, ConnInv
  <2>. QED  BY <1>2, <2>1, <2>2, <2>3, <2>4, <2>5 DEF LoopStep
<1>3. CASE EndStep
  BY <1>3 DEF EndStep, ReapNext, JoinAndFree, SLIST_REMOVE, DeleteTimer,
         remove_all_remaining_threads, DestroyMutex
<1>4. CASE OutsideStep
  BY <1>4 DEF OutsideStep, SignalArrives, HandlerClearsFlag, HandlerShutsDown, StopListening,
         Connect, Send
<1>5. ASSUME NEW c \in Client, ReadLine(c) PROVE ConnInv'
  BY <1>5 DEF ReadLine
<1>6. ASSUME NEW c \in Client, LockStep(c) PROVE ConnInv'
  BY <1>6 DEF LockStep, ThreadLock, ThreadLockFails, ThreadUnlock
<1>7. ASSUME NEW c \in Client, EchoStep(c) PROVE ConnInv'
  BY <1>7 DEF EchoStep, SeekTo, SendNext, SendEnd, SendKills, SetFinished
<1>8. ASSUME NEW t \in Tick, TimerStep(t) PROVE ConnInv'
  <2>1. CASE TimerExpires(t)
    BY <2>1 DEF TimerExpires
  <2>2. CASE TimerLock(t)
    BY <2>2 DEF TimerLock
  <2>3. CASE TimerAppend(t)
    BY <2>3 DEF TimerAppend
  <2> HIDE DEF Inv, ConnInv
  <2>. QED  BY <1>8, <2>1, <2>2, <2>3 DEF TimerStep
<1>9. CASE start_listening
  BY <1>9 DEF start_listening
<1>10. CASE daemonize
  BY <1>10 DEF daemonize
<1>11. CASE CloseClientFd
  <2>1. ASSUME NEW c \in Client
        PROVE  (conn'[c] = conn[c] \/ conn'[c] = "closed") /\ (Pending(c) => conn'[c] = "closed" \/ conn[c] # "accepted")
    <3>1. CASE client_sock_fd = -1
      <4>1. ~Pending(c)
        BY <1>11, <3>1, FdAssumption, ClientAssumption DEF CloseClientFd, Fd
      <4>. QED  BY <1>11, <3>1, <4>1 DEF CloseClientFd
    <3>2. CASE client_sock_fd # -1
      <4>1. conn'[c] = IF fds[client_sock_fd] = [use |-> "socket", by |-> c] THEN "closed" ELSE conn[c]
        BY <1>11, <3>2 DEF CloseClientFd, CloseSocket
      <4>2. Pending(c) => fds[client_sock_fd] = [use |-> "socket", by |-> c]
        BY <1>11, ClientAssumption DEF CloseClientFd
      <4>. QED  BY <4>1, <4>2
    <3>. QED  BY <3>1, <3>2
  <2>. QED  BY <1>11, <2>1 DEF CloseClientFd
<1>12. CASE RemoveFile
  BY <1>12 DEF RemoveFile
<1>13. CASE CloseServer
  BY <1>13 DEF CloseServer, StopListening
<1>14. ASSUME NEW c \in Client, Accept(c) PROVE ConnInv'
  BY <1>14 DEF Accept
<1>15. ASSUME NEW c \in Client, FopenAppend(c) PROVE ConnInv'
  BY <1>15 DEF FopenAppend
<1>16. ASSUME NEW c \in Client, FopenRead(c) PROVE ConnInv'
  BY <1>16 DEF FopenRead
<1>17. ASSUME NEW c \in Client, AppendAndClose(c) PROVE ConnInv'
  BY <1>17 DEF AppendAndClose
<1>18. ASSUME NEW c \in Client, FcloseRead(c) PROVE ConnInv'
  BY <1>18 DEF FcloseRead
<1>19. ASSUME NEW c \in Client, CloseConnection(c) PROVE ConnInv'
  <2>1. fds[sock_fd[c]] = [use |-> "socket", by |-> c]
    BY <1>19 DEF CloseConnection
  <2>2. conn'[c] = "closed" /\ \A d \in Client : d # c => conn'[d] = conn[d]
    BY <1>19, <2>1 DEF CloseConnection, CloseSocket
  <2>. QED  BY <1>19, <2>2 DEF CloseConnection
<1>20. ASSUME NEW t \in Tick, TimerFopen(t) PROVE ConnInv'
  BY <1>20 DEF TimerFopen
<1>21. ASSUME NEW t \in Tick, TimerFclose(t) PROVE ConnInv'
  BY <1>21 DEF TimerFclose
<1> HIDE DEF Inv, ConnInv
<1>. QED  BY StepKinds, <1>1, <1>2, <1>3, <1>4, <1>5, <1>6, <1>7, <1>8, <1>9, <1>10, <1>11, <1>12,
       <1>13, <1>14, <1>15, <1>16, <1>17, <1>18, <1>19, <1>20, <1>21

LEMMA SocketKept == ASSUME Inv, Next PROVE SocketInv'
<1> USE ClientAssumption, NoFd DEF Inv, SocketInv, TypeInv, PhaseInv, Active, Talking, Pending,
       Alive, ClientFdInv, FileInv, Quiet, Over, Refers, NoThreads, Starting
<1>1. CASE StartStep
  BY <1>1 DEF StartStep, parse_args, set_signals, InitMutexAndList, start_timer, StartRunning
<1>2. CASE LoopStep
  <2>1. CASE CheckRunning
    BY <2>1 DEF CheckRunning, LeaveLoop
  <2>2. CASE AcceptFails
    BY <2>2 DEF AcceptFails, LeaveLoop
  <2>3. CASE init_thread
    BY <2>3 DEF init_thread
  <2>4. CASE CreateThread
    BY <2>4 DEF CreateThread
  <2>5. CASE InsertThread
    BY <2>5 DEF InsertThread, ClientFdHandedOver, SLIST_INSERT_HEAD
  <2> HIDE DEF Inv, SocketInv
  <2>. QED  BY <1>2, <2>1, <2>2, <2>3, <2>4, <2>5 DEF LoopStep
<1>3. CASE EndStep
  BY <1>3 DEF EndStep, ReapNext, JoinAndFree, SLIST_REMOVE, DeleteTimer,
         remove_all_remaining_threads, DestroyMutex
<1>4. CASE OutsideStep
  BY <1>4 DEF OutsideStep, SignalArrives, HandlerClearsFlag, HandlerShutsDown, StopListening,
         Connect, Send
<1>5. ASSUME NEW c \in Client, ReadLine(c) PROVE SocketInv'
  BY <1>5 DEF ReadLine
<1>6. ASSUME NEW c \in Client, LockStep(c) PROVE SocketInv'
  BY <1>6 DEF LockStep, ThreadLock, ThreadLockFails, ThreadUnlock
<1>7. ASSUME NEW c \in Client, EchoStep(c) PROVE SocketInv'
  <2>1. CASE SeekTo(c)
    BY <2>1 DEF SeekTo
  <2>2. CASE SendNext(c) \/ SendEnd(c)
    BY <2>2 DEF SendNext, SendEnd
  <2>3. CASE SendKills(c)
    BY <2>3 DEF SendKills
  <2>4. CASE SetFinished(c)
    BY <2>4 DEF SetFinished
  <2> HIDE DEF Inv, SocketInv
  <2>. QED  BY <1>7, <2>1, <2>2, <2>3, <2>4 DEF EchoStep
<1>8. ASSUME NEW t \in Tick, TimerStep(t) PROVE SocketInv'
  <2>1. CASE TimerExpires(t)
    BY <2>1 DEF TimerExpires
  <2>2. CASE TimerLock(t)
    BY <2>2 DEF TimerLock
  <2>3. CASE TimerAppend(t)
    BY <2>3 DEF TimerAppend
  <2> HIDE DEF Inv, SocketInv
  <2>. QED  BY <1>8, <2>1, <2>2, <2>3 DEF TimerStep
<1>9. CASE start_listening
  <2>1. \/ server_sock_fd' = LowestFd /\ mpc' = "set_signals" /\ Opened("server", NULL)
        \/ server_sock_fd' = -1 /\ mpc' = "exited" /\ (UNCHANGED fds \/ Opened("server", NULL))
    BY <1>9, ListenEffect
  <2>. QED  BY <1>9, <2>1 DEF start_listening, Opened
<1>10. CASE daemonize
  <2>1. UNCHANGED fds \/ Opened("null", NULL)
    BY <1>10, DaemonizeEffect
  <2>. QED  BY <1>10, <2>1 DEF daemonize, Opened
<1>11. CASE CloseClientFd
  <2>1. (client_sock_fd = -1 /\ UNCHANGED fds) \/ Closed(client_sock_fd)
    BY <1>11, CloseEffect DEF CloseClientFd, CloseSocket
  <2>. QED  BY <1>11, <2>1 DEF CloseClientFd, Closed
<1>12. CASE RemoveFile
  <2>1. CASE UNCHANGED fds
    BY <1>12, <2>1 DEF RemoveFile
  <2>2. CASE fds' = [f \in Fd |-> IF fds[f].use = "file" THEN [fds[f] EXCEPT !.use = "unlinked"] ELSE fds[f]]
    BY <1>12, <2>2 DEF RemoveFile
  <2>. QED  BY <1>12, <2>1, <2>2 DEF RemoveFile
<1>13. CASE CloseServer
  <2>1. Closed(server_sock_fd)
    BY <1>13, CloseEffect DEF CloseServer
  <2>. QED  BY <1>13, <2>1 DEF CloseServer, Closed
<1>14. ASSUME NEW c \in Client, Accept(c) PROVE SocketInv'
  <2>1. Opened("socket", c) /\ tpc[c] = "none"
    BY <1>14, AcceptEffect
  <2>. QED  BY <1>14, <2>1 DEF Accept, Opened
<1>15. ASSUME NEW c \in Client, FopenAppend(c) PROVE SocketInv'
  <2>1. /\ file[c] = NoFile
        /\ UNCHANGED <<fds, file>> \/ (Opened("file", c) /\ file' = [file EXCEPT ![c] = LowestFd])
    BY <1>15, FopenEffect
  <2>. QED  BY <1>15, <2>1 DEF FopenAppend, Opened
<1>16. ASSUME NEW c \in Client, FopenRead(c) PROVE SocketInv'
  <2>1. /\ file[c] = NoFile
        /\ UNCHANGED <<fds, file>> \/ (Opened("file", c) /\ file' = [file EXCEPT ![c] = LowestFd])
    BY <1>16, FopenEffect
  <2>. QED  BY <1>16, <2>1 DEF FopenRead, Opened
<1>17. ASSUME NEW c \in Client, AppendAndClose(c) PROVE SocketInv'
  <2>1. Closed(file[c])
    BY <1>17, CloseEffect DEF AppendAndClose
  <2>. QED  BY <1>17, <2>1 DEF AppendAndClose, Closed
<1>18. ASSUME NEW c \in Client, FcloseRead(c) PROVE SocketInv'
  <2>1. UNCHANGED <<fds, file, tpc>> \/ (file[c] # NoFile /\ Closed(file[c]))
    BY <1>18, CloseEffect DEF FcloseRead
  <2>. QED  BY <1>18, <2>1 DEF FcloseRead, Closed
<1>19. ASSUME NEW c \in Client, CloseConnection(c) PROVE SocketInv'
  <2>1. Closed(sock_fd[c])
    BY <1>19, CloseEffect DEF CloseConnection, CloseSocket
  <2>. QED  BY <1>19, <2>1 DEF CloseConnection, Closed
<1>20. ASSUME NEW t \in Tick, TimerFopen(t) PROVE SocketInv'
  <2>1. /\ kfile[t] = NoFile
        /\ \/ UNCHANGED <<fds, kfile>> /\ kpc' = [kpc EXCEPT ![t] = "ended"]
           \/ /\ Opened("file", t) /\ kfile' = [kfile EXCEPT ![t] = LowestFd]
              /\ kpc' = [kpc EXCEPT ![t] = "lock"]
    BY <1>20, TimerFopenEffect
  <2>. QED  BY <1>20, <2>1 DEF TimerFopen, Opened
<1>21. ASSUME NEW t \in Tick, TimerFclose(t) PROVE SocketInv'
  <2>1. Closed(kfile[t])
    BY <1>21, CloseEffect DEF TimerFclose
  <2>. QED  BY <1>21, <2>1 DEF TimerFclose, Closed
<1> HIDE DEF Inv, SocketInv
<1>. QED  BY StepKinds, <1>1, <1>2, <1>3, <1>4, <1>5, <1>6, <1>7, <1>8, <1>9, <1>10, <1>11, <1>12,
       <1>13, <1>14, <1>15, <1>16, <1>17, <1>18, <1>19, <1>20, <1>21

LEMMA FileKept == ASSUME Inv, Next PROVE FileInv'
<1> USE ClientAssumption, NoFd DEF Inv, FileInv, TypeInv, PhaseInv, Active, Talking, Alive,
       SocketInv, ClientFdInv, InputInv, HasFile, Quiet, Over, Refers, NoThreads, Starting, Locked
<1>0. file \in [Client -> Fd \cup {NoFile}] /\ kfile \in [Tick -> Fd \cup {NoFile}]
  BY DEF TypeOK
<1> USE <1>0
<1>1. CASE StartStep
  BY <1>1 DEF StartStep, parse_args, set_signals, InitMutexAndList, start_timer, StartRunning
<1>2. CASE LoopStep
  <2>1. CASE CheckRunning
    BY <2>1 DEF CheckRunning, LeaveLoop
  <2>2. CASE AcceptFails
    BY <2>2 DEF AcceptFails, LeaveLoop
  <2>3. CASE init_thread
    BY <2>3 DEF init_thread
  <2>4. CASE CreateThread
    BY <2>4 DEF CreateThread
  <2>5. CASE InsertThread
    BY <2>5 DEF InsertThread, ClientFdHandedOver, SLIST_INSERT_HEAD
  <2> HIDE DEF Inv, FileInv
  <2>. QED  BY <1>2, <2>1, <2>2, <2>3, <2>4, <2>5 DEF LoopStep
<1>3. CASE EndStep
  BY <1>3 DEF EndStep, ReapNext, JoinAndFree, SLIST_REMOVE, DeleteTimer,
         remove_all_remaining_threads, DestroyMutex
<1>4. CASE OutsideStep
  BY <1>4 DEF OutsideStep, SignalArrives, HandlerClearsFlag, HandlerShutsDown, StopListening,
         Connect, Send
<1>5. ASSUME NEW c \in Client, ReadLine(c) PROVE FileInv'
  BY <1>5 DEF ReadLine
<1>6. ASSUME NEW c \in Client, LockStep(c) PROVE FileInv'
  <2>1. CASE ThreadLock(c)
    BY <2>1 DEF ThreadLock
  <2>2. CASE ThreadLockFails(c)
    BY <2>2 DEF ThreadLockFails
  <2>3. CASE ThreadUnlock(c)
    BY <2>3 DEF ThreadUnlock
  <2> HIDE DEF Inv, FileInv
  <2>. QED  BY <1>6, <2>1, <2>2, <2>3 DEF LockStep
<1>7. ASSUME NEW c \in Client, EchoStep(c) PROVE FileInv'
  <2>1. CASE SeekTo(c)
    BY <2>1 DEF SeekTo
  <2>2. CASE SendNext(c) \/ SendEnd(c)
    BY <2>2 DEF SendNext, SendEnd
  <2>3. CASE SendKills(c)
    BY <2>3 DEF SendKills
  <2>4. CASE SetFinished(c)
    BY <2>4 DEF SetFinished
  <2> HIDE DEF Inv, FileInv
  <2>. QED  BY <1>7, <2>1, <2>2, <2>3, <2>4 DEF EchoStep
<1>8. ASSUME NEW t \in Tick, TimerStep(t) PROVE FileInv'
  <2>1. CASE TimerExpires(t)
    BY <2>1 DEF TimerExpires
  <2>2. CASE TimerLock(t)
    BY <2>2 DEF TimerLock
  <2>3. CASE TimerAppend(t)
    BY <2>3 DEF TimerAppend
  <2> HIDE DEF Inv, FileInv
  <2>. QED  BY <1>8, <2>1, <2>2, <2>3 DEF TimerStep
<1>9. CASE start_listening
  <2>1. \/ server_sock_fd' = LowestFd /\ mpc' = "set_signals" /\ Opened("server", NULL)
        \/ server_sock_fd' = -1 /\ mpc' = "exited" /\ (UNCHANGED fds \/ Opened("server", NULL))
    BY <1>9, ListenEffect
  <2>. QED  BY <1>9, <2>1 DEF start_listening, Opened
<1>10. CASE daemonize
  <2>1. UNCHANGED fds \/ Opened("null", NULL)
    BY <1>10, DaemonizeEffect
  <2>. QED  BY <1>10, <2>1 DEF daemonize, Opened
<1>11. CASE CloseClientFd
  <2>1. mpc = "cleanup" /\ ((client_sock_fd = -1 /\ UNCHANGED fds) \/ Closed(client_sock_fd))
    BY <1>11, CloseEffect DEF CloseClientFd, CloseSocket
  <2>2. CASE NoThreads
    <3>1. Alive /\ Started = {}
      BY <2>1, <2>2 DEF Started
    <3>2. head = NULL
      BY <3>1, EmptyList
    <3>3. Quiet'
      BY <1>11, <2>2, <3>2 DEF CloseClientFd
    <3>. QED  BY <1>11, <2>1, <2>2, <3>3 DEF CloseClientFd, Closed
  <2>3. CASE ~NoThreads
    <3>1. client_sock_fd = -1 \/ Refers(client_sock_fd, "socket", new)
      BY <2>1, <2>3
    <3>. QED  BY <1>11, <2>1, <3>1 DEF CloseClientFd, Closed
  <2>. QED  BY <2>2, <2>3
<1>12. CASE RemoveFile
  <2>1. CASE UNCHANGED fds
    BY <1>12, <2>1 DEF RemoveFile
  <2>2. CASE fds' = [f \in Fd |-> IF fds[f].use = "file" THEN [fds[f] EXCEPT !.use = "unlinked"] ELSE fds[f]]
    BY <1>12, <2>2 DEF RemoveFile
  <2>. QED  BY <1>12, <2>1, <2>2 DEF RemoveFile
<1>13. CASE CloseServer
  <2>1. Closed(server_sock_fd)
    BY <1>13, CloseEffect DEF CloseServer
  <2>. QED  BY <1>13, <2>1 DEF CloseServer, Closed
<1>14. ASSUME NEW c \in Client, Accept(c) PROVE FileInv'
  <2>1. Opened("socket", c) /\ tpc[c] = "none"
    BY <1>14, AcceptEffect
  <2>. QED  BY <1>14, <2>1 DEF Accept, Opened
<1>15. ASSUME NEW c \in Client, FopenAppend(c) PROVE FileInv'
  <2>1. /\ file[c] = NoFile
        /\ UNCHANGED <<fds, file>> \/ (Opened("file", c) /\ file' = [file EXCEPT ![c] = LowestFd])
    BY <1>15, FopenEffect
  <2>. QED  BY <1>15, <2>1 DEF FopenAppend, Opened
<1>16. ASSUME NEW c \in Client, FopenRead(c) PROVE FileInv'
  <2>1. /\ file[c] = NoFile
        /\ UNCHANGED <<fds, file>> \/ (Opened("file", c) /\ file' = [file EXCEPT ![c] = LowestFd])
    BY <1>16, FopenEffect
  <2>. QED  BY <1>16, <2>1 DEF FopenRead, Opened
<1>17. ASSUME NEW c \in Client, AppendAndClose(c) PROVE FileInv'
  <2>1. Closed(file[c])
    BY <1>17, CloseEffect DEF AppendAndClose
  <2>. QED  BY <1>17, <2>1 DEF AppendAndClose, Closed
<1>18. ASSUME NEW c \in Client, FcloseRead(c) PROVE FileInv'
  <2>1. UNCHANGED <<fds, file, tpc>> \/ (file[c] # NoFile /\ Closed(file[c]))
    BY <1>18, CloseEffect DEF FcloseRead
  <2>. QED  BY <1>18, <2>1 DEF FcloseRead, Closed
<1>19. ASSUME NEW c \in Client, CloseConnection(c) PROVE FileInv'
  <2>1. Closed(sock_fd[c])
    BY <1>19, CloseEffect DEF CloseConnection, CloseSocket
  <2>. QED  BY <1>19, <2>1 DEF CloseConnection, Closed
<1>20. ASSUME NEW t \in Tick, TimerFopen(t) PROVE FileInv'
  <2>1. /\ kfile[t] = NoFile
        /\ \/ UNCHANGED <<fds, kfile>> /\ kpc' = [kpc EXCEPT ![t] = "ended"]
           \/ /\ Opened("file", t) /\ kfile' = [kfile EXCEPT ![t] = LowestFd]
              /\ kpc' = [kpc EXCEPT ![t] = "lock"]
    BY <1>20, TimerFopenEffect
  <2>2. CASE UNCHANGED <<fds, kfile>> /\ kpc' = [kpc EXCEPT ![t] = "ended"]
    BY <1>20, <2>1, <2>2 DEF TimerFopen
  <2>3. CASE Opened("file", t) /\ kfile' = [kfile EXCEPT ![t] = LowestFd] /\ kpc' = [kpc EXCEPT ![t] = "lock"]
    <3>1. FileInv!1'
      BY <1>20, <2>1, <2>3 DEF TimerFopen, Opened
    <3>2. FileInv!2'
      BY <1>20, <2>1, <2>3 DEF TimerFopen, Opened
    <3>3. FileInv!3'
      BY <1>20, <2>1, <2>3 DEF TimerFopen, Opened
    <3>. QED  BY <3>1, <3>2, <3>3
  <2>. QED  BY <2>1, <2>2, <2>3
<1>21. ASSUME NEW t \in Tick, TimerFclose(t) PROVE FileInv'
  <2>1. Closed(kfile[t])
    BY <1>21, CloseEffect DEF TimerFclose
  <2>. QED  BY <1>21, <2>1 DEF TimerFclose, Closed
<1> HIDE DEF Inv, FileInv
<1>. QED  BY StepKinds, <1>1, <1>2, <1>3, <1>4, <1>5, <1>6, <1>7, <1>8, <1>9, <1>10, <1>11, <1>12,
       <1>13, <1>14, <1>15, <1>16, <1>17, <1>18, <1>19, <1>20, <1>21

LEMMA PhaseKept == ASSUME Inv, Next PROVE PhaseInv'
<1> USE ClientAssumption DEF Inv, PhaseInv, TypeInv, Active, NoThreads, Alive, Starting, Over,
       ConnInv, ListInv
<1>0. args \in [Client -> {"none", "live", "freed"}] /\ {head, cur, new} \subseteq Client \cup {NULL}
  BY DEF TypeOK
<1> USE <1>0
<1>1. CASE StartStep
  BY <1>1 DEF StartStep, parse_args, set_signals, InitMutexAndList, start_timer, StartRunning
<1>2. CASE LoopStep
  <2>1. CASE CheckRunning
    BY <2>1 DEF CheckRunning, LeaveLoop
  <2>2. CASE AcceptFails
    BY <2>2 DEF AcceptFails, LeaveLoop
  <2>3. CASE init_thread
    BY <2>3 DEF init_thread
  <2>4. CASE CreateThread
    <3>1. new \in Client /\ tpc[new] = "none" /\ mpc = "pthread_create"
      BY <2>4 DEF CreateThread
    <3>2. CASE tpc' = [tpc EXCEPT ![new] = "readline"] /\ mpc' = "insert" /\ args' = args
      <4>1. args[new] = "live"
        BY <2>4, <3>1 DEF CreateThread
      <4>. QED  BY <2>4, <3>1, <3>2, <4>1 DEF CreateThread
    <3>3. CASE tpc' = tpc /\ mpc' = "cleanup" /\ args' = [args EXCEPT ![new] = "freed"]
      BY <2>4, <3>1, <3>3 DEF CreateThread
    <3>. QED  BY <2>4, <3>2, <3>3 DEF CreateThread
  <2>5. CASE InsertThread
    BY <2>5 DEF InsertThread, ClientFdHandedOver, SLIST_INSERT_HEAD
  <2> HIDE DEF Inv, PhaseInv
  <2>. QED  BY <1>2, <2>1, <2>2, <2>3, <2>4, <2>5 DEF LoopStep
<1>3. CASE EndStep
  <2>1. CASE ReapNext
    BY <2>1 DEF ReapNext
  <2>2. CASE JoinAndFree
    BY <2>2 DEF JoinAndFree, SLIST_REMOVE
  <2>3. CASE DeleteTimer
    BY <2>3 DEF DeleteTimer
  <2>4. CASE remove_all_remaining_threads
    <3>1. CASE head = NULL
      <4>1. \A c \in Client : tpc[c] = "none" \/ args[c] # "live"
        BY <2>4, <3>1, EmptyList DEF remove_all_remaining_threads, Started
      <4>. QED  BY <2>4, <3>1, <4>1 DEF remove_all_remaining_threads
    <3>2. CASE head # NULL
      BY <2>4, <3>2 DEF remove_all_remaining_threads
    <3>. QED  BY <3>1, <3>2
  <2>5. CASE DestroyMutex
    BY <2>5 DEF DestroyMutex
  <2> HIDE DEF Inv, PhaseInv
  <2>. QED  BY <1>3, <2>1, <2>2, <2>3, <2>4, <2>5 DEF EndStep
<1>4. CASE OutsideStep
  BY <1>4 DEF OutsideStep, SignalArrives, HandlerClearsFlag, HandlerShutsDown, StopListening,
         Connect, Send
<1>5. ASSUME NEW c \in Client, ReadLine(c) PROVE PhaseInv'
  BY <1>5 DEF ReadLine
<1>6. ASSUME NEW c \in Client, LockStep(c) PROVE PhaseInv'
  BY <1>6 DEF LockStep, ThreadLock, ThreadLockFails, ThreadUnlock
<1>7. ASSUME NEW c \in Client, EchoStep(c) PROVE PhaseInv'
  <2>1. CASE SeekTo(c)
    BY <2>1 DEF SeekTo
  <2>2. CASE SendNext(c) \/ SendEnd(c)
    BY <2>2 DEF SendNext, SendEnd
  <2>3. CASE SendKills(c)
    BY <2>3 DEF SendKills
  <2>4. CASE SetFinished(c)
    BY <2>4 DEF SetFinished
  <2> HIDE DEF Inv, PhaseInv
  <2>. QED  BY <1>7, <2>1, <2>2, <2>3, <2>4 DEF EchoStep
<1>8. ASSUME NEW t \in Tick, TimerStep(t) PROVE PhaseInv'
  <2>1. CASE TimerExpires(t)
    BY <2>1 DEF TimerExpires
  <2>2. CASE TimerLock(t)
    BY <2>2 DEF TimerLock
  <2>3. CASE TimerAppend(t)
    BY <2>3 DEF TimerAppend
  <2> HIDE DEF Inv, PhaseInv
  <2>. QED  BY <1>8, <2>1, <2>2, <2>3 DEF TimerStep
<1>9. CASE start_listening
  BY <1>9 DEF start_listening
<1>10. CASE daemonize
  BY <1>10 DEF daemonize
<1>11. CASE CloseClientFd
  BY <1>11 DEF CloseClientFd, CloseSocket
<1>12. CASE RemoveFile
  BY <1>12 DEF RemoveFile
<1>13. CASE CloseServer
  BY <1>13 DEF CloseServer, StopListening
<1>14. ASSUME NEW c \in Client, Accept(c) PROVE PhaseInv'
  BY <1>14 DEF Accept
<1>15. ASSUME NEW c \in Client, FopenAppend(c) PROVE PhaseInv'
  BY <1>15 DEF FopenAppend
<1>16. ASSUME NEW c \in Client, FopenRead(c) PROVE PhaseInv'
  BY <1>16 DEF FopenRead
<1>17. ASSUME NEW c \in Client, AppendAndClose(c) PROVE PhaseInv'
  BY <1>17 DEF AppendAndClose
<1>18. ASSUME NEW c \in Client, FcloseRead(c) PROVE PhaseInv'
  BY <1>18 DEF FcloseRead
<1>19. ASSUME NEW c \in Client, CloseConnection(c) PROVE PhaseInv'
  BY <1>19 DEF CloseConnection, CloseSocket
<1>20. ASSUME NEW t \in Tick, TimerFopen(t) PROVE PhaseInv'
  BY <1>20 DEF TimerFopen
<1>21. ASSUME NEW t \in Tick, TimerFclose(t) PROVE PhaseInv'
  BY <1>21 DEF TimerFclose
<1> HIDE DEF Inv, PhaseInv
<1>. QED  BY StepKinds, <1>1, <1>2, <1>3, <1>4, <1>5, <1>6, <1>7, <1>8, <1>9, <1>10, <1>11, <1>12,
       <1>13, <1>14, <1>15, <1>16, <1>17, <1>18, <1>19, <1>20, <1>21

LEMMA LabelTypesKept == ASSUME Inv, Next PROVE LabelTypes'
<1> USE DEF Inv, LabelTypes, MainLabels, ThreadLabels, Locked, Starting, Over
<1>0. LabelTypes
  BY TypeParts
<1> USE <1>0 DEF LabelTypes
<1>1. CASE StartStep
  BY <1>1 DEF StartStep, parse_args, set_signals, InitMutexAndList, start_timer, StartRunning
<1>2. CASE LoopStep
  BY <1>2 DEF LoopStep, CheckRunning, AcceptFails, LeaveLoop, init_thread, CreateThread,
         InsertThread, ClientFdHandedOver, SLIST_INSERT_HEAD
<1>3. CASE EndStep
  BY <1>3 DEF EndStep, ReapNext, JoinAndFree, SLIST_REMOVE, DeleteTimer,
         remove_all_remaining_threads, DestroyMutex
<1>4. CASE OutsideStep
  BY <1>4 DEF OutsideStep, SignalArrives, HandlerClearsFlag, HandlerShutsDown, StopListening,
         Connect, Send
<1>5. ASSUME NEW c \in Client, ReadLine(c) PROVE LabelTypes'
  BY <1>5 DEF ReadLine
<1>6. ASSUME NEW c \in Client, LockStep(c) PROVE LabelTypes'
  BY <1>6 DEF LockStep, ThreadLock, ThreadLockFails, ThreadUnlock
<1>7. ASSUME NEW c \in Client, EchoStep(c) PROVE LabelTypes'
  BY <1>7 DEF EchoStep, SeekTo, SendNext, SendEnd, SendKills, SetFinished
<1>8. ASSUME NEW t \in Tick, TimerStep(t) PROVE LabelTypes'
  <2>1. CASE TimerExpires(t)
    BY <2>1 DEF TimerExpires
  <2>2. CASE TimerLock(t)
    BY <2>2 DEF TimerLock
  <2>3. CASE TimerAppend(t)
    BY <2>3 DEF TimerAppend
  <2> HIDE DEF Inv, LabelTypes
  <2>. QED  BY <1>8, <2>1, <2>2, <2>3 DEF TimerStep
<1>9. CASE start_listening
  BY <1>9 DEF start_listening
<1>10. CASE daemonize
  BY <1>10 DEF daemonize
<1>11. CASE CloseClientFd
  BY <1>11 DEF CloseClientFd, CloseSocket
<1>12. CASE RemoveFile
  BY <1>12 DEF RemoveFile
<1>13. CASE CloseServer
  BY <1>13 DEF CloseServer, StopListening
<1>14. ASSUME NEW c \in Client, Accept(c) PROVE LabelTypes'
  BY <1>14 DEF Accept
<1>15. ASSUME NEW c \in Client, FopenAppend(c) PROVE LabelTypes'
  BY <1>15 DEF FopenAppend
<1>16. ASSUME NEW c \in Client, FopenRead(c) PROVE LabelTypes'
  BY <1>16 DEF FopenRead
<1>17. ASSUME NEW c \in Client, AppendAndClose(c) PROVE LabelTypes'
  BY <1>17 DEF AppendAndClose
<1>18. ASSUME NEW c \in Client, FcloseRead(c) PROVE LabelTypes'
  BY <1>18 DEF FcloseRead
<1>19. ASSUME NEW c \in Client, CloseConnection(c) PROVE LabelTypes'
  BY <1>19 DEF CloseConnection, CloseSocket
<1>20. ASSUME NEW t \in Tick, TimerFopen(t) PROVE LabelTypes'
  BY <1>20 DEF TimerFopen
<1>21. ASSUME NEW t \in Tick, TimerFclose(t) PROVE LabelTypes'
  BY <1>21 DEF TimerFclose
<1> HIDE DEF Inv, LabelTypes
<1>. QED  BY StepKinds, <1>1, <1>2, <1>3, <1>4, <1>5, <1>6, <1>7, <1>8, <1>9, <1>10, <1>11, <1>12,
       <1>13, <1>14, <1>15, <1>16, <1>17, <1>18, <1>19, <1>20, <1>21

LEMMA MainTypesKept == ASSUME Inv, Next PROVE MainTypes'
<1> USE DEF Inv, MainTypes, PhaseInv, ListInv, Started, Alive
<1>0. MainTypes
  BY TypeParts
<1> USE <1>0 DEF MainTypes
<1>1. CASE StartStep
  BY <1>1 DEF StartStep, parse_args, set_signals, InitMutexAndList, start_timer, StartRunning
<1>2. CASE LoopStep
  BY <1>2 DEF LoopStep, CheckRunning, AcceptFails, LeaveLoop, init_thread, CreateThread,
         InsertThread, ClientFdHandedOver, SLIST_INSERT_HEAD
<1>3. CASE EndStep
  <2>1. CASE ReapNext
    BY <2>1 DEF ReapNext
  <2>2. CASE JoinAndFree
    BY <2>2 DEF JoinAndFree, SLIST_REMOVE
  <2>3. CASE DeleteTimer
    BY <2>3 DEF DeleteTimer
  <2>4. CASE remove_all_remaining_threads
    BY <2>4 DEF remove_all_remaining_threads
  <2>5. CASE DestroyMutex
    BY <2>5 DEF DestroyMutex
  <2> HIDE DEF Inv, MainTypes
  <2>. QED  BY <1>3, <2>1, <2>2, <2>3, <2>4, <2>5 DEF EndStep
<1>4. CASE OutsideStep
  <2>1. CASE SignalArrives
    BY <2>1 DEF SignalArrives
  <2>2. CASE HandlerClearsFlag
    BY <2>2 DEF HandlerClearsFlag
  <2>3. CASE HandlerShutsDown
    BY <2>3 DEF HandlerShutsDown, StopListening
  <2>4. ASSUME NEW c \in Client, Connect(c) PROVE MainTypes'
    BY <2>4 DEF Connect
  <2>5. ASSUME NEW c \in Client, Send(c) PROVE MainTypes'
    BY <2>5 DEF Send
  <2> HIDE DEF Inv, MainTypes
  <2>. QED  BY <1>4, <2>1, <2>2, <2>3, <2>4, <2>5 DEF OutsideStep
<1>5. ASSUME NEW c \in Client, ReadLine(c) PROVE MainTypes'
  BY <1>5 DEF ReadLine
<1>6. ASSUME NEW c \in Client, LockStep(c) PROVE MainTypes'
  <2>1. CASE ThreadLock(c)
    BY <2>1 DEF ThreadLock
  <2>2. CASE ThreadLockFails(c)
    BY <2>2 DEF ThreadLockFails
  <2>3. CASE ThreadUnlock(c)
    BY <2>3 DEF ThreadUnlock
  <2> HIDE DEF Inv, MainTypes
  <2>. QED  BY <1>6, <2>1, <2>2, <2>3 DEF LockStep
<1>7. ASSUME NEW c \in Client, EchoStep(c) PROVE MainTypes'
  BY <1>7 DEF EchoStep, SeekTo, SendNext, SendEnd, SendKills, SetFinished
<1>8. ASSUME NEW t \in Tick, TimerStep(t) PROVE MainTypes'
  <2>1. CASE TimerExpires(t)
    BY <2>1 DEF TimerExpires
  <2>2. CASE TimerLock(t)
    BY <2>2 DEF TimerLock
  <2>3. CASE TimerAppend(t)
    BY <2>3 DEF TimerAppend
  <2> HIDE DEF Inv, MainTypes
  <2>. QED  BY <1>8, <2>1, <2>2, <2>3 DEF TimerStep
<1>9. CASE start_listening
  BY <1>9 DEF start_listening
<1>10. CASE daemonize
  BY <1>10 DEF daemonize
<1>11. CASE CloseClientFd
  BY <1>11 DEF CloseClientFd, CloseSocket
<1>12. CASE RemoveFile
  BY <1>12 DEF RemoveFile
<1>13. CASE CloseServer
  BY <1>13 DEF CloseServer, StopListening
<1>14. ASSUME NEW c \in Client, Accept(c) PROVE MainTypes'
  BY <1>14 DEF Accept
<1>15. ASSUME NEW c \in Client, FopenAppend(c) PROVE MainTypes'
  BY <1>15 DEF FopenAppend
<1>16. ASSUME NEW c \in Client, FopenRead(c) PROVE MainTypes'
  BY <1>16 DEF FopenRead
<1>17. ASSUME NEW c \in Client, AppendAndClose(c) PROVE MainTypes'
  BY <1>17 DEF AppendAndClose
<1>18. ASSUME NEW c \in Client, FcloseRead(c) PROVE MainTypes'
  BY <1>18 DEF FcloseRead
<1>19. ASSUME NEW c \in Client, CloseConnection(c) PROVE MainTypes'
  BY <1>19 DEF CloseConnection, CloseSocket
<1>20. ASSUME NEW t \in Tick, TimerFopen(t) PROVE MainTypes'
  BY <1>20 DEF TimerFopen
<1>21. ASSUME NEW t \in Tick, TimerFclose(t) PROVE MainTypes'
  BY <1>21 DEF TimerFclose
<1> HIDE DEF Inv, MainTypes
<1>. QED  BY StepKinds, <1>1, <1>2, <1>3, <1>4, <1>5, <1>6, <1>7, <1>8, <1>9, <1>10, <1>11, <1>12,
       <1>13, <1>14, <1>15, <1>16, <1>17, <1>18, <1>19, <1>20, <1>21

LEMMA NumberTypesKept == ASSUME Inv, Next PROVE NumberTypes'
<1> USE DEF Inv, NumberTypes, PhaseInv
<1>0. NumberTypes /\ {new} \subseteq Client \cup {NULL}
  BY TypeParts DEF MainTypes
<1> USE <1>0 DEF NumberTypes
<1>1. CASE StartStep
  BY <1>1 DEF StartStep, parse_args, set_signals, InitMutexAndList, start_timer, StartRunning
<1>2. CASE LoopStep
  BY <1>2 DEF LoopStep, CheckRunning, AcceptFails, LeaveLoop, init_thread, CreateThread,
         InsertThread, ClientFdHandedOver, SLIST_INSERT_HEAD
<1>3. CASE EndStep
  BY <1>3 DEF EndStep, ReapNext, JoinAndFree, SLIST_REMOVE, DeleteTimer,
         remove_all_remaining_threads, DestroyMutex
<1>4. CASE OutsideStep
  BY <1>4 DEF OutsideStep, SignalArrives, HandlerClearsFlag, HandlerShutsDown, StopListening,
         Connect, Send
<1>5. ASSUME NEW c \in Client, ReadLine(c) PROVE NumberTypes'
  BY <1>5 DEF ReadLine
<1>6. ASSUME NEW c \in Client, LockStep(c) PROVE NumberTypes'
  BY <1>6 DEF LockStep, ThreadLock, ThreadLockFails, ThreadUnlock
<1>7. ASSUME NEW c \in Client, EchoStep(c) PROVE NumberTypes'
  BY <1>7 DEF EchoStep, SeekTo, SendNext, SendEnd, SendKills, SetFinished
<1>8. ASSUME NEW t \in Tick, TimerStep(t) PROVE NumberTypes'
  <2>1. CASE TimerExpires(t)
    BY <2>1 DEF TimerExpires
  <2>2. CASE TimerLock(t)
    BY <2>2 DEF TimerLock
  <2>3. CASE TimerAppend(t)
    BY <2>3 DEF TimerAppend
  <2> HIDE DEF Inv, NumberTypes
  <2>. QED  BY <1>8, <2>1, <2>2, <2>3 DEF TimerStep
<1>9. CASE start_listening
  <2>1. \/ server_sock_fd' = LowestFd /\ mpc' = "set_signals" /\ Opened("server", NULL)
        \/ server_sock_fd' = -1 /\ mpc' = "exited" /\ (UNCHANGED fds \/ Opened("server", NULL))
    BY <1>9, ListenEffect
  <2>. QED  BY <1>9, <2>1 DEF start_listening, Opened
<1>10. CASE daemonize
  <2>1. UNCHANGED fds \/ Opened("null", NULL)
    BY <1>10, DaemonizeEffect
  <2>. QED  BY <1>10, <2>1 DEF daemonize, Opened
<1>11. CASE CloseClientFd
  <2>1. (client_sock_fd = -1 /\ UNCHANGED fds) \/ Closed(client_sock_fd)
    BY <1>11, CloseEffect DEF CloseClientFd, CloseSocket
  <2>. QED  BY <1>11, <2>1 DEF CloseClientFd, Closed
<1>12. CASE RemoveFile
  BY <1>12 DEF RemoveFile
<1>13. CASE CloseServer
  <2>1. Closed(server_sock_fd)
    BY <1>13, CloseEffect DEF CloseServer
  <2>. QED  BY <1>13, <2>1 DEF CloseServer, Closed
<1>14. ASSUME NEW c \in Client, Accept(c) PROVE NumberTypes'
  <2>1. Opened("socket", c) /\ tpc[c] = "none"
    BY <1>14, AcceptEffect
  <2>. QED  BY <1>14, <2>1 DEF Accept, Opened
<1>15. ASSUME NEW c \in Client, FopenAppend(c) PROVE NumberTypes'
  <2>1. /\ file[c] = NoFile
        /\ UNCHANGED <<fds, file>> \/ (Opened("file", c) /\ file' = [file EXCEPT ![c] = LowestFd])
    BY <1>15, FopenEffect
  <2>. QED  BY <1>15, <2>1 DEF FopenAppend, Opened
<1>16. ASSUME NEW c \in Client, FopenRead(c) PROVE NumberTypes'
  <2>1. /\ file[c] = NoFile
        /\ UNCHANGED <<fds, file>> \/ (Opened("file", c) /\ file' = [file EXCEPT ![c] = LowestFd])
    BY <1>16, FopenEffect
  <2>. QED  BY <1>16, <2>1 DEF FopenRead, Opened
<1>17. ASSUME NEW c \in Client, AppendAndClose(c) PROVE NumberTypes'
  <2>1. Closed(file[c])
    BY <1>17, CloseEffect DEF AppendAndClose
  <2>. QED  BY <1>17, <2>1 DEF AppendAndClose, Closed
<1>18. ASSUME NEW c \in Client, FcloseRead(c) PROVE NumberTypes'
  <2>1. UNCHANGED <<fds, file, tpc>> \/ (file[c] # NoFile /\ Closed(file[c]))
    BY <1>18, CloseEffect DEF FcloseRead
  <2>. QED  BY <1>18, <2>1 DEF FcloseRead, Closed
<1>19. ASSUME NEW c \in Client, CloseConnection(c) PROVE NumberTypes'
  <2>1. Closed(sock_fd[c])
    BY <1>19, CloseEffect DEF CloseConnection, CloseSocket
  <2>. QED  BY <1>19, <2>1 DEF CloseConnection, Closed
<1>20. ASSUME NEW t \in Tick, TimerFopen(t) PROVE NumberTypes'
  <2>1. /\ kfile[t] = NoFile
        /\ \/ UNCHANGED <<fds, kfile>> /\ kpc' = [kpc EXCEPT ![t] = "ended"]
           \/ /\ Opened("file", t) /\ kfile' = [kfile EXCEPT ![t] = LowestFd]
              /\ kpc' = [kpc EXCEPT ![t] = "lock"]
    BY <1>20, TimerFopenEffect
  <2>. QED  BY <1>20, <2>1 DEF TimerFopen, Opened
<1>21. ASSUME NEW t \in Tick, TimerFclose(t) PROVE NumberTypes'
  <2>1. Closed(kfile[t])
    BY <1>21, CloseEffect DEF TimerFclose
  <2>. QED  BY <1>21, <2>1 DEF TimerFclose, Closed
<1> HIDE DEF Inv, NumberTypes
<1>. QED  BY StepKinds, <1>1, <1>2, <1>3, <1>4, <1>5, <1>6, <1>7, <1>8, <1>9, <1>10, <1>11, <1>12,
       <1>13, <1>14, <1>15, <1>16, <1>17, <1>18, <1>19, <1>20, <1>21

LEMMA FdTypesKept == ASSUME Inv, Next PROVE FdTypes'
<1> USE DEF Inv, FdTypes
<1>0. FdTypes
  BY TypeParts
<1> USE <1>0 DEF FdTypes
<1>1. CASE StartStep
  BY <1>1 DEF StartStep, parse_args, set_signals, InitMutexAndList, start_timer, StartRunning
<1>2. CASE LoopStep
  BY <1>2 DEF LoopStep, CheckRunning, AcceptFails, LeaveLoop, init_thread, CreateThread,
         InsertThread, ClientFdHandedOver, SLIST_INSERT_HEAD
<1>3. CASE EndStep
  BY <1>3 DEF EndStep, ReapNext, JoinAndFree, SLIST_REMOVE, DeleteTimer,
         remove_all_remaining_threads, DestroyMutex
<1>4. CASE OutsideStep
  BY <1>4 DEF OutsideStep, SignalArrives, HandlerClearsFlag, HandlerShutsDown, StopListening,
         Connect, Send
<1>5. ASSUME NEW c \in Client, ReadLine(c) PROVE FdTypes'
  BY <1>5 DEF ReadLine
<1>6. ASSUME NEW c \in Client, LockStep(c) PROVE FdTypes'
  BY <1>6 DEF LockStep, ThreadLock, ThreadLockFails, ThreadUnlock
<1>7. ASSUME NEW c \in Client, EchoStep(c) PROVE FdTypes'
  BY <1>7 DEF EchoStep, SeekTo, SendNext, SendEnd, SendKills, SetFinished
<1>8. ASSUME NEW t \in Tick, TimerStep(t) PROVE FdTypes'
  <2>1. CASE TimerExpires(t)
    BY <2>1 DEF TimerExpires
  <2>2. CASE TimerLock(t)
    BY <2>2 DEF TimerLock
  <2>3. CASE TimerAppend(t)
    BY <2>3 DEF TimerAppend
  <2> HIDE DEF Inv, FdTypes
  <2>. QED  BY <1>8, <2>1, <2>2, <2>3 DEF TimerStep
<1>9. CASE start_listening
  <2>1. UNCHANGED fds \/ OpenFd("server", NULL)
    BY <1>9 DEF start_listening
  <2>. QED  BY <2>1 DEF OpenFd
<1>10. CASE daemonize
  BY <1>10 DEF daemonize, OpenFd
<1>11. CASE CloseClientFd
  BY <1>11 DEF CloseClientFd, CloseSocket, CloseFd, Free
<1>12. CASE RemoveFile
  BY <1>12 DEF RemoveFile
<1>13. CASE CloseServer
  BY <1>13 DEF CloseServer, CloseFd, Free
<1>14. ASSUME NEW c \in Client, Accept(c) PROVE FdTypes'
  BY <1>14 DEF Accept, OpenFd
<1>15. ASSUME NEW c \in Client, FopenAppend(c) PROVE FdTypes'
  BY <1>15 DEF FopenAppend, OpenFd
<1>16. ASSUME NEW c \in Client, FopenRead(c) PROVE FdTypes'
  BY <1>16 DEF FopenRead, OpenFd
<1>17. ASSUME NEW c \in Client, AppendAndClose(c) PROVE FdTypes'
  BY <1>17 DEF AppendAndClose, CloseFd, Free
<1>18. ASSUME NEW c \in Client, FcloseRead(c) PROVE FdTypes'
  BY <1>18 DEF FcloseRead, CloseFd, Free
<1>19. ASSUME NEW c \in Client, CloseConnection(c) PROVE FdTypes'
  BY <1>19 DEF CloseConnection, CloseSocket, CloseFd, Free
<1>20. ASSUME NEW t \in Tick, TimerFopen(t) PROVE FdTypes'
  BY <1>20 DEF TimerFopen, OpenFd
<1>21. ASSUME NEW t \in Tick, TimerFclose(t) PROVE FdTypes'
  BY <1>21 DEF TimerFclose, CloseFd, Free
<1> HIDE DEF Inv, FdTypes
<1>. QED  BY StepKinds, <1>1, <1>2, <1>3, <1>4, <1>5, <1>6, <1>7, <1>8, <1>9, <1>10, <1>11, <1>12,
       <1>13, <1>14, <1>15, <1>16, <1>17, <1>18, <1>19, <1>20, <1>21

LEMMA NetTypesKept == ASSUME Inv, Next PROVE NetTypes'
<1> USE DEF Inv, NetTypes
<1>0. NetTypes
  BY TypeParts
<1> USE <1>0 DEF NetTypes
<1>1. CASE StartStep
  BY <1>1 DEF StartStep, parse_args, set_signals, InitMutexAndList, start_timer, StartRunning
<1>2. CASE LoopStep
  BY <1>2 DEF LoopStep, CheckRunning, AcceptFails, LeaveLoop, init_thread, CreateThread,
         InsertThread, ClientFdHandedOver, SLIST_INSERT_HEAD
<1>3. CASE EndStep
  BY <1>3 DEF EndStep, ReapNext, JoinAndFree, SLIST_REMOVE, DeleteTimer,
         remove_all_remaining_threads, DestroyMutex
<1>4. CASE OutsideStep
  <2>1. CASE SignalArrives
    BY <2>1 DEF SignalArrives
  <2>2. CASE HandlerClearsFlag
    BY <2>2 DEF HandlerClearsFlag
  <2>3. CASE HandlerShutsDown
    BY <2>3 DEF HandlerShutsDown, StopListening
  <2>4. ASSUME NEW c \in Client, Connect(c) PROVE NetTypes'
    BY <2>4 DEF Connect
  <2>5. ASSUME NEW c \in Client, Send(c) PROVE NetTypes'
    BY <2>5 DEF Send
  <2> HIDE DEF Inv, NetTypes
  <2>. QED  BY <1>4, <2>1, <2>2, <2>3, <2>4, <2>5 DEF OutsideStep
<1>5. ASSUME NEW c \in Client, ReadLine(c) PROVE NetTypes'
  BY <1>5 DEF ReadLine
<1>6. ASSUME NEW c \in Client, LockStep(c) PROVE NetTypes'
  BY <1>6 DEF LockStep, ThreadLock, ThreadLockFails, ThreadUnlock
<1>7. ASSUME NEW c \in Client, EchoStep(c) PROVE NetTypes'
  BY <1>7 DEF EchoStep, SeekTo, SendNext, SendEnd, SendKills, SetFinished
<1>8. ASSUME NEW t \in Tick, TimerStep(t) PROVE NetTypes'
  <2>1. CASE TimerExpires(t)
    BY <2>1 DEF TimerExpires
  <2>2. CASE TimerLock(t)
    BY <2>2 DEF TimerLock
  <2>3. CASE TimerAppend(t)
    BY <2>3 DEF TimerAppend
  <2> HIDE DEF Inv, NetTypes
  <2>. QED  BY <1>8, <2>1, <2>2, <2>3 DEF TimerStep
<1>9. CASE start_listening
  BY <1>9 DEF start_listening
<1>10. CASE daemonize
  BY <1>10 DEF daemonize
<1>11. CASE CloseClientFd
  BY <1>11 DEF CloseClientFd, CloseSocket
<1>12. CASE RemoveFile
  BY <1>12 DEF RemoveFile
<1>13. CASE CloseServer
  BY <1>13 DEF CloseServer, StopListening
<1>14. ASSUME NEW c \in Client, Accept(c) PROVE NetTypes'
  BY <1>14 DEF Accept
<1>15. ASSUME NEW c \in Client, FopenAppend(c) PROVE NetTypes'
  BY <1>15 DEF FopenAppend
<1>16. ASSUME NEW c \in Client, FopenRead(c) PROVE NetTypes'
  BY <1>16 DEF FopenRead
<1>17. ASSUME NEW c \in Client, AppendAndClose(c) PROVE NetTypes'
  <2>1. DeviceWrite(c) => UNCHANGED partial \/ partial' = <<>> \/ partial' = Append(partial, c)
    BY DEF DeviceWrite
  <2>2. UNCHANGED partial \/ DeviceWrite(c)
    BY <1>17 DEF AppendAndClose
  <2>3. partial' \in Seq(Client)
    <3>1. <<>> \in Seq(Client) /\ Append(partial, c) \in Seq(Client)
      OBVIOUS
    <3>. QED  BY <2>1, <2>2, <3>1
  <2>. QED  BY <1>17, <2>3 DEF AppendAndClose
<1>18. ASSUME NEW c \in Client, FcloseRead(c) PROVE NetTypes'
  BY <1>18 DEF FcloseRead
<1>19. ASSUME NEW c \in Client, CloseConnection(c) PROVE NetTypes'
  BY <1>19 DEF CloseConnection, CloseSocket
<1>20. ASSUME NEW t \in Tick, TimerFopen(t) PROVE NetTypes'
  BY <1>20 DEF TimerFopen
<1>21. ASSUME NEW t \in Tick, TimerFclose(t) PROVE NetTypes'
  BY <1>21 DEF TimerFclose
<1> HIDE DEF Inv, NetTypes
<1>. QED  BY StepKinds, <1>1, <1>2, <1>3, <1>4, <1>5, <1>6, <1>7, <1>8, <1>9, <1>10, <1>11, <1>12,
       <1>13, <1>14, <1>15, <1>16, <1>17, <1>18, <1>19, <1>20, <1>21

-----------------------------------------------------------------------------
(***************************************************************************)
(* Lists: what follows an element, insertion at the head, removal.         *)
(***************************************************************************)

LEMMA ListNext ==
  ASSUME NEW s \in Seq(Client), NEW first, NEW next, IsList(s, first, next), NEW c \in Elements(s)
  PROVE  next[c] = NULL \/ next[c] \in Elements(s) \ {c}
<1>1. PICK i \in 1 .. Len(s) : c = s[i]
  BY DEF Elements
<1>2. CASE i = Len(s)
  BY <1>1, <1>2 DEF IsList
<1>3. CASE i # Len(s)
  <2>1. next[c] = s[i + 1] /\ i + 1 \in 1 .. Len(s)
    BY <1>1, <1>3 DEF IsList
  <2>2. s[i + 1] # s[i]
    BY <1>1, <2>1 DEF IsList
  <2>. QED  BY <1>1, <2>1, <2>2 DEF Elements
<1>. QED  BY <1>2, <1>3

LEMMA ListInsert ==
  ASSUME NEW s \in Seq(Client), NEW first, NEW next, IsList(s, first, next),
         NEW c \in Client, c \notin Elements(s),
         NEW next2, next2[c] = first, \A x \in Elements(s) : next2[x] = next[x]
  PROVE  \E r \in Seq(Client) : IsList(r, c, next2) /\ Elements(r) = Elements(s) \cup {c}
<1> DEFINE r == <<c>> \o s
<1>1. r \in Seq(Client) /\ Len(r) = Len(s) + 1 /\ r # <<>> /\ Len(s) \in Nat
  OBVIOUS
<1>2. r[1] = c /\ \A i \in 1 .. Len(s) : r[i + 1] = s[i]
  OBVIOUS
<1>3. \A i \in 1 .. Len(s) : s[i] # c /\ next2[s[i]] = next[s[i]]
  BY DEF Elements
<1>4. \A i \in 1 .. Len(r) : i = 1 \/ (i - 1 \in 1 .. Len(s) /\ r[i] = s[i - 1])
  <2> SUFFICES ASSUME NEW i \in 1 .. Len(r), i # 1 PROVE i - 1 \in 1 .. Len(s) /\ r[i] = s[i - 1]
    OBVIOUS
  <2>1. i - 1 \in 1 .. Len(s) /\ (i - 1) + 1 = i
    BY <1>1
  <2>. QED  BY <1>2, <2>1
<1> HIDE DEF r
<1>5. IsList(r, c, next2)
  <2>1. ASSUME NEW i \in 1 .. Len(r), NEW j \in 1 .. Len(r), r[i] = r[j] PROVE i = j
    <3>1. i = 1 => j = 1
      BY <1>2, <1>3, <1>4, <2>1
    <3>2. j = 1 => i = 1
      BY <1>2, <1>3, <1>4, <2>1
    <3>3. CASE i # 1 /\ j # 1
      <4>1. i - 1 \in 1 .. Len(s) /\ j - 1 \in 1 .. Len(s) /\ s[i - 1] = s[j - 1]
        BY <1>4, <2>1, <3>3
      <4>2. i - 1 = j - 1
        BY <4>1 DEF IsList
      <4>. QED  BY <4>2
    <3>. QED  BY <3>1, <3>2, <3>3
  <2>2. ASSUME NEW i \in 1 .. Len(r) PROVE next2[r[i]] = IF i = Len(r) THEN NULL ELSE r[i + 1]
    <3>1. CASE i = 1
      <4>1. next2[r[i]] = first
        BY <1>2, <3>1
      <4>2. CASE Len(s) = 0
        BY <1>1, <3>1, <4>1, <4>2 DEF IsList
      <4>3. CASE Len(s) # 0
        <5>1. 1 \in 1 .. Len(s) /\ r[2] = s[1] /\ s # <<>>
          BY <1>1, <1>2, <4>3
        <5>. QED  BY <1>1, <3>1, <4>1, <4>3, <5>1 DEF IsList
      <4>. QED  BY <4>2, <4>3
    <3>2. CASE i # 1
      <4>1. i - 1 \in 1 .. Len(s) /\ r[i] = s[i - 1]
        BY <1>4, <3>2
      <4>2. next2[r[i]] = next[s[i - 1]]
        BY <1>3, <4>1
      <4>3. next[s[i - 1]] = IF i - 1 = Len(s) THEN NULL ELSE s[(i - 1) + 1]
        BY <4>1 DEF IsList
      <4>4. i - 1 # Len(s) => i \in 1 .. Len(s) /\ r[i + 1] = s[i]
        BY <1>1, <1>2, <4>1
      <4>. QED  BY <1>1, <4>1, <4>2, <4>3, <4>4
    <3>. QED  BY <3>1, <3>2
  <2>. QED  BY <1>1, <1>2, <2>1, <2>2 DEF IsList
<1>6. Elements(r) = Elements(s) \cup {c}
  <2>1. ASSUME NEW x \in Elements(r) PROVE x \in Elements(s) \cup {c}
    <3>1. PICK i \in 1 .. Len(r) : x = r[i]
      BY DEF Elements
    <3>. QED  BY <1>2, <1>4, <3>1 DEF Elements
  <2>2. ASSUME NEW i \in 1 .. Len(s) PROVE s[i] \in Elements(r)
    <3>1. i + 1 \in 1 .. Len(r) /\ r[i + 1] = s[i]
      BY <1>1, <1>2
    <3>. QED  BY <3>1 DEF Elements
  <2>3. c \in Elements(r)
    BY <1>1, <1>2 DEF Elements
  <2>. QED  BY <2>1, <2>2, <2>3 DEF Elements
<1>. QED  BY <1>1, <1>5, <1>6

\* first2 and next2 are the list s without c.
Unlinked(s, c, first, next, first2, next2) ==
  /\ c \in Elements(s)
  /\ first2 = IF first = c THEN next[c] ELSE first
  /\ \A x \in Elements(s) : x # c => next2[x] = IF first # c /\ next[x] = c THEN next[c] ELSE next[x]

LEMMA ListRemove ==
  ASSUME NEW s \in Seq(Client), NEW c, NEW first, NEW next, NEW first2, NEW next2,
         IsList(s, first, next), Unlinked(s, c, first, next, first2, next2)
  PROVE  \E r \in Seq(Client) : IsList(r, first2, next2) /\ Elements(r) = Elements(s) \ {c}
<1>1. PICK k \in 1 .. Len(s) : c = s[k]
  BY DEF Unlinked, Elements
<1> DEFINE m == Len(s) - 1
           at(i) == IF i < k THEN i ELSE i + 1
           r == [i \in 1 .. m |-> s[at(i)]]
<1>2. m \in Nat /\ Len(s) = m + 1 /\ k \in 1 .. m + 1
  BY <1>1
<1> HIDE DEF m
<1>3. \A i \in 1 .. m : at(i) \in 1 .. Len(s) /\ at(i) # k
  BY <1>2
<1>4. r \in Seq(Client) /\ Len(r) = m
  <2>1. \A i \in 1 .. m : s[at(i)] \in Client
    BY <1>3
  <2>. QED  BY <1>2, <2>1
<1>5. \A i \in 1 .. m : r[i] = s[at(i)]
  OBVIOUS
<1>6. \A i, j \in 1 .. Len(s) : s[i] = s[j] => i = j
  BY DEF IsList
<1>7. \A i \in 1 .. Len(s) : next[s[i]] = IF i = Len(s) THEN NULL ELSE s[i + 1]
  BY DEF IsList
<1>8. first = s[1] /\ 1 \in 1 .. Len(s)
  <2>1. s # <<>>
    BY <1>2
  <2>. QED  BY <1>2, <2>1 DEF IsList
<1>9. first = c <=> k = 1
  BY <1>1, <1>6, <1>8
<1> HIDE DEF r
<1>10. \A i \in 1 .. Len(s) : i # k =>
         next2[s[i]] = IF i + 1 = k THEN next[c] ELSE next[s[i]]
  <2> SUFFICES ASSUME NEW i \in 1 .. Len(s), i # k
               PROVE  next2[s[i]] = IF i + 1 = k THEN next[c] ELSE next[s[i]]
    OBVIOUS
  <2>0. s[i] \in Elements(s) /\ s[i] # c
    BY <1>1, <1>6 DEF Elements
  <2>1. CASE first = c
    BY <1>2, <1>9, <2>0, <2>1 DEF Unlinked
  <2>2. CASE first # c
    <3>1. next2[s[i]] = IF next[s[i]] = c THEN next[c] ELSE next[s[i]]
      BY <2>0, <2>2 DEF Unlinked
    <3>2. next[s[i]] = c <=> i + 1 = k
      <4>1. CASE i = Len(s)
        BY <1>1, <1>2, <1>7, <4>1, ClientAssumption
      <4>2. CASE i # Len(s)
        <5>1. i + 1 \in 1 .. Len(s) /\ next[s[i]] = s[i + 1]
          BY <1>2, <1>7, <4>2
        <5>. QED  BY <1>1, <1>6, <5>1
      <4>. QED  BY <4>1, <4>2
    <3>. QED  BY <3>1, <3>2
  <2>. QED  BY <2>1, <2>2
<1>11. IsList(r, first2, next2)
  <2>1. ASSUME NEW i \in 1 .. m, NEW j \in 1 .. m, r[i] = r[j] PROVE i = j
    <3>1. at(i) = at(j)
      BY <1>3, <1>5, <1>6, <2>1
    <3>. QED  BY <1>2, <3>1
  <2>2. first2 = IF r = <<>> THEN NULL ELSE r[1]
    <3>1. r = <<>> <=> m = 0
      BY <1>2, <1>4
    <3>2. CASE k = 1
      <4>1. first2 = next[s[1]]
        BY <1>1, <1>9, <3>2 DEF Unlinked
      <4>2. CASE m = 0
        BY <1>2, <1>7, <1>8, <3>1, <4>1, <4>2
      <4>3. CASE m # 0
        <5>1. r[1] = s[2]
          BY <1>2, <1>5, <3>2, <4>3
        <5>. QED  BY <1>2, <1>7, <1>8, <3>1, <4>1, <4>3, <5>1
      <4>. QED  BY <4>2, <4>3
    <3>3. CASE k # 1
      <4>1. m # 0 /\ r[1] = s[1]
        BY <1>1, <1>2, <1>5, <3>3
      <4>. QED  BY <1>8, <1>9, <3>1, <3>3, <4>1 DEF Unlinked
    <3>. QED  BY <3>2, <3>3
  <2>3. ASSUME NEW i \in 1 .. m PROVE next2[r[i]] = IF i = m THEN NULL ELSE r[i + 1]
    <3>1. r[i] = s[at(i)] /\ at(i) \in 1 .. Len(s) /\ at(i) # k
      BY <1>3, <1>5
    <3>2. next2[r[i]] = IF at(i) + 1 = k THEN next[s[k]] ELSE next[s[at(i)]]
      BY <1>1, <1>10, <3>1
    <3>3. CASE at(i) + 1 = k
      <4>1. at(i) = i /\ i + 1 = k
        BY <1>2, <3>3
      <4>2. next2[r[i]] = IF k = Len(s) THEN NULL ELSE s[k + 1]
        BY <1>7, <3>2, <3>3
      <4>3. i # m => i + 1 \in 1 .. m /\ r[i + 1] = s[k + 1]
        BY <1>2, <1>5, <4>1
      <4>. QED  BY <1>2, <4>1, <4>2, <4>3
    <3>4. CASE at(i) + 1 # k
      <4>1. next2[r[i]] = IF at(i) = Len(s) THEN NULL ELSE s[at(i) + 1]
        BY <1>7, <3>1, <3>2, <3>4
      <4>2. at(i) = Len(s) <=> i = m
        BY <1>1, <1>2, <3>1, <3>4
      <4>3. i # m => i + 1 \in 1 .. m /\ at(i + 1) = at(i) + 1
        BY <1>2, <3>1, <3>4
      <4>. QED  BY <1>5, <4>1, <4>2, <4>3
    <3>. QED  BY <3>3, <3>4
  <2>. QED  BY <1>4, <2>1, <2>2, <2>3 DEF IsList
<1>12. Elements(r) = Elements(s) \ {c}
  <2>1. ASSUME NEW i \in 1 .. m PROVE r[i] \in Elements(s) \ {c}
    BY <1>1, <1>3, <1>5, <1>6 DEF Elements
  <2>2. ASSUME NEW i \in 1 .. Len(s), i # k PROVE s[i] \in Elements(r)
    <3>1. PICK j \in 1 .. m : at(j) = i
      <4>1. CASE i < k
        BY <1>1, <1>2, <4>1
      <4>2. CASE i > k
        <5>1. i - 1 \in 1 .. m /\ at(i - 1) = i
          BY <1>1, <1>2, <4>2
        <5>. QED  BY <5>1
      <4>. QED  BY <1>2, <2>2, <4>1, <4>2
    <3>. QED  BY <1>4, <1>5, <3>1 DEF Elements
  <2>3. ASSUME NEW x \in Elements(r) PROVE x \in Elements(s) \ {c}
    <3>1. PICK i \in 1 .. m : x = r[i]
      BY <1>4 DEF Elements
    <3>. QED  BY <2>1, <3>1
  <2>4. ASSUME NEW x \in Elements(s) \ {c} PROVE x \in Elements(r)
    <3>1. PICK i \in 1 .. Len(s) : x = s[i]
      BY DEF Elements
    <3>. QED  BY <1>1, <2>2, <3>1
  <2>. QED  BY <2>3, <2>4
<1>. QED  BY <1>4, <1>11, <1>12

-----------------------------------------------------------------------------
\* A step that leaves the list and the threads to join alone.
ListStays ==
  Alive' => /\ Alive /\ Started' = Started
            /\ UNCHANGED <<head, link, cur>>
            /\ mpc' \in {"reap", "join"} => mpc' = mpc

LEMMA ListFrame == ASSUME Inv, ListStays PROVE ListInv'
BY DEF Inv, ListInv, ListStays

LEMMA ListKept == ASSUME Inv, Next PROVE ListInv'
<1>0. tpc \in [Client -> ThreadLabels] /\ args \in [Client -> {"none", "live", "freed"}]
  BY DEF Inv, TypeInv, TypeOK
<1>1. CASE StartStep
  <2>1. NoThreads /\ Alive /\ Started = {}
    BY <1>1 DEF StartStep, parse_args, set_signals, InitMutexAndList, start_timer, StartRunning, NoThreads, Starting, Alive, Started, Inv, PhaseInv
  <2>2. head = NULL
    BY <2>1, EmptyList
  <2>3. ListStays
    BY <1>1, <2>1, <2>2 DEF StartStep, parse_args, set_signals, InitMutexAndList, start_timer, StartRunning, NoThreads, ListStays, Started
  <2>. QED  BY <2>3, ListFrame
<1>2. CASE LoopStep
  <2>1. CASE CheckRunning
    <3>1. ListStays
      BY <1>0, <2>1 DEF CheckRunning, LeaveLoop, ListStays, Alive, Started, Inv, PhaseInv
    <3>. QED  BY <3>1, ListFrame
  <2>2. CASE AcceptFails
    <3>1. ListStays
      BY <1>0, <2>2 DEF AcceptFails, LeaveLoop, ListStays, Alive, Started, Inv, PhaseInv
    <3>. QED  BY <3>1, ListFrame
  <2>3. CASE init_thread
    <3>1. ListStays
      BY <1>0, <2>3 DEF init_thread, ListStays, Alive, Started, Inv, PhaseInv
    <3>. QED  BY <3>1, ListFrame
  <2>4. CASE CreateThread
    <3>1. ListStays
      BY <1>0, <2>4 DEF CreateThread, ListStays, Alive, Started, Inv, PhaseInv
    <3>. QED  BY <3>1, ListFrame
  <2>5. CASE InsertThread
    <3>1. PICK s \in Seq(Client) : IsList(s, head, link) /\ Elements(s) = Started
      BY <2>5 DEF InsertThread, Alive, Inv, ListInv
    <3>2. new \in Client /\ new \notin Elements(s) /\ link \in [Client -> Client \cup {NULL}]
      BY <2>5, <3>1 DEF InsertThread, Started, Inv, PhaseInv, TypeInv, TypeOK
    <3>3. PICK r \in Seq(Client) : IsList(r, new, link') /\ Elements(r) = Elements(s) \cup {new}
      <4>1. link'[new] = head
        BY <2>5, <3>2 DEF InsertThread, SLIST_INSERT_HEAD
      <4>2. \A x \in Elements(s) : link'[x] = link[x]
        BY <2>5, <3>1, <3>2 DEF InsertThread, SLIST_INSERT_HEAD, Started
      <4>. QED  BY <3>1, <3>2, <4>1, <4>2, ListInsert
    <3>4. Started' = Started \cup {new}
      BY <1>0, <2>5, <3>2 DEF InsertThread, Started, Inv, PhaseInv, Active
    <3>5. head' = new /\ cur' = new /\ mpc' = "reap"
      BY <2>5 DEF InsertThread, SLIST_INSERT_HEAD
    <3>6. IsList(r, head', link') /\ Elements(r) = Started'
      BY <3>1, <3>3, <3>4, <3>5
    <3>. QED  BY <3>4, <3>5, <3>6, <3>2, ClientAssumption DEF ListInv
  <2>. QED  BY <1>2, <2>1, <2>2, <2>3, <2>4, <2>5 DEF LoopStep
<1>3. CASE EndStep
  <2>1. CASE ReapNext
    <3>1. Alive /\ Started' = Started /\ UNCHANGED <<head, link>>
      BY <2>1 DEF ReapNext, Alive, Started
    <3>2. PICK s \in Seq(Client) : IsList(s, head, link) /\ Elements(s) = Started
      BY <3>1 DEF Inv, ListInv
    <3>3. cur \in Started \cup {NULL}
      BY <2>1, <3>1 DEF ReapNext, Inv, ListInv
    <3>4. mpc' \in {"reap", "join"} => cur' = cur \/ (cur # NULL /\ cur' = link[cur])
      BY <2>1 DEF ReapNext
    <3>5. mpc' \in {"reap", "join"} => cur' \in Started \cup {NULL}
      BY <3>2, <3>3, <3>4, ListNext
    <3>6. mpc' = "join" => cur' # NULL
      BY <2>1 DEF ReapNext
    <3>. QED  BY <3>1, <3>2, <3>5, <3>6 DEF ListInv
  <2>2. CASE JoinAndFree
    <3>1. PICK s \in Seq(Client) : IsList(s, head, link) /\ Elements(s) = Started
      BY <2>2 DEF JoinAndFree, Alive, Inv, ListInv
    <3>2. cur \in Elements(s) /\ cur \in Client /\ link \in [Client -> Client \cup {NULL}]
      BY <2>2, <3>1 DEF JoinAndFree, Alive, Started, Inv, ListInv, TypeInv, TypeOK
    <3>3. Unlinked(s, cur, head, link, head', link')
      BY <2>2, <3>1, <3>2 DEF JoinAndFree, SLIST_REMOVE, Started, Unlinked
    <3>4. PICK r \in Seq(Client) : IsList(r, head', link') /\ Elements(r) = Elements(s) \ {cur}
      BY <3>1, <3>3, ListRemove
    <3>5. Started' = Started \ {cur}
      BY <1>0, <2>2, <3>2 DEF JoinAndFree, Started
    <3>6. cur' = link[cur] /\ mpc' = "reap"
      BY <2>2 DEF JoinAndFree
    <3>7. cur' = NULL \/ cur' \in Elements(s) \ {cur}
      BY <3>1, <3>2, <3>6, ListNext
    <3>. QED  BY <3>1, <3>4, <3>5, <3>6, <3>7 DEF ListInv
  <2>3. CASE DeleteTimer
    <3>1. ListStays
      BY <1>0, <2>3 DEF DeleteTimer, ListStays, Alive, Started, Inv, PhaseInv
    <3>. QED  BY <3>1, ListFrame
  <2>4. CASE remove_all_remaining_threads
    <3>1. Alive /\ Started' = Started /\ UNCHANGED <<head, link>>
      BY <2>4 DEF remove_all_remaining_threads, Alive, Started
    <3>2. PICK s \in Seq(Client) : IsList(s, head, link) /\ Elements(s) = Started
      BY <3>1 DEF Inv, ListInv
    <3>3. CASE head = NULL
      BY <2>4, <3>1, <3>2, <3>3 DEF remove_all_remaining_threads, ListInv
    <3>4. CASE head # NULL
      <4>1. mpc' = "reap" /\ cur' = head
        BY <2>4, <3>4 DEF remove_all_remaining_threads
      <4>2. s # <<>> /\ head = s[1] /\ 1 \in 1 .. Len(s)
        BY <3>2, <3>4 DEF IsList
      <4>3. head \in Started
        BY <3>2, <4>2 DEF Elements
      <4>. QED  BY <3>1, <3>2, <4>1, <4>3 DEF ListInv
    <3>. QED  BY <3>3, <3>4
  <2>5. CASE DestroyMutex
    <3>1. ListStays
      BY <1>0, <2>5 DEF DestroyMutex, ListStays, Alive, Started, Inv, PhaseInv
    <3>. QED  BY <3>1, ListFrame
  <2>. QED  BY <1>3, <2>1, <2>2, <2>3, <2>4, <2>5 DEF EndStep
<1>4. CASE OutsideStep
  <2>1. ListStays
    BY <1>0, <1>4 DEF OutsideStep, SignalArrives, HandlerClearsFlag, HandlerShutsDown,
           StopListening, Connect, Send, ListStays, Alive, Started, Inv, PhaseInv
  <2>. QED  BY <2>1, ListFrame
<1>5. ASSUME NEW c \in Client, ReadLine(c) PROVE ListInv'
  <2>1. ListStays
    BY <1>0, <1>5 DEF ReadLine, ListStays, Alive, Started, Inv, PhaseInv
  <2>. QED  BY <2>1, ListFrame
<1>6. ASSUME NEW c \in Client, LockStep(c) PROVE ListInv'
  <2>1. ListStays
    BY <1>0, <1>6 DEF LockStep, ThreadLock, ThreadLockFails, ThreadUnlock, ListStays, Alive,
           Started, Inv, PhaseInv
  <2>. QED  BY <2>1, ListFrame
<1>7. ASSUME NEW c \in Client, EchoStep(c) PROVE ListInv'
  <2>1. ListStays
    BY <1>0, <1>7 DEF EchoStep, SeekTo, SendNext, SendEnd, SendKills, SetFinished, ListStays, Alive, Started,
           Inv, PhaseInv
  <2>. QED  BY <2>1, ListFrame
<1>8. ASSUME NEW t \in Tick, TimerStep(t) PROVE ListInv'
  <2>1. ListStays
    BY <1>0, <1>8 DEF TimerStep, TimerExpires, TimerLock, TimerAppend, ListStays, Alive, Started,
           Inv, PhaseInv
  <2>. QED  BY <2>1, ListFrame
<1>9. CASE start_listening
  <2>1. ListStays
    BY <1>0, <1>9 DEF start_listening, ListStays, Alive, Started, Inv, PhaseInv
  <2>. QED  BY <2>1, ListFrame
<1>10. CASE daemonize
  <2>1. ListStays
    BY <1>0, <1>10 DEF daemonize, ListStays, Alive, Started, Inv, PhaseInv
  <2>. QED  BY <2>1, ListFrame
<1>11. CASE CloseClientFd
  <2>1. ListStays
    BY <1>0, <1>11 DEF CloseClientFd, CloseSocket, ListStays, Alive, Started, Inv, PhaseInv
  <2>. QED  BY <2>1, ListFrame
<1>12. CASE RemoveFile
  <2>1. ListStays
    BY <1>0, <1>12 DEF RemoveFile, ListStays, Alive, Started, Inv, PhaseInv
  <2>. QED  BY <2>1, ListFrame
<1>13. CASE CloseServer
  <2>1. ListStays
    BY <1>0, <1>13 DEF CloseServer, StopListening, ListStays, Alive, Started, Inv, PhaseInv
  <2>. QED  BY <2>1, ListFrame
<1>14. ASSUME NEW c \in Client, Accept(c) PROVE ListInv'
  <2>1. ListStays
    BY <1>0, <1>14 DEF Accept, ListStays, Alive, Started, Inv, PhaseInv
  <2>. QED  BY <2>1, ListFrame
<1>15. ASSUME NEW c \in Client, FopenAppend(c) PROVE ListInv'
  <2>1. ListStays
    BY <1>0, <1>15 DEF FopenAppend, ListStays, Alive, Started, Inv, PhaseInv
  <2>. QED  BY <2>1, ListFrame
<1>16. ASSUME NEW c \in Client, FopenRead(c) PROVE ListInv'
  <2>1. ListStays
    BY <1>0, <1>16 DEF FopenRead, ListStays, Alive, Started, Inv, PhaseInv
  <2>. QED  BY <2>1, ListFrame
<1>17. ASSUME NEW c \in Client, AppendAndClose(c) PROVE ListInv'
  <2>1. ListStays
    BY <1>0, <1>17 DEF AppendAndClose, ListStays, Alive, Started, Inv, PhaseInv
  <2>. QED  BY <2>1, ListFrame
<1>18. ASSUME NEW c \in Client, FcloseRead(c) PROVE ListInv'
  <2>1. ListStays
    BY <1>0, <1>18 DEF FcloseRead, ListStays, Alive, Started, Inv, PhaseInv
  <2>. QED  BY <2>1, ListFrame
<1>19. ASSUME NEW c \in Client, CloseConnection(c) PROVE ListInv'
  <2>1. ListStays
    BY <1>0, <1>19 DEF CloseConnection, CloseSocket, ListStays, Alive, Started, Inv, PhaseInv
  <2>. QED  BY <2>1, ListFrame
<1>20. ASSUME NEW t \in Tick, TimerFopen(t) PROVE ListInv'
  <2>1. ListStays
    BY <1>0, <1>20 DEF TimerFopen, ListStays, Alive, Started, Inv, PhaseInv
  <2>. QED  BY <2>1, ListFrame
<1>21. ASSUME NEW t \in Tick, TimerFclose(t) PROVE ListInv'
  <2>1. ListStays
    BY <1>0, <1>21 DEF TimerFclose, ListStays, Alive, Started, Inv, PhaseInv
  <2>. QED  BY <2>1, ListFrame
<1>. QED  BY StepKinds, <1>1, <1>2, <1>3, <1>4, <1>5, <1>6, <1>7, <1>8, <1>9, <1>10, <1>11, <1>12,
       <1>13, <1>14, <1>15, <1>16, <1>17, <1>18, <1>19, <1>20, <1>21

(***************************************************************************)
(* What Listed computes, by following the links, are the elements of the   *)
(* list.                                                                   *)
(***************************************************************************)
LEMMA ListedElements ==
  ASSUME NEW s \in Seq(Client), IsList(s, head, link)
  PROVE  Listed = Elements(s)
<1> DEFINE N == Cardinality(Client)
           step(f) == [n \in 0 .. N |-> IF n = 0 THEN head ELSE IF f[n - 1] = NULL THEN NULL ELSE link[f[n - 1]]]
           nth == CHOOSE f : f = step(f)
<1>1. Listed = {nth[n] : n \in DOMAIN nth} \ {NULL}
  BY DEF Listed
<1> DEFINE g == [n \in 0 .. N |-> IF n < Len(s) THEN s[n + 1] ELSE NULL]
<1>2. N \in Nat /\ Len(s) \in Nat
  BY ClientAssumption, FS_CardinalityType
<1>3. Len(s) <= N
  <2> SUFFICES ASSUME N < Len(s) PROVE FALSE
    BY <1>2
  <2>1. IsFiniteSet(1 .. Len(s)) /\ Cardinality(1 .. Len(s)) = Len(s)
    <3>1. ASSUME NEW k \in Nat PROVE IsFiniteSet(1 .. k) /\ Cardinality(1 .. k) = k
      BY FS_Interval
    <3>. QED  BY <1>2, <3>1
  <2>2. s \in [1 .. Len(s) -> Client]
    OBVIOUS
  <2>3. \E i, j \in 1 .. Len(s) : i # j /\ s[i] = s[j]
    BY <2>1, <2>2, ClientAssumption, FS_PigeonHole
  <2>. QED  BY <2>3 DEF IsList
<1> HIDE DEF N
<1>4. \A i \in 1 .. Len(s) : s[i] # NULL
  BY ClientAssumption
<1>5. ASSUME NEW n \in 0 .. N, n # 0
      PROVE  g[n] = IF g[n - 1] = NULL THEN NULL ELSE link[g[n - 1]]
  <2>1. n - 1 \in 0 .. N
    BY <1>2, <1>5
  <2>2. CASE n - 1 < Len(s)
    <3>1. n \in 1 .. Len(s) /\ g[n - 1] = s[n]
      BY <1>2, <2>1, <2>2
    <3>2. link[s[n]] = IF n = Len(s) THEN NULL ELSE s[n + 1]
      BY <3>1 DEF IsList
    <3>. QED  BY <1>2, <1>4, <3>1, <3>2
  <2>3. CASE ~(n - 1 < Len(s))
    BY <1>2, <2>1, <2>3
  <2>. QED  BY <2>2, <2>3
<1>6. g[0] = head
  <2>1. CASE s = <<>>
    BY <1>2, <2>1 DEF IsList
  <2>2. CASE s # <<>>
    BY <1>2, <2>2 DEF IsList
  <2>. QED  BY <2>1, <2>2
<1>7. g = step(g)
  <2>1. ASSUME NEW n \in 0 .. N PROVE g[n] = step(g)[n]
    <3> HIDE DEF g
    <3>. QED  BY <1>5, <1>6
  <2>2. DOMAIN g = 0 .. N /\ g = [n \in 0 .. N |-> g[n]]
    OBVIOUS
  <2> HIDE DEF g
  <2>. QED  BY <2>1, <2>2
<1>8. nth = step(nth)
  <2> HIDE DEF g, step
  <2>. QED  BY <1>7
<1> HIDE DEF nth
<1>9. \A n \in 0 .. N : nth[n] = step(nth)[n]
  BY <1>8
<1>10. ASSUME NEW n \in 0 .. N PROVE nth[n] = g[n]
  <2> DEFINE D == {k \in 0 .. N : nth[k] # g[k]}
  <2> SUFFICES ASSUME D # {} PROVE FALSE
    OBVIOUS
  <2>1. D \in SUBSET Nat
    BY <1>2
  <2>2. PICK m \in D : \A k \in D : m <= k
    BY <2>1, LeastElement
  <2> HIDE DEF g
  <2>3. m # 0
    BY <1>2, <1>6, <1>9
  <2>4. m - 1 \in 0 .. N /\ m - 1 \notin D
    BY <1>2, <2>2, <2>3
  <2>5. nth[m - 1] = g[m - 1]
    BY <2>4
  <2>. QED  BY <1>5, <1>9, <2>2, <2>3, <2>5
<1>11. DOMAIN nth = 0 .. N
  BY <1>8
<1>12. ASSUME NEW x \in Elements(s) PROVE x \in Listed
  <2>1. PICK i \in 1 .. Len(s) : x = s[i]
    BY DEF Elements
  <2>2. i - 1 \in 0 .. N /\ g[i - 1] = x /\ x # NULL
    BY <1>2, <1>3, <1>4, <2>1
  <2>. QED  BY <1>1, <1>10, <1>11, <2>2
<1>13. ASSUME NEW x \in Listed PROVE x \in Elements(s)
  <2>1. PICK n \in 0 .. N : x = nth[n] /\ x # NULL
    BY <1>1, <1>11
  <2>2. n < Len(s) /\ x = s[n + 1]
    BY <1>2, <1>10, <2>1
  <2>. QED  BY <1>2, <2>2 DEF Elements
<1>. QED  BY <1>12, <1>13

-----------------------------------------------------------------------------
(***************************************************************************)
(* The invariant holds initially and every step keeps it.                  *)
(***************************************************************************)

LEMMA InitInv == Init => Inv
<1> SUFFICES ASSUME Init PROVE Inv
  OBVIOUS
<1>1. TypeInv
  <2>1. LabelTypes /\ MainTypes
    BY DEF Init, LabelTypes, MainTypes, MainLabels, Starting, ThreadLabels
  <2>2. NumberTypes /\ NetTypes
    BY DEF Init, NumberTypes, NetTypes, NoFile
  <2>3. FdTypes
    BY DEF Init, FdTypes, Free
  <2>. QED  BY <2>1, <2>2, <2>3, TypeParts
<1>2. PhaseInv /\ TimerInv
  BY ClientAssumption DEF Init, PhaseInv, TimerInv, Starting, Over, NoThreads, Active, Alive
<1>3. SocketInv /\ ClientFdInv /\ ConnInv
  BY DEF Init, SocketInv, ClientFdInv, ConnInv, Talking, Active, Free
<1>4. InputInv /\ FileInv /\ ServerFdInv
  BY DEF Init, InputInv, FileInv, ServerFdInv, Free
<1>5. MutexInv
  BY NameAssumption DEF Init, MutexInv, Locked
<1>6. ListInv
  <2>1. Started = {} /\ head = NULL
    BY DEF Init, Started
  <2>2. <<>> \in Seq(Client) /\ IsList(<<>>, head, link) /\ Elements(<<>>) = Started
    BY <2>1 DEF IsList, Elements
  <2>. QED  BY <2>2 DEF Init, ListInv
<1>. QED  BY <1>1, <1>2, <1>3, <1>4, <1>5, <1>6 DEF Inv

LEMMA StutterInv == ASSUME Inv, UNCHANGED vars PROVE Inv'
<1> USE DEF vars
<1>1. TypeInv' /\ PhaseInv' /\ TimerInv'
  BY DEF Inv, TypeInv, TypeOK, PhaseInv, TimerInv, NoThreads, Active, Alive
<1>2. SocketInv' /\ ClientFdInv' /\ ConnInv'
  BY DEF Inv, SocketInv, ClientFdInv, ConnInv, Talking, Pending, Refers, NoThreads, Active
<1>3. InputInv' /\ FileInv' /\ ServerFdInv'
  BY DEF Inv, InputInv, FileInv, ServerFdInv, Refers, Quiet, Active, parse_ctrl_line
<1>4. MutexInv' /\ ListInv'
  BY DEF Inv, MutexInv, ListInv, Started, Alive
<1>. QED  BY <1>1, <1>2, <1>3, <1>4 DEF Inv

LEMMA StepInv == ASSUME Inv, Next PROVE Inv'
<1>1. TypeInv'
  <2>1. LabelTypes' /\ MainTypes' /\ NumberTypes' /\ FdTypes' /\ NetTypes'
    BY LabelTypesKept, MainTypesKept, NumberTypesKept, FdTypesKept, NetTypesKept
  <2>. QED  BY <2>1 DEF TypeInv, TypeOK, LabelTypes, MainTypes, NumberTypes, FdTypes, NetTypes
<1>. QED  BY <1>1, PhaseKept, TimerKept, SocketKept, ClientFdKept, ConnKept, InputKept, FileKept,
             ServerFdKept, MutexKept, ListKept DEF Inv

\* The invariant is inductive.
THEOREM Invariance == Spec => []Inv
<1>1. Inv /\ [Next]_vars => Inv'
  BY StepInv, StutterInv
<1>. QED  BY <1>1, InitInv, PTL DEF Spec

\* Every variable of the server keeps its type; every descriptor that the
\* server opens is one of the MaxFd that the kernel grants.
THEOREM TypeSafety == Spec => []TypeOK
<1>1. Inv => TypeOK
  BY DEF Inv, TypeInv
<1>. QED  BY <1>1, Invariance, PTL

(***************************************************************************)
(* Main and the threads never close one another's descriptors, although    *)
(* numbers are used again and main closes one that was never initialised   *)
(* (main.c:329, 338-340).                                                  *)
(***************************************************************************)
THEOREM DescriptorsStay == Spec => []DescriptorsStayWithTheirThread
<1>1. Inv => DescriptorsStayWithTheirThread
  <2> SUFFICES ASSUME Inv, NEW c \in Client
               PROVE  /\ Talking(c) => fds[sock_fd[c]] = [use |-> "socket", by |-> c]
                      /\ file[c] # NoFile => fds[file[c]] = [use |-> "file", by |-> c]
    BY DEF DescriptorsStayWithTheirThread, Talking
  <2>1. /\ Talking(c) => Refers(sock_fd[c], "socket", c)
        /\ file[c] # NoFile => Refers(file[c], "file", c)
    BY DEF Inv, SocketInv, FileInv
  <2>2. ASSUME NEW f \in Fd, NEW use, fds[f].use = use, fds[f].by = c PROVE fds[f] = [use |-> use, by |-> c]
    BY <2>2 DEF Inv, TypeInv, TypeOK
  <2>. QED  BY <2>1, <2>2 DEF Refers
<1>. QED  BY <1>1, Invariance, PTL

(***************************************************************************)
(* Main walks over no freed element of the list and loses no thread        *)
(* (main.c:225-249).                                                       *)
(***************************************************************************)
THEOREM ListIsRight == Spec => []ListHoldsThreads
<1>1. Inv => ListHoldsThreads
  <2> SUFFICES ASSUME Inv, Alive
               PROVE  /\ Listed = Started
                      /\ mpc \in {"reap", "join"} => cur \in Listed \cup {NULL}
                      /\ \A c \in Client : Active(c) => args[c] = "live"
    BY DEF ListHoldsThreads, Started
  <2>1. Listed = Started
    BY ListedElements DEF Inv, ListInv
  <2>. QED  BY <2>1 DEF Inv, ListInv, PhaseInv
<1>. QED  BY <1>1, Invariance, PTL

(***************************************************************************)
(* When main returns, after whatever error, the threads of the clients     *)
(* have ended, and all that is left open is the descriptor of daemonize,   *)
(* what a thread of the timer has and, after a failed setsockopt, the      *)
(* server's socket; no client's thread can use the mutex once it is        *)
(* destroyed (main.c:97-101, 338-358).                                     *)
(***************************************************************************)
THEOREM ExitReleases == Spec => []ExitReleasesEverything
<1>1. Inv => ExitReleasesEverything
  <2> SUFFICES ASSUME Inv PROVE ExitReleasesEverything
    OBVIOUS
  <2>1. mutex = "destroyed" => \A c \in Client : ~Active(c)
    BY DEF Inv, MutexInv, PhaseInv, Over
  <2>2. ASSUME mpc = "exited"
        PROVE  /\ \A c \in Client : ~Active(c) /\ args[c] # "live" /\ conn[c] # "accepted"
               /\ mutex \in {"none", "destroyed"} \/ \E t \in Tick : kpc[t] # "none"
               /\ \A f \in Fd : \/ fds[f].use \in {"free", "null"} \/ fds[f].by \in Tick
                                \/ fds[f].use = "server" /\ server_sock_fd = -1
    <3>1. \A c \in Client : ~Active(c) /\ args[c] # "live" /\ ~Pending(c)
      BY <2>2 DEF Inv, PhaseInv, Over, Pending
    <3>2. \A c \in Client : conn[c] # "accepted"
      BY <3>1 DEF Inv, ConnInv, Talking
    <3>3. ASSUME NEW f \in Fd
          PROVE  \/ fds[f].use \in {"free", "null"} \/ fds[f].by \in Tick
                 \/ fds[f].use = "server" /\ server_sock_fd = -1
      <4>1. fds[f].use \in {"free", "null", "server", "socket", "file", "unlinked"}
        BY DEF Inv, TypeInv, TypeOK
      <4>2. fds[f].use = "server" => server_sock_fd = -1
        BY <2>2 DEF Inv, ServerFdInv
      <4>3. fds[f].use # "socket"
        BY <3>1 DEF Inv, SocketInv, Talking
      <4>4. fds[f].use \in {"file", "unlinked"} => fds[f].by \in Tick
        <5>1. \A c \in Client : file[c] = NoFile
          BY <3>1 DEF Inv, FileInv, HasFile, Active
        <5>. QED  BY <5>1, NoFd DEF Inv, FileInv
      <4>. QED  BY <4>1, <4>2, <4>3, <4>4
    <3>. QED  BY <2>2, <3>1, <3>2, <3>3 DEF Inv, MutexInv
  <2>. QED  BY <2>1, <2>2 DEF ExitReleasesEverything
<1>. QED  BY <1>1, Invariance, PTL

(***************************************************************************)
(* Once main has removed the file while no thread of the timer is under    *)
(* way, it stays removed: neither the timer, which is deleted before, nor  *)
(* a client's thread can create it again (main.c:342-350).                 *)
(***************************************************************************)
THEOREM FileStaysRemoved == Spec => RemovedForGood
<1> DEFINE Stays == Removed /\ TimerQuiet /\ ~exists => TimerQuiet' /\ ~exists'
<1>1. ASSUME Inv, Next PROVE Stays
  <2> SUFFICES ASSUME Removed, TimerQuiet, ~exists PROVE TimerQuiet' /\ ~exists'
    OBVIOUS
  <2>1. mpc \in {"destroy", "close_server", "exited"}
    BY DEF Removed
  <2>2. timer # "armed" /\ \A c \in Client : ~Active(c)
    <3>1. timer # "armed"
      BY <1>1, <2>1 DEF Inv, TimerInv
    <3>2. \A c \in Client : ~Active(c)
      BY <1>1, <2>1 DEF Inv, PhaseInv, Over
    <3>. QED  BY <3>1, <3>2
  <2>3. CASE StartStep
    BY <2>1, <2>3 DEF StartStep, parse_args, set_signals, InitMutexAndList, start_timer, StartRunning
  <2>4. CASE LoopStep
    BY <2>1, <2>4 DEF LoopStep, CheckRunning, AcceptFails, init_thread, CreateThread, InsertThread
  <2>5. CASE EndStep \/ CloseServer \/ OutsideStep
    BY <2>1, <2>5 DEF EndStep, ReapNext, JoinAndFree, DeleteTimer, remove_all_remaining_threads, DestroyMutex,
       CloseServer, OutsideStep, SignalArrives, HandlerClearsFlag, HandlerShutsDown, Connect, Send, TimerQuiet
  <2>6. CASE start_listening \/ daemonize \/ CloseClientFd \/ RemoveFile
    BY <2>1, <2>6 DEF start_listening, daemonize, CloseClientFd, RemoveFile
  <2>7. ASSUME NEW c \in Client,
               \/ ReadLine(c) \/ LockStep(c) \/ EchoStep(c) \/ FopenAppend(c) \/ FopenRead(c)
               \/ AppendAndClose(c) \/ FcloseRead(c) \/ CloseConnection(c) \/ Accept(c)
        PROVE  FALSE
    BY <2>1, <2>2, <2>7 DEF ReadLine, LockStep, ThreadLock, ThreadLockFails, ThreadUnlock, EchoStep, SeekTo,
       SendNext, SendEnd, SendKills, SetFinished, FopenAppend, FopenRead, AppendAndClose, FcloseRead, CloseConnection,
       Accept, Active
  <2>8. ASSUME NEW t \in Tick, TimerStep(t) \/ TimerFopen(t) \/ TimerFclose(t)
        PROVE  FALSE
    BY <2>2, <2>8 DEF TimerStep, TimerExpires, TimerLock, TimerAppend, TimerFopen, TimerFclose, TimerQuiet
  <2>. QED  BY <1>1, StepKinds, <2>3, <2>4, <2>5, <2>6, <2>7, <2>8
<1>2. UNCHANGED vars => Stays
  BY DEF vars, TimerQuiet
<1>3. Inv /\ [Next]_vars => [Stays]_vars
  BY <1>1, <1>2
<1>. QED  BY <1>3, Invariance, PTL DEF Spec, RemovedForGood

-----------------------------------------------------------------------------
(***************************************************************************)
(* What a client receives.                                                 *)
(***************************************************************************)

\* What is in the log: lines, each with the unfinished ones in front of it, and
\* timestamps.
Piece == Seq(Client) \cup {<<t>> : t \in Tick}

EchoTypes ==
  /\ build \in Builds
  /\ log \in Seq(Piece)
  /\ start \in [Client -> Nat \ {0}] /\ response \in [Client -> Seq(Piece)]
  /\ sent \in [Client -> BOOLEAN] /\ lost \in [Client -> BOOLEAN]

\* The labels behind the loop of send_file.
Answered == {"unlock", "fclose_r", "close", "finish"}

\* What c's thread has not begun yet, and what it knows of its line.
NotYet(c) ==
  /\ tpc[c] \notin Answered => ~sent[c]
  /\ tpc[c] \notin Answered \cup {"send"} => response[c] = <<>> /\ start[c] = 1
  /\ tpc[c] \in Locked => input[c] # "none"
  /\ tpc[c] = "ioctl" => input[c] = "ctrl"

\* c's line stays the last one while c's thread has the mutex.
OwnLine(c) ==
  tpc[c] \in {"fopen_r", "send", "unlock"} /\ input[c] = "line" =>
    start[c] = 1 /\ (~lost[c] => LastLineIs(c))

\* The answer so far is what the log holds from start[c] on.
AnswerSoFar(c) ==
  /\ start[c] + Len(response[c]) <= Len(log) + 1
  /\ \A k \in 1 .. Len(response[c]) : response[c][k] = log[start[c] + k - 1]

Answer(c) ==
  /\ tpc[c] = "send" => AnswerSoFar(c)
  /\ tpc[c] = "unlock" /\ sent[c] => AnswerSoFar(c) /\ OnlyTimestampsFrom(start[c] + Len(response[c]))

EchoOf(c) == NotYet(c) /\ OwnLine(c) /\ Answer(c)

EchoInv == EchoTypes /\ \A c \in Client : EchoOf(c)

\* A step that leaves the log and what is c's alone.
Aside(c) ==
  /\ UNCHANGED log
  /\ tpc'[c] = tpc[c] /\ input'[c] = input[c] /\ start'[c] = start[c] /\ response'[c] = response[c]
  /\ sent'[c] = sent[c] /\ lost'[c] = lost[c]

LEMMA EchoAside == ASSUME NEW c \in Client, EchoOf(c), Aside(c) PROVE EchoOf(c)'
BY DEF EchoOf, NotYet, OwnLine, Answer, AnswerSoFar, LastLineIs, OnlyTimestampsFrom, Aside

\* While another thread changes the log, c's thread is not behind the lock.
LEMMA EchoElsewhere ==
  ASSUME NEW c \in Client, EchoOf(c), tpc[c] \notin Locked,
         tpc'[c] = tpc[c], input'[c] = input[c], start'[c] = start[c], response'[c] = response[c],
         sent'[c] = sent[c]
  PROVE  EchoOf(c)'
BY DEF EchoOf, NotYet, OwnLine, Answer, Locked, Answered

\* A timestamp is no line.
LEMMA EchoTimestamp ==
  ASSUME EchoTypes, NEW c \in Client, EchoOf(c), NEW t \in Tick, log' = Append(log, <<t>>),
         tpc'[c] = tpc[c], input'[c] = input[c], start'[c] = start[c], response'[c] = response[c],
         sent'[c] = sent[c], lost'[c] = lost[c]
  PROVE  EchoOf(c)'
<1>1. /\ Len(log') = Len(log) + 1 /\ Len(log) \in Nat
      /\ \A i \in 1 .. Len(log) : log'[i] = log[i]
      /\ log'[Len(log) + 1] = <<t>>
      /\ DOMAIN log = 1 .. Len(log) /\ DOMAIN log' = 1 .. Len(log')
  BY DEF EchoTypes
<1>2. IsTimestamp(<<t>>)
  BY DEF IsTimestamp
<1>3. ASSUME NEW n \in Nat \ {0}, OnlyTimestampsFrom(n) PROVE OnlyTimestampsFrom(n)'
  <2> SUFFICES ASSUME NEW i \in n .. Len(log') PROVE IsTimestamp(log'[i])
    BY DEF OnlyTimestampsFrom, IsTimestamp
  <2>1. CASE i = Len(log) + 1
    BY <1>1, <1>2, <2>1
  <2>2. CASE i \in n .. Len(log)
    BY <1>1, <1>3, <2>2 DEF OnlyTimestampsFrom
  <2>. QED  BY <1>1, <2>1, <2>2
<1>4. LastLineIs(c) => LastLineIs(c)'
  <2> SUFFICES ASSUME LastLineIs(c) PROVE LastLineIs(c)'
    OBVIOUS
  <2>1. PICK i \in DOMAIN log : ~IsTimestamp(log[i]) /\ Last(log[i]) = c /\ OnlyTimestampsFrom(i + 1)
    BY DEF LastLineIs
  <2>2. i \in DOMAIN log' /\ log'[i] = log[i] /\ i + 1 \in Nat \ {0}
    BY <1>1
  <2>3. OnlyTimestampsFrom(i + 1)'
    BY <1>3, <2>1, <2>2
  <2>. QED  BY <2>1, <2>2, <2>3 DEF LastLineIs, IsTimestamp
<1>5. /\ AnswerSoFar(c) => AnswerSoFar(c)'
      /\ start[c] + Len(response[c]) \in Nat \ {0}
  BY <1>1 DEF AnswerSoFar, EchoTypes
<1>6. OnlyTimestampsFrom(start[c] + Len(response[c])) => OnlyTimestampsFrom(start[c] + Len(response[c]))'
  BY <1>3, <1>5
<1>7. NotYet(c)' /\ OwnLine(c)'
  BY <1>4 DEF EchoOf, NotYet, OwnLine
<1>8. Answer(c)'
  BY <1>5, <1>6 DEF EchoOf, Answer
<1>. QED  BY <1>7, <1>8 DEF EchoOf

\* What a step of c's thread that moves to another label needs for the rest.
LEMMA EchoOthers ==
  ASSUME EchoInv, NEW c \in Client, EchoOf(c)', \A d \in Client : d # c => Aside(d)
  PROVE  \A d \in Client : EchoOf(d)'
<1> SUFFICES ASSUME NEW d \in Client PROVE EchoOf(d)'
  OBVIOUS
<1>. QED  BY EchoAside DEF EchoInv

\* c's thread goes from one label to another, and nothing else changes.
Moves(c) ==
  /\ UNCHANGED <<build, log, start, response, sent, lost, input>>
  /\ \E label \in ThreadLabels : tpc' = [tpc EXCEPT ![c] = label]

LEMMA MovesAside ==
  ASSUME Inv, EchoInv, NEW c \in Client, Moves(c), EchoOf(c)' PROVE EchoInv'
<1>1. \A d \in Client : d # c => Aside(d)
  BY DEF Moves, Aside, Inv, TypeInv
<1>2. EchoTypes'
  BY DEF EchoInv, EchoTypes, Moves
<1>. QED  BY <1>1, <1>2, EchoOthers DEF EchoInv

LEMMA StillEcho ==
  ASSUME EchoInv, UNCHANGED <<build, log, tpc, input, start, response, sent, lost>> PROVE EchoInv'
<1>1. \A c \in Client : Aside(c)
  BY DEF Aside
<1>2. EchoTypes'
  BY DEF EchoInv, EchoTypes
<1>3. \A c \in Client : EchoOf(c)'
  BY <1>1, EchoAside DEF EchoInv
<1>. QED  BY <1>2, <1>3 DEF EchoInv

\* What client c sends when its thread does not have it yet.
LEMMA EchoSend == ASSUME Inv, EchoInv, NEW c \in Client, Send(c) PROVE EchoInv'
<1>1. /\ UNCHANGED <<build, log, tpc, start, response, sent, lost>> /\ input[c] = "none"
      /\ \A d \in Client : d # c => input'[d] = input[d]
  BY DEF Send, Inv, TypeInv
<1>3. EchoTypes'
  BY <1>1 DEF EchoInv, EchoTypes
<1>4. \A d \in Client : d # c => Aside(d)
  BY <1>1 DEF Aside
<1>5. tpc[c] \notin Locked
  BY <1>1 DEF EchoInv, EchoOf, NotYet
<1>6. EchoOf(c)'
  BY <1>1, <1>5 DEF EchoInv, EchoOf, NotYet, OwnLine, Answer, Locked
<1>. QED  BY <1>3, <1>4, <1>6, EchoOthers DEF EchoInv

\* Steps of main, of the timer and of the outside that do not concern what is sent.
LEMMA EchoQuiet ==
  ASSUME Inv, EchoInv,
         \/ StartStep \/ EndStep \/ start_listening \/ daemonize \/ CloseClientFd \/ CloseServer
         \/ \E c \in Client : Accept(c)
         \/ \E t \in Tick : TimerStep(t) \/ TimerFopen(t)
  PROVE  EchoInv'
<1> USE StillEcho
<1>1. CASE StartStep
  BY <1>1 DEF StartStep, parse_args, set_signals, InitMutexAndList, start_timer, StartRunning
<1>2. CASE EndStep
  BY <1>2 DEF EndStep, ReapNext, JoinAndFree, DeleteTimer, remove_all_remaining_threads, DestroyMutex
<1>3. CASE start_listening \/ daemonize \/ CloseClientFd \/ CloseServer
  BY <1>3 DEF start_listening, daemonize, CloseClientFd, CloseServer
<1>4. CASE \E c \in Client : Accept(c)
  BY <1>4 DEF Accept
<1>5. CASE \E t \in Tick : TimerStep(t) \/ TimerFopen(t)
  BY <1>5 DEF TimerStep, TimerExpires, TimerLock, TimerAppend, TimerFopen
<1>. QED  BY <1>1, <1>2, <1>3, <1>4, <1>5

LEMMA EchoOutside == ASSUME Inv, EchoInv, OutsideStep PROVE EchoInv'
<1>1. CASE SignalArrives \/ HandlerClearsFlag \/ HandlerShutsDown
  BY <1>1, StillEcho DEF SignalArrives, HandlerClearsFlag, HandlerShutsDown
<1>2. CASE \E c \in Client : Connect(c)
  BY <1>2, StillEcho DEF Connect
<1>. QED  BY <1>1, <1>2, EchoSend DEF OutsideStep

LEMMA EchoLoop == ASSUME Inv, EchoInv, LoopStep PROVE EchoInv'
<1>1. CASE CheckRunning \/ AcceptFails \/ init_thread \/ InsertThread
  BY <1>1, StillEcho DEF CheckRunning, AcceptFails, init_thread, InsertThread
<1>2. CASE CreateThread
  <2>1. UNCHANGED <<build, log, input, start, response, sent, lost>>
    BY <1>2 DEF CreateThread
  <2>2. CASE UNCHANGED tpc
    BY <2>1, <2>2, StillEcho
  <2>3. CASE tpc' = [tpc EXCEPT ![new] = "readline"]
    <3>1. PICK c \in Client : c = new /\ tpc[c] = "none"
      BY <1>2 DEF CreateThread, Inv, PhaseInv
    <3>2. Moves(c) /\ tpc'[c] = "readline"
      BY <2>1, <2>3, <3>1 DEF Moves, ThreadLabels, Inv, TypeInv
    <3>3. EchoOf(c)'
      BY <2>1, <3>1, <3>2 DEF EchoInv, EchoOf, NotYet, OwnLine, Answer, Locked, Answered
    <3>. QED  BY <3>1, <3>2, <3>3, MovesAside
  <2>. QED  BY <1>2, <2>2, <2>3 DEF CreateThread
<1>. QED  BY <1>1, <1>2 DEF LoopStep

\* A thread that does not get the mutex, or does not get that far, or releases it.
LEMMA EchoMoves ==
  ASSUME Inv, EchoInv, NEW c \in Client,
         \/ ReadLine(c) \/ FopenAppend(c) \/ LockStep(c) \/ FopenRead(c) \/ CloseConnection(c)
  PROVE  EchoInv'
<1> USE DEF EchoInv, EchoOf, NotYet, OwnLine, Answer, Locked, Answered, ThreadLabels, Inv, TypeInv
<1>1. CASE ReadLine(c)
  <2>1. tpc'[c] \in {"close", "lock", "fopen_a"} /\ Moves(c) /\ tpc[c] = "readline"
    BY <1>1 DEF ReadLine, Moves
  <2>. QED  BY <2>1, MovesAside DEF Moves
<1>2. CASE FopenAppend(c)
  <2>1. tpc'[c] \in {"close", "lock"} /\ Moves(c) /\ tpc[c] = "fopen_a"
    BY <1>2 DEF FopenAppend, Moves
  <2>. QED  BY <2>1, MovesAside DEF Moves
<1>3. CASE ThreadLock(c)
  <2>1. /\ Moves(c) /\ tpc[c] = "lock" /\ input[c] # "none"
        /\ tpc'[c] = IF parse_ctrl_line(input[c]) THEN "fopen_r" ELSE "append"
    BY <1>3 DEF ThreadLock, Moves, InputInv
  <2>2. parse_ctrl_line(input[c]) => input[c] # "line"
    BY DEF parse_ctrl_line
  <2>. QED  BY <2>1, <2>2, MovesAside DEF Moves
<1>4. CASE ThreadLockFails(c) \/ ThreadUnlock(c)
  <2>1. tpc'[c] = "fclose_r" /\ Moves(c) /\ tpc[c] \in {"lock", "unlock"}
    BY <1>4 DEF ThreadLockFails, ThreadUnlock, Moves
  <2>. QED  BY <2>1, MovesAside DEF Moves
<1>5. CASE FopenRead(c)
  <2>1. /\ Moves(c) /\ tpc[c] = "fopen_r"
        /\ tpc'[c] \in {"ioctl", "send", "unlock"} /\ (tpc'[c] = "ioctl" => input[c] = "ctrl")
    BY <1>5 DEF FopenRead, Moves, parse_ctrl_line
  <2>2. response[c] = <<>> /\ start[c] = 1 /\ ~sent[c] /\ input[c] # "none"
    BY <2>1
  <2>3. AnswerSoFar(c)'
    BY <2>1, <2>2 DEF AnswerSoFar, Moves, EchoTypes
  <2>4. LastLineIs(c)' <=> LastLineIs(c)
    BY <2>1 DEF Moves, LastLineIs, OnlyTimestampsFrom
  <2>. QED  BY <2>1, <2>2, <2>3, <2>4, MovesAside DEF Moves
<1>6. CASE CloseConnection(c)
  <2>1. tpc'[c] = "finish" /\ Moves(c) /\ tpc[c] = "close"
    BY <1>6 DEF CloseConnection, Moves
  <2>. QED  BY <2>1, MovesAside DEF Moves
<1>. QED  BY <1>1, <1>2, <1>3, <1>4, <1>5, <1>6 DEF LockStep

LEMMA EchoFclose == ASSUME Inv, EchoInv, NEW c \in Client, FcloseRead(c) PROVE EchoInv'
<1>1. CASE UNCHANGED tpc
  BY <1>1, StillEcho DEF FcloseRead
<1>2. CASE tpc' = [tpc EXCEPT ![c] = "close"]
  <2>1. tpc'[c] = "close" /\ Moves(c) /\ tpc[c] = "fclose_r"
    BY <1>2 DEF FcloseRead, Moves, ThreadLabels, Inv, TypeInv
  <2>2. EchoOf(c)'
    BY <2>1 DEF EchoInv, EchoOf, NotYet, OwnLine, Answer, Locked, Answered, Moves
  <2>. QED  BY <2>1, <2>2, MovesAside
<1>. QED  BY <1>1, <1>2 DEF FcloseRead

\* Reading the log changes nothing in it; what is appended to the answer is the
\* next piece, and at the end there is none.
LEMMA EchoSeek == ASSUME Inv, EchoInv, NEW c \in Client, SeekTo(c) PROVE EchoInv'
<1>1. /\ UNCHANGED <<build, log, input, response, sent, lost>> /\ tpc[c] = "ioctl"
      /\ tpc'[c] \in {"send", "unlock"} /\ \A d \in Client : d # c => tpc'[d] = tpc[d]
      /\ \A d \in Client : d # c => start'[d] = start[d]
      /\ start' \in [Client -> Nat \ {0}]
      /\ tpc'[c] = "send" => start'[c] \in 1 .. Len(log)
  BY DEF SeekTo, Inv, TypeInv, EchoInv, EchoTypes
<1>2. input[c] = "ctrl" /\ ~sent[c] /\ response[c] = <<>>
  BY <1>1 DEF EchoInv, EchoOf, NotYet, Answered
<1>3. tpc'[c] = "send" => AnswerSoFar(c)'
  BY <1>1, <1>2 DEF AnswerSoFar, EchoInv, EchoTypes
<1>4. EchoOf(c)'
  BY <1>1, <1>2, <1>3 DEF EchoOf, NotYet, OwnLine, Answer, Answered
<1>5. \A d \in Client : d # c => Aside(d)
  BY <1>1 DEF Aside
<1>6. EchoTypes'
  BY <1>1 DEF EchoInv, EchoTypes
<1>. QED  BY <1>4, <1>5, <1>6, EchoOthers DEF EchoInv

LEMMA EchoNext == ASSUME Inv, EchoInv, NEW c \in Client, SendNext(c) PROVE EchoInv'
<1> DEFINE i == NextPiece(c)
<1>1. /\ UNCHANGED <<build, log, input, start, lost, tpc, sent>> /\ tpc[c] = "send"
      /\ i = start[c] + Len(response[c]) /\ i <= Len(log) /\ i \in Nat \ {0} /\ Len(log) \in Nat
      /\ Len(response[c]) \in Nat /\ start[c] \in Nat \ {0}
  BY DEF SendNext, NextPiece, EchoInv, EchoTypes
<1>2. NotYet(c) /\ OwnLine(c) /\ AnswerSoFar(c)
  BY <1>1 DEF EchoInv, EchoOf, Answer
<1>3. LastLineIs(c)' <=> LastLineIs(c)
  BY <1>1 DEF LastLineIs, OnlyTimestampsFrom
<1>4. response' = [response EXCEPT ![c] = Append(@, log[i])]
  BY DEF SendNext
<1> HIDE DEF i
<1>5. log[i] \in Piece /\ response[c] \in Seq(Piece) /\ DOMAIN response = Client
  BY <1>1 DEF EchoInv, EchoTypes
<1>6. response'[c] = Append(response[c], log[i]) /\ \A d \in Client : d # c => response'[d] = response[d]
  BY <1>4, <1>5
<1>7. /\ Len(response'[c]) = Len(response[c]) + 1
      /\ \A k \in 1 .. Len(response[c]) : response'[c][k] = response[c][k]
      /\ response'[c][Len(response[c]) + 1] = log[i]
  BY <1>5, <1>6
<1>8. AnswerSoFar(c)'
  <2>1. start[c] + Len(response'[c]) <= Len(log) + 1
    BY <1>1, <1>7
  <2>2. ASSUME NEW k \in 1 .. Len(response'[c]) PROVE response'[c][k] = log[start[c] + k - 1]
    <3>1. CASE k \in 1 .. Len(response[c])
      BY <1>2, <1>7, <3>1 DEF AnswerSoFar
    <3>2. CASE k = Len(response[c]) + 1
      BY <1>1, <1>7, <3>2
    <3>. QED  BY <1>1, <1>7, <3>1, <3>2
  <2>. QED  BY <1>1, <2>1, <2>2 DEF AnswerSoFar
<1>9. EchoOf(c)'
  BY <1>1, <1>2, <1>3, <1>8 DEF EchoOf, NotYet, OwnLine, Answer, Answered
<1>10. \A d \in Client : d # c => Aside(d)
  BY <1>1, <1>6 DEF Aside
<1>11. EchoTypes'
  BY <1>1, <1>4, <1>5 DEF EchoInv, EchoTypes
<1>. QED  BY <1>9, <1>10, <1>11, EchoOthers DEF EchoInv

\* At the end of the contents the answer is whole; after a failed read it is not
\* marked as sent.
LEMMA EchoEnd == ASSUME Inv, EchoInv, NEW c \in Client, SendEnd(c) PROVE EchoInv'
<1>1. /\ UNCHANGED <<build, log, input, start, lost, response>> /\ tpc[c] = "send"
      /\ NextPiece(c) = start[c] + Len(response[c]) /\ NextPiece(c) \in Nat \ {0} /\ Len(log) \in Nat
      /\ tpc' = [tpc EXCEPT ![c] = "unlock"]
  BY DEF SendEnd, Goto, NextPiece, EchoInv, EchoTypes
<1>2. NotYet(c) /\ OwnLine(c) /\ AnswerSoFar(c)
  BY <1>1 DEF EchoInv, EchoOf, Answer
<1>3. LastLineIs(c)' <=> LastLineIs(c)
  BY <1>1 DEF LastLineIs, OnlyTimestampsFrom
<1>4. tpc'[c] = "unlock" /\ \A d \in Client : d # c => tpc'[d] = tpc[d]
  BY <1>1 DEF Inv, TypeInv
<1>5. /\ sent' \in [Client -> BOOLEAN] /\ \A d \in Client : d # c => sent'[d] = sent[d]
      /\ sent'[c] => NextPiece(c) > Len(log)
  <2>1. ~sent[c]
    BY <1>1, <1>2 DEF NotYet, Answered
  <2>. QED  BY <2>1 DEF SendEnd, EchoInv, EchoTypes
<1>6. AnswerSoFar(c)'
  BY <1>1, <1>2 DEF AnswerSoFar
<1>7. sent'[c] => OnlyTimestampsFrom(start[c] + Len(response[c]))'
  BY <1>1, <1>5 DEF OnlyTimestampsFrom
<1>8. EchoOf(c)'
  BY <1>1, <1>2, <1>3, <1>4, <1>6, <1>7 DEF EchoOf, NotYet, OwnLine, Answer, Answered, Locked
<1>9. \A d \in Client : d # c => Aside(d)
  BY <1>1, <1>4, <1>5 DEF Aside
<1>10. EchoTypes'
  BY <1>1, <1>5 DEF EchoInv, EchoTypes
<1>. QED  BY <1>8, <1>9, <1>10, EchoOthers DEF EchoInv

LEMMA EchoRest == ASSUME Inv, EchoInv, NEW c \in Client, SendKills(c) \/ SetFinished(c) PROVE EchoInv'
<1>1. CASE SendKills(c)
  BY <1>1, StillEcho DEF SendKills
<1>2. CASE SetFinished(c)
  <2>1. UNCHANGED <<log, input>> /\ EchoTypes'
    BY <1>2 DEF SetFinished, EchoInv, EchoTypes
  <2>2. tpc'[c] = "ended" /\ start'[c] = 1 /\ response'[c] = <<>> /\ sent'[c] = FALSE
    BY <1>2 DEF SetFinished, EchoInv, EchoTypes, Inv, TypeInv
  <2>3. \A d \in Client : d # c => Aside(d)
    BY <1>2 DEF SetFinished, EchoInv, EchoTypes, Inv, TypeInv, Aside
  <2>4. EchoOf(c)'
    BY <2>2 DEF EchoOf, NotYet, OwnLine, Answer, Locked
  <2>. QED  BY <2>1, <2>3, <2>4, EchoOthers DEF EchoInv
<1>. QED  BY <1>1, <1>2

(***************************************************************************)
(* The line that c's thread writes becomes the last one, behind what other *)
(* clients left unfinished.  Nobody else is behind the lock.               *)
(***************************************************************************)
LEMMA WriteEffect ==
  ASSUME Inv, EchoTypes, NEW c \in Client, DeviceWrite(c)
  PROVE  log' \in Seq(Piece) /\ (input[c] = "line" => LastLineIs(c)')
<1>1. log \in Seq(Piece) /\ partial \in Seq(Client) /\ Len(log) \in Nat
  BY DEF EchoTypes, Inv, TypeInv, TypeOK
<1>2. ASSUME NEW old \in Seq(Piece), NEW line \in Seq(Client), line # <<>>, Last(line) = c,
             log' = Append(old, line)
      PROVE  log' \in Seq(Piece) /\ LastLineIs(c)'
  <2>1. line \in Piece
    BY DEF Piece
  <2>2. /\ log' \in Seq(Piece) /\ Len(log') = Len(old) + 1 /\ log'[Len(old) + 1] = line
        /\ Len(old) \in Nat /\ DOMAIN log' = 1 .. Len(old) + 1
    BY <1>2, <2>1
  <2>3. ~IsTimestamp(line)
    BY <1>2, ClientAssumption DEF IsTimestamp, Last
  <2>4. LastLineIs(c)'
    <3> DEFINE i == Len(old) + 1
    <3>1. i \in DOMAIN log' /\ ~IsTimestamp(log'[i]) /\ Last(log'[i]) = c
      BY <1>2, <2>2, <2>3 DEF Last
    <3>2. \A j \in i + 1 .. Len(log') : IsTimestamp(log'[j])
      BY <2>2
    <3>. QED  BY <3>1, <3>2 DEF LastLineIs, IsTimestamp, OnlyTimestampsFrom
  <2>. QED  BY <2>2, <2>4
<1>3. CASE build = "file" /\ input[c] # "eof"
  <2>1. log' = Append(log, <<c>>)
    BY <1>3 DEF DeviceWrite
  <2>2. <<c>> \in Seq(Client) /\ <<c>> # <<>> /\ Last(<<c>>) = c
    BY DEF Last
  <2>. QED  BY <1>1, <1>2, <2>1, <2>2
<1>4. CASE build = "device" /\ input[c] = "line"
  <2>1. PICK old \in Seq(Piece) : log' = Append(old, Append(partial, c))
    <3>1. log' = Append(IF Len(log) = Capacity THEN Tail(log) ELSE log, Append(partial, c))
      BY <1>4 DEF DeviceWrite
    <3>2. Len(log) = Capacity => Tail(log) \in Seq(Piece)
      BY <1>1, CapacityAssumption
    <3>. QED  BY <1>1, <3>1, <3>2
  <2>2. /\ Append(partial, c) \in Seq(Client) /\ Append(partial, c) # <<>>
        /\ Last(Append(partial, c)) = c
    BY <1>1 DEF Last
  <2>. QED  BY <1>2, <2>1, <2>2
<1>5. CASE ~(build = "file" /\ input[c] # "eof") /\ ~(build = "device" /\ input[c] = "line")
  <2>1. UNCHANGED log
    BY <1>5 DEF DeviceWrite
  <2>2. input[c] # "line"
    BY <1>5, BuildAssumption DEF EchoTypes
  <2>. QED  BY <1>1, <2>1, <2>2
<1>. QED  BY <1>3, <1>4, <1>5

LEMMA EchoAppend == ASSUME Inv, EchoInv, NEW c \in Client, AppendAndClose(c) PROVE EchoInv'
<1>1. /\ UNCHANGED <<build, start, response, sent, input>> /\ tpc[c] = "append"
      /\ tpc'[c] = "fopen_r" /\ \A d \in Client : d # c => tpc'[d] = tpc[d]
  BY DEF AppendAndClose, Inv, TypeInv
<1>2. PICK failed \in BOOLEAN : /\ lost' = [lost EXCEPT ![c] = failed]
                                /\ IF failed THEN UNCHANGED devVars ELSE DeviceWrite(c)
  BY DEF AppendAndClose, append_to_file
<1>3. log' \in Seq(Piece) /\ (~failed /\ input[c] = "line" => LastLineIs(c)')
  BY <1>2, WriteEffect DEF EchoInv, EchoTypes
<1>4. lost' \in [Client -> BOOLEAN] /\ (lost'[c] <=> failed)
  BY <1>2 DEF EchoInv, EchoTypes
<1>5. EchoTypes'
  BY <1>1, <1>3, <1>4 DEF EchoInv, EchoTypes
<1>6. NotYet(c) /\ response[c] = <<>> /\ start[c] = 1 /\ ~sent[c]
  BY <1>1 DEF EchoInv, EchoOf, NotYet, Answered
<1>7. EchoOf(c)'
  BY <1>1, <1>3, <1>4, <1>6 DEF EchoOf, NotYet, OwnLine, Answer, Answered, Locked
<1>8. ASSUME NEW d \in Client, d # c PROVE EchoOf(d)'
  <2>1. tpc[d] \notin Locked
    BY <1>1, <1>8 DEF Inv, MutexInv, Locked
  <2>. QED  BY <1>1, <1>8, <2>1, EchoElsewhere DEF EchoInv
<1>. QED  BY <1>5, <1>7, <1>8 DEF EchoInv

LEMMA EchoTimerFclose == ASSUME Inv, EchoInv, NEW t \in Tick, TimerFclose(t) PROVE EchoInv'
<1>1. UNCHANGED <<build, tpc, input, start, response, sent, lost>>
  BY DEF TimerFclose
<1>2. CASE UNCHANGED log
  BY <1>1, <1>2, StillEcho
<1>3. CASE log' = Append(log, <<t>>)
  <2>1. EchoTypes'
    <3>1. <<t>> \in Piece
      BY DEF Piece
    <3>. QED  BY <1>1, <1>3, <3>1 DEF EchoInv, EchoTypes
  <2>2. \A c \in Client : EchoOf(c)'
    BY <1>1, <1>3, EchoTimestamp DEF EchoInv
  <2>. QED  BY <2>1, <2>2 DEF EchoInv
<1>. QED  BY <1>2, <1>3 DEF TimerFclose

\* Main removes the file when the threads have ended.
LEMMA EchoRemove == ASSUME Inv, EchoInv, RemoveFile PROVE EchoInv'
<1>1. /\ UNCHANGED <<build, tpc, input, start, response, sent, lost>> /\ mpc = "remove"
      /\ log' = <<>> \/ UNCHANGED log
  BY DEF RemoveFile
<1>2. \A c \in Client : tpc[c] \notin Locked
  BY <1>1 DEF Inv, PhaseInv, Over, Active, Locked
<1>3. EchoTypes'
  <2>1. log \in Seq(Piece) /\ <<>> \in Seq(Piece)
    BY DEF EchoInv, EchoTypes
  <2>2. log' \in Seq(Piece)
    BY <1>1, <2>1, Zenon
  <2>. QED  BY <1>1, <2>2 DEF EchoInv, EchoTypes
<1>4. \A c \in Client : EchoOf(c)'
  BY <1>1, <1>2, EchoElsewhere DEF EchoInv
<1>. QED  BY <1>3, <1>4 DEF EchoInv

LEMMA EchoInit == Init => EchoInv
BY NameAssumption DEF Init, EchoInv, EchoTypes, EchoOf, NotYet, OwnLine, Answer, Locked

LEMMA EchoKept == ASSUME Inv, EchoInv, [Next]_vars PROVE EchoInv'
<1>1. CASE UNCHANGED vars
  BY <1>1, StillEcho DEF vars
<1>2. CASE Next
  BY <1>2, StepKinds, EchoQuiet, EchoOutside, EchoLoop, EchoMoves, EchoFclose, EchoSeek, EchoNext, EchoEnd, EchoRest,
     EchoAppend, EchoTimerFclose, EchoRemove DEF EchoStep
<1>. QED  BY <1>1, <1>2

(***************************************************************************)
(* Every client receives one snapshot of the device or the file, with its  *)
(* own line as the last line when that was stored, and only timestamps may *)
(* come late, for any number of clients and expirations and whatever fails *)
(* (sock_thread.c:166-214).                                                *)
(***************************************************************************)
THEOREM EchoIsRight == Spec => []EchoIsSnapshot
<1>1. EchoInv => EchoIsSnapshot
  <2> SUFFICES ASSUME EchoInv, NEW c \in Client, tpc[c] = "unlock", sent[c]
               PROVE  /\ IsPrefix(response[c], SubSeq(log, start[c], Len(log)))
                      /\ OnlyTimestampsFrom(start[c] + Len(response[c]))
                      /\ input[c] = "line" /\ ~lost[c] => start[c] = 1 /\ LastLineIs(c)
    BY DEF EchoIsSnapshot
  <2>1. OwnLine(c) /\ AnswerSoFar(c) /\ OnlyTimestampsFrom(start[c] + Len(response[c]))
    BY DEF EchoInv, EchoOf, Answer
  <2>2. IsPrefix(response[c], SubSeq(log, start[c], Len(log)))
    <3> DEFINE r == response[c]
               s == start[c]
               rest == SubSeq(log, s, Len(log))
    <3>1. r \in Seq(Piece) /\ log \in Seq(Piece) /\ s \in Nat \ {0} /\ Len(r) \in Nat /\ Len(log) \in Nat
      BY DEF EchoInv, EchoTypes
    <3>2. s + Len(r) <= Len(log) + 1 /\ \A k \in 1 .. Len(r) : r[k] = log[s + k - 1]
      BY <2>1 DEF AnswerSoFar
    <3> HIDE DEF r, s
    <3>3. rest \in Seq(Piece) /\ Len(rest) = Len(log) - s + 1
      BY <3>1, <3>2
    <3>4. \A k \in 1 .. Len(r) : rest[k] = r[k]
      BY <3>1, <3>2, <3>3
    <3> HIDE DEF rest
    <3>5. Len(r) <= Len(rest)
      BY <3>1, <3>2, <3>3
    <3>6. SubSeq(r, 1, Len(r)) = SubSeq(rest, 1, Len(r))
      BY <3>1, <3>3, <3>4, <3>5
    <3>. QED  BY <3>5, <3>6 DEF IsPrefix, r, s, rest
  <2>. QED  BY <2>1, <2>2 DEF OwnLine
<1>2. Inv /\ EchoInv /\ [Next]_vars => EchoInv'
  BY EchoKept
<1>. QED  BY <1>1, <1>2, EchoInit, Invariance, PTL DEF Spec

=============================================================================
