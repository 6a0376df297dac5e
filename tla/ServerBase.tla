----------------------------- MODULE ServerBase -----------------------------
(***************************************************************************)
(* The state of the socket server (server/main.c, server/sock_thread.c) as *)
(* it is built, with USE_AESD_CHAR_DEVICE for /dev/aesdchar or without for *)
(* a file and the timer that writes timestamps into it, and what the       *)
(* kernel and the clients do.  ServerMain has the steps of the main thread *)
(* and of the signal handler, SockThread those of the client threads,      *)
(* TimerThread those of the timer, and AesdSocket composes them.           *)
(*                                                                         *)
(* A line is abstracted to the client that sent it, the device to the log  *)
(* of commands that CommandDevice promises, the file to the pieces written *)
(* to it.  A thread is named after its client, and so is its struct        *)
(* aesd_thread_args.                                                       *)
(***************************************************************************)
EXTENDS Integers, Sequences, FiniteSets, SequencesExt, FiniteSetsExt

CONSTANTS
  Client,     \* the clients; each connects at most once
  Tick,       \* the expirations of the timer
  NULL,       \* the null pointer, no client
  Builds,     \* the configurations: "device" (as committed) and "file"
  Inputs,     \* what clients send in each: "line", "ctrl", "partial" or "eof"
  Capacity,   \* how many commands the device keeps
  MaxFd,      \* file descriptors are 1 .. MaxFd
  Argvs,      \* the command lines it may be started with, without its name
  Faults      \* which system and library calls may fail in each

ASSUME ClientAssumption ==
  IsFiniteSet(Client) /\ IsFiniteSet(Tick) /\ Client \cap Tick = {} /\ NULL \notin Client \cup Tick
\* The names of the threads, and NULL, are no states of the mutex and no lines.
ASSUME NameAssumption ==
  {"none", "destroyed", "line", "ctrl", "partial", "eof"} \cap (Client \cup Tick \cup {NULL}) = {}
ASSUME BuildAssumption == Builds \subseteq {"device", "file"} /\ DOMAIN Faults = Builds
ASSUME InputAssumption == Inputs \in [Builds -> SUBSET {"line", "ctrl", "partial", "eof"}]
ASSUME CapacityAssumption == Capacity \in Nat \ {0}
ASSUME FdAssumption == MaxFd \in Nat /\ MaxFd >= 2 * Cardinality(Client) + Cardinality(Tick) + 2

Fd == 1 .. MaxFd

VARIABLES
  build, argv,    \* the configuration and the command line
  \* the main thread
  mpc,            \* where it is
  is_running, server_sock_fd, client_sock_fd, exit_code,
  new,            \* thread_args of the connection being set up
  head, link,     \* the SLIST of thread args: slh_first and the sle_next fields
  cur,            \* remove_joinable_threads: next
  cleaning,       \* it was called by remove_all_remaining_threads
  \* the signal handler
  sigpc,
  sighost,        \* the thread it interrupts: "main", a client's, a timer's, or NULL
  \* shared by the threads
  args,           \* whether each struct aesd_thread_args is allocated
  finished,       \* its member finished
  sock_fd,        \* its member sock_fd
  mutex,          \* its holder, or NULL, or that it does not exist
  \* the client threads
  tpc, file, lost, start, response, sent,
  \* the kernel and the clients
  fds,            \* what each descriptor refers to
  listening,      \* whether the server socket listens and is not shut down
  conn,           \* the state of each connection
  input,          \* what each client has sent
  log, partial,   \* the device, or the file
  exists,         \* whether OUTPUT_FILE is there
  \* the timer
  timer,          \* whether it is armed
  kpc, kfile, stamp   \* its threads: where they are, their file, what is in its buffer

connVars   == <<server_sock_fd, client_sock_fd, exit_code, new>>
listVars   == <<head, link, cur, cleaning>>
mainVars   == <<mpc, is_running, connVars, listVars>>
argVars    == <<args, finished, sock_fd>>
sharedVars == <<argVars, mutex>>
localVars  == <<file, lost, start, response, sent>>
threadVars == <<tpc, localVars>>
netVars    == <<fds, listening, conn, input>>
devVars    == <<log, partial>>
tickVars   == <<kpc, kfile, stamp>>
config     == <<build, argv>>
timerVars  == <<config, exists, timer, tickVars>>
sigVars    == <<sigpc, sighost>>
vars       == <<mainVars, sigVars, sharedVars, threadVars, netVars, devVars, timerVars>>

Free == [use |-> "free", by |-> NULL]
NoFile == 0

Init ==
  /\ mpc = "parse_args" /\ is_running = FALSE /\ server_sock_fd = 0
  /\ client_sock_fd \in Fd \cup {-1}      \* not initialised: whatever the stack holds
  /\ exit_code = "EXIT_FAILURE"
  /\ new = NULL /\ head = NULL /\ link = [c \in Client |-> NULL] /\ cur = NULL
  /\ cleaning = FALSE
  /\ sigpc = "default" /\ sighost = NULL
  /\ args = [c \in Client |-> "none"]
  /\ finished = [c \in Client |-> FALSE]
  /\ sock_fd = [c \in Client |-> -1]
  /\ mutex = "none"
  /\ tpc = [c \in Client |-> "none"]
  /\ file = [c \in Client |-> NoFile]
  /\ lost = [c \in Client |-> FALSE]
  /\ start = [c \in Client |-> 1]
  /\ response = [c \in Client |-> <<>>]
  /\ sent = [c \in Client |-> FALSE]
  /\ fds = [f \in Fd |-> Free]
  /\ listening = FALSE
  /\ conn = [c \in Client |-> "none"]
  /\ input = [c \in Client |-> "none"]
  /\ log = <<>> /\ partial = <<>>
  /\ build \in Builds /\ argv \in Argvs
  /\ exists = (build = "device")
  /\ timer = "none"
  /\ kpc = [t \in Tick |-> "none"]
  /\ kfile = [t \in Tick |-> NoFile]
  /\ stamp = [t \in Tick |-> FALSE]

-----------------------------------------------------------------------------
(***************************************************************************)
(* The kernel, as the server uses it.                                      *)
(***************************************************************************)

\* The process is there: it has neither exited nor been killed.
Alive == mpc \notin {"exited", "killed"}

\* The call may fail in this configuration.
MayFail(call) == call \in Faults[build]

\* A new descriptor is the lowest free one.
LowestFd == Min({f \in Fd : fds[f] = Free})

OpenFd(use, c) == fds' = [fds EXCEPT ![LowestFd] = [use |-> use, by |-> c]]

\* close of a descriptor that is not open fails and changes nothing.
CloseFd(f) == fds' = [fds EXCEPT ![f] = Free]

\* Closing a connection's descriptor ends the connection.
CloseSocket(f) ==
  /\ CloseFd(f)
  /\ conn' = [c \in Client |-> IF fds[f] = [use |-> "socket", by |-> c] THEN "closed" ELSE conn[c]]

\* Connections nobody has accepted are reset with the listening socket.
StopListening ==
  /\ listening' = FALSE
  /\ conn' = [c \in Client |-> IF conn[c] = "queued" THEN "reset" ELSE conn[c]]

\* A client connects; one that has been accepted sends something or hangs up.
Connect(c) ==
  /\ Alive /\ listening /\ conn[c] = "none"
  /\ conn' = [conn EXCEPT ![c] = "queued"]
  /\ UNCHANGED <<fds, listening, input, mainVars, sigVars, timerVars, sharedVars, threadVars, devVars>>

Send(c) ==
  /\ conn[c] = "accepted" /\ input[c] = "none"
  /\ \E i \in Inputs[build] : input' = [input EXCEPT ![c] = i]
  /\ UNCHANGED <<fds, listening, conn, mainVars, sigVars, timerVars, sharedVars, threadVars, devVars>>

=============================================================================
