----------------------------- MODULE MCAesdSocket -----------------------------
(***************************************************************************)
(* Small instances of the socket server for TLC.                           *)
(***************************************************************************)
EXTENDS AesdSocket

\* The clients are interchangeable.
Symmetric == Permutations(Client)

\* Both configurations: every failure in the one that is committed, those of
\* the timer in the other.
MCFaults ==
  [device |-> {"bind", "listen", "sigaction", "fork", "mutex_init", "accept", "malloc",
               "pthread_create", "recv", "fopen_a", "mutex_lock", "fwrite", "fclose",
               "fopen_r", "getline", "send"},
   file   |-> {"timer_create", "timer_fopen", "timer_fwrite", "remove"}]

MCInputs == [device |-> {"line", "ctrl", "partial"}, file |-> {"line"}]

\* The committed configuration alone, without failures.
MCNoFaults == [device |-> {}]

MCLines == [device |-> {"line"}]

\* Started as a daemon.
MCDaemon == {<<"-d">>}

\* And command lines with which it ends at once.
MCArgvs == {<<"-d">>, <<"-h">>, <<"-d", "-h">>}

=============================================================================
