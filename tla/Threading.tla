------------------------------ MODULE Threading ------------------------------
(***************************************************************************)
(* examples/threading/threading.c: start_thread_obtaining_mutex starts a   *)
(* thread that sleeps, takes the caller's mutex, sleeps and releases it;   *)
(* whoever joins the thread frees the struct thread_data it returns.  The  *)
(* struct is named after its thread.                                       *)
(***************************************************************************)
EXTENDS Integers, FiniteSets

CONSTANTS
  Thread,    \* the threads
  NULL,      \* nobody
  Faults     \* which calls may fail

ASSUME ThreadAssumption == NULL \notin Thread

VARIABLES
  spc,       \* where each call of start_thread_obtaining_mutex is, or its result
  tpc,       \* where each thread is
  args,      \* whether each struct thread_data is allocated
  thread_complete_success,
  mutex,     \* its holder
  failed     \* threads for which a call has failed while they had the mutex

vars == <<spc, tpc, args, thread_complete_success, mutex, failed>>

Init ==
  /\ spc = [t \in Thread |-> "malloc"]
  /\ tpc = [t \in Thread |-> "none"]
  /\ args = [t \in Thread |-> "none"]
  /\ thread_complete_success = [t \in Thread |-> FALSE]
  /\ mutex = NULL
  /\ failed = {}

-----------------------------------------------------------------------------
(***************************************************************************)
(* start_thread_obtaining_mutex                                            *)
(***************************************************************************)

AllocateArgs(t) ==
  /\ spc[t] = "malloc"
  /\ \/ args' = [args EXCEPT ![t] = "live"] /\ spc' = [spc EXCEPT ![t] = "create"]
     \/ "malloc" \in Faults /\ UNCHANGED args /\ spc' = [spc EXCEPT ![t] = "false"]
  /\ UNCHANGED <<tpc, thread_complete_success, mutex, failed>>

\* Faulty error path: the struct is not freed.
ArgsAfterFailedCreateKept(t) == args

ArgsAfterFailedCreate(t) == [args EXCEPT ![t] = "freed"]

CreateThread(t) ==
  /\ spc[t] = "create"
  /\ \/ /\ tpc' = [tpc EXCEPT ![t] = "wait_to_obtain"]
        /\ spc' = [spc EXCEPT ![t] = "thread_id"]
        /\ UNCHANGED args
     \/ /\ "pthread_create" \in Faults
        /\ args' = ArgsAfterFailedCreate(t)
        /\ spc' = [spc EXCEPT ![t] = "false"]
        /\ UNCHANGED tpc
  /\ UNCHANGED <<thread_complete_success, mutex, failed>>

\* It reads thread_id from the struct that the thread has already.
StoreThreadId(t) ==
  /\ spc[t] = "thread_id"
  /\ spc' = [spc EXCEPT ![t] = "true"]
  /\ UNCHANGED <<tpc, args, thread_complete_success, mutex, failed>>

\* The caller joins the thread and frees what it returned.
Join(t) ==
  /\ spc[t] = "true" /\ tpc[t] = "returned" /\ args[t] = "live"
  /\ args' = [args EXCEPT ![t] = "freed"]
  /\ UNCHANGED <<spc, tpc, thread_complete_success, mutex, failed>>

-----------------------------------------------------------------------------
(***************************************************************************)
(* threadfunc                                                              *)
(***************************************************************************)

Goto(t, label) == tpc' = [tpc EXCEPT ![t] = label]

WaitToObtain(t) ==
  /\ tpc[t] = "wait_to_obtain"
  /\ Goto(t, "lock") \/ ("usleep" \in Faults /\ Goto(t, "returned"))
  /\ UNCHANGED <<spc, args, thread_complete_success, mutex, failed>>

Obtain(t) ==
  /\ tpc[t] = "lock" /\ mutex = NULL
  /\ mutex' = t
  /\ Goto(t, "wait_to_release")
  /\ UNCHANGED <<spc, args, thread_complete_success, failed>>

ObtainFails(t) ==
  /\ tpc[t] = "lock" /\ "lock" \in Faults
  /\ Goto(t, "returned")
  /\ UNCHANGED <<spc, args, thread_complete_success, mutex, failed>>

\* A thread whose sleep fails returns with the mutex.
WaitToRelease(t) ==
  /\ tpc[t] = "wait_to_release"
  /\ \/ Goto(t, "unlock") /\ UNCHANGED failed
     \/ "usleep" \in Faults /\ Goto(t, "returned") /\ failed' = failed \cup {t}
  /\ UNCHANGED <<spc, args, thread_complete_success, mutex>>

\* Faulty order: success is noted before the mutex is released.
ReleaseAfterSuccess(t) ==
  /\ tpc[t] = "unlock"
  /\ thread_complete_success' = [thread_complete_success EXCEPT ![t] = TRUE]
  /\ \/ mutex' = NULL /\ UNCHANGED failed
     \/ "unlock" \in Faults /\ failed' = failed \cup {t} /\ UNCHANGED mutex
  /\ Goto(t, "returned")
  /\ UNCHANGED <<spc, args>>

\* Faulty thread: it keeps the mutex.
ReleaseForgotten(t) ==
  /\ tpc[t] = "unlock"
  /\ thread_complete_success' = [thread_complete_success EXCEPT ![t] = TRUE]
  /\ Goto(t, "returned")
  /\ UNCHANGED <<spc, args, mutex, failed>>

Release(t) ==
  /\ tpc[t] = "unlock"
  /\ \/ /\ mutex' = NULL
        /\ thread_complete_success' = [thread_complete_success EXCEPT ![t] = TRUE]
        /\ UNCHANGED failed
     \/ /\ "unlock" \in Faults
        /\ failed' = failed \cup {t}
        /\ UNCHANGED <<mutex, thread_complete_success>>
  /\ Goto(t, "returned")
  /\ UNCHANGED <<spc, args>>

threadfunc(t) == WaitToObtain(t) \/ Obtain(t) \/ WaitToRelease(t) \/ Release(t)

Next ==
  \E t \in Thread :
    \/ AllocateArgs(t) \/ CreateThread(t) \/ StoreThreadId(t) \/ Join(t)
    \/ threadfunc(t) \/ ObtainFails(t)

Spec == Init /\ [][Next]_vars

(***************************************************************************)
(* The threads are scheduled.  Each takes the mutex once, so nobody is     *)
(* overtaken for ever.  A lock does not have to fail.                      *)
(***************************************************************************)
FairSpec == Spec /\ \A t \in Thread : WF_vars(threadfunc(t))

-----------------------------------------------------------------------------
(***************************************************************************)
(* Properties                                                              *)
(***************************************************************************)

(***************************************************************************)
(* The struct outlives everyone who uses it: the thread, and the caller,   *)
(* who reads thread_id from it after the thread has started and possibly   *)
(* ended; and a call that returns false leaves none behind                 *)
(* (threading.c:58-78).                                                    *)
(***************************************************************************)
ArgsHaveOneOwner ==
  \A t \in Thread :
    /\ tpc[t] \notin {"none", "returned"} \/ spc[t] = "thread_id" => args[t] = "live"
    /\ spc[t] = "false" => args[t] # "live" /\ tpc[t] = "none"

(***************************************************************************)
(* thread_complete_success is "true if the thread completed with success,  *)
(* false if an error occurred" (threading.h:23-26): a thread that has it   *)
(* has released the mutex.                                                 *)
(***************************************************************************)
SuccessMeansReleased ==
  \A t \in Thread : thread_complete_success[t] => tpc[t] = "returned" /\ mutex # t /\ t \notin failed

(***************************************************************************)
(* Every thread returns, although all wait for one mutex, unless a call    *)
(* fails for a thread that has it: that thread returns without a release   *)
(* (threading.c:33-36) and the others wait for ever.                       *)
(***************************************************************************)
ThreadsReturn ==
  \A t \in Thread : tpc[t] = "wait_to_obtain" ~> tpc[t] = "returned" \/ failed # {}

=============================================================================
