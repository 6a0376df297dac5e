--------------------------- MODULE ThreadingProofs ---------------------------
(***************************************************************************)
(* TLAPS proofs about the threading example: for every number of threads   *)
(* and whatever fails, thread_data has one owner and success means that    *)
(* the mutex has been released.                                            *)
(***************************************************************************)
EXTENDS Threading, TLAPS

TypeInv ==
  /\ spc \in [Thread -> {"malloc", "create", "thread_id", "true", "false"}]
  /\ tpc \in [Thread -> {"none", "wait_to_obtain", "lock", "wait_to_release", "unlock", "returned"}]
  /\ args \in [Thread -> {"none", "live", "freed"}]
  /\ thread_complete_success \in [Thread -> BOOLEAN]
  /\ mutex \in Thread \cup {NULL}
  /\ failed \in SUBSET Thread

(***************************************************************************)
(* The thread exists once it has been created; until the struct has been   *)
(* freed by whoever joins the thread, it belongs to the call, the thread   *)
(* or the joiner.                                                          *)
(***************************************************************************)
OwnerInv ==
  \A t \in Thread :
    /\ tpc[t] = "none" <=> spc[t] \in {"malloc", "create", "false"}
    /\ spc[t] = "malloc" => args[t] = "none"
    /\ spc[t] \in {"create", "thread_id"} => args[t] = "live"
    /\ spc[t] = "true" /\ args[t] # "live" => tpc[t] = "returned"
    /\ spc[t] = "false" => args[t] # "live"

(***************************************************************************)
(* A thread that sleeps or is about to release has the mutex, so nobody    *)
(* else releases it; one that failed with the mutex has returned.          *)
(***************************************************************************)
HolderInv ==
  \A t \in Thread :
    /\ tpc[t] \in {"wait_to_release", "unlock"} => mutex = t
    /\ t \in failed => tpc[t] = "returned" /\ mutex = t
    /\ thread_complete_success[t] => tpc[t] = "returned" /\ mutex # t

Inv == TypeInv /\ OwnerInv /\ HolderInv

-----------------------------------------------------------------------------

LEMMA InitInv == Init => Inv
BY ThreadAssumption DEF Init, Inv, TypeInv, OwnerInv, HolderInv

LEMMA CallStep ==
  ASSUME Inv, NEW t \in Thread,
         AllocateArgs(t) \/ CreateThread(t) \/ StoreThreadId(t) \/ Join(t)
  PROVE  Inv'
<1>1. CASE AllocateArgs(t)
  BY <1>1 DEF AllocateArgs, Inv, TypeInv, OwnerInv, HolderInv
<1>2. CASE CreateThread(t)
  BY <1>2 DEF CreateThread, ArgsAfterFailedCreate, Inv, TypeInv, OwnerInv, HolderInv
<1>3. CASE StoreThreadId(t)
  BY <1>3 DEF StoreThreadId, Inv, TypeInv, OwnerInv, HolderInv
<1>4. CASE Join(t)
  BY <1>4 DEF Join, Inv, TypeInv, OwnerInv, HolderInv
<1>. QED  BY <1>1, <1>2, <1>3, <1>4

LEMMA ThreadStep ==
  ASSUME Inv, NEW t \in Thread, threadfunc(t) \/ ObtainFails(t)
  PROVE  Inv'
<1>1. CASE WaitToObtain(t)
  BY <1>1 DEF WaitToObtain, Goto, Inv, TypeInv, OwnerInv, HolderInv
<1>2. CASE Obtain(t)
  BY <1>2, ThreadAssumption DEF Obtain, Goto, Inv, TypeInv, OwnerInv, HolderInv
<1>3. CASE ObtainFails(t)
  BY <1>3 DEF ObtainFails, Goto, Inv, TypeInv, OwnerInv, HolderInv
<1>4. CASE WaitToRelease(t)
  BY <1>4 DEF WaitToRelease, Goto, Inv, TypeInv, OwnerInv, HolderInv
<1>5. CASE Release(t)
  <2>1. tpc' = [tpc EXCEPT ![t] = "returned"] /\ tpc[t] = "unlock" /\ mutex = t
    BY <1>5 DEF Release, Goto, Inv, HolderInv
  <2>2. CASE /\ mutex' = NULL
             /\ thread_complete_success' = [thread_complete_success EXCEPT ![t] = TRUE]
             /\ UNCHANGED <<failed, spc, args>>
    <3>1. TypeInv' /\ OwnerInv'
      BY <2>1, <2>2 DEF Inv, TypeInv, OwnerInv
    <3>2. \A u \in Thread : u # t => u \notin failed /\ tpc[u] \notin {"wait_to_release", "unlock"}
      BY <2>1 DEF Inv, HolderInv
    <3>3. HolderInv'
      BY <2>1, <2>2, <3>2, ThreadAssumption DEF Inv, TypeInv, HolderInv
    <3>. QED  BY <3>1, <3>3 DEF Inv
  <2>3. CASE failed' = failed \cup {t} /\ UNCHANGED <<mutex, thread_complete_success, spc, args>>
    BY <2>1, <2>3 DEF Inv, TypeInv, OwnerInv, HolderInv
  <2>. QED  BY <1>5, <2>2, <2>3 DEF Release
<1>. QED  BY <1>1, <1>2, <1>3, <1>4, <1>5 DEF threadfunc

LEMMA InvHolds == Spec => []Inv
<1>1. Inv /\ [Next]_vars => Inv'
  <2> SUFFICES ASSUME Inv, [Next]_vars PROVE Inv'
    OBVIOUS
  <2>1. CASE UNCHANGED vars
    BY <2>1 DEF vars, Inv, TypeInv, OwnerInv, HolderInv
  <2>2. CASE Next
    BY <2>2, CallStep, ThreadStep DEF Next
  <2>. QED  BY <2>1, <2>2
<1>. QED  BY InitInv, <1>1, PTL DEF Spec

(***************************************************************************)
(* thread_data outlives everyone who uses it, for every number of threads  *)
(* (threading.c:58-78).                                                    *)
(***************************************************************************)
THEOREM OneOwner == Spec => []ArgsHaveOneOwner
<1>1. Inv => ArgsHaveOneOwner
  BY DEF Inv, TypeInv, OwnerInv, ArgsHaveOneOwner
<1>. QED  BY InvHolds, <1>1, PTL

(***************************************************************************)
(* A thread that reports success has released the mutex, whatever failed   *)
(* for the others (threading.c:32-44).                                     *)
(***************************************************************************)
THEOREM SuccessReleases == Spec => []SuccessMeansReleased
<1>1. Inv => SuccessMeansReleased
  BY DEF Inv, TypeInv, HolderInv, SuccessMeansReleased
<1>. QED  BY InvHolds, <1>1, PTL

=============================================================================
