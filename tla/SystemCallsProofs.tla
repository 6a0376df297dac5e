-------------------------- MODULE SystemCallsProofs --------------------------
(***************************************************************************)
(* TLAPS proofs about the systemcalls example, for every set of paths and  *)
(* whatever fails.                                                         *)
(***************************************************************************)
EXTENDS SystemCalls, InductionProofs

TypeInv ==
  /\ fn \in {"do_system", "do_exec", "do_exec_redirect"} /\ path \in Paths
  /\ ppc \in {"system", "open", "fork", "waitpid", "cleanup", "returned"}
  /\ cpc \in {"none", "dup2", "execv", "command", "returned", "zombie", "reaped"}
  /\ pfd \in {"none", "open", "closed"} /\ cfd \in {"none", "open", "closed"}
  /\ status \in Ends \cup {Running, Exited(255)}
  /\ is_success \in BOOLEAN
  /\ result \in {"none", "true", "false"}

\* Where the parent is tells which function it is in and where its child can be.
ParentInv ==
  /\ fn = "do_system" => ppc \in {"system", "returned"}
  /\ ppc = "system" => fn = "do_system"
  /\ ppc = "open" => fn = "do_exec_redirect"
  /\ ppc \in {"system", "open", "fork"} => cpc = "none"
  /\ ppc = "waitpid" => cpc \notin {"none", "reaped"}
  /\ ppc \in {"cleanup", "returned"} => cpc \in {"none", "reaped"} \/ "waitpid" \in failed

\* Only do_exec_redirect opens the file; the child has it until after dup2.
FileInv ==
  /\ fn # "do_exec_redirect" => pfd = "none" /\ cfd = "none" /\ cpc # "dup2"
  /\ ppc = "returned" => pfd # "open"
  /\ cpc \in {"execv", "command", "returned"} => cfd # "open"

\* How the child ended, and under which name the command ran.
ChildInv ==
  /\ cpc = "returned" => "dup2" \in failed
  /\ cpc \notin {"zombie", "reaped"} => status = Running
  /\ cpc \in {"none", "dup2", "execv", "returned"} => argv0 = NotRun
  /\ cpc = "command" => argv0 # NotRun
  /\ cpc \in {"zombie", "reaped"} /\ fn # "do_system" =>
       status # Running /\ (argv0 # NotRun \/ status = Exited(255) \/ "dup2" \in failed)
  /\ fn # "do_system" => argv0 \in {NotRun, get_file_name(path)}

\* What the parent has made of the child's status.
OutcomeInv ==
  /\ ppc \notin {"cleanup", "returned"} => is_success = FALSE
  /\ is_success = TRUE => cpc = "reaped" /\ IsSuccess(status)
  /\ ppc \in {"cleanup", "returned"} /\ fn # "do_system" /\ cpc = "reaped" =>
       (is_success = TRUE <=> IsSuccess(status))
  /\ ppc = "returned" /\ fn # "do_system" => (result = "true" <=> is_success = TRUE)

Inv == TypeInv /\ ParentInv /\ FileInv /\ ChildInv /\ OutcomeInv

-----------------------------------------------------------------------------
(***************************************************************************)
(* The name of the command                                                 *)
(***************************************************************************)

LEMMA FileName ==
  ASSUME NEW p \in Paths
  PROVE  /\ get_file_name(p) # NotRun
         /\ (\E i \in 2 .. Len(p) : p[i] = "/") =>
              \E n \in 2 .. Len(p) :
                /\ p[n] = "/" /\ get_file_name(p) = SubSeq(p, n + 1, Len(p))
                /\ \A i \in DOMAIN get_file_name(p) : get_file_name(p)[i] # "/"
<1> DEFINE slashes == {i \in 2 .. Len(p) : p[i] = "/"}
<1>1. p \in Seq(STRING) /\ Len(p) \in Nat \ {0} /\ p[Len(p)] # "/"
  BY PathAssumption
<1>2. CASE slashes = {}
  BY <1>1, <1>2 DEF get_file_name, NotRun
<1>3. CASE slashes # {}
  <2> DEFINE n == Max(slashes)
  <2>1. n \in slashes /\ \A i \in slashes : i <= n
    <3>1. slashes \in SUBSET Nat /\ \A i \in slashes : i <= Len(p)
      BY <1>1
    <3>. QED  BY <1>1, <1>3, <3>1, MaxExists
  <2> HIDE DEF n
  <2>2. get_file_name(p) = SubSeq(p, n + 1, Len(p))
    BY <1>3 DEF get_file_name, n
  <2>3. n \in 2 .. Len(p) /\ p[n] = "/" /\ n # Len(p)
    BY <2>1, <1>1
  <2>4. Len(SubSeq(p, n + 1, Len(p))) = Len(p) - n
    BY <1>1, <2>3
  <2>5. \A i \in 1 .. Len(p) - n : SubSeq(p, n + 1, Len(p))[i] = p[n + i] /\ p[n + i] # "/"
    BY <1>1, <2>1, <2>3
  <2>6. DOMAIN SubSeq(p, n + 1, Len(p)) = 1 .. Len(p) - n
    BY <1>1, <2>3
  <2>7. get_file_name(p) # NotRun
    <3>1. Len(get_file_name(p)) # 0
      BY <1>1, <2>2, <2>3, <2>4
    <3>. QED  BY <3>1 DEF NotRun
  <2>8. \A i \in DOMAIN get_file_name(p) : get_file_name(p)[i] # "/"
    BY <2>2, <2>5, <2>6
  <2>9. \E m \in 2 .. Len(p) :
          /\ p[m] = "/" /\ get_file_name(p) = SubSeq(p, m + 1, Len(p))
          /\ \A i \in DOMAIN get_file_name(p) : get_file_name(p)[i] # "/"
    BY <2>2, <2>3, <2>8, Zenon
  <2>. QED  BY <2>7, <2>9
<1>. QED  BY <1>2, <1>3

-----------------------------------------------------------------------------
(***************************************************************************)
(* The steps                                                               *)
(***************************************************************************)

LEMMA Statuses ==
  /\ \A m, n \in Nat : Exited(m) = Exited(n) => m = n
  /\ \A n \in Nat : Exited(n) # Running /\ Exited(n) # Killed
  /\ Running # Killed
  /\ \A n \in Nat : IsSuccess(Exited(n)) <=> n = 0
BY DEF Exited, Running, Killed, IsSuccess

LEMMA InitInv == Init => Inv
BY DEF Init, Inv, TypeInv, ParentInv, FileInv, ChildInv, OutcomeInv

LEMMA SystemInv == Inv /\ do_system => Inv'
<1> SUFFICES ASSUME Inv, do_system PROVE Inv'
  OBVIOUS
<1>. USE DEF Inv, TypeInv, ParentInv, FileInv, ChildInv, OutcomeInv
<1>1. CASE Fails("system") /\ Returns(FALSE) /\ UNCHANGED <<cpc, argv0, status>>
  BY <1>1 DEF do_system, call, Fails, Returns
<1>2. CASE \E s \in Ends : /\ Succeeds /\ status' = s /\ cpc' = "reaped"
                           /\ argv0' = (IF s = Exited(127) THEN NotRun ELSE path)
                           /\ Returns(WaitStatus(s) # 127)
  <2>1. PICK s \in Ends : /\ Succeeds /\ status' = s /\ cpc' = "reaped"
                          /\ Returns(WaitStatus(s) # 127)
    BY <1>2
  <2>. QED  BY <2>1 DEF do_system, call, Succeeds, Returns
<1>. QED  BY <1>1, <1>2 DEF do_system

LEMMA ParentStepInv == Inv /\ (Open \/ Fork \/ Waitpid \/ Cleanup) => Inv'
<1> SUFFICES ASSUME Inv, Open \/ Fork \/ Waitpid \/ Cleanup PROVE Inv'
  OBVIOUS
<1>. USE DEF Inv, TypeInv, ParentInv, FileInv, ChildInv, OutcomeInv, Fails, Succeeds, call, child
<1>1. CASE Open
  BY <1>1 DEF Open
<1>2. CASE Fork
  BY <1>2 DEF Fork
<1>3. CASE Waitpid
  <2>1. IsSuccess(status) \in BOOLEAN
    BY DEF IsSuccess
  <2>2. CASE cpc = "zombie" /\ Succeeds /\ is_success' = IsSuccess(status) /\ cpc' = "reaped"
    <3>1. /\ ppc = "waitpid" /\ ppc' = "cleanup" /\ cpc = "zombie" /\ cpc' = "reaped"
          /\ UNCHANGED <<fn, path, pfd, result, cfd, argv0, status, failed>>
      BY <1>3, <2>2 DEF Waitpid
    <3>2. TypeInv' /\ ParentInv' /\ FileInv' /\ ChildInv'
      BY <2>1, <2>2, <3>1
    <3>3. OutcomeInv'
      BY <2>1, <2>2, <3>1 DEF IsSuccess
    <3>. QED  BY <3>2, <3>3
  <2>3. CASE Fails("waitpid") /\ UNCHANGED <<is_success, cpc>>
    BY <1>3, <2>3 DEF Waitpid
  <2>. QED  BY <1>3, <2>2, <2>3 DEF Waitpid
<1>4. CASE Cleanup
  BY <1>4 DEF Cleanup, Returns, Closed
<1>. QED  BY <1>1, <1>2, <1>3, <1>4

LEMMA ChildStepInv == Inv /\ (ChildDup2 \/ Execv \/ ChildEnds) => Inv'
<1> SUFFICES ASSUME Inv, ChildDup2 \/ Execv \/ ChildEnds PROVE Inv'
  OBVIOUS
<1>. USE DEF Inv, TypeInv, ParentInv, FileInv, ChildInv, OutcomeInv, Fails, Succeeds, call, parent
<1>1. CASE ChildDup2
  BY <1>1 DEF ChildDup2, CfdAfterDup2, Closed
<1>2. CASE Execv
  BY <1>2, FileName, Statuses DEF Execv
<1>3. CASE ChildEnds
  BY <1>3, Statuses DEF ChildEnds, Ends
<1>. QED  BY <1>1, <1>2, <1>3

LEMMA InvHolds == Spec => []Inv
<1>1. Inv /\ UNCHANGED vars => Inv'
  BY DEF vars, call, parent, child, Inv, TypeInv, ParentInv, FileInv, ChildInv, OutcomeInv
<1>2. Inv /\ [Next]_vars => Inv'
  BY <1>1, SystemInv, ParentStepInv, ChildStepInv DEF Next
<1>. QED  BY InitInv, <1>2, PTL DEF Spec

-----------------------------------------------------------------------------

(***************************************************************************)
(* do_exec and do_exec_redirect say whether the command ran and exited     *)
(* with 0, apart from the exceptions the property names                    *)
(* (systemcalls.c:76-93, 153-176).                                         *)
(***************************************************************************)
THEOREM ResultIsOutcome == Spec => []ResultTellsOutcome
<1>1. Inv => ResultTellsOutcome
  <2> SUFFICES ASSUME Inv, ppc = "returned", fn # "do_system", status # Killed,
                      failed \cap {"waitpid", "dup2"} = {}
               PROVE  result = "true" <=> argv0 # NotRun /\ status = Exited(0)
    BY DEF ResultTellsOutcome
  <2>1. cpc \in {"none", "reaped"} /\ "dup2" \notin failed
    BY DEF Inv, ParentInv
  <2>2. result = "true" <=> is_success = TRUE
    BY DEF Inv, OutcomeInv
  <2>3. CASE cpc = "none"
    BY <2>2, <2>3, Statuses DEF Inv, ChildInv, OutcomeInv
  <2>4. CASE cpc = "reaped"
    BY <2>1, <2>2, <2>4, Statuses DEF Inv, TypeInv, ChildInv, OutcomeInv, Ends
  <2>. QED  BY <2>1, <2>3, <2>4
<1>. QED  BY InvHolds, <1>1, PTL

(***************************************************************************)
(* After the fork only the parent returns to the caller, unless dup2 fails *)
(* (systemcalls.c:67-79, 139-157).                                         *)
(***************************************************************************)
THEOREM ParentGoesOnAlone == Spec => []OnlyParentGoesOn
<1>1. Inv => OnlyParentGoesOn
  BY DEF Inv, ParentInv, ChildInv, OnlyParentGoesOn
<1>. QED  BY InvHolds, <1>1, PTL

(***************************************************************************)
(* The output file is closed wherever the function has returned and in the *)
(* command (systemcalls.c:145, 171-173).                                   *)
(***************************************************************************)
THEOREM FileIsClosed == Spec => []OutputFileClosed
<1>1. Inv => OutputFileClosed
  BY DEF Inv, FileInv, OutputFileClosed
<1>. QED  BY InvHolds, <1>1, PTL

(***************************************************************************)
(* argv[0] is the last component of the path, however long it is and       *)
(* however many slashes it has (systemcalls.c:96-107).                     *)
(***************************************************************************)
THEOREM NameIsLast == Spec => []NameIsLastComponent
<1>1. Inv => NameIsLastComponent
  <2> SUFFICES ASSUME Inv, fn # "do_system", argv0 # NotRun, \E i \in 2 .. Len(path) : path[i] = "/"
               PROVE  \E n \in 2 .. Len(path) :
                        path[n] = "/" /\ argv0 = SubSeq(path, n + 1, Len(path)) /\ ~Contains(argv0, "/")
    BY DEF NameIsLastComponent
  <2>1. argv0 = get_file_name(path) /\ path \in Paths
    BY DEF Inv, TypeInv, ChildInv
  <2>. QED  BY <2>1, FileName DEF Contains
<1>. QED  BY InvHolds, <1>1, PTL

=============================================================================
