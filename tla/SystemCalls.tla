----------------------------- MODULE SystemCalls -----------------------------
(***************************************************************************)
(* examples/systemcalls/systemcalls.c: one call of do_system, do_exec or   *)
(* do_exec_redirect, in the calling process and in the child it forks.     *)
(* The command ends with a status or is killed, and every system call may  *)
(* fail.  A path is a sequence of characters.                              *)
(***************************************************************************)
EXTENDS Integers, Sequences, SequencesExt, FiniteSetsExt

CONSTANTS
  Paths,     \* the absolute or relative paths of commands
  Faults     \* which system calls may fail

\* A path ends with the name of the command: what ends with a slash is no command.
ASSUME PathAssumption == \A p \in Paths : p \in Seq(STRING) /\ p # <<>> /\ p[Len(p)] # "/"

VARIABLES
  fn, path,         \* the function that is called, and the command
  ppc, cpc,         \* where the parent and the child are
  pfd, cfd,         \* fd in each of them: "none", "open" or "closed"
  argv0,            \* the name under which the command runs, once it does
  status,           \* how the child ended
  is_success,
  result,           \* what the function has returned in the parent
  failed            \* the system calls that have failed

parent == <<ppc, pfd, is_success, result>>
child  == <<cpc, cfd, argv0, status>>
call   == <<fn, path>>
vars   == <<call, parent, child, failed>>

NotRun  == <<>>
Running == [how |-> "running", code |-> 0]
Exited(code) == [how |-> "exited", code |-> code]
Killed  == [how |-> "killed", code |-> 9]

Init ==
  /\ fn \in {"do_system", "do_exec", "do_exec_redirect"} /\ path \in Paths
  /\ ppc = CASE fn = "do_system" -> "system" [] fn = "do_exec" -> "fork" [] OTHER -> "open"
  /\ cpc = "none"
  /\ pfd = "none" /\ cfd = "none"
  /\ argv0 = NotRun
  /\ status = Running
  /\ is_success = FALSE /\ result = "none"
  /\ failed = {}

\* A system call succeeds with one outcome or fails with another.
Fails(name) == name \in Faults /\ failed' = failed \cup {name}
Succeeds == UNCHANGED failed

Returns(success) == result' = (IF success THEN "true" ELSE "false") /\ ppc' = "returned"

-----------------------------------------------------------------------------
\* The status of a process as system() and waitpid() encode it.
WaitStatus(s) == IF s.how = "exited" THEN 256 * s.code ELSE s.code

\* What the command, or the shell that does not find it, may end with.
Ends == {Exited(0), Exited(1), Exited(127), Killed}

\* The raw status is compared with 127, which is the status of no command.
do_system ==
  /\ ppc = "system"
  /\ \/ /\ Fails("system")
        /\ Returns(FALSE)
        /\ UNCHANGED <<cpc, argv0, status>>
     \/ \E s \in Ends :
          /\ Succeeds
          /\ status' = s /\ cpc' = "reaped"
          /\ argv0' = IF s = Exited(127) THEN NotRun ELSE path
          /\ Returns(WaitStatus(s) # 127)
  /\ UNCHANGED <<call, pfd, is_success, cfd>>

-----------------------------------------------------------------------------
(***************************************************************************)
(* do_exec and do_exec_redirect: the parent                                *)
(***************************************************************************)

Open ==
  /\ ppc = "open"
  /\ \/ Succeeds /\ pfd' = "open" /\ ppc' = "fork"
     \/ Fails("open") /\ ppc' = "cleanup" /\ UNCHANGED pfd
  /\ UNCHANGED <<call, is_success, result, child>>

\* The child gets a copy of the descriptor.
Fork ==
  /\ ppc = "fork"
  /\ \/ /\ Succeeds
        /\ ppc' = "waitpid"
        /\ cpc' = IF fn = "do_exec" THEN "execv" ELSE "dup2"
        /\ cfd' = pfd
     \/ /\ Fails("fork")
        /\ ppc' = "cleanup"
        /\ UNCHANGED <<cpc, cfd>>
  /\ UNCHANGED <<call, pfd, is_success, result, argv0, status>>

\* Faulty test: a child that has not run the command counts as well.
IsSuccessAlways(s) == TRUE

\* A child that was killed counts as a success: WIFEXITED is false then.
IsSuccess(s) == ~(s.how = "exited" /\ s.code # 0)

Waitpid ==
  /\ ppc = "waitpid"
  /\ \/ /\ cpc = "zombie"
        /\ Succeeds
        /\ is_success' = IsSuccess(status)
        /\ cpc' = "reaped"
     \/ /\ Fails("waitpid")
        /\ UNCHANGED <<is_success, cpc>>
  /\ ppc' = "cleanup"
  /\ UNCHANGED <<call, pfd, result, cfd, argv0, status>>

Closed(fd) == IF fd = "open" THEN "closed" ELSE fd

Cleanup ==
  /\ ppc = "cleanup"
  /\ pfd' = Closed(pfd)
  /\ Returns(is_success)
  /\ UNCHANGED <<call, is_success, child, failed>>

-----------------------------------------------------------------------------
(***************************************************************************)
(* The child                                                               *)
(***************************************************************************)

\* Faulty helper: the name starts with the last slash.
NameWithSlash(p) ==
  LET slashes == {i \in 2 .. Len(p) : p[i] = "/"}
  IN  IF slashes = {} THEN p ELSE SubSeq(p, Max(slashes), Len(p))

\* The loop stops at the second character: a slash in front of the name stays.
get_file_name(p) ==
  LET slashes == {i \in 2 .. Len(p) : p[i] = "/"}
  IN  IF slashes = {} THEN p ELSE SubSeq(p, Max(slashes) + 1, Len(p))

\* Faulty child: it keeps the descriptor.
CfdAfterDup2Open == cfd

CfdAfterDup2 == Closed(cfd)

\* When dup2 fails the child goes to the label of the parent.
ChildDup2 ==
  /\ cpc = "dup2"
  /\ \/ Succeeds /\ cfd' = CfdAfterDup2 /\ cpc' = "execv"
     \/ Fails("dup2") /\ cfd' = Closed(cfd) /\ cpc' = "returned"
  /\ UNCHANGED <<call, parent, argv0, status>>

\* Faulty child: it goes on with the parent's code when execv fails.
ExecvReturns ==
  /\ cpc = "execv"
  /\ \/ Succeeds /\ argv0' = get_file_name(path) /\ cpc' = "command"
     \/ Fails("execv") /\ cpc' = "returned" /\ UNCHANGED argv0
  /\ UNCHANGED <<call, parent, cfd, status>>

\* exit(-1) behind execv.
Execv ==
  /\ cpc = "execv"
  /\ \/ /\ Succeeds
        /\ argv0' = get_file_name(path)
        /\ cpc' = "command"
        /\ UNCHANGED status
     \/ /\ Fails("execv")
        /\ status' = Exited(255)
        /\ cpc' = "zombie"
        /\ UNCHANGED argv0
  /\ UNCHANGED <<call, parent, cfd>>

\* The command, or the caller's program that the child has returned to, ends.
ChildEnds ==
  /\ cpc \in {"command", "returned"}
  /\ status' \in {Exited(0), Exited(1), Killed}
  /\ cpc' = "zombie"
  /\ UNCHANGED <<call, parent, cfd, argv0, failed>>

Next ==
  \/ do_system
  \/ Open \/ Fork \/ Waitpid \/ Cleanup
  \/ ChildDup2 \/ Execv \/ ChildEnds

Spec == Init /\ [][Next]_vars

-----------------------------------------------------------------------------
(***************************************************************************)
(* Properties                                                              *)
(***************************************************************************)

(***************************************************************************)
(* do_exec and do_exec_redirect return true exactly when the command has   *)
(* run and exited with 0 ("true if the command ... executed successfully", *)
(* systemcalls.c:40-43), with these exceptions: a command that was killed  *)
(* counts as a success, a failed waitpid as a failure, and after a failed  *)
(* dup2 the status is that of the caller's own program.                    *)
(***************************************************************************)
ResultTellsOutcome ==
  /\ ppc = "returned" /\ fn # "do_system"
  /\ status # Killed /\ failed \cap {"waitpid", "dup2"} = {}
  => (result = "true" <=> argv0 # NotRun /\ status = Exited(0))

(***************************************************************************)
(* A function returns true only when the command has exited with 0:        *)
(* "false if an error occurred, either in invocation of the system() call, *)
(* or if a non-zero return value was returned by the command"              *)
(* (systemcalls.c:11-14, and 40-43 for the other two).                     *)
(***************************************************************************)
TrueOnlyOnSuccess ==
  ppc = "returned" /\ result = "true" => status = Exited(0)

(***************************************************************************)
(* After the fork the caller's program goes on in the parent only, and no  *)
(* child is left when it does; unless dup2 fails, where the child returns  *)
(* to the caller too, or waitpid (systemcalls.c:67-79, 139-157).           *)
(***************************************************************************)
OnlyParentGoesOn ==
  /\ cpc = "returned" => "dup2" \in failed
  /\ ppc = "returned" => cpc \in {"none", "reaped"} \/ "waitpid" \in failed

(***************************************************************************)
(* "This file will be closed at completion of the function call"           *)
(* (systemcalls.c:111): in every process in which the function has         *)
(* returned, whatever failed, and in the one that runs the command, which  *)
(* has it as its standard output alone.                                    *)
(***************************************************************************)
OutputFileClosed ==
  /\ ppc = "returned" => pfd # "open"
  /\ cpc \in {"command", "returned"} => cfd # "open"

(***************************************************************************)
(* The command runs under the last component of its path, provided that a  *)
(* directory is in front of it: "/ls" keeps its slash (systemcalls.c:      *)
(* 96-107).                                                                *)
(***************************************************************************)
NameIsLastComponent ==
  fn # "do_system" /\ argv0 # NotRun /\ (\E i \in 2 .. Len(path) : path[i] = "/") =>
    \E n \in 2 .. Len(path) :
      path[n] = "/" /\ argv0 = SubSeq(path, n + 1, Len(path)) /\ ~Contains(argv0, "/")

=============================================================================
