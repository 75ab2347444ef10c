--------------------------------- MODULE Tsh ---------------------------------
(***************************************************************************)
(* The tiny shell, src/Shell/tsh.c: its main line (main, eval, do_bg,      *)
(* do_fg, waitfg), its signal handlers, and the children as the kernel     *)
(* keeps them.                                                             *)
(*                                                                         *)
(* Granularity.  The main line is cut wherever a signal handler can run    *)
(* and see or change something the main line uses: one step per access to  *)
(* the job list or to fg_proc made while signals are unblocked.  Handlers  *)
(* interrupt the main line and never the reverse.  sigint_handler and      *)
(* sigtstp_handler are one step: the only thing that could run inside them *)
(* is sigchld_handler, which never writes fg_proc, and a kill to a process *)
(* it has reaped does what a kill to a zombie does, nothing.  Of           *)
(* sigchld_handler one turn of the waitpid loop is one step.               *)
(*                                                                         *)
(* Signals.  A signal that is neither blocked nor being handled is         *)
(* delivered before the process runs on, so a main step or a handler step  *)
(* is taken only when nothing is deliverable.  Standard signals do not     *)
(* queue: pend is a set.                                                   *)
(***************************************************************************)
EXTENDS JobList

CONSTANT Commands       \* the command lines the user types, a subset of
                        \* {"fgrun", "bgrun", "pipe", "fg", "bg"}

ASSUME CommandsAssumption ==
    Commands \subseteq {"fgrun", "bgrun", "pipe", "fg", "bg"}

VARIABLES
    sh,         \* "up", or why the shell has ended: see Ended
    pc,         \* where the main line is
    cmd,        \* the command line being evaluated
    pid1, pid2, \* the locals of eval
    job,        \* bg_job, fg_job of do_bg, do_fg and then of waitfg: a slot
    fg_proc,    \* the global pointer: NULL, PID1 (= &pid1) or a slot's &pid
    blocked,    \* has the main line blocked SIGINT, SIGTSTP and SIGCHLD
    pend,       \* signals pending for the shell
    inchld,     \* is sigchld_handler active
    child,      \* the state of each process, see ChildState
    cpend,      \* terminal signals pending for a child
    unseen      \* has a child stopped since waitpid last reported on it

main   == <<pc, cmd, pid1, pid2, job>>
kernel == <<child, cpend, unseen>>
vars   == <<jobs, nextjid, sh, main, fg_proc, blocked, pend, inchld, kernel>>

INT  == "INT"
TSTP == "TSTP"
CHLD == "CHLD"

PID1 == -2

(* none     no such process, or reaped                                     *)
(* forked   before setpgid: in the shell's process group, signals masked   *)
(* own      after setpgid, signals still masked                            *)
(* open     signals unmasked, execve not yet called: the shell's handlers, *)
(*          and a copy of fg_proc, which is NULL whenever eval forks       *)
(* run      after execve: default actions                                  *)
ChildState == {"none", "forked", "own", "open", "run", "stopped", "zombie"}

(* exit   quit, end of input or SIGQUIT                                    *)
(* nofg   unix_error in sigint_handler or sigtstp_handler                  *)
(* notfg  unix_error in waitfg                                             *)
(* segv   a NULL job_t pointer was dereferenced                            *)
Ended == {"exit", "nofg", "notfg", "segv"}

Init == /\ initjobs
        /\ sh = "up"
        /\ pc = "prompt"
        /\ cmd = "none"
        /\ pid1 = NoPid
        /\ pid2 = NoPid
        /\ job = NULL
        /\ fg_proc = NULL
        /\ blocked = FALSE
        /\ pend = {}
        /\ inchld = FALSE
        /\ child = [p \in Pid |-> "none"]
        /\ cpend = [p \in Pid |-> {}]
        /\ unseen = [p \in Pid |-> FALSE]

----------------------------------------------------------------------------
(* The kernel: sending a signal.                                           *)

Group(pid) ==               \* the process group a child leads, if it has one
    {p \in Pid : p = pid /\ child[p] \in {"own", "open", "run", "stopped"}}

ShellGroup == {p \in Pid : child[p] = "forked"}     \* besides the shell

\* What sig, SIGINT or SIGTSTP, does to a child it is sent to.
After(p, sig) ==
    CASE child[p] = "open" -> "zombie"      \* the shell's handler: exit(1)
      [] child[p] = "run"  -> IF sig = INT THEN "zombie" ELSE "stopped"
      [] OTHER             -> child[p]

Keeps(p, sig) == \/ child[p] \in {"forked", "own"}
                 \/ child[p] = "stopped" /\ sig = INT

Signal(S, sig) ==
    /\ child' = [p \in Pid |-> IF p \in S THEN After(p, sig) ELSE child[p]]
    /\ cpend' = [p \in Pid |-> IF p \in S /\ Keeps(p, sig)
                               THEN cpend[p] \cup {sig} ELSE cpend[p]]
    /\ unseen' = [p \in Pid |-> \/ unseen[p]
                                \/ p \in S /\ After(p, sig) = "stopped"
                                           /\ child[p] = "run"]

\* The parent's SIGCHLD, if the signal changes the state of a child.
ChldFor(S) == IF \E p \in S : child[p] \in {"open", "run"} THEN {CHLD} ELSE {}

\* SIGCONT to a job's group.  A pending SIGINT kills the process it wakes.
Cont(pid) ==
    LET S == {p \in Group(pid) : child[p] = "stopped"} IN
    /\ child' = [p \in Pid |-> IF p \notin S THEN child[p]
                               ELSE IF INT \in cpend[p] THEN "zombie" ELSE "run"]
    /\ cpend' = [p \in Pid |-> IF p \in S THEN {} ELSE cpend[p]]
    /\ unseen' = [p \in Pid |-> unseen[p] /\ p \notin S]
    /\ pend' = IF S = {} THEN pend ELSE pend \cup {CHLD}

----------------------------------------------------------------------------
(* The kernel: delivering a signal to the shell.                           *)

Up == sh = "up"

Deliverable == IF blocked THEN {}
               ELSE IF inchld THEN pend \ {CHLD} ELSE pend

End(why) == /\ sh' = why
            /\ UNCHANGED <<jobs, nextjid, main, fg_proc, blocked, pend, inchld,
                           kernel>>

\* sigsuspend returns once the handler that woke it has run.
Wake == /\ pc' = IF pc = "asleep" THEN "wf_loop" ELSE pc
        /\ UNCHANGED <<cmd, pid1, pid2, job>>

Foreground == IF fg_proc = PID1 THEN pid1 ELSE jobs[fg_proc].pid    \* *fg_proc

\* sigint_handler, sigtstp_handler.  kill(-0) is a signal to the shell's own
\* group; kill(-(-1)) is one to a process the shell may not signal.
TtyHandler(sig) ==
    /\ Up /\ sig \in Deliverable \cap {INT, TSTP}
    /\ \/ /\ fg_proc = NULL
          /\ End("nofg")
       \/ /\ fg_proc # NULL
          /\ LET own == Foreground = NoPid
                 S   == IF own THEN ShellGroup ELSE Group(Foreground)
             IN  /\ Signal(S, sig)
                 /\ pend' = (IF own THEN pend ELSE pend \ {sig}) \cup ChldFor(S)
          /\ Wake
          /\ UNCHANGED <<jobs, nextjid, sh, fg_proc, blocked, inchld>>

ChldHandler ==
    /\ Up /\ CHLD \in Deliverable
    /\ pend' = pend \ {CHLD}
    /\ inchld' = TRUE
    /\ Wake
    /\ UNCHANGED <<jobs, nextjid, sh, fg_proc, blocked, kernel>>

\* sigchld_handler runs on.
Handling == Up /\ inchld /\ Deliverable = {}

\* waitpid returns a child that exited or was killed.
Reap(p) ==
    /\ Handling
    /\ child[p] = "zombie"
    /\ child' = [child EXCEPT ![p] = "none"]
    /\ cpend' = [cpend EXCEPT ![p] = {}]
    /\ deletejob(p)
    /\ UNCHANGED <<sh, main, fg_proc, blocked, pend, inchld, unseen>>

\* waitpid returns a child that stopped.
\* (mutant: the job is deleted, as for a child that ended)
NoteStop_delete(p) ==
    /\ Handling
    /\ child[p] = "stopped" /\ unseen[p]
    /\ unseen' = [unseen EXCEPT ![p] = FALSE]
    /\ deletejob(p)
    /\ UNCHANGED <<sh, main, fg_proc, blocked, pend, inchld, child, cpend>>

NoteStop(p) ==
    /\ Handling
    /\ child[p] = "stopped" /\ unseen[p]
    /\ unseen' = [unseen EXCEPT ![p] = FALSE]
    /\ IF getjobpid(p) = NULL
       THEN sh' = "segv" /\ UNCHANGED <<jobs, nextjid>>
       ELSE setstate(getjobpid(p), ST) /\ UNCHANGED sh
    /\ UNCHANGED <<main, fg_proc, blocked, pend, inchld, child, cpend>>

ToReport == {p \in Pid : child[p] = "zombie" \/ unseen[p]}

\* waitpid returns 0: the loop and the handler end.
\* (mutant: "if" instead of "while", one child for each signal)
ChldReturn_once ==
    /\ Handling
    /\ inchld' = FALSE
    /\ UNCHANGED <<jobs, nextjid, sh, main, fg_proc, blocked, pend, kernel>>

ChldReturn ==
    /\ Handling
    /\ ToReport = {}
    /\ inchld' = FALSE
    /\ UNCHANGED <<jobs, nextjid, sh, main, fg_proc, blocked, pend, kernel>>

----------------------------------------------------------------------------
(* The main line.                                                          *)

At(l) == Up /\ ~inchld /\ Deliverable = {} /\ pc = l

\* Back to main's loop.  The locals are dead: they get their first values.
Prompt == /\ pc' = "prompt" /\ cmd' = "none"
          /\ pid1' = NoPid /\ pid2' = NoPid /\ job' = NULL

Goto(l) == pc' = l /\ UNCHANGED <<cmd, pid1, pid2, job>>

\* eval, up to the block: the line was parsed and is not a builtin.
\* (mutant: no mask)
Launch_unmasked(c) ==
    /\ At("prompt")
    /\ c \in Commands \cap {"fgrun", "bgrun", "pipe"}
    /\ nextjid <= JidBound
    /\ cmd' = c
    /\ pc' = "fork1"
    /\ UNCHANGED <<jobs, nextjid, sh, pid1, pid2, job, fg_proc, blocked, pend,
                   inchld, kernel>>

Launch(c) ==
    /\ At("prompt")
    /\ c \in Commands \cap {"fgrun", "bgrun", "pipe"}
    /\ nextjid <= JidBound
    /\ cmd' = c
    /\ blocked' = TRUE
    /\ pc' = "fork1"
    /\ UNCHANGED <<jobs, nextjid, sh, pid1, pid2, job, fg_proc, pend, inchld, kernel>>

\* fork returns a pid, or -1 when the limit on processes is reached.
NewPid(p) ==
    \/ /\ p \in Pid /\ child[p] = "none"
       /\ child' = [child EXCEPT ![p] = "forked"]
       /\ UNCHANGED <<cpend, unseen>>
    \/ /\ p = ForkFail /\ \A q \in Pid : child[q] # "none"
       /\ UNCHANGED kernel

Fork1(p) ==
    /\ At("fork1")
    /\ NewPid(p)
    /\ pid1' = p
    /\ pc' = IF cmd = "pipe" THEN "fork2" ELSE "add1"
    /\ UNCHANGED <<jobs, nextjid, sh, cmd, pid2, job, fg_proc, blocked, pend, inchld>>

Fork2(p) ==
    /\ At("fork2")
    /\ NewPid(p)
    /\ pid2' = p
    /\ pc' = "add1"
    /\ UNCHANGED <<jobs, nextjid, sh, cmd, pid1, job, fg_proc, blocked, pend, inchld>>

Add1 ==
    /\ At("add1")
    /\ addjob(pid1, IF cmd = "bgrun" THEN BG ELSE FG)
    /\ Goto(IF cmd = "pipe" THEN "add2" ELSE "unblock")
    /\ UNCHANGED <<sh, fg_proc, blocked, pend, inchld, kernel>>

Add2 ==
    /\ At("add2")
    /\ addjob(pid2, FG)
    /\ Goto("unblock")
    /\ UNCHANGED <<sh, fg_proc, blocked, pend, inchld, kernel>>

\* (mutant: the signals stay blocked)
Unblock_never ==
    /\ At("unblock")
    /\ CASE cmd = "bgrun" -> Prompt
         [] cmd = "fgrun" -> Goto("setfg")
         [] cmd = "pipe"  -> Goto("wf_get")
    /\ UNCHANGED <<jobs, nextjid, sh, fg_proc, blocked, pend, inchld, kernel>>

Unblock ==
    /\ At("unblock")
    /\ blocked' = FALSE
    /\ CASE cmd = "bgrun" -> Prompt
         [] cmd = "fgrun" -> Goto("setfg")
         [] cmd = "pipe"  -> Goto("wf_get")
    /\ UNCHANGED <<jobs, nextjid, sh, fg_proc, pend, inchld, kernel>>

SetFg ==                                            \* fg_proc = &pid1
    /\ At("setfg")
    /\ fg_proc' = PID1
    /\ Goto("wf_get")
    /\ UNCHANGED <<jobs, nextjid, sh, blocked, pend, inchld, kernel>>

(* The builtins fg and bg.  A number that names no job only prints.        *)
Builtin(c, jid) ==
    /\ At("prompt")
    /\ c \in Commands \cap {"fg", "bg"}
    /\ getjobjid(jid) # NULL
    /\ cmd' = c
    /\ job' = getjobjid(jid)
    /\ pc' = "b_test"
    /\ UNCHANGED <<jobs, nextjid, sh, pid1, pid2, fg_proc, blocked, pend, inchld, kernel>>

TestStopped ==                                      \* job->state == ST ?
    /\ At("b_test")
    /\ \/ jobs[job].state = ST /\ Goto("b_kill")
       \/ jobs[job].state # ST /\ cmd = "fg" /\ Goto("b_set")
       \/ jobs[job].state # ST /\ cmd = "bg" /\ Prompt
    /\ UNCHANGED <<jobs, nextjid, sh, fg_proc, blocked, pend, inchld, kernel>>

Continue ==                                         \* kill(-pid, SIGCONT)
    /\ At("b_kill")
    /\ Cont(jobs[job].pid)
    /\ Goto("b_set")
    /\ UNCHANGED <<jobs, nextjid, sh, fg_proc, blocked, inchld>>

\* (mutant: do_bg forgets the new state)
SetState_fgonly ==
    /\ At("b_set")
    /\ \/ cmd = "fg" /\ setstate(job, FG) /\ Goto("fg_ptr")
       \/ cmd = "bg" /\ Prompt /\ UNCHANGED <<jobs, nextjid>>
    /\ UNCHANGED <<sh, fg_proc, blocked, pend, inchld, kernel>>

SetState ==                                         \* job->state = ...
    /\ At("b_set")
    /\ setstate(job, IF cmd = "fg" THEN FG ELSE BG)
    /\ \/ cmd = "fg" /\ Goto("fg_ptr")
       \/ cmd = "bg" /\ Prompt
    /\ UNCHANGED <<sh, fg_proc, blocked, pend, inchld, kernel>>

SetPtr ==                                           \* fg_proc = &fg_job->pid
    /\ At("fg_ptr")
    /\ fg_proc' = job
    /\ Goto("wf_get")
    /\ UNCHANGED <<jobs, nextjid, sh, blocked, pend, inchld, kernel>>

(* waitfg.                                                                 *)
WaitPid == CASE cmd \in {"fgrun", "pipe"} -> pid1
             [] cmd = "pipe2"             -> pid2
             [] cmd = "fg"                -> jobs[job].pid

\* The slot found is dereferenced at once: without one the shell dies.
WaitGet ==
    /\ At("wf_get")
    /\ \/ getjobpid(WaitPid) = NULL /\ End("segv")
       \/ /\ getjobpid(WaitPid) # NULL
          /\ job' = getjobpid(WaitPid)
          /\ pc' = "wf_chk"
          /\ UNCHANGED <<jobs, nextjid, sh, cmd, pid1, pid2, fg_proc, blocked,
                         pend, inchld, kernel>>

WaitCheck ==
    /\ At("wf_chk")
    /\ \/ jobs[job].state # FG /\ End("notfg")
       \/ /\ jobs[job].state = FG
          /\ Goto("wf_loop")
          /\ UNCHANGED <<jobs, nextjid, sh, fg_proc, blocked, pend, inchld, kernel>>

WaitLoop ==
    /\ At("wf_loop")
    /\ Goto(IF jobs[job].state \in {UNDEF, ST} THEN "wf_ret" ELSE "wf_susp")
    /\ UNCHANGED <<jobs, nextjid, sh, fg_proc, blocked, pend, inchld, kernel>>

Suspend ==                                          \* sigsuspend goes to sleep
    /\ At("wf_susp")
    /\ Goto("asleep")
    /\ UNCHANGED <<jobs, nextjid, sh, fg_proc, blocked, pend, inchld, kernel>>

\* (mutant: fg_proc is not put back)
WaitReturn_dangling ==
    /\ At("wf_ret")
    /\ \/ /\ cmd = "pipe"
          /\ cmd' = "pipe2" /\ pc' = "wf_get" /\ job' = NULL
          /\ UNCHANGED <<pid1, pid2>>
       \/ /\ cmd # "pipe"
          /\ pc' = "prompt" /\ cmd' = "none"
          /\ UNCHANGED <<pid1, pid2, job>>
    /\ UNCHANGED <<jobs, nextjid, sh, fg_proc, blocked, pend, inchld, kernel>>

\* (mutant: a pipe is waited for by its first process only)
WaitReturn_first ==
    /\ At("wf_ret")
    /\ fg_proc' = NULL
    /\ Prompt
    /\ UNCHANGED <<jobs, nextjid, sh, blocked, pend, inchld, kernel>>

\* waitfg returns.  A pipe waits for its second process, the other commands
\* put fg_proc back to what it was before, NULL.
WaitReturn ==
    /\ At("wf_ret")
    /\ \/ /\ cmd = "pipe"
          /\ cmd' = "pipe2" /\ pc' = "wf_get" /\ job' = NULL
          /\ UNCHANGED <<pid1, pid2, fg_proc>>
       \/ /\ cmd # "pipe"
          /\ fg_proc' = NULL
          /\ Prompt
    /\ UNCHANGED <<jobs, nextjid, sh, blocked, pend, inchld, kernel>>

----------------------------------------------------------------------------
(* The user and the children.                                              *)

\* ctrl-c, ctrl-z: the terminal signals the shell's process group.
Type(sig) ==
    /\ Up
    /\ Signal(ShellGroup, sig)
    /\ pend' = pend \cup {sig}
    /\ UNCHANGED <<jobs, nextjid, sh, main, fg_proc, blocked, inchld>>

\* quit or end of input at the prompt; ctrl-\ (sigquit_handler) at any time.
Quit ==
    /\ Up
    /\ End("exit")

Setpgid(p) ==
    /\ Up /\ child[p] = "forked"
    /\ child' = [child EXCEPT ![p] = "own"]
    /\ UNCHANGED <<jobs, nextjid, sh, main, fg_proc, blocked, pend, inchld, cpend, unseen>>

\* A signal kept while it was masked runs the handler inherited from the shell.
ChildUnblock(p) ==
    /\ Up /\ child[p] = "own"
    /\ child' = [child EXCEPT ![p] = IF cpend[p] = {} THEN "open" ELSE "zombie"]
    /\ cpend' = [cpend EXCEPT ![p] = {}]
    /\ pend' = IF cpend[p] = {} THEN pend ELSE pend \cup {CHLD}
    /\ UNCHANGED <<jobs, nextjid, sh, main, fg_proc, blocked, inchld, unseen>>

Exec(p) ==
    /\ Up /\ child[p] = "open"
    /\ child' = [child EXCEPT ![p] = "run"]
    /\ UNCHANGED <<jobs, nextjid, sh, main, fg_proc, blocked, pend, inchld, cpend, unseen>>

\* execve fails and the child exits, the program ends, or is killed.
Die(p) ==
    /\ Up /\ child[p] \notin {"none", "zombie"}
    /\ child' = [child EXCEPT ![p] = "zombie"]
    /\ cpend' = [cpend EXCEPT ![p] = {}]
    /\ unseen' = [unseen EXCEPT ![p] = FALSE]
    /\ pend' = pend \cup {CHLD}
    /\ UNCHANGED <<jobs, nextjid, sh, main, fg_proc, blocked, inchld>>

\* The program stops itself (mystop), or is stopped by another process.
Stop(p) ==
    /\ Up /\ child[p] = "run"
    /\ child' = [child EXCEPT ![p] = "stopped"]
    /\ unseen' = [unseen EXCEPT ![p] = TRUE]
    /\ pend' = pend \cup {CHLD}
    /\ UNCHANGED <<jobs, nextjid, sh, main, fg_proc, blocked, inchld, cpend>>

Gone == ~Up /\ UNCHANGED vars       \* the shell has ended

----------------------------------------------------------------------------
MainStep ==
    \/ \E p \in Pid \cup {ForkFail} : Fork1(p) \/ Fork2(p)
    \/ Add1 \/ Add2 \/ Unblock \/ SetFg
    \/ TestStopped \/ Continue \/ SetState \/ SetPtr
    \/ WaitGet \/ WaitCheck \/ WaitLoop \/ Suspend \/ WaitReturn

ChldStep == ChldHandler \/ ChldReturn \/ \E p \in Pid : Reap(p) \/ NoteStop(p)

ChildStart(p) == Setpgid(p) \/ ChildUnblock(p) \/ Exec(p)

User == \/ \E c \in Commands : Launch(c)
        \/ \E c \in Commands, jid \in {jobs[i].jid : i \in Slot} : Builtin(c, jid)
        \/ \E sig \in {INT, TSTP} : Type(sig)
        \/ Quit

Next == \/ MainStep
        \/ ChldStep
        \/ \E sig \in {INT, TSTP} : TtyHandler(sig)
        \/ User
        \/ \E p \in Pid : ChildStart(p) \/ Die(p) \/ Stop(p)
        \/ Gone

Spec == Init /\ [][Next]_vars

\* The kernel schedules the shell and a child that is being started, and
\* delivers signals; the user leaves ctrl-c and ctrl-z alone after a while (a
\* key press interrupts the shell, and one that never ends would starve it).
\* Nothing is asked of the programs.
Fairness == /\ WF_vars(MainStep)
            /\ WF_vars(ChldStep)
            /\ \A sig \in {INT, TSTP} : WF_vars(TtyHandler(sig))
            /\ \A p \in Pid : WF_vars(ChildStart(p))
            /\ <>[][\A sig \in {INT, TSTP} : ~Type(sig)]_vars

FairSpec == Spec /\ Fairness

----------------------------------------------------------------------------
(* Properties.                                                             *)

Launching == {"fork1", "fork2", "add1", "add2", "unblock"}
Waiting   == {"wf_get", "wf_chk", "wf_loop", "wf_susp", "asleep", "wf_ret"}
Label     == {"prompt", "setfg", "b_test", "b_kill", "b_set", "fg_ptr"}
                \cup Launching \cup Waiting

PidOf == Pid \cup {NoPid, ForkFail}

TypeOK ==
    /\ ListTypeOK
    /\ sh \in Ended \cup {"up"}
    /\ pc \in Label
    /\ cmd \in {"none", "fgrun", "bgrun", "pipe", "pipe2", "fg", "bg"}
    /\ pid1 \in PidOf /\ pid2 \in PidOf
    /\ job \in Slot \cup {NULL}
    /\ fg_proc \in Slot \cup {NULL, PID1}
    /\ blocked \in BOOLEAN /\ inchld \in BOOLEAN
    /\ pend \subseteq {INT, TSTP, CHLD}
    /\ child \in [Pid -> ChildState]
    /\ cpend \in [Pid -> SUBSET {INT, TSTP}]
    /\ unseen \in [Pid -> BOOLEAN]

Listed(p) == \E i \in Slot : jobs[i].pid = p

\* Every process on the job list exists: it has not been reaped yet, and it
\* is there once.  This is what the mask around fork and addjob is for
\* (tsh.c:213-217, 245-266): a child reaped before addjob would stay on the
\* list for ever.
JobsAreChildren ==
    /\ \A i \in live : child[jobs[i].pid] # "none"
    /\ \A i, k \in live : jobs[i].pid = jobs[k].pid => i = k

Starting(p) == \/ p = pid1 /\ pc \in {"fork2", "add1"}
               \/ p = pid2 /\ pc = "add2"
               \/ p = pid2 /\ pc = "add1" /\ cmd = "pipe"

\* A child is put on the list and stays on it until it is reaped.  It is
\* without a job only while eval is starting it, or when addjob turned it away,
\* which happens to the one being added and only with every slot taken (687).
ChildrenAreJobs ==
    [][\A p \in Pid :
          child'[p] # "none" /\ (child[p] = "none" \/ Listed(p) \/ Starting(p)) =>
              \/ Listed(p)' \/ Starting(p)'
              \/ live = Slot /\ Add1 /\ p = pid1
              \/ live = Slot /\ Add2 /\ p = pid2]_vars

\* A listed slot has a number and a state.  A slot without a process has no
\* number; its state is the one clearjob wrote, or a later one that do_bg or
\* do_fg wrote through the pointer it still had (475, 499).  A state FG is left
\* that way only until waitfg looks the job up, which ends the shell: no other
\* command ever finds it.
SlotsWhole ==
    /\ \A i \in live : jobs[i].jid > 0 /\ jobs[i].state # UNDEF
    /\ \A i \in Slot \ live :
          /\ jobs[i].jid = 0
          /\ \/ jobs[i].state \in {UNDEF, BG}
             \/ jobs[i].state = FG /\ cmd = "fg" /\ job = i /\ pc \in {"fg_ptr", "wf_get"}

\* A child that ended or stopped is not forgotten: SIGCHLD signals merge, so
\* one handler run must report them all (tsh.c:558-578).
NoReportLost ==
    Up /\ ToReport # {} => CHLD \in pend \/ inchld

\* A job listed as stopped is stopped (or dead and not yet reaped), except
\* between the SIGCONT and the write of its new state in do_bg and do_fg.
StoppedJobsAreStopped ==
    \A i \in Slot :
        jobs[i].state = ST =>
            /\ i \in live
            /\ \/ child[jobs[i].pid] \in {"stopped", "zombie"}
               \/ pc = "b_set" /\ job = i

\* waitfg never looks at another process's job: the slot it polls holds the
\* process it was called for, or none (tsh.c:514-533 keeps the pointer while
\* the handler empties slots).
WaitsForItsOwn ==
    pc \in {"wf_chk", "wf_loop", "wf_susp", "asleep", "wf_ret"} =>
        jobs[job].pid \in {WaitPid, NoPid}

\* A ctrl-c or ctrl-z reaches a job that runs in the background in one window
\* only: when it is typed before the new child has called setpgid (line 252),
\* and then it does.  What the shell passes on never reaches one (comment at
\* 199-202, sigint_handler, sigtstp_handler).
BackgroundIsSpared ==
    [][\A sig \in {INT, TSTP} : TtyHandler(sig) \/ Type(sig) =>
          \A i \in live : jobs[i].state = BG =>
              LET p == jobs[i].pid IN
              IF Type(sig) /\ child[p] = "forked"
              THEN sig \in cpend'[p]
              ELSE child'[p] = child[p] /\ cpend'[p] = cpend[p]]_vars

\* When the shell is back at its prompt no job is in the foreground: waitfg
\* has waited for every one, for both jobs of a pipe too (lines 263-340).
NoForegroundAtPrompt ==
    pc = "prompt" => \A i \in live : jobs[i].state # FG

\* *fg_proc is pid 0: do_fg left the pointer in a slot that sigchld_handler
\* has emptied, and the handlers' kill signals the shell itself, each time
\* once more.
SignalsItself == fg_proc \in Slot /\ jobs[fg_proc].pid = NoPid
                                  /\ pend \cap {INT, TSTP} # {}

\* Every child that ends is reaped, "the handler reaps all available zombie
\* children" (line 549), unless the shell ends or is busy signalling itself.
ZombiesAreReaped ==
    \A p \in Pid : child[p] = "zombie" ~> child[p] = "none" \/ ~Up \/ SignalsItself

----------------------------------------------------------------------------
(* What the code's own words say of it, and the code does not do.          *)

\* waitfg is only called on a foreground job: "Don't think this can happen
\* but hey" (line 518).
WaitfgOnlyOnFG == sh # "notfg"

\* waitfg blocks "until process pid is no longer the foreground process"
\* (line 512): once its job has left the foreground it returns.
WaitfgReturns ==
    pc \in {"wf_susp", "asleep"} /\ jobs[job].state \in {UNDEF, ST}
        ~> pc \notin {"wf_susp", "asleep"} \/ ~Up
=============================================================================
