------------------------------- MODULE JobList -------------------------------
(***************************************************************************)
(* The job list of the tiny shell (src/Shell/tsh.c:73-86, 638-750): a      *)
(* fixed array of MAXJOBS slots and the counter nextjid.  The operators    *)
(* are the C helpers; Tsh extends this module and calls them from the      *)
(* shell's main line and from its signal handlers.                         *)
(*                                                                         *)
(* The cmdline of a slot is only printed, so it is left out.               *)
(***************************************************************************)
EXTENDS Integers, FiniteSets, FiniteSetsExt

CONSTANTS
    MAXJOBS,        \* slots of the array (16 in the code)
    Pid,            \* the process ids a fork may return
    NoPid,          \* pid 0, the pid of an empty slot
    ForkFail,       \* pid -1, what a failed fork returns
    JidBound        \* bound: no job is started while nextjid exceeds it

ASSUME MaxJobsAssumption == MAXJOBS \in Nat \ {0}
ASSUME PidAssumption == /\ NoPid \notin Pid
                        /\ ForkFail \notin Pid
                        /\ NoPid # ForkFail
ASSUME JidBoundAssumption == JidBound \in Nat

VARIABLES
    jobs,           \* the array: Slot -> Job
    nextjid         \* the next job id to allocate

Slot == 0 .. (MAXJOBS - 1)
NULL == -1          \* the NULL struct job_t *

UNDEF == "UNDEF"
FG    == "FG"
BG    == "BG"
ST    == "ST"
JobState == {UNDEF, FG, BG, ST}

Job == [pid : Pid \cup {NoPid}, jid : Nat, state : JobState]

cleared == [pid |-> NoPid, jid |-> 0, state |-> UNDEF]

----------------------------------------------------------------------------
(* Lookups.  Each C loop returns the first slot that matches.              *)

First(S) == IF S = {} THEN NULL ELSE CHOOSE i \in S : \A k \in S : i <= k

getjobpid(pid) ==
    IF pid \in Pid THEN First({i \in Slot : jobs[i].pid = pid}) ELSE NULL

getjobjid(jid) ==
    IF jid < 1 THEN NULL ELSE First({i \in Slot : jobs[i].jid = jid})

freeslot == First({i \in Slot : jobs[i].pid = NoPid})

maxjid(list) == Max({0} \cup {list[i].jid : i \in Slot})

live == {i \in Slot : jobs[i].pid # NoPid}

----------------------------------------------------------------------------
(* Updates.                                                                *)

initjobs == /\ jobs = [i \in Slot |-> cleared]
            /\ nextjid = 1

\* Takes the first empty slot.  A bad pid and a full list change nothing.
addjob(pid, state) ==
    IF pid \in Pid /\ freeslot # NULL
    THEN /\ jobs' = [jobs EXCEPT ![freeslot] =
                        [pid |-> pid, jid |-> nextjid, state |-> state]]
         /\ nextjid' = IF nextjid + 1 > MAXJOBS THEN 1 ELSE nextjid + 1
    ELSE UNCHANGED <<jobs, nextjid>>

\* (mutants: the numbering restarts at the largest number in use, does not
\* restart, only the pid is cleared, the last job moves into the hole)
deletejob_reuse(pid) ==
    /\ jobs' = [i \in Slot |-> IF i = getjobpid(pid) THEN cleared ELSE jobs[i]]
    /\ nextjid' = maxjid(jobs')
deletejob_keepnext(pid) ==
    /\ jobs' = [i \in Slot |-> IF i = getjobpid(pid) THEN cleared ELSE jobs[i]]
    /\ UNCHANGED nextjid
deletejob_pidonly(pid) ==
    /\ jobs' = [i \in Slot |-> IF i = getjobpid(pid)
                               THEN [jobs[i] EXCEPT !.pid = NoPid] ELSE jobs[i]]
    /\ nextjid' = maxjid(jobs') + 1
deletejob_compact(pid) ==
    LET last == IF live = {} THEN NULL ELSE Max(live) IN
    /\ jobs' = [i \in Slot |-> IF i = last THEN cleared
                               ELSE IF i = getjobpid(pid) THEN jobs[last] ELSE jobs[i]]
    /\ nextjid' = maxjid(jobs') + 1

\* Empties the slot and restarts the numbering above the jobs that remain.
deletejob(pid) ==
    IF getjobpid(pid) # NULL
    THEN /\ jobs' = [jobs EXCEPT ![getjobpid(pid)] = cleared]
         /\ nextjid' = maxjid(jobs') + 1
    ELSE UNCHANGED <<jobs, nextjid>>

\* A write through a job_t pointer: fg_job->state = ... (tsh.c:476, 499, 574)
setstate(i, state) ==
    /\ jobs' = [jobs EXCEPT ![i].state = state]
    /\ UNCHANGED nextjid

----------------------------------------------------------------------------
(* Properties.                                                             *)

\* The array and the counter keep their shape.
ListTypeOK == /\ jobs \in [Slot -> Job]
              /\ nextjid \in Nat \ {0}

\* The number to be given next is above every number in use, unless a job
\* with a number of MAXJOBS or more is listed: that is the one case in which
\* addjob's wrap-around (line 677) has had the last word over deletejob.
NextAboveUnlessWrapped ==
    nextjid > maxjid(jobs) \/ maxjid(jobs) >= MAXJOBS
=============================================================================
